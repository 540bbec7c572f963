----------------------------- MODULE EventQueue -----------------------------
(***************************************************************************)
(* The table event_queue of gyros-os and the operations on it              *)
(* (src/gyros_os/shared/event_queue.py), with the two producers: the       *)
(* Fireflies webhook (server/routes/webhooks_fireflies.py) and the script  *)
(* that enqueues a Pipefy card.                                            *)
(*                                                                         *)
(* An event is one call of a producer.  Two calls about the same meeting   *)
(* or card are two events: nothing deduplicates them.  Time is relative to *)
(* the present, as in MessageQueue: wait[e] is process_after - now and     *)
(* lease[e] is lease_until - now.                                          *)
(***************************************************************************)
EXTENDS Integers, FiniteSets

CONSTANTS
  Events,        \* the calls of the producers
  Inputs,        \* bound: the kinds of calls that are made
  LeaseTicks,    \* lease_seconds of claim_next_event
  BackoffTicks,  \* the 5 seconds mark_event_failed multiplies by attempts
  MaxAttempts    \* max_attempts

\* What the webhook refuses, acknowledges without effect, ignores, or enqueues.
Refused == {"badSignature", "invalid"}
Ignored == {"testPing", "summary", "otherEvent"}

\* "transcript": a meeting; "card": a card in the watched phase; "otherPhase": a card
\* elsewhere; "malformed": no handler for its type, or a key of its payload is missing.
Accepted == {"transcript", "card", "otherPhase", "malformed"}
Kinds == Refused \cup Ignored \cup Accepted

ASSUME EventQueueAssumption ==
  /\ Inputs \subseteq Kinds
  /\ LeaseTicks \in Nat \ {0}
  /\ BackoffTicks \in Nat
  /\ MaxAttempts \in Nat \ {0}

VARIABLES
  kind,      \* what each call is about, NoKind before it is made
  response,  \* what the producer was answered: "none", "refused", "ignored", "queued"
  status,    \* status of the row, "absent" when there is none
  attempts,  \* attempts of the row
  wait,      \* process_after - now
  lease,     \* lease_until - now, NoLease for NULL
  older      \* created_at: the rows that were inserted earlier

eventTable == <<status, attempts, wait, lease>>
queueVars == <<kind, response, status, attempts, wait, lease, older>>

Statuses == {"absent", "queued", "processing", "done", "failed"}
NoLease == -1
NoKind == "none"

QueueTypeOK ==
  /\ kind \in [Events -> Inputs \cup {NoKind}]
  /\ response \in [Events -> {"none", "refused", "ignored", "queued"}]
  /\ status \in [Events -> Statuses]
  /\ attempts \in [Events -> 0..MaxAttempts]
  /\ wait \in [Events -> 0..(MaxAttempts * BackoffTicks)]
  /\ lease \in [Events -> -1..LeaseTicks]
  /\ older \in [Events -> SUBSET Events]

QueueInit ==
  /\ kind = [e \in Events |-> NoKind]
  /\ response = [e \in Events |-> "none"]
  /\ status = [e \in Events |-> "absent"]
  /\ attempts = [e \in Events |-> 0]
  /\ wait = [e \in Events |-> 0]
  /\ lease = [e \in Events |-> NoLease]
  /\ older = [e \in Events |-> {}]

-----------------------------------------------------------------------------
(* The producers.                                                          *)

\* enqueue_event: INSERT, due at once; the other columns take their defaults.
EnqueueEvent(e) ==
  /\ status' = [status EXCEPT ![e] = "queued"]
  /\ older' = [older EXCEPT ![e] = {o \in Events : status[o] # "absent"}]
  /\ UNCHANGED <<attempts, wait, lease>>

\* webhook_fireflies, or the script: check, classify, and enqueue what calls for it.
Receive(e, k) ==
  /\ response[e] = "none"
  /\ kind' = [kind EXCEPT ![e] = k]
  /\ \/ /\ k \in Refused
        /\ response' = [response EXCEPT ![e] = "refused"]
        /\ UNCHANGED <<eventTable, older>>
     \/ /\ k \in Ignored
        /\ response' = [response EXCEPT ![e] = "ignored"]
        /\ UNCHANGED <<eventTable, older>>
     \/ /\ k \in Accepted
        /\ response' = [response EXCEPT ![e] = "queued"]
        /\ EnqueueEvent(e)

-----------------------------------------------------------------------------
(* claim_next_event, mark_event_done and mark_event_failed.                *)

LeaseExpired(e) == lease[e] # NoLease /\ lease[e] <= 0

Exhausted ==
  {e \in Events : /\ status[e] = "processing"
                  /\ LeaseExpired(e)
                  /\ attempts[e] >= MaxAttempts}

\* First statement of claim_next_event: stuck events that have no attempt left.
FailExhausted(s) == [e \in Events |-> IF e \in Exhausted THEN "failed" ELSE s[e]]

\* Defect: an event whose lease has expired is never taken over.
ClaimableWhenQueued ==
  {e \in Events : /\ status[e] = "queued" /\ wait[e] <= 0
                  /\ attempts[e] < MaxAttempts}

\* Defect: claim_next_event forgets attempts < max_attempts.
ClaimableForever ==
  {e \in Events : \/ status[e] = "queued" /\ wait[e] <= 0
                  \/ status[e] = "processing" /\ LeaseExpired(e)}

\* Defect: claim_next_event takes up failed events that have attempts left.
ClaimableWhenFailed ==
  {e \in Events : /\ \/ status[e] \in {"queued", "failed"} /\ wait[e] <= 0
                     \/ status[e] = "processing" /\ LeaseExpired(e)
                  /\ attempts[e] < MaxAttempts}

Claimable ==
  {e \in Events : /\ \/ status[e] = "queued" /\ wait[e] <= 0
                     \/ status[e] = "processing" /\ LeaseExpired(e)
                  /\ attempts[e] < MaxAttempts}

\* Second statement: ORDER BY created_at LIMIT 1 FOR UPDATE SKIP LOCKED.
ClaimEvent(e, locked) ==
  /\ e \in Claimable \ locked
  /\ \A o \in Claimable : o \in older[e] => o \in locked
  /\ status' = [FailExhausted(status) EXCEPT ![e] = "processing"]
  /\ lease' = [lease EXCEPT ![e] = LeaseTicks]
  /\ attempts' = [attempts EXCEPT ![e] = @ + 1]
  /\ UNCHANGED <<kind, response, wait, older>>

ClaimNoEvent(locked) ==
  /\ Claimable \subseteq locked
  /\ status' = FailExhausted(status)
  /\ UNCHANGED <<kind, response, attempts, wait, lease, older>>

\* mark_event_done: WHERE id and nothing else.
MarkEventDone(e) ==
  /\ status' = [status EXCEPT ![e] = "done"]
  /\ UNCHANGED <<kind, response, attempts, wait, lease, older>>

\* mark_event_failed with retry, its UPDATE once the SELECT has found attempts left.
RequeueEvent(e, backoff) ==
  /\ status' = [status EXCEPT ![e] = "queued"]
  /\ lease' = [lease EXCEPT ![e] = NoLease]
  /\ wait' = [wait EXCEPT ![e] = backoff]
  /\ UNCHANGED <<kind, response, attempts, older>>

\* mark_event_failed without retry or without attempts left.
FailEvent(e) ==
  /\ status' = [status EXCEPT ![e] = "failed"]
  /\ UNCHANGED <<kind, response, attempts, wait, lease, older>>

QueueTick ==
  /\ wait' = [e \in Events |-> IF wait[e] > 0 THEN wait[e] - 1 ELSE 0]
  /\ lease' = [e \in Events |-> IF lease[e] > 0 THEN lease[e] - 1 ELSE lease[e]]
  /\ UNCHANGED <<kind, response, status, attempts, older>>

=============================================================================
