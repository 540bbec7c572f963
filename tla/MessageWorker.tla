---------------------------- MODULE MessageWorker ---------------------------
(***************************************************************************)
(* The message workers of gyros-os (run_message_worker in                  *)
(* src/gyros_os/worker/main.py, process_message in                         *)
(* src/gyros_os/worker/processor.py) over the table of MessageQueue.       *)
(*                                                                         *)
(* Each worker claims a row, handles it and reports the outcome.  The      *)
(* three ways process_message answers (the automatic answer to a medium it *)
(* cannot read, an approval decision, the agent) share the same order:     *)
(* outbound message, mark_done, upsert_conversation; any exception on the  *)
(* way goes to mark_failed.  A process may die at any point and is started *)
(* again; an exception of claim_next or of mark_failed itself is such a    *)
(* death, for nothing catches it.                                          *)
(***************************************************************************)
EXTENDS MessageQueue

CONSTANT Workers   \* the message workers that run at the same time

VARIABLES
  pc,       \* what each worker is about to do
  msg,      \* the row it has claimed
  heard,    \* message.incoming_message as the claim returned it
  try,      \* message.attempts as the claim returned it
  backoff,  \* the process_after mark_failed has computed, minus now
  sent,     \* history: outbound messages of each row in each attempt
  answered  \* history: the texts those answers took into account

workerVars == <<pc, msg, heard, try, backoff>>
vars == <<status, attempts, body, wait, lease,
          older, txn, age, pick, seen, due,
          pc, msg, heard, try, backoff, sent, answered>>

Steps == {"idle", "agent", "send", "mark_done", "upsert",
          "failing", "requeue", "give_up"}

WorkerTypeOK ==
  /\ pc \in [Workers -> Steps]
  /\ msg \in [Workers -> Requests \cup {NoRow}]
  /\ heard \in [Workers -> SUBSET Requests]
  /\ try \in [Workers -> 0..MaxAttempts]
  /\ backoff \in [Workers -> Int]
  /\ sent \in [Requests -> [1..MaxAttempts -> Nat]]
  /\ answered \in [Requests -> SUBSET Requests]

\* Types of the table, of the enqueue transactions and of the workers' locals.
TypeOK == TableTypeOK /\ CallsTypeOK /\ WorkerTypeOK

Init ==
  /\ QueueInit
  /\ pc = [w \in Workers |-> "idle"]
  /\ msg = [w \in Workers |-> NoRow]
  /\ heard = [w \in Workers |-> {}]
  /\ try = [w \in Workers |-> 0]
  /\ backoff = [w \in Workers |-> 0]
  /\ sent = [r \in Requests |-> [a \in 1..MaxAttempts |-> 0]]
  /\ answered = [r \in Requests |-> {}]

-----------------------------------------------------------------------------
(* One turn of a worker.                                                   *)

\* Rows on which another worker may have an UPDATE not yet committed.
LockedByOthers(w) ==
  {msg[v] : v \in {u \in Workers \ {w} : pc[u] \in {"mark_done", "requeue", "give_up"}}}

Claim(w) ==
  /\ pc[w] = "idle"
  /\ \E r \in Requests :
       /\ ClaimRow(r, LockedByEnqueue \cup LockedByOthers(w))
       /\ msg' = [msg EXCEPT ![w] = r]
       /\ heard' = [heard EXCEPT ![w] = body[r]]
       /\ try' = [try EXCEPT ![w] = attempts[r] + 1]
  /\ pc' = [pc EXCEPT ![w] = "agent"]
  /\ UNCHANGED <<calls, backoff, sent, answered>>

\* Nothing to claim: the worker sleeps poll_interval_seconds and polls again.
ClaimNone(w) ==
  /\ pc[w] = "idle"
  /\ ClaimNothing(LockedByEnqueue \cup LockedByOthers(w))
  /\ UNCHANGED <<calls, workerVars, sent, answered>>

\* A worker goes from one step of process_message to the next.
GoTo(w, from, to) ==
  /\ pc[w] = from
  /\ pc' = [pc EXCEPT ![w] = to]
  /\ UNCHANGED <<msg, heard, try>>

\* The turn is over, by return or by death: the locals are gone.
Leave(w) ==
  /\ pc' = [pc EXCEPT ![w] = "idle"]
  /\ msg' = [msg EXCEPT ![w] = NoRow]
  /\ heard' = [heard EXCEPT ![w] = {}]
  /\ try' = [try EXCEPT ![w] = 0]
  /\ backoff' = [backoff EXCEPT ![w] = 0]

\* Defect: mark_done comes before the outbound message.
AnswerUnsent(w) ==
  /\ GoTo(w, "agent", "mark_done")
  /\ UNCHANGED <<table, calls, backoff, sent, answered>>

\* Preprocessing, the approval handler or graph.ainvoke has an answer to send.
Answer(w) ==
  /\ GoTo(w, "agent", "send")
  /\ UNCHANGED <<table, calls, backoff, sent, answered>>

\* ... or raises.
AnswerRaises(w) ==
  /\ GoTo(w, "agent", "failing")
  /\ UNCHANGED <<table, calls, backoff, sent, answered>>

\* History of an outbound message that reaches the user.
Delivered(w) ==
  /\ sent' = [sent EXCEPT ![msg[w]][try[w]] = @ + 1]
  /\ answered' = [answered EXCEPT ![msg[w]] = @ \cup heard[w]]

Send(w) ==
  /\ GoTo(w, "send", "mark_done")
  /\ Delivered(w)
  /\ UNCHANGED <<table, calls, backoff>>

\* send_message raises: before the provider took anything, or after it took some of it.
SendRaises(w) ==
  /\ GoTo(w, "send", "failing")
  /\ Delivered(w) \/ UNCHANGED <<sent, answered>>
  /\ UNCHANGED <<table, calls, backoff>>

MarkDone(w) ==
  /\ GoTo(w, "mark_done", "upsert")
  /\ SetDone(msg[w])
  /\ UNCHANGED <<calls, backoff, sent, answered>>

\* ... or raises.  A commit that went through although the call raised is MarkDone
\* followed by UpsertRaises.
MarkDoneRaises(w) ==
  /\ GoTo(w, "mark_done", "failing")
  /\ UNCHANGED <<table, calls, backoff, sent, answered>>

\* upsert_conversation writes the conversations table, which no property here reads.
Upsert(w) ==
  /\ pc[w] = "upsert"
  /\ Leave(w)
  /\ UNCHANGED <<table, calls, sent, answered>>

\* It runs inside the same try block: when it raises, mark_failed follows mark_done.
UpsertRaises(w) ==
  /\ GoTo(w, "upsert", "failing")
  /\ UNCHANGED <<table, calls, backoff, sent, answered>>

\* Defect: mark_failed compares attempts with <= max_attempts.
MarkFailedRetriesOnceMore(w) ==
  /\ GoTo(w, "failing", "requeue")
  /\ attempts[msg[w]] <= MaxAttempts
  /\ backoff' = [backoff EXCEPT ![w] = attempts[msg[w]] * BackoffTicks]
  /\ UNCHANGED <<table, calls, sent, answered>>

\* mark_failed, first statement: there are attempts left ...
MarkFailedRetries(w) ==
  /\ GoTo(w, "failing", "requeue")
  /\ attempts[msg[w]] < MaxAttempts
  /\ backoff' = [backoff EXCEPT ![w] = attempts[msg[w]] * BackoffTicks]
  /\ UNCHANGED <<table, calls, sent, answered>>

\* Defect: mark_failed gives up one attempt too early.
MarkFailedTooEarly(w) ==
  /\ GoTo(w, "failing", "give_up")
  /\ attempts[msg[w]] >= MaxAttempts - 1
  /\ UNCHANGED <<table, calls, backoff, sent, answered>>

\* ... or there are none.
MarkFailedForGood(w) ==
  /\ GoTo(w, "failing", "give_up")
  /\ attempts[msg[w]] >= MaxAttempts
  /\ UNCHANGED <<table, calls, backoff, sent, answered>>

\* mark_failed, second statement and commit.
Requeue(w) ==
  /\ pc[w] = "requeue"
  /\ SetQueued(msg[w], backoff[w])
  /\ Leave(w)
  /\ UNCHANGED <<calls, sent, answered>>

GiveUp(w) ==
  /\ pc[w] = "give_up"
  /\ SetFailed(msg[w])
  /\ Leave(w)
  /\ UNCHANGED <<calls, sent, answered>>

\* The process dies (kill, deploy, exception of mark_failed); an open transaction rolls back.
Crash(w) ==
  /\ pc[w] # "idle"
  /\ Leave(w)
  /\ UNCHANGED <<table, calls, sent, answered>>

-----------------------------------------------------------------------------
Tick ==
  /\ QueueTick
  /\ backoff' = [w \in Workers |->
                   IF pc[w] = "requeue" THEN Sooner(backoff[w]) ELSE backoff[w]]
  /\ UNCHANGED <<pc, msg, heard, try, sent, answered>>

Enqueue(q) ==
  /\ \/ BeginEnqueue(q)
     \/ EnqueueMedia(q)
     \/ SelectPending(q)
     \/ ExtendPending(q)
     \/ InsertText(q)
     \/ AbortEnqueue(q)
  /\ UNCHANGED <<workerVars, sent, answered>>

WorkerStep(w) ==
  \/ Claim(w) \/ ClaimNone(w)
  \/ Answer(w) \/ AnswerRaises(w)
  \/ Send(w) \/ SendRaises(w)
  \/ MarkDone(w) \/ MarkDoneRaises(w)
  \/ Upsert(w) \/ UpsertRaises(w)
  \/ MarkFailedRetries(w) \/ MarkFailedForGood(w)
  \/ Requeue(w) \/ GiveUp(w)

Next ==
  \/ \E q \in Requests : Enqueue(q)
  \/ \E w \in Workers : WorkerStep(w) \/ Crash(w)
  \/ Tick

Spec == Init /\ [][Next]_vars

(***************************************************************************)
(* Fairness: time passes; a running worker keeps going, for its loop has   *)
(* no other place to stop (every call it awaits ends or raises); an open   *)
(* transaction ends.  Nothing forces a request to arrive, a call to        *)
(* succeed or a process not to die.                                        *)
(***************************************************************************)
FairSpec ==
  /\ Spec
  /\ WF_vars(Tick)
  /\ \A w \in Workers : WF_vars(WorkerStep(w))
  /\ \A q \in Requests : WF_vars(Open(q) /\ Enqueue(q))

-----------------------------------------------------------------------------
(* Safety, for any number of workers.                                      *)

\* The concurrency of enqueue_or_buffer loses and doubles no text: once the
\* call of a request has committed, exactly one row carries its text, and no
\* row carries the text of a call that has not committed.
TextKept ==
  \A q \in Requests :
    /\ txn[q] = "committed" <=> \E r \in Requests : q \in body[r]
    /\ \A r, s \in Requests : q \in body[r] /\ q \in body[s] => r = s

\* At-least-once stays bounded: whatever crashes, expires and is claimed again,
\* each attempt answers at most once, so a row is answered at most MaxAttempts times.
OneReplyPerAttempt ==
  \A r \in Requests, a \in 1..MaxAttempts :
    sent[r][a] <= IF a <= attempts[r] THEN 1 ELSE 0

\* "Nenhum mark_done ocorre sem envio outbound confirmado" (process_message).
DoneMeansReplied ==
  \A r \in Requests : status[r] = "done" => \E a \in 1..MaxAttempts : sent[r][a] > 0

\* No message is declared failed while it has attempts left.
FailedHasSpentAll ==
  \A r \in Requests : status[r] = "failed" => attempts[r] = MaxAttempts

\* The queue and its workers implement the contract of ReplyContract: a row in
\* queued or processing is open, its tries are its attempts.
RowState(r) == IF status[r] \in {"queued", "processing"} THEN "open" ELSE status[r]

Contract == INSTANCE ReplyContract
  WITH state <- [r \in Requests |-> RowState(r)], tries <- attempts, replies <- sent

ImplementsContract == Contract!ContractSpec

-----------------------------------------------------------------------------
(* Safety that needs a single worker.                                      *)

\* A queued row can still be claimed: mark_failed never leaves one without attempts.
QueuedHasAttempts ==
  \A r \in Requests : status[r] = "queued" => attempts[r] < MaxAttempts

\* A failed message stays failed: no second answer, no return to the queue.
FailedIsFinal ==
  [][\A r \in Requests : status[r] = "failed" => status'[r] = "failed"]_vars

\* Everything the user wrote into a done row was in front of the agent when it answered.
DoneAnswersAll ==
  \A r \in Requests : status[r] = "done" => body[r] \subseteq answered[r]

-----------------------------------------------------------------------------
(* Liveness.                                                               *)

Settled(r) == status[r] \in {"done", "failed"}

\* Every accepted message ends, for good, in a row that is done or failed.
EventuallySettled ==
  \A q \in Requests :
    (txn[q] = "committed") ~> [](\E r \in Requests : q \in body[r] /\ Settled(r))

=============================================================================
