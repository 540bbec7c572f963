---------------------------- MODULE MessageQueue ----------------------------
(***************************************************************************)
(* The table message_queue of gyros-os and the operations the API process  *)
(* and the worker run on it (src/gyros_os/shared/queue.py).                *)
(*                                                                         *)
(* A request is one inbound webhook call, that is one call of              *)
(* enqueue_or_buffer.  A row of the table is named after the request whose *)
(* INSERT created it; a text that is debounced into a pending row lives in *)
(* the body of that row.                                                   *)
(*                                                                         *)
(* Time.  The code only ever compares a timestamp with NOW(), so each      *)
(* timestamp is kept as its distance from the present: wait[r] is          *)
(* process_after - now, lease[r] is lease_until - now.  Tick brings every  *)
(* one of them one unit closer.  A transaction of PostgreSQL sees NOW()    *)
(* frozen at its BEGIN: age[q] says how far behind the frozen NOW() of the *)
(* enqueue transaction of q is, and no transaction stays open for more     *)
(* than TxnTicks units.                                                    *)
(***************************************************************************)
EXTENDS Integers, FiniteSets

CONSTANTS
  Requests,      \* the inbound webhook calls
  Media,         \* the requests that carry a media_url
  Threads,       \* the pairs phone:agent
  ThreadOf,      \* the thread of each request
  NoRow,         \* stands for "no row" (None)
  BufferTicks,   \* buffer_seconds, the debounce window
  LeaseTicks,    \* lease_seconds
  BackoffTicks,  \* the 5 seconds that mark_failed multiplies by attempts
  MaxAttempts,   \* max_attempts (DEFAULT 3)
  TxnTicks       \* bound: how long an enqueue transaction can stay open

ASSUME QueueAssumption ==
  /\ Media \subseteq Requests
  /\ ThreadOf \in [Requests -> Threads]
  /\ NoRow \notin Requests
  /\ BufferTicks \in Nat
  /\ LeaseTicks \in Nat \ {0}
  /\ BackoffTicks \in Nat
  /\ MaxAttempts \in Nat \ {0}
  /\ TxnTicks \in Nat

VARIABLES
  status,    \* status of each row, "absent" before its INSERT
  attempts,  \* attempts of each row
  body,      \* incoming_message: the requests whose text the row carries
  wait,      \* process_after - now
  lease,     \* lease_until - now, NoLease for NULL
  older,     \* created_at: the requests whose transaction began earlier
  txn,       \* where the enqueue transaction of each request stands
  age,       \* now - NOW() inside that transaction
  pick,      \* the pending row its SELECT returned
  seen,      \* the body that SELECT returned
  due        \* the process_after it has computed, minus now

table == <<status, attempts, body, wait, lease>>
calls == <<older, txn, age, pick, seen, due>>
queueVars == <<status, attempts, body, wait, lease,
               older, txn, age, pick, seen, due>>

Statuses == {"absent", "queued", "processing", "done", "failed"}
TxnStates == {"idle", "begun", "selected", "committed", "aborted"}
NoLease == -1

TableTypeOK ==
  /\ status \in [Requests -> Statuses]
  /\ attempts \in [Requests -> 0..MaxAttempts]
  /\ body \in [Requests -> SUBSET Requests]
  /\ wait \in [Requests -> Int]
  /\ lease \in [Requests -> -1..LeaseTicks]

CallsTypeOK ==
  /\ older \in [Requests -> SUBSET Requests]
  /\ txn \in [Requests -> TxnStates]
  /\ age \in [Requests -> 0..TxnTicks]
  /\ pick \in [Requests -> Requests \cup {NoRow}]
  /\ seen \in [Requests -> SUBSET Requests]
  /\ due \in [Requests -> Int]

QueueInit ==
  /\ status = [r \in Requests |-> "absent"]
  /\ attempts = [r \in Requests |-> 0]
  /\ body = [r \in Requests |-> {}]
  /\ wait = [r \in Requests |-> 0]
  /\ lease = [r \in Requests |-> NoLease]
  /\ older = [r \in Requests |-> {}]
  /\ txn = [r \in Requests |-> "idle"]
  /\ age = [r \in Requests |-> 0]
  /\ pick = [r \in Requests |-> NoRow]
  /\ seen = [r \in Requests |-> {}]
  /\ due = [r \in Requests |-> 0]

-----------------------------------------------------------------------------
(* enqueue_or_buffer, in the API process.                                  *)

Open(q) == txn[q] \in {"begun", "selected"}

\* Defect: the advisory lock is not taken.
LockFreeAlways(q) == TRUE

\* pg_advisory_xact_lock is held from the SELECT to the end of the transaction.
LockFree(q) ==
  \A p \in Requests : ThreadOf[p] = ThreadOf[q] => txn[p] # "selected"

\* Text rows of q's thread that are queued with process_after > NOW(), as q sees NOW().
Pending(q) ==
  {r \in Requests \ Media : /\ ThreadOf[r] = ThreadOf[q]
                            /\ status[r] = "queued"
                            /\ wait[r] > 0 - age[q]}

\* BEGIN: NOW(), hence created_at, is fixed here, before the lock is obtained.
BeginEnqueue(q) ==
  /\ txn[q] = "idle"
  /\ txn' = [txn EXCEPT ![q] = "begun"]
  /\ older' = [older EXCEPT ![q] = {p \in Requests : txn[p] # "idle"}]
  /\ UNCHANGED <<table, age, pick, seen, due>>

\* A media request flushes the pending text of its thread, inserts its row, commits.
EnqueueMedia(q) ==
  /\ q \in Media
  /\ txn[q] = "begun"
  /\ LockFree(q)
  /\ wait' = [r \in Requests |->
                IF r \in Pending(q) \cup {q} THEN 0 - age[q] ELSE wait[r]]
  /\ status' = [status EXCEPT ![q] = "queued"]
  /\ body' = [body EXCEPT ![q] = {q}]
  /\ txn' = [txn EXCEPT ![q] = "committed"]
  /\ age' = [age EXCEPT ![q] = 0]
  /\ UNCHANGED <<attempts, lease, older, pick, seen, due>>

\* ORDER BY created_at DESC LIMIT 1 over the pending rows, NoRow when there is none.
LatestPending(q) ==
  IF Pending(q) = {} THEN {NoRow}
  ELSE {r \in Pending(q) : \A o \in Pending(q) \ {r} : r \notin older[o]}

\* A text request takes the lock, computes process_after and SELECTs the row to extend.
SelectPending(q) ==
  /\ q \in Requests \ Media
  /\ txn[q] = "begun"
  /\ LockFree(q)
  /\ \E r \in LatestPending(q) :
       /\ pick' = [pick EXCEPT ![q] = r]
       /\ seen' = [seen EXCEPT ![q] = IF r = NoRow THEN {} ELSE body[r]]
  /\ due' = [due EXCEPT ![q] = BufferTicks]
  /\ txn' = [txn EXCEPT ![q] = "selected"]
  /\ UNCHANGED <<table, older, age>>

\* The transaction of q is over: its local state goes away with it.
EndTxn(q, outcome) ==
  /\ txn' = [txn EXCEPT ![q] = outcome]
  /\ age' = [age EXCEPT ![q] = 0]
  /\ pick' = [pick EXCEPT ![q] = NoRow]
  /\ seen' = [seen EXCEPT ![q] = {}]
  /\ due' = [due EXCEPT ![q] = 0]
  /\ UNCHANGED older

\* Defect: the UPDATE sets status = 'queued' as well.
ExtendPendingRequeues(q) ==
  /\ txn[q] = "selected"
  /\ pick[q] # NoRow
  /\ body' = [body EXCEPT ![pick[q]] = seen[q] \cup {q}]
  /\ wait' = [wait EXCEPT ![pick[q]] = due[q]]
  /\ status' = [status EXCEPT ![pick[q]] = "queued"]
  /\ EndTxn(q, "committed")
  /\ UNCHANGED <<attempts, lease>>

\* UPDATE ... WHERE id = existing_id: whatever has become of that row since the SELECT.
ExtendPending(q) ==
  /\ txn[q] = "selected"
  /\ pick[q] # NoRow
  /\ body' = [body EXCEPT ![pick[q]] = seen[q] \cup {q}]
  /\ wait' = [wait EXCEPT ![pick[q]] = due[q]]
  /\ EndTxn(q, "committed")
  /\ UNCHANGED <<status, attempts, lease>>

\* No pending row: INSERT one that becomes due when the debounce window closes.
InsertText(q) ==
  /\ txn[q] = "selected"
  /\ pick[q] = NoRow
  /\ status' = [status EXCEPT ![q] = "queued"]
  /\ body' = [body EXCEPT ![q] = {q}]
  /\ wait' = [wait EXCEPT ![q] = due[q]]
  /\ EndTxn(q, "committed")
  /\ UNCHANGED <<attempts, lease>>

\* The API dies or the database refuses: rollback, the webhook call is answered with an error.
AbortEnqueue(q) ==
  /\ Open(q)
  /\ EndTxn(q, "aborted")
  /\ UNCHANGED table

-----------------------------------------------------------------------------
(* claim_next, mark_done and mark_failed, called by the workers.           *)

LeaseExpired(r) == lease[r] # NoLease /\ lease[r] <= 0

\* Defect: the first statement of claim_next forgets attempts >= max_attempts.
ExhaustedAtOnce ==
  {r \in Requests : status[r] = "processing" /\ LeaseExpired(r)}

\* First statement of claim_next: crashed attempts of a row that has none left.
Exhausted ==
  {r \in Requests : /\ status[r] = "processing"
                    /\ LeaseExpired(r)
                    /\ attempts[r] >= MaxAttempts}

\* Defect: claim_next forgets attempts < max_attempts.
ClaimableForever ==
  {r \in Requests : \/ status[r] = "queued" /\ wait[r] <= 0
                    \/ status[r] = "processing" /\ LeaseExpired(r)}

\* Defect: claim_next never takes over a crashed attempt.
ClaimableWhenQueued ==
  {r \in Requests : /\ status[r] = "queued" /\ wait[r] <= 0
                    /\ attempts[r] < MaxAttempts}

Claimable ==
  {r \in Requests : /\ \/ status[r] = "queued" /\ wait[r] <= 0
                       \/ status[r] = "processing" /\ LeaseExpired(r)
                    /\ attempts[r] < MaxAttempts}

\* Rows an enqueue transaction may hold locked, and SKIP LOCKED may thus pass over.
LockedByEnqueue ==
  {pick[q] : q \in {p \in Requests : txn[p] = "selected"}}
    \cup UNION {Pending(q) : q \in {p \in Media : txn[p] = "begun" /\ LockFree(p)}}

FailExhausted(s) == [r \in Requests |-> IF r \in Exhausted THEN "failed" ELSE s[r]]

\* Defect: claim_next counts no attempt when it takes over an expired lease.
ClaimRowUncounted(r, locked) ==
  /\ r \in Claimable
  /\ \A o \in Claimable : o \in older[r] => o \in locked
  /\ status' = [FailExhausted(status) EXCEPT ![r] = "processing"]
  /\ lease' = [lease EXCEPT ![r] = LeaseTicks]
  /\ attempts' = [attempts EXCEPT ![r] = IF status[r] = "queued" THEN @ + 1 ELSE @]
  /\ UNCHANGED <<body, wait>>

\* claim_next returns r: the oldest claimable row but for those locked by others.
ClaimRow(r, locked) ==
  /\ r \in Claimable
  /\ \A o \in Claimable : o \in older[r] => o \in locked
  /\ status' = [FailExhausted(status) EXCEPT ![r] = "processing"]
  /\ lease' = [lease EXCEPT ![r] = LeaseTicks]
  /\ attempts' = [attempts EXCEPT ![r] = @ + 1]
  /\ UNCHANGED <<body, wait>>

\* claim_next returns None, having failed the exhausted rows.
ClaimNothing(locked) ==
  /\ Claimable \subseteq locked
  /\ status' = FailExhausted(status)
  /\ UNCHANGED <<attempts, body, wait, lease>>

\* mark_done: WHERE id = message_id and nothing else.
SetDone(r) ==
  /\ status' = [status EXCEPT ![r] = "done"]
  /\ UNCHANGED <<attempts, body, wait, lease>>

\* mark_failed, when its SELECT has found attempts left: back to the queue in backoff.
SetQueued(r, backoff) ==
  /\ status' = [status EXCEPT ![r] = "queued"]
  /\ lease' = [lease EXCEPT ![r] = NoLease]
  /\ wait' = [wait EXCEPT ![r] = backoff]
  /\ UNCHANGED <<attempts, body>>

\* mark_failed, when its SELECT has found none.
SetFailed(r) ==
  /\ status' = [status EXCEPT ![r] = "failed"]
  /\ UNCHANGED <<attempts, body, wait, lease>>

-----------------------------------------------------------------------------
(* The passage of time.                                                    *)

\* A timestamp older than every open transaction is simply past.
Sooner(t) == IF t > 0 - TxnTicks THEN t - 1 ELSE t

QueueTick ==
  /\ \A q \in Requests : Open(q) => age[q] < TxnTicks
  /\ age' = [q \in Requests |-> IF Open(q) THEN age[q] + 1 ELSE age[q]]
  /\ due' = [q \in Requests |-> IF txn[q] = "selected" THEN Sooner(due[q]) ELSE due[q]]
  /\ wait' = [r \in Requests |->
                IF status[r] = "absent" THEN wait[r] ELSE Sooner(wait[r])]
  /\ lease' = [r \in Requests |-> IF lease[r] > 0 THEN lease[r] - 1 ELSE lease[r]]
  /\ UNCHANGED <<status, attempts, body, older, txn, pick, seen>>

=============================================================================
