-------------------------- MODULE SingleWorkerProofs ------------------------
(***************************************************************************)
(* Proofs about MessageWorker with a single worker, the deployment of      *)
(* docker-compose.yml.  A worker that has the queue to itself is never     *)
(* overtaken: between its SELECT in mark_failed and its UPDATE nobody uses *)
(* up the attempt it has found, and nobody else closes the row it works on.*)
(***************************************************************************)
EXTENDS MessageWorkerProofs

Alone == \A v, w \in Workers : v = w

NewHasNoAttempt == \A r \in Requests : status[r] = "absent" => attempts[r] = 0

RequeueHasAttempts ==
  \A w \in Workers : pc[w] = "requeue" => attempts[msg[w]] < MaxAttempts

BusyNotFailed ==
  \A w \in Workers : pc[w] # "idle" => status[msg[w]] # "failed"

AloneInv ==
  NewHasNoAttempt /\ RequeueHasAttempts /\ BusyNotFailed /\ QueuedHasAttempts

\* A failed row stays failed in this step.
FailedStays ==
  \A r \in Requests : status[r] = "failed" => status'[r] = "failed"

LEMMA InitAloneInv == Init => AloneInv
  BY DEF Init, QueueInit, AloneInv, NewHasNoAttempt, RequeueHasAttempts, BusyNotFailed,
         QueuedHasAttempts

\* Only rows that did not exist become queued through a webhook call.
LEMMA EnqueueAlone ==
  ASSUME TypeOK, Holding, ReplyInv, TextInv, AloneInv, NEW q \in Requests, Enqueue(q)
  PROVE  AloneInv' /\ FailedStays
<1>1. /\ UNCHANGED <<attempts, pc, msg>>
      /\ \A r \in Requests :
           status'[r] = status[r] \/ (status[r] = "absent" /\ status'[r] = "queued")
  BY DEF Enqueue, BeginEnqueue, EnqueueMedia, SelectPending, ExtendPending, InsertText,
         AbortEnqueue, EndTxn, table, workerVars, TypeOK, TableTypeOK, TextInv, RowsCommitted
<1> USE DEF AloneInv, NewHasNoAttempt, RequeueHasAttempts, BusyNotFailed, QueuedHasAttempts
<1>2. FailedStays
  BY <1>1 DEF FailedStays
<1>3. NewHasNoAttempt'
  BY <1>1
<1>4. RequeueHasAttempts'
  BY <1>1
<1>5. BusyNotFailed'
  BY <1>1 DEF Holding
<1>6. QueuedHasAttempts'
  <2> SUFFICES ASSUME NEW r \in Requests, status'[r] = "queued"
               PROVE  attempts[r] < MaxAttempts
    BY <1>1
  <2>1. 0 < MaxAttempts
    BY QueueAssumption
  <2> QED
    BY <1>1, <2>1
<1> QED
  BY <1>2, <1>3, <1>4, <1>5, <1>6

LEMMA WorkerAlone ==
  ASSUME Alone, TypeOK, Holding, ReplyInv, AloneInv,
         NEW w \in Workers, WorkerStep(w) \/ Crash(w)
  PROVE  AloneInv' /\ FailedStays
<1> TypeOK /\ TableTypeOK /\ WorkerTypeOK /\ \A v \in Workers : v = w
  BY DEF TypeOK, Alone
<1> USE DEF AloneInv, NewHasNoAttempt, RequeueHasAttempts, BusyNotFailed, QueuedHasAttempts,
            FailedStays, TableTypeOK, WorkerTypeOK
<1>1. CASE Claim(w)
  <2>1. PICK r \in Requests :
          /\ ClaimRow(r, LockedByEnqueue \cup LockedByOthers(w))
          /\ msg' = [msg EXCEPT ![w] = r]
    BY <1>1 DEF Claim
  <2>2. pc' = [pc EXCEPT ![w] = "agent"]
    BY <1>1 DEF Claim
  <2>3. status[r] # "failed" /\ status[r] # "absent" /\ status'[r] = "processing"
    BY <2>1 DEF ClaimRow, Claimable, FailExhausted
  <2>4. \A s \in Requests \ {r} :
          /\ attempts'[s] = attempts[s]
          /\ status'[s] = status[s] \/ (status[s] = "processing" /\ status'[s] = "failed")
    BY <2>1 DEF ClaimRow, FailExhausted, Exhausted
  <2>5. pc'[w] = "agent" /\ msg'[w] = r
    BY <2>1, <2>2
  <2>6. FailedStays /\ NewHasNoAttempt' /\ QueuedHasAttempts'
    BY <2>3, <2>4
  <2>7. RequeueHasAttempts' /\ BusyNotFailed'
    BY <2>3, <2>5
  <2> QED
    BY <2>6, <2>7
<1>2. CASE ClaimNone(w)
  <2>1. /\ pc[w] = "idle" /\ UNCHANGED <<pc, msg, attempts>>
        /\ \A s \in Requests :
             status'[s] = status[s] \/ (status[s] = "processing" /\ status'[s] = "failed")
    BY <1>2 DEF ClaimNone, ClaimNothing, FailExhausted, Exhausted, workerVars
  <2>2. FailedStays /\ NewHasNoAttempt' /\ QueuedHasAttempts'
    BY <2>1
  <2>3. RequeueHasAttempts' /\ BusyNotFailed'
    BY <2>1
  <2> QED
    BY <2>2, <2>3
<1>3. CASE MarkDone(w) \/ Requeue(w) \/ GiveUp(w)
  <2>1. pc[w] # "idle" /\ msg[w] \in Requests /\ status[msg[w]] \notin {"failed", "absent"}
    BY <1>3 DEF MarkDone, Requeue, GiveUp, GoTo, Holding, ReplyInv, AttemptHeld
  <2>2. CASE MarkDone(w)
    BY <2>1, <2>2 DEF MarkDone, SetDone, GoTo
  <2>3. CASE Requeue(w)
    BY <2>1, <2>3 DEF Requeue, SetQueued, Leave
  <2>4. CASE GiveUp(w)
    BY <2>1, <2>4 DEF GiveUp, SetFailed, Leave
  <2> QED
    BY <1>3, <2>2, <2>3, <2>4
<1>4. CASE MarkFailedRetries(w)
  BY <1>4 DEF MarkFailedRetries, GoTo, table
<1>5. CASE \/ Answer(w) \/ AnswerRaises(w) \/ Send(w) \/ SendRaises(w) \/ MarkDoneRaises(w)
           \/ UpsertRaises(w) \/ MarkFailedForGood(w)
  BY <1>5 DEF Answer, AnswerRaises, Send, SendRaises, MarkDoneRaises, UpsertRaises,
              MarkFailedForGood, GoTo, table
<1>6. CASE Upsert(w) \/ Crash(w)
  BY <1>6 DEF Upsert, Crash, Leave, table
<1> QED
  BY <1>1, <1>2, <1>3, <1>4, <1>5, <1>6 DEF WorkerStep

LEMMA NextAlone ==
  ASSUME Alone
  PROVE  TypeOK /\ Holding /\ ReplyInv /\ TextInv /\ AloneInv /\ [Next]_vars
           => AloneInv' /\ [FailedStays]_vars
<1> SUFFICES ASSUME TypeOK, Holding, ReplyInv, TextInv, AloneInv, [Next]_vars
             PROVE  AloneInv' /\ FailedStays
  OBVIOUS
<1>1. CASE Tick \/ UNCHANGED vars
  BY <1>1
  DEF Tick, QueueTick, vars, AloneInv, NewHasNoAttempt, RequeueHasAttempts, BusyNotFailed,
      QueuedHasAttempts, FailedStays
<1> QED
  BY <1>1, EnqueueAlone, WorkerAlone DEF Next

LEMMA AloneAlways == ASSUME Alone PROVE Spec => []AloneInv
<1>1. TypeOK /\ Holding /\ ReplyInv /\ TextInv /\ AloneInv /\ [Next]_vars => AloneInv'
  BY NextAlone
<1> QED
  BY <1>1, InitAloneInv, Replies, Texts, PTL DEF Spec

\* With a single worker mark_failed never leaves a row that nobody can claim.
THEOREM NeverStuck == ASSUME Alone PROVE Spec => []QueuedHasAttempts
<1>1. AloneInv => QueuedHasAttempts
  BY DEF AloneInv
<1> QED
  BY <1>1, AloneAlways, PTL

\* With a single worker a message that has failed is never taken up again.
THEOREM FailedForGood == ASSUME Alone PROVE Spec => FailedIsFinal
<1>1. TypeOK /\ Holding /\ ReplyInv /\ TextInv /\ AloneInv /\ [Next]_vars
        => [\A r \in Requests : status[r] = "failed" => status'[r] = "failed"]_vars
  BY NextAlone DEF FailedStays
<1> QED
  BY <1>1, AloneAlways, Replies, Texts, PTL DEF Spec, FailedIsFinal
=============================================================================
