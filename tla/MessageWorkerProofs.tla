------------------------- MODULE MessageWorkerProofs ------------------------
(***************************************************************************)
(* Proofs about MessageWorker, for any requests, threads, workers and      *)
(* durations.                                                              *)
(***************************************************************************)
EXTENDS MessageWorker, TLAPS

(***************************************************************************)
(* Type correctness.  QueueTypeOK speaks of the table and of the enqueue   *)
(* transactions, WorkerTypeOK of the workers.                              *)
(***************************************************************************)
LEMMA InitTypeOK == Init => TypeOK
  BY QueueAssumption
  DEF Init, QueueInit, TypeOK, TableTypeOK, CallsTypeOK, WorkerTypeOK,
      Statuses, TxnStates, Steps, NoLease

LEMMA TableFrame == TableTypeOK /\ UNCHANGED table => TableTypeOK'
  BY DEF TableTypeOK, table

LEMMA CallsFrame == CallsTypeOK /\ UNCHANGED calls => CallsTypeOK'
  BY DEF CallsTypeOK, calls

\* The statements of the enqueue transactions keep the types.
LEMMA EnqueueTypeOK ==
  ASSUME TypeOK, NEW q \in Requests, Enqueue(q)
  PROVE  TypeOK'
<1> USE QueueAssumption DEF TableTypeOK, CallsTypeOK, Statuses, TxnStates, table, EndTxn
<1>1. WorkerTypeOK'
  BY DEF Enqueue, TypeOK, WorkerTypeOK, workerVars
<1>2. CASE BeginEnqueue(q)
  BY <1>1, <1>2 DEF TypeOK, BeginEnqueue
<1>3. CASE EnqueueMedia(q)
  BY <1>1, <1>3 DEF TypeOK, EnqueueMedia, Pending
<1>4. CASE SelectPending(q)
  BY <1>1, <1>4 DEF TypeOK, SelectPending, LatestPending, Pending
<1>5. CASE ExtendPending(q)
  BY <1>1, <1>5 DEF TypeOK, ExtendPending
<1>6. CASE InsertText(q)
  BY <1>1, <1>6 DEF TypeOK, InsertText
<1>7. CASE AbortEnqueue(q)
  BY <1>1, <1>7 DEF TypeOK, AbortEnqueue
<1> QED
  BY <1>2, <1>3, <1>4, <1>5, <1>6, <1>7 DEF Enqueue

\* Outside its idle step a worker holds a row; the types of the steps need it.
Holding ==
  \A w \in Workers :
    pc[w] # "idle" => msg[w] \in Requests /\ try[w] \in 1..MaxAttempts

\* The statements of the workers keep the types of the table ...
LEMMA WorkerTableTypeOK ==
  ASSUME TypeOK, Holding, NEW w \in Workers, WorkerStep(w) \/ Crash(w)
  PROVE  TableTypeOK'
<1> TableTypeOK
  BY DEF TypeOK
<1>1. CASE Claim(w)
  BY <1>1, QueueAssumption
  DEF Claim, ClaimRow, Claimable, FailExhausted, TableTypeOK, Statuses
<1>2. CASE ClaimNone(w)
  BY <1>2 DEF ClaimNone, ClaimNothing, FailExhausted, TableTypeOK, Statuses
<1>3. CASE UNCHANGED table
  BY <1>3, TableFrame
<1>4. CASE MarkDone(w)
  <2>1. msg[w] \in Requests
    BY <1>4 DEF MarkDone, GoTo, Holding
  <2> QED
    BY <1>4, <2>1 DEF MarkDone, SetDone, TableTypeOK, Statuses
<1>5. CASE Requeue(w)
  <2>1. msg[w] \in Requests /\ backoff[w] \in Int
    BY <1>5 DEF Requeue, Holding, TypeOK, WorkerTypeOK
  <2> QED
    BY <1>5, <2>1, QueueAssumption DEF Requeue, SetQueued, NoLease, TableTypeOK, Statuses
<1>6. CASE GiveUp(w)
  <2>1. msg[w] \in Requests
    BY <1>6 DEF GiveUp, Holding
  <2> QED
    BY <1>6, <2>1 DEF GiveUp, SetFailed, TableTypeOK, Statuses
<1> QED
  BY <1>1, <1>2, <1>3, <1>4, <1>5, <1>6
  DEF WorkerStep, Crash, Answer, AnswerRaises, Send, SendRaises, MarkDoneRaises,
      Upsert, UpsertRaises, MarkFailedRetries, MarkFailedForGood

\* ... and those of their own locals, and a busy worker holds a row.
LEMMA WorkerLocalsTypeOK ==
  ASSUME TypeOK, Holding, NEW w \in Workers, WorkerStep(w) \/ Crash(w)
  PROVE  WorkerTypeOK' /\ Holding'
<1> WorkerTypeOK /\ TableTypeOK
  BY DEF TypeOK
<1> USE QueueAssumption DEF WorkerTypeOK, Holding, Steps
<1>1. CASE Claim(w)
  <2> PICK r \in Requests :
        /\ ClaimRow(r, LockedByEnqueue \cup LockedByOthers(w))
        /\ msg' = [msg EXCEPT ![w] = r]
        /\ heard' = [heard EXCEPT ![w] = body[r]]
        /\ try' = [try EXCEPT ![w] = attempts[r] + 1]
    BY <1>1 DEF Claim
  <2>1. attempts[r] + 1 \in 1..MaxAttempts /\ body[r] \in SUBSET Requests
    BY DEF ClaimRow, Claimable, TableTypeOK
  <2>2. pc' = [pc EXCEPT ![w] = "agent"] /\ UNCHANGED <<backoff, sent, answered>>
    BY <1>1 DEF Claim
  <2> QED
    BY <2>1, <2>2
<1>2. CASE ClaimNone(w)
  BY <1>2 DEF ClaimNone, workerVars
<1>3. CASE Answer(w) \/ AnswerRaises(w) \/ MarkDone(w) \/ MarkDoneRaises(w) \/ UpsertRaises(w)
  BY <1>3 DEF Answer, AnswerRaises, MarkDone, MarkDoneRaises, UpsertRaises, GoTo
<1>4. CASE Send(w)
  BY <1>4 DEF Send, Delivered, GoTo
<1>5. CASE SendRaises(w)
  <2>1. CASE Delivered(w)
    BY <1>5, <2>1 DEF SendRaises, GoTo, Delivered
  <2>2. CASE UNCHANGED <<sent, answered>>
    BY <1>5, <2>2 DEF SendRaises, GoTo
  <2> QED
    BY <1>5, <2>1, <2>2 DEF SendRaises
<1>6. CASE MarkFailedRetries(w)
  <2>1. attempts[msg[w]] * BackoffTicks \in Int
    BY <1>6 DEF MarkFailedRetries, GoTo, TableTypeOK
  <2> QED
    BY <1>6, <2>1 DEF MarkFailedRetries, GoTo
<1>7. CASE MarkFailedForGood(w)
  BY <1>7 DEF MarkFailedForGood, GoTo
<1>8. CASE Upsert(w)
  BY <1>8 DEF Upsert, Leave
<1>9. CASE Requeue(w)
  BY <1>9 DEF Requeue, Leave
<1>10. CASE GiveUp(w)
  BY <1>10 DEF GiveUp, Leave
<1>11. CASE Crash(w)
  BY <1>11 DEF Crash, Leave
<1> QED
  BY <1>1, <1>2, <1>3, <1>4, <1>5, <1>6, <1>7, <1>8, <1>9, <1>10, <1>11 DEF WorkerStep

LEMMA WorkerStepTypeOK ==
  ASSUME TypeOK, Holding, NEW w \in Workers, WorkerStep(w) \/ Crash(w)
  PROVE  TypeOK' /\ Holding'
<1>1. CallsTypeOK'
  BY CallsFrame
  DEF TypeOK, WorkerStep, Claim, ClaimNone, Answer, AnswerRaises, Send, SendRaises,
      MarkDone, MarkDoneRaises, Upsert, UpsertRaises, MarkFailedRetries,
      MarkFailedForGood, Requeue, GiveUp, Crash
<1> QED
  BY <1>1, WorkerTableTypeOK, WorkerLocalsTypeOK DEF TypeOK

LEMMA TickTypeOK ==
  ASSUME TypeOK, Tick
  PROVE  TypeOK'
<1> USE QueueAssumption DEF TypeOK, Tick, QueueTick, Sooner, Open
<1>1. TableTypeOK'
  BY DEF TableTypeOK
<1>2. CallsTypeOK'
  BY DEF CallsTypeOK, TxnStates
<1>3. WorkerTypeOK'
  BY DEF WorkerTypeOK
<1> QED
  BY <1>1, <1>2, <1>3

LEMMA NextTypeOK == TypeOK /\ Holding /\ [Next]_vars => TypeOK' /\ Holding'
<1> SUFFICES ASSUME TypeOK, Holding, [Next]_vars
             PROVE  TypeOK' /\ Holding'
  OBVIOUS
<1>1. CASE \E q \in Requests : Enqueue(q)
  <2>1. Holding'
    BY <1>1 DEF Enqueue, workerVars, Holding
  <2> QED
    BY <1>1, <2>1, EnqueueTypeOK
<1>2. CASE \E w \in Workers : WorkerStep(w) \/ Crash(w)
  BY <1>2, WorkerStepTypeOK
<1>3. CASE Tick
  <2>1. Holding'
    BY <1>3 DEF Tick, Holding
  <2> QED
    BY <1>3, <2>1, TickTypeOK
<1>4. CASE UNCHANGED vars
  BY <1>4 DEF vars, Holding, TypeOK, TableTypeOK, CallsTypeOK, WorkerTypeOK
<1> QED
  BY <1>1, <1>2, <1>3, <1>4 DEF Next

LEMMA TypesAndHolding == Spec => [](TypeOK /\ Holding)
<1>1. Init => TypeOK /\ Holding
  BY InitTypeOK DEF Init, Holding
<1> QED
  BY <1>1, NextTypeOK, PTL DEF Spec

\* Every reachable state has the types TypeOK declares.
THEOREM TypeCorrect == Spec => []TypeOK
  BY TypesAndHolding, PTL

(***************************************************************************)
(* Replies and attempts.  The inductive invariant ties each worker to the  *)
(* attempt its claim opened: attempts only grow, so two workers on one row *)
(* are in different attempts; the answer of an attempt can only come from  *)
(* the worker that holds it, which has not sent it while it is in "agent"  *)
(* or "send" and has sent it when it reaches mark_done.                    *)
(***************************************************************************)
AttemptHeld ==
  \A w \in Workers : pc[w] # "idle" =>
    status[msg[w]] # "absent" /\ try[w] <= attempts[msg[w]]

AttemptsApart ==
  \A v, w \in Workers :
    v # w /\ pc[v] # "idle" /\ pc[w] # "idle" /\ msg[v] = msg[w] => try[v] # try[w]

NotYetSent ==
  \A w \in Workers : pc[w] \in {"agent", "send"} => sent[msg[w]][try[w]] = 0

SentBeforeDone ==
  \A w \in Workers : pc[w] = "mark_done" => sent[msg[w]][try[w]] > 0

SpentBeforeGivingUp ==
  \A w \in Workers : pc[w] = "give_up" => attempts[msg[w]] = MaxAttempts

ReplyInv ==
  /\ OneReplyPerAttempt
  /\ DoneMeansReplied
  /\ FailedHasSpentAll
  /\ AttemptHeld
  /\ AttemptsApart
  /\ NotYetSent
  /\ SentBeforeDone
  /\ SpentBeforeGivingUp

LEMMA InitReplyInv == Init => ReplyInv
  BY QueueAssumption
  DEF Init, QueueInit, ReplyInv, OneReplyPerAttempt, DoneMeansReplied, FailedHasSpentAll,
      AttemptHeld, AttemptsApart, NotYetSent, SentBeforeDone, SpentBeforeGivingUp

\* An enqueue transaction can only turn the status of a row into "queued".
LEMMA EnqueueReplyInv ==
  ASSUME TypeOK, Holding, ReplyInv, NEW q \in Requests, Enqueue(q)
  PROVE  ReplyInv'
<1>1. /\ UNCHANGED <<attempts, pc, msg, try, sent>>
      /\ \A r \in Requests : status'[r] = status[r] \/ status'[r] = "queued"
  BY DEF Enqueue, BeginEnqueue, EnqueueMedia, SelectPending, ExtendPending, InsertText,
         AbortEnqueue, EndTxn, table, workerVars, TypeOK, TableTypeOK
<1> QED
  BY <1>1
  DEF Holding, ReplyInv, OneReplyPerAttempt, DoneMeansReplied, FailedHasSpentAll,
      AttemptHeld, AttemptsApart, NotYetSent, SentBeforeDone, SpentBeforeGivingUp

\* A worker that only moves on, keeping its row, to a step that claims nothing new.
LEMMA MoveReplyInv ==
  ASSUME TypeOK, Holding, ReplyInv, NEW w \in Workers, NEW from \in Steps \ {"idle"},
         NEW to \in {"send", "failing", "requeue", "upsert", "give_up"},
         to = "send" => from = "agent",
         to = "give_up" => attempts[msg[w]] = MaxAttempts,
         GoTo(w, from, to), UNCHANGED <<table, sent>>
  PROVE  ReplyInv'
<1>1. WorkerTypeOK /\ pc' = [pc EXCEPT ![w] = to] /\ UNCHANGED <<msg, try, status, attempts, sent>>
  BY DEF TypeOK, GoTo, table
<1>2. pc[w] = from /\ from # "idle"
  BY DEF GoTo
<1>3. \A v \in Workers : pc'[v] # "idle" <=> pc[v] # "idle"
  BY <1>1, <1>2 DEF WorkerTypeOK
<1> USE <1>1, <1>2, <1>3 DEF ReplyInv
<1>4. OneReplyPerAttempt' /\ DoneMeansReplied' /\ FailedHasSpentAll'
  BY DEF OneReplyPerAttempt, DoneMeansReplied, FailedHasSpentAll
<1>5. AttemptHeld' /\ AttemptsApart'
  BY DEF AttemptHeld, AttemptsApart
<1>6. NotYetSent' /\ SentBeforeDone' /\ SpentBeforeGivingUp'
  BY DEF NotYetSent, SentBeforeDone, SpentBeforeGivingUp, WorkerTypeOK
<1> QED
  BY <1>4, <1>5, <1>6

\* A worker that leaves its row, the row keeping a status the invariant allows.
LEMMA LeaveReplyInv ==
  ASSUME TypeOK, Holding, ReplyInv, NEW w \in Workers,
         pc[w] # "idle", Leave(w), UNCHANGED <<attempts, sent>>,
         NEW s \in {"queued", "failed"},
         s = "failed" => attempts[msg[w]] = MaxAttempts,
         \/ UNCHANGED status
         \/ status' = [status EXCEPT ![msg[w]] = s]
  PROVE  ReplyInv'
<1>1. msg[w] \in Requests /\ WorkerTypeOK /\ TableTypeOK
  BY DEF Holding, TypeOK
<1>2. \A r \in Requests : status'[r] = status[r] \/ (status'[r] = s /\ r = msg[w])
  <2>1. CASE UNCHANGED status
    BY <2>1
  <2>2. CASE status' = [status EXCEPT ![msg[w]] = s]
    BY <1>1, <2>2 DEF TableTypeOK
  <2> QED
    BY <2>1, <2>2
<1>3. \A v \in Workers : pc'[v] # "idle" =>
         v # w /\ pc'[v] = pc[v] /\ msg'[v] = msg[v] /\ try'[v] = try[v]
  BY <1>1 DEF WorkerTypeOK, Leave
<1>4. \A v \in Workers : pc[v] # "idle" => msg[v] \in Requests
  BY DEF Holding
<1> USE <1>1, <1>2, <1>3, <1>4 DEF ReplyInv
<1>5. OneReplyPerAttempt' /\ DoneMeansReplied' /\ FailedHasSpentAll'
  BY DEF OneReplyPerAttempt, DoneMeansReplied, FailedHasSpentAll
<1>6. AttemptHeld' /\ AttemptsApart'
  BY DEF AttemptHeld, AttemptsApart
<1>7. NotYetSent' /\ SentBeforeDone' /\ SpentBeforeGivingUp'
  BY DEF NotYetSent, SentBeforeDone, SpentBeforeGivingUp
<1> QED
  BY <1>5, <1>6, <1>7

\* The claim opens the attempt try'[w] = attempts'[r], later than any other on r.
LEMMA ClaimReplyInv ==
  ASSUME TypeOK, Holding, ReplyInv, NEW w \in Workers, Claim(w)
  PROVE  ReplyInv'
<1> PICK r \in Requests :
      /\ ClaimRow(r, LockedByEnqueue \cup LockedByOthers(w))
      /\ msg' = [msg EXCEPT ![w] = r]
      /\ try' = [try EXCEPT ![w] = attempts[r] + 1]
  BY DEF Claim
<1>1. TableTypeOK /\ WorkerTypeOK
  BY DEF TypeOK
<1>2. /\ attempts' = [attempts EXCEPT ![r] = @ + 1]
      /\ attempts[r] < MaxAttempts /\ status[r] \in {"queued", "processing"}
  BY DEF ClaimRow, Claimable
<1>3. \A x \in Requests : status'[x] = IF x = r THEN "processing"
                                      ELSE IF x \in Exhausted THEN "failed" ELSE status[x]
  BY DEF ClaimRow, FailExhausted
<1>4. pc' = [pc EXCEPT ![w] = "agent"] /\ sent' = sent
  BY DEF Claim
<1>5. \A x \in Exhausted : x \in Requests /\ attempts[x] = MaxAttempts /\ status[x] = "processing"
  BY <1>1, QueueAssumption DEF Exhausted, TableTypeOK
<1>6. \A x \in Requests : attempts'[x] = IF x = r THEN attempts[r] + 1 ELSE attempts[x]
  BY <1>1, <1>2 DEF TableTypeOK
<1>7. \A v \in Workers : /\ pc'[v] = IF v = w THEN "agent" ELSE pc[v]
                         /\ msg'[v] = IF v = w THEN r ELSE msg[v]
                         /\ try'[v] = IF v = w THEN attempts[r] + 1 ELSE try[v]
  BY <1>1, <1>4 DEF WorkerTypeOK
<1>8. \A v \in Workers : pc[v] # "idle" => msg[v] \in Requests /\ try[v] \in 1..MaxAttempts
  BY DEF Holding
<1>9. \A x \in Requests : attempts[x] \in 0..MaxAttempts
  BY <1>1 DEF TableTypeOK
<1>10. \A x \in Requests, a \in 1..MaxAttempts : sent[x][a] \in Nat
  BY <1>1 DEF WorkerTypeOK
<1>11. OneReplyPerAttempt'
  BY <1>4, <1>6, <1>9, <1>10, QueueAssumption DEF ReplyInv, OneReplyPerAttempt
<1>12. DoneMeansReplied' /\ FailedHasSpentAll'
  BY <1>2, <1>3, <1>4, <1>5, <1>6 DEF ReplyInv, DoneMeansReplied, FailedHasSpentAll
<1>13. AttemptHeld' /\ AttemptsApart'
  <2>1. AttemptHeld'
    BY <1>3, <1>5, <1>6, <1>7, <1>8, <1>9, QueueAssumption DEF ReplyInv, AttemptHeld
  <2>2. \A v \in Workers : pc[v] # "idle" /\ msg[v] = r => try[v] # attempts[r] + 1
    BY <1>8, <1>9, QueueAssumption DEF ReplyInv, AttemptHeld
  <2>3. AttemptsApart'
    BY <1>7, <2>2 DEF ReplyInv, AttemptsApart
  <2> QED
    BY <2>1, <2>3
<1>14. sent[r][attempts[r] + 1] = 0
  <2>1. attempts[r] + 1 \in 1..MaxAttempts
    BY <1>2, <1>9, QueueAssumption
  <2> QED
    BY <2>1, <1>9, <1>10 DEF ReplyInv, OneReplyPerAttempt
<1>15. NotYetSent' /\ SentBeforeDone'
  BY <1>4, <1>7, <1>14 DEF ReplyInv, NotYetSent, SentBeforeDone
<1>16. SpentBeforeGivingUp'
  BY <1>2, <1>6, <1>7, <1>8, QueueAssumption DEF ReplyInv, SpentBeforeGivingUp
<1> QED
  BY <1>11, <1>12, <1>13, <1>15, <1>16 DEF ReplyInv

\* An answer goes out: it is the first of the attempt its worker holds.
LEMMA DeliveryReplyInv ==
  ASSUME TypeOK, Holding, ReplyInv, NEW w \in Workers,
         NEW to \in {"mark_done", "failing"},
         GoTo(w, "send", to), Delivered(w), UNCHANGED table
  PROVE  ReplyInv'
<1> DEFINE r == msg[w]
           a == try[w]
<1>1. TableTypeOK /\ WorkerTypeOK /\ UNCHANGED <<status, attempts, msg, try>>
  BY DEF TypeOK, GoTo, table
<1>2. pc[w] = "send" /\ r \in Requests /\ a \in 1..MaxAttempts
  BY DEF GoTo, Holding
<1>3. \A v \in Workers : pc'[v] = IF v = w THEN to ELSE pc[v]
  BY <1>1 DEF GoTo, WorkerTypeOK
<1>4. \A x \in Requests, b \in 1..MaxAttempts :
         sent'[x][b] = IF x = r /\ b = a THEN sent[r][a] + 1 ELSE sent[x][b]
  BY <1>1, <1>2 DEF Delivered, WorkerTypeOK
<1>5. sent[r][a] = 0 /\ a <= attempts[r]
  BY <1>2 DEF ReplyInv, NotYetSent, AttemptHeld
<1>6. \A v \in Workers : pc[v] # "idle" => msg[v] \in Requests /\ try[v] \in 1..MaxAttempts
  BY DEF Holding
<1>7. \A x \in Requests, b \in 1..MaxAttempts : sent[x][b] \in Nat
  BY <1>1 DEF WorkerTypeOK
<1>8. OneReplyPerAttempt'
  BY <1>1, <1>4, <1>5 DEF ReplyInv, OneReplyPerAttempt
<1>9. DoneMeansReplied' /\ FailedHasSpentAll'
  BY <1>1, <1>4, <1>7 DEF ReplyInv, DoneMeansReplied, FailedHasSpentAll
<1>10. AttemptHeld' /\ AttemptsApart' /\ SpentBeforeGivingUp'
  BY <1>1, <1>2, <1>3 DEF ReplyInv, AttemptHeld, AttemptsApart, SpentBeforeGivingUp
<1>11. NotYetSent'
  BY <1>1, <1>2, <1>3, <1>4, <1>6 DEF ReplyInv, NotYetSent, AttemptsApart
<1>12. SentBeforeDone'
  BY <1>1, <1>2, <1>3, <1>4, <1>5, <1>6, <1>7 DEF ReplyInv, SentBeforeDone
<1> QED
  BY <1>8, <1>9, <1>10, <1>11, <1>12 DEF ReplyInv

\* mark_done follows the answer of the attempt, whatever the row has become.
LEMMA DoneReplyInv ==
  ASSUME TypeOK, Holding, ReplyInv, NEW w \in Workers, MarkDone(w)
  PROVE  ReplyInv'
<1>1. /\ msg[w] \in Requests /\ try[w] \in 1..MaxAttempts
      /\ pc[w] = "mark_done" /\ TableTypeOK /\ WorkerTypeOK
  BY DEF MarkDone, GoTo, Holding, TypeOK
<1>2. \A r \in Requests : status'[r] = IF r = msg[w] THEN "done" ELSE status[r]
  BY <1>1 DEF MarkDone, SetDone, TableTypeOK
<1>3. \A v \in Workers : pc'[v] = IF v = w THEN "upsert" ELSE pc[v]
  BY <1>1 DEF MarkDone, GoTo, WorkerTypeOK
<1>4. UNCHANGED <<attempts, msg, try, sent>>
  BY DEF MarkDone, GoTo, SetDone
<1>5. \A v \in Workers : pc[v] # "idle" => msg[v] \in Requests
  BY DEF Holding
<1> USE <1>1, <1>2, <1>3, <1>4, <1>5 DEF ReplyInv
<1>6. OneReplyPerAttempt' /\ FailedHasSpentAll'
  BY DEF OneReplyPerAttempt, FailedHasSpentAll
<1>7. DoneMeansReplied'
  BY DEF DoneMeansReplied, SentBeforeDone
<1>8. AttemptHeld' /\ AttemptsApart'
  BY DEF AttemptHeld, AttemptsApart
<1>9. NotYetSent' /\ SentBeforeDone' /\ SpentBeforeGivingUp'
  BY DEF NotYetSent, SentBeforeDone, SpentBeforeGivingUp
<1> QED
  BY <1>6, <1>7, <1>8, <1>9

LEMMA WorkerReplyInv ==
  ASSUME TypeOK, Holding, ReplyInv, NEW w \in Workers, WorkerStep(w) \/ Crash(w)
  PROVE  ReplyInv'
<1>1. CASE Claim(w)
  BY <1>1, ClaimReplyInv
<1>2. CASE ClaimNone(w)
  <2>1. /\ UNCHANGED <<attempts, pc, msg, try, sent>>
        /\ status' = FailExhausted(status)
    BY <1>2 DEF ClaimNone, ClaimNothing, workerVars
  <2>2. \A x \in Requests : status'[x] = IF x \in Exhausted THEN "failed" ELSE status[x]
    BY <2>1 DEF FailExhausted
  <2>3. \A x \in Exhausted : x \in Requests /\ attempts[x] = MaxAttempts
    BY QueueAssumption DEF Exhausted, TypeOK, TableTypeOK
  <2> QED
    BY <2>1, <2>2, <2>3
    DEF Holding, ReplyInv, OneReplyPerAttempt, DoneMeansReplied, FailedHasSpentAll,
        AttemptHeld, AttemptsApart, NotYetSent, SentBeforeDone, SpentBeforeGivingUp
<1>3. CASE Answer(w) \/ AnswerRaises(w)
  BY <1>3, MoveReplyInv DEF Answer, AnswerRaises, Steps
<1>4. CASE Send(w)
  BY <1>4, DeliveryReplyInv DEF Send
<1>5. CASE SendRaises(w)
  <2>1. CASE Delivered(w)
    BY <1>5, <2>1, DeliveryReplyInv DEF SendRaises
  <2>2. CASE UNCHANGED <<sent, answered>>
    BY <1>5, <2>2, MoveReplyInv DEF SendRaises, Steps
  <2> QED
    BY <1>5, <2>1, <2>2 DEF SendRaises
<1>6. CASE MarkDone(w)
  BY <1>6, DoneReplyInv
<1>7. CASE MarkDoneRaises(w) \/ UpsertRaises(w)
  BY <1>7, MoveReplyInv DEF MarkDoneRaises, UpsertRaises, Steps
<1>8. CASE MarkFailedRetries(w)
  BY <1>8, MoveReplyInv DEF MarkFailedRetries, Steps
<1>9. CASE MarkFailedForGood(w)
  <2>1. attempts[msg[w]] = MaxAttempts
    BY <1>9, QueueAssumption DEF MarkFailedForGood, GoTo, Holding, TypeOK, TableTypeOK
  <2> QED
    BY <1>9, <2>1, MoveReplyInv DEF MarkFailedForGood, Steps
<1>10. CASE Upsert(w) \/ Crash(w)
  BY <1>10, LeaveReplyInv DEF Upsert, Crash, table
<1>11. CASE Requeue(w)
  BY <1>11, LeaveReplyInv DEF Requeue, SetQueued
<1>12. CASE GiveUp(w)
  <2>1. attempts[msg[w]] = MaxAttempts
    BY <1>12 DEF GiveUp, ReplyInv, SpentBeforeGivingUp
  <2> QED
    BY <1>12, <2>1, LeaveReplyInv DEF GiveUp, SetFailed
<1> QED
  BY <1>1, <1>2, <1>3, <1>4, <1>5, <1>6, <1>7, <1>8, <1>9, <1>10, <1>11, <1>12
  DEF WorkerStep

LEMMA NextReplyInv == TypeOK /\ Holding /\ ReplyInv /\ [Next]_vars => ReplyInv'
<1> SUFFICES ASSUME TypeOK, Holding, ReplyInv, [Next]_vars
             PROVE  ReplyInv'
  OBVIOUS
<1> USE DEF Holding, ReplyInv, OneReplyPerAttempt, DoneMeansReplied, FailedHasSpentAll,
            AttemptHeld, AttemptsApart, NotYetSent, SentBeforeDone, SpentBeforeGivingUp
<1>1. CASE Tick
  BY <1>1 DEF Tick, QueueTick
<1>2. CASE UNCHANGED vars
  BY <1>2 DEF vars
<1> QED
  BY <1>1, <1>2, EnqueueReplyInv, WorkerReplyInv DEF Next

\* The inductive invariant of the replies, with the types it rests on.
LEMMA Replies == Spec => [](TypeOK /\ Holding /\ ReplyInv)
<1>1. Init => ReplyInv
  BY InitReplyInv
<1> QED
  BY <1>1, NextReplyInv, TypesAndHolding, PTL DEF Spec

\* However workers crash, stall past their lease and overlap, each attempt
\* answers at most once and only attempts that were claimed answer.
THEOREM RepliesBounded == Spec => []OneReplyPerAttempt
  BY Replies, PTL DEF ReplyInv

\* No row is done unless an outbound message went out for it.
THEOREM DoneOnlyAfterReply == Spec => []DoneMeansReplied
  BY Replies, PTL DEF ReplyInv

\* No row is failed while it has attempts left.
THEOREM FailedOnlyWhenSpent == Spec => []FailedHasSpentAll
  BY Replies, PTL DEF ReplyInv

(***************************************************************************)
(* The texts.  The inductive invariant says what the advisory lock buys:   *)
(* while a transaction is between its SELECT and its UPDATE it is the only *)
(* one of its thread there, so what it has seen is still the body of the   *)
(* row it is about to overwrite.                                           *)
(***************************************************************************)
LockHeldByOne ==
  \A p, q \in Requests :
    txn[p] = "selected" /\ txn[q] = "selected" /\ ThreadOf[p] = ThreadOf[q] => p = q

RowsCommitted ==
  \A r \in Requests : /\ status[r] # "absent" => txn[r] = "committed"
                      /\ status[r] = "absent" => body[r] = {}

SeenIsCurrent ==
  \A q \in Requests : txn[q] = "selected" /\ pick[q] # NoRow =>
    /\ status[pick[q]] # "absent"
    /\ ThreadOf[pick[q]] = ThreadOf[q]
    /\ seen[q] = body[pick[q]]

TextInv == LockHeldByOne /\ RowsCommitted /\ SeenIsCurrent /\ TextKept

LEMMA InitTextInv == Init => TextInv
  BY DEF Init, QueueInit, TextInv, LockHeldByOne, RowsCommitted, SeenIsCurrent, TextKept

\* A worker changes the status of rows that exist, and nothing else TextInv reads.
LEMMA WorkerTextInv ==
  ASSUME TypeOK, Holding, ReplyInv, TextInv, NEW w \in Workers, WorkerStep(w) \/ Crash(w)
  PROVE  TextInv'
<1>1. /\ UNCHANGED <<body, txn, pick, seen>>
      /\ \A r \in Requests : status'[r] = "absent" <=> status[r] = "absent"
  <2>1. CASE UNCHANGED <<table, calls>>
    BY <2>1 DEF table, calls
  <2>2. CASE Claim(w) \/ ClaimNone(w)
    BY <2>2 DEF Claim, ClaimNone, ClaimRow, ClaimNothing, Claimable, FailExhausted,
                Exhausted, calls, TypeOK, TableTypeOK
  <2>3. CASE MarkDone(w) \/ Requeue(w) \/ GiveUp(w)
    BY <2>3 DEF MarkDone, Requeue, GiveUp, SetDone, SetQueued, SetFailed, GoTo, calls,
                Holding, ReplyInv, AttemptHeld, TypeOK, TableTypeOK
  <2> QED
    BY <2>1, <2>2, <2>3
    DEF WorkerStep, Crash, Answer, AnswerRaises, Send, SendRaises, MarkDoneRaises,
        Upsert, UpsertRaises, MarkFailedRetries, MarkFailedForGood
<1>2. \A q \in Requests : pick[q] # NoRow => pick[q] \in Requests
  BY DEF TypeOK, CallsTypeOK
<1> QED
  BY <1>1, <1>2 DEF TextInv, LockHeldByOne, RowsCommitted, SeenIsCurrent, TextKept

LEMMA EnqueueTextInv ==
  ASSUME TypeOK, TextInv, NEW q \in Requests, Enqueue(q)
  PROVE  TextInv'
<1>1. TableTypeOK /\ CallsTypeOK /\ \A p \in Requests : pick[p] # NoRow => pick[p] \in Requests
  BY DEF TypeOK, CallsTypeOK
<1>2. \A p \in Requests : txn[p] # "committed" => body[p] = {} /\ \A r \in Requests : p \notin body[r]
  BY DEF TextInv, RowsCommitted, TextKept
<1> USE DEF TextInv
<1>3. CASE BeginEnqueue(q)
  BY <1>1, <1>3
  DEF BeginEnqueue, table, CallsTypeOK, LockHeldByOne, RowsCommitted, SeenIsCurrent, TextKept
<1>4. CASE EnqueueMedia(q)
  <2>1. /\ \A p \in Requests : txn'[p] = IF p = q THEN "committed" ELSE txn[p]
        /\ \A r \in Requests : status'[r] = IF r = q THEN "queued" ELSE status[r]
        /\ \A r \in Requests : body'[r] = IF r = q THEN {q} ELSE body[r]
        /\ UNCHANGED <<pick, seen>> /\ txn[q] = "begun"
    BY <1>1, <1>4 DEF EnqueueMedia, TableTypeOK, CallsTypeOK
  <2>2. LockHeldByOne' /\ RowsCommitted' /\ TextKept'
    BY <1>2, <2>1 DEF LockHeldByOne, RowsCommitted, TextKept
  <2>3. SeenIsCurrent'
    BY <1>1, <2>1 DEF SeenIsCurrent, RowsCommitted
  <2> QED
    BY <2>2, <2>3
<1>5. CASE SelectPending(q)
  <2> PICK r \in LatestPending(q) :
        /\ pick' = [pick EXCEPT ![q] = r]
        /\ seen' = [seen EXCEPT ![q] = IF r = NoRow THEN {} ELSE body[r]]
    BY <1>5 DEF SelectPending
  <2>1. r # NoRow => r \in Requests /\ status[r] # "absent" /\ ThreadOf[r] = ThreadOf[q]
    BY DEF LatestPending, Pending
  <2>2. /\ \A p \in Requests : txn'[p] = IF p = q THEN "selected" ELSE txn[p]
        /\ UNCHANGED <<status, body>> /\ txn[q] = "begun" /\ LockFree(q)
    BY <1>1, <1>5 DEF SelectPending, table, CallsTypeOK
  <2>3. LockHeldByOne' /\ RowsCommitted' /\ TextKept'
    BY <2>2 DEF LockFree, LockHeldByOne, RowsCommitted, TextKept
  <2>4. SeenIsCurrent'
    BY <1>1, <2>1, <2>2 DEF SeenIsCurrent, CallsTypeOK
  <2> QED
    BY <2>3, <2>4
<1>6. CASE ExtendPending(q)
  <2>1. /\ \A p \in Requests : txn'[p] = IF p = q THEN "committed" ELSE txn[p]
        /\ \A p \in Requests : p # q => pick'[p] = pick[p] /\ seen'[p] = seen[p]
        /\ \A r \in Requests : body'[r] = IF r = pick[q] THEN seen[q] \cup {q} ELSE body[r]
        /\ UNCHANGED status /\ txn[q] = "selected" /\ pick[q] \in Requests
    BY <1>1, <1>6 DEF ExtendPending, EndTxn, TableTypeOK, CallsTypeOK
  <2>2. seen[q] = body[pick[q]] /\ status[pick[q]] # "absent" /\ ThreadOf[pick[q]] = ThreadOf[q]
    BY <2>1, QueueAssumption DEF SeenIsCurrent
  <2>3. LockHeldByOne' /\ RowsCommitted' /\ TextKept'
    BY <1>2, <2>1, <2>2 DEF LockHeldByOne, RowsCommitted, TextKept
  <2>4. SeenIsCurrent'
    BY <1>1, <2>1, <2>2 DEF SeenIsCurrent, LockHeldByOne
  <2> QED
    BY <2>3, <2>4
<1>7. CASE InsertText(q)
  <2>1. /\ \A p \in Requests : txn'[p] = IF p = q THEN "committed" ELSE txn[p]
        /\ \A r \in Requests : status'[r] = IF r = q THEN "queued" ELSE status[r]
        /\ \A r \in Requests : body'[r] = IF r = q THEN {q} ELSE body[r]
        /\ \A p \in Requests : p # q => pick'[p] = pick[p] /\ seen'[p] = seen[p]
        /\ txn[q] = "selected"
    BY <1>1, <1>7 DEF InsertText, EndTxn, TableTypeOK, CallsTypeOK
  <2>2. LockHeldByOne' /\ RowsCommitted' /\ TextKept'
    BY <1>2, <2>1 DEF LockHeldByOne, RowsCommitted, TextKept
  <2>3. SeenIsCurrent'
    BY <1>1, <2>1 DEF SeenIsCurrent, RowsCommitted
  <2> QED
    BY <2>2, <2>3
<1>8. CASE AbortEnqueue(q)
  <2>1. /\ \A p \in Requests : txn'[p] = IF p = q THEN "aborted" ELSE txn[p]
        /\ \A p \in Requests : p # q => pick'[p] = pick[p] /\ seen'[p] = seen[p]
        /\ UNCHANGED <<status, body>> /\ txn[q] # "committed"
    BY <1>1, <1>8 DEF AbortEnqueue, Open, EndTxn, table, CallsTypeOK
  <2> QED
    BY <1>1, <2>1 DEF LockHeldByOne, RowsCommitted, SeenIsCurrent, TextKept
<1> QED
  BY <1>3, <1>4, <1>5, <1>6, <1>7, <1>8 DEF Enqueue

LEMMA NextTextInv == TypeOK /\ Holding /\ ReplyInv /\ TextInv /\ [Next]_vars => TextInv'
<1> SUFFICES ASSUME TypeOK, Holding, ReplyInv, TextInv, [Next]_vars
             PROVE  TextInv'
  OBVIOUS
<1>1. CASE Tick \/ UNCHANGED vars
  BY <1>1 DEF Tick, QueueTick, vars, TextInv, LockHeldByOne, RowsCommitted, SeenIsCurrent, TextKept
<1> QED
  BY <1>1, EnqueueTextInv, WorkerTextInv DEF Next

LEMMA Texts == Spec => []TextInv
<1>1. Init => TextInv
  BY InitTextInv
<1> QED
  BY <1>1, NextTextInv, Replies, PTL DEF Spec

\* Concurrent webhooks of one sender lose and double no text.
THEOREM NoTextLostByEnqueue == Spec => []TextKept
  BY Texts, PTL DEF TextInv

(***************************************************************************)
(* Refinement.  Every step of the queue and its workers is, row by row, a  *)
(* step of ReplyContract or leaves the row alone.                          *)
(***************************************************************************)
\* What a step must show about row r, in the terms of this module.
RowRefines(r) ==
  Contract!RowStep(r) \/ Contract!Keep(r)

LEMMA EnqueueRefines ==
  ASSUME TypeOK, TextInv, NEW q \in Requests, Enqueue(q), NEW r \in Requests
  PROVE  RowRefines(r)
<1>1. /\ UNCHANGED <<attempts, sent>>
      /\ \/ status'[r] = status[r]
         \/ status[r] = "absent" /\ status'[r] = "queued"
  BY DEF Enqueue, BeginEnqueue, EnqueueMedia, SelectPending, ExtendPending, InsertText,
         AbortEnqueue, EndTxn, table, workerVars, TypeOK, TableTypeOK, TextInv, RowsCommitted
<1> QED
  BY <1>1 DEF RowRefines, RowState, Contract!RowStep, Contract!Keep, Contract!Accept

LEMMA WorkerRefines ==
  ASSUME TypeOK, Holding, ReplyInv, NEW w \in Workers, WorkerStep(w) \/ Crash(w),
         NEW r \in Requests
  PROVE  RowRefines(r)
<1> USE DEF RowRefines, RowState
<1>1. TableTypeOK /\ WorkerTypeOK
  BY DEF TypeOK
<1>2. CASE UNCHANGED <<status, attempts, sent>>
  BY <1>2 DEF Contract!Keep
<1>3. CASE Claim(w) \/ ClaimNone(w)
  <2>1. sent' = sent
    BY <1>3 DEF Claim, ClaimNone
  <2>2. CASE status[r] \in {"queued", "processing"} /\ status'[r] = "processing"
             /\ attempts[r] < MaxAttempts /\ attempts'[r] = attempts[r] + 1
    BY <2>1, <2>2 DEF Contract!RowStep, Contract!Try
  <2>3. CASE status'[r] = "failed" /\ status[r] = "processing"
             /\ attempts[r] = MaxAttempts /\ attempts'[r] = attempts[r]
    BY <2>1, <2>3 DEF Contract!RowStep, Contract!GiveUpOn
  <2>4. CASE status'[r] = status[r] /\ attempts'[r] = attempts[r]
    BY <2>1, <2>4 DEF Contract!Keep
  <2>5. r \in Exhausted => status[r] = "processing" /\ attempts[r] = MaxAttempts
    BY <1>1, QueueAssumption DEF Exhausted, TableTypeOK
  <2>6. CASE Claim(w)
    <3> PICK x \in Requests : ClaimRow(x, LockedByEnqueue \cup LockedByOthers(w))
      BY <2>6 DEF Claim
    <3>1. /\ status'[r] = IF r = x THEN "processing"
                          ELSE IF r \in Exhausted THEN "failed" ELSE status[r]
          /\ attempts'[r] = IF r = x THEN attempts[x] + 1 ELSE attempts[r]
          /\ status[x] \in {"queued", "processing"} /\ attempts[x] < MaxAttempts
      BY <1>1 DEF ClaimRow, Claimable, FailExhausted, TableTypeOK
    <3> QED
      BY <2>2, <2>3, <2>4, <2>5, <3>1
  <2>7. CASE ClaimNone(w)
    <3>1. /\ status'[r] = IF r \in Exhausted THEN "failed" ELSE status[r]
          /\ attempts'[r] = attempts[r]
      BY <2>7 DEF ClaimNone, ClaimNothing, FailExhausted
    <3> QED
      BY <2>3, <2>4, <2>5, <3>1
  <2> QED
    BY <1>3, <2>6, <2>7
<1>4. CASE Delivered(w) /\ pc[w] = "send" /\ UNCHANGED table
  <2> DEFINE a == try[w]
  <2>1. /\ msg[w] \in Requests /\ a \in 1..attempts[msg[w]] /\ a \in 1..MaxAttempts
        /\ sent[msg[w]][a] = 0 /\ status[msg[w]] # "absent"
    BY <1>1, <1>4 DEF Holding, ReplyInv, NotYetSent, AttemptHeld, TableTypeOK
  <2>2. UNCHANGED <<status, attempts>>
    BY <1>4 DEF table
  <2>3. CASE r = msg[w]
    <3>1. sent'[r] = [sent[r] EXCEPT ![a] = 1]
      BY <1>1, <1>4, <2>1, <2>3 DEF Delivered, WorkerTypeOK
    <3> QED
      BY <2>1, <2>2, <2>3, <3>1 DEF Contract!RowStep, Contract!Reply
  <2>4. CASE r # msg[w]
    BY <1>1, <1>4, <2>2, <2>4 DEF Delivered, WorkerTypeOK, Contract!Keep
  <2> QED
    BY <2>3, <2>4
<1>5. CASE MarkDone(w)
  <2> DEFINE a == try[w]
  <2>1. /\ msg[w] \in Requests /\ a \in 1..attempts[msg[w]] /\ a \in 1..MaxAttempts
        /\ sent[msg[w]][a] > 0 /\ status[msg[w]] # "absent"
    BY <1>1, <1>5 DEF MarkDone, GoTo, Holding, ReplyInv, SentBeforeDone, AttemptHeld, TableTypeOK
  <2>2. sent[msg[w]][a] = 1
    <3>1. sent[msg[w]][a] \in Nat /\ attempts[msg[w]] \in Nat
      BY <1>1, <2>1, QueueAssumption DEF WorkerTypeOK, TableTypeOK
    <3>2. sent[msg[w]][a] <= 1
      BY <2>1, <3>1 DEF ReplyInv, OneReplyPerAttempt
    <3> QED
      BY <2>1, <3>1, <3>2
  <2>3. UNCHANGED <<attempts, sent>> /\ status'[r] = IF r = msg[w] THEN "done" ELSE status[r]
    BY <1>1, <1>5, <2>1 DEF MarkDone, SetDone, TableTypeOK
  <2> QED
    BY <2>1, <2>2, <2>3 DEF Contract!RowStep, Contract!Close, Contract!Keep
<1>6. CASE Requeue(w)
  <2>1. msg[w] \in Requests /\ status[msg[w]] # "absent"
    BY <1>6 DEF Requeue, Holding, ReplyInv, AttemptHeld
  <2>2. UNCHANGED <<attempts, sent>> /\ status'[r] = IF r = msg[w] THEN "queued" ELSE status[r]
    BY <1>1, <1>6, <2>1 DEF Requeue, SetQueued, TableTypeOK
  <2> QED
    BY <1>1, <2>1, <2>2
    DEF TableTypeOK, Statuses, Contract!RowStep, Contract!Reopen, Contract!Keep
<1>7. CASE GiveUp(w)
  <2>1. /\ msg[w] \in Requests /\ status[msg[w]] # "absent"
        /\ attempts[msg[w]] = MaxAttempts
    BY <1>7 DEF GiveUp, Holding, ReplyInv, AttemptHeld, SpentBeforeGivingUp
  <2>2. UNCHANGED <<attempts, sent>> /\ status'[r] = IF r = msg[w] THEN "failed" ELSE status[r]
    BY <1>1, <1>7, <2>1 DEF GiveUp, SetFailed, TableTypeOK
  <2> QED
    BY <2>1, <2>2 DEF Contract!RowStep, Contract!GiveUpOn, Contract!Keep
<1>8. CASE Send(w) \/ SendRaises(w)
  BY <1>2, <1>4, <1>8 DEF Send, SendRaises, GoTo, table
<1>9. CASE \/ Answer(w) \/ AnswerRaises(w) \/ MarkDoneRaises(w) \/ Upsert(w) \/ UpsertRaises(w)
           \/ MarkFailedRetries(w) \/ MarkFailedForGood(w) \/ Crash(w)
  BY <1>2, <1>9
  DEF Answer, AnswerRaises, MarkDoneRaises, Upsert, UpsertRaises, MarkFailedRetries,
      MarkFailedForGood, Crash, table
<1> QED
  BY <1>3, <1>5, <1>6, <1>7, <1>8, <1>9 DEF WorkerStep

\* The rows of message_queue behave as ReplyContract says, for any number of workers.
THEOREM Refinement == Spec => ImplementsContract
<1>1. Init => Contract!ContractInit
  BY DEF Init, QueueInit, RowState, Contract!ContractInit
<1>2. TypeOK /\ Holding /\ ReplyInv /\ TextInv /\ [Next]_vars
        => [Contract!ContractNext]_(Contract!contractVars)
  <2> SUFFICES ASSUME TypeOK, Holding, ReplyInv, TextInv, [Next]_vars
               PROVE  [Contract!ContractNext]_(Contract!contractVars)
    OBVIOUS
  <2>1. CASE Tick \/ UNCHANGED vars
    BY <2>1 DEF Tick, QueueTick, vars, Contract!contractVars, RowState
  <2>2. CASE ~(Tick \/ UNCHANGED vars)
    BY <2>2, EnqueueRefines, WorkerRefines DEF Next, RowRefines, Contract!ContractNext
  <2> QED
    BY <2>1, <2>2
<1> QED
  BY <1>1, <1>2, Replies, Texts, PTL DEF Spec, ImplementsContract, Contract!ContractSpec
=============================================================================
