--------------------------- MODULE ApprovalsProofs --------------------------
(***************************************************************************)
(* Proofs about Approvals, for any messages, users, proposals and workers. *)
(***************************************************************************)
EXTENDS Approvals, TLAPS

\* A worker that handles a message holds it, and what it looked up is an approval.
Holding ==
  \A w \in Workers :
    /\ pc[w] # "idle" => msg[w] \in Messages
    /\ pc[w] \in {"decide", "fetch", "execute", "record", "record_failure"}
         => target[w] \in Ids

\* Same for an outcome it is about to tell.
Telling ==
  \A w \in Workers : reply[w] \in Outcomes =>
    /\ target[w] \in Ids
    /\ status[target[w]] = reply[w]
    /\ reply[w] = "executed" => result[target[w]] = "returned"
    /\ pc[w] \in {"send", "mark_done", "upsert", "failing"}

\* The approval a worker is about to decide belongs to the sender of its message.
Addressee ==
  \A w \in Workers : pc[w] = "decide" =>
    /\ status[target[w]] # "absent"
    /\ owner[target[w]] = UserOf[msg[w]]

\* Two workers never execute the same approval.
Executing == {"fetch", "execute", "record", "record_failure"}

Apart ==
  \A v, w \in Workers :
    v # w /\ pc[v] \in Executing /\ pc[w] \in Executing => target[v] # target[w]

\* What the worker that executes an approval knows of it.
InHand ==
  \A w \in Workers :
    /\ pc[w] \in {"fetch", "execute"} =>
         status[target[w]] = "approved" /\ ran[target[w]] = 0 /\ result[target[w]] = "none"
    /\ pc[w] = "record" =>
         status[target[w]] = "approved" /\ ran[target[w]] = 1 /\ result[target[w]] = "returned"
    /\ pc[w] = "record_failure" =>
         /\ status[target[w]] \in {"approved", "executed"}
         /\ target[w] \in Unregistered \/ result[target[w]] \in {"raised", "unrecorded"}

\* What the status of an approval says of its executor and of its decision.
Ledger ==
  \A a \in Ids :
    /\ ran[a] \in {0, 1}
    /\ status[a] \in {"absent", "pending", "rejected"} => ran[a] = 0 /\ result[a] = "none"
    /\ status[a] = "executed" => ran[a] = 1
    /\ status[a] = "failed" => a \in Unregistered \/ result[a] \in {"raised", "unrecorded"}
    /\ result[a] = "unrecorded" => ran[a] = 1
    /\ status[a] \in {"approved", "executed", "failed"} =>
         /\ decider[a] \in Messages
         /\ Verdict[decider[a]] = "approve"
         /\ UserOf[decider[a]] = owner[a]

Told ==
  \A a \in Ids, o \in Outcomes : <<a, o>> \in told =>
    status[a] = o /\ (o = "executed" => result[a] = "returned")

Inv ==
  /\ TypeOK /\ Holding /\ Telling /\ Addressee
  /\ Apart /\ InHand /\ Ledger /\ Told

-----------------------------------------------------------------------------
LEMMA InitInv == Init => Inv
  BY ApprovalsAssumption
  DEF Init, Inv, TypeOK, Holding, Telling, Addressee, Executing, Apart, InHand, Ledger,
      Told, Statuses, Outcomes, Results, Steps

\* Lookups, and the handing over to the agent, change no table.
LEMMA LookupInv ==
  ASSUME Inv, NEW x \in Workers,
         Lookup(x) \/ NotAVerdict(x) \/ DecideMisses(x) \/ RecordFailureMisses(x)
  PROVE  Inv'
<1> USE DEF Inv, Executing, GoTo, queue, approvals, history, Outcomes, Steps
<1>1. CASE Lookup(x)
  BY <1>1 DEF TypeOK, Holding, Telling, Addressee, Apart, InHand, Ledger, Told, Lookup,
         Addressed, LatestPending, OwnPending
<1>2. CASE NotAVerdict(x)
  BY <1>2 DEF TypeOK, Holding, Telling, Addressee, Apart, InHand, Ledger, Told,
         NotAVerdict
<1>3. CASE DecideMisses(x)
  BY <1>3 DEF TypeOK, Holding, Telling, Addressee, Apart, InHand, Ledger, Told,
         DecideMisses
<1>4. CASE RecordFailureMisses(x)
  BY <1>4 DEF TypeOK, Holding, Telling, Addressee, Apart, InHand, Ledger, Told,
         RecordFailureMisses
<1> QED
  BY <1>1, <1>2, <1>3, <1>4

\* Nor do the reads of execute_approval, the answer of the agent, an exception, a crash.
LEMMA AgentInv ==
  ASSUME Inv, NEW x \in Workers,
         Fetch(x) \/ AgentAnswers(x) \/ Raises(x) \/ Crash(x)
  PROVE  Inv'
<1> USE DEF Inv, Executing, GoTo, queue, approvals, history, Outcomes, Steps
<1>1. CASE Fetch(x)
  BY <1>1 DEF TypeOK, Holding, Telling, Addressee, Apart, InHand, Ledger, Told, Fetch
<1>2. CASE AgentAnswers(x)
  BY <1>2 DEF TypeOK, Holding, Telling, Addressee, Apart, InHand, Ledger, Told, AgentAnswers
<1>3. CASE Raises(x)
  BY <1>3 DEF TypeOK, Holding, Telling, Addressee, Apart, InHand, Ledger, Told, Raises
<1>4. CASE Crash(x)
  BY <1>4 DEF TypeOK, Holding, Telling, Addressee, Apart, InHand, Ledger, Told, Crash, Leave
<1> QED
  BY <1>1, <1>2, <1>3, <1>4

\* The end of a turn changes the queue alone.
LEMMA QueueInv ==
  ASSUME Inv, NEW x \in Workers,
         MarkDone(x) \/ Upsert(x) \/ MarkFailed(x)
  PROVE  Inv'
<1> USE DEF Inv, Executing, GoTo, queue, approvals, history, Outcomes, Steps
<1>1. CASE MarkDone(x)
  BY <1>1 DEF TypeOK, Holding, Telling, Addressee, Apart, InHand, Ledger, Told, MarkDone
<1>2. CASE Upsert(x)
  BY <1>2 DEF TypeOK, Holding, Telling, Addressee, Apart, InHand, Ledger, Told, Upsert, Leave
<1>3. CASE MarkFailed(x)
  BY <1>3 DEF TypeOK, Holding, Telling, Addressee, Apart, InHand, Ledger, Told,
         MarkFailed, Leave
<1> QED
  BY <1>1, <1>2, <1>3

\* What was told of an approval stays true when no concluded approval changes.
LEMMA ToldKept ==
  ASSUME Told, told' = told,
         \A a \in Ids : status[a] \in Outcomes => status'[a] = status[a] /\ result'[a] = result[a]
  PROVE  Told'
  BY DEF Told

\* mark_approved finds the approval pending, so no other worker is executing it.
LEMMA ApproveInv ==
  ASSUME Inv, NEW x \in Workers, Approve(x)
  PROVE  Inv'
<1> USE ApprovalsAssumption
    DEF Inv, Approve, GoTo, Decided, Transition, queue, approvals, history
<1>1. TypeOK'
  BY DEF TypeOK, Holding, Telling, Statuses, Outcomes, Results, Steps
<1>2. Holding'
  BY DEF TypeOK, Holding
<1>3. Telling'
  BY DEF TypeOK, Holding, Telling, InHand, Outcomes
<1>4. Addressee'
  BY DEF TypeOK, Holding, Addressee
<1>5. Apart'
  BY DEF TypeOK, Holding, Apart, InHand, Executing
<1>6. InHand'
  BY DEF TypeOK, Holding, Apart, InHand, Ledger, Executing
<1>7. Ledger'
  BY DEF TypeOK, Holding, Addressee, InHand, Ledger
<1>8. Told'
  <2>1. \A a \in Ids : status[a] \in Outcomes => status'[a] = status[a] /\ result'[a] = result[a]
    BY DEF TypeOK, Holding, InHand, Outcomes
  <2> QED
    BY <2>1, ToldKept
<1> QED
  BY <1>1, <1>2, <1>3, <1>4, <1>5, <1>6, <1>7, <1>8

\* mark_rejected finds the approval pending, hence never executed.
LEMMA RejectInv ==
  ASSUME Inv, NEW x \in Workers, Reject(x)
  PROVE  Inv'
<1> USE ApprovalsAssumption
    DEF Inv, Reject, GoTo, Decided, Transition, queue, approvals, history
<1>1. TypeOK'
  BY DEF TypeOK, Holding, Telling, Statuses, Outcomes, Results, Steps
<1>2. Holding'
  BY DEF TypeOK, Holding
<1>3. Telling'
  BY DEF TypeOK, Holding, Telling, InHand, Outcomes
<1>4. Addressee'
  BY DEF TypeOK, Holding, Addressee
<1>5. Apart'
  BY DEF TypeOK, Holding, Apart, InHand, Executing
<1>6. InHand'
  BY DEF TypeOK, Holding, Apart, InHand, Ledger, Executing
<1>7. Ledger'
  BY DEF TypeOK, Holding, Addressee, InHand, Ledger
<1>8. Told'
  <2>1. \A a \in Ids : status[a] \in Outcomes => status'[a] = status[a] /\ result'[a] = result[a]
    BY DEF TypeOK, Holding, InHand, Outcomes
  <2> QED
    BY <2>1, ToldKept
<1> QED
  BY <1>1, <1>2, <1>3, <1>4, <1>5, <1>6, <1>7, <1>8

\* The same when the UPDATE commits and its acknowledgement is lost.
LEMMA DecideRaisesInv ==
  ASSUME Inv, NEW x \in Workers, DecideRaises(x)
  PROVE  Inv'
<1> USE ApprovalsAssumption
    DEF Inv, DecideRaises, GoTo, Decided, Transition, queue, approvals, history
<1>1. TypeOK'
  BY DEF TypeOK, Holding, Telling, Statuses, Outcomes, Results, Steps
<1>2. Holding'
  BY DEF TypeOK, Holding
<1>3. Telling'
  BY DEF TypeOK, Holding, Telling, InHand, Outcomes
<1>4. Addressee'
  BY DEF TypeOK, Holding, Addressee
<1>5. Apart'
  BY DEF TypeOK, Holding, Apart, InHand, Executing
<1>6. InHand'
  BY DEF TypeOK, Holding, Apart, InHand, Ledger, Executing
<1>7. Ledger'
  BY DEF TypeOK, Holding, Addressee, InHand, Ledger
<1>8. Told'
  <2>1. \A a \in Ids : status[a] \in Outcomes => status'[a] = status[a] /\ result'[a] = result[a]
    BY DEF TypeOK, Outcomes
  <2> QED
    BY <2>1, ToldKept
<1> QED
  BY <1>1, <1>2, <1>3, <1>4, <1>5, <1>6, <1>7, <1>8

\* The executor of an approval in hand has not run before.
LEMMA ExecuteInv ==
  ASSUME Inv, NEW x \in Workers, Execute(x)
  PROVE  Inv'
<1> USE ApprovalsAssumption DEF Inv, Execute, GoTo, queue, approvals, history
<1> target[x] \in Ids
  BY DEF Holding
<1> ran[target[x]] \in Nat /\ ran[target[x]] + 1 \in Nat
  BY DEF TypeOK
<1>1. TypeOK'
  BY DEF TypeOK, Holding, Telling, Statuses, Outcomes, Results, Steps
<1>2. Holding'
  BY DEF TypeOK, Holding
<1>3. Telling'
  BY DEF TypeOK, Holding, Telling, InHand, Outcomes
<1>4. Addressee'
  BY DEF TypeOK, Holding, Addressee
<1>5. Apart'
  BY DEF TypeOK, Holding, Apart, InHand, Executing
<1>6. InHand'
  BY DEF TypeOK, Holding, Apart, InHand, Ledger, Executing
<1>7. Ledger'
  BY DEF TypeOK, Holding, Addressee, InHand, Ledger
<1>8. Told'
  <2>1. \A a \in Ids : status[a] \in Outcomes => status'[a] = status[a] /\ result'[a] = result[a]
    BY DEF TypeOK, Holding, InHand, Outcomes
  <2> QED
    BY <2>1, ToldKept
<1> QED
  BY <1>1, <1>2, <1>3, <1>4, <1>5, <1>6, <1>7, <1>8

\* Whether it acts before it raises or not, it is not called again.
LEMMA ExecutorRaisesInv ==
  ASSUME Inv, NEW x \in Workers, ExecutorRaises(x)
  PROVE  Inv'
<1> USE ApprovalsAssumption DEF Inv, ExecutorRaises, GoTo, queue, approvals, history
<1> target[x] \in Ids
  BY DEF Holding
<1> ran[target[x]] \in Nat /\ ran[target[x]] + 1 \in Nat
  BY DEF TypeOK
<1>1. TypeOK'
  BY DEF TypeOK, Holding, Telling, Statuses, Outcomes, Results, Steps
<1>2. Holding'
  BY DEF TypeOK, Holding
<1>3. Telling'
  BY DEF TypeOK, Holding, Telling, InHand, Outcomes
<1>4. Addressee'
  BY DEF TypeOK, Holding, Addressee
<1>5. Apart'
  BY DEF TypeOK, Holding, Apart, InHand, Executing
<1>6. InHand'
  BY DEF TypeOK, Holding, Apart, InHand, Ledger, Executing
<1>7. Ledger'
  BY DEF TypeOK, Holding, Addressee, InHand, Ledger
<1>8. Told'
  <2>1. \A a \in Ids : status[a] \in Outcomes => status'[a] = status[a] /\ result'[a] = result[a]
    BY DEF TypeOK, Holding, InHand, Outcomes
  <2> QED
    BY <2>1, ToldKept
<1> QED
  BY <1>1, <1>2, <1>3, <1>4, <1>5, <1>6, <1>7, <1>8

\* The outcome is recorded by the worker that holds the approval.
LEMMA RecordInv ==
  ASSUME Inv, NEW x \in Workers, Record(x)
  PROVE  Inv'
<1> USE ApprovalsAssumption DEF Inv, Record, GoTo, Transition, queue, approvals, history
<1>1. TypeOK'
  BY DEF TypeOK, Holding, Telling, Statuses, Outcomes, Results, Steps
<1>2. Holding'
  BY DEF TypeOK, Holding
<1>3. Telling'
  BY DEF TypeOK, Holding, Telling, InHand, Outcomes
<1>4. Addressee'
  BY DEF TypeOK, Holding, Addressee
<1>5. Apart'
  BY DEF TypeOK, Holding, Apart, InHand, Executing
<1>6. InHand'
  BY DEF TypeOK, Holding, Apart, InHand, Ledger, Executing
<1>7. Ledger'
  BY DEF TypeOK, Holding, Addressee, InHand, Ledger
<1>8. Told'
  <2>1. \A a \in Ids : status[a] \in Outcomes => status'[a] = status[a] /\ result'[a] = result[a]
    BY DEF TypeOK, Holding, InHand, Outcomes
  <2> QED
    BY <2>1, ToldKept
<1> QED
  BY <1>1, <1>2, <1>3, <1>4, <1>5, <1>6, <1>7, <1>8

\* An UPDATE that raises may have been committed.
LEMMA RecordRaisesInv ==
  ASSUME Inv, NEW x \in Workers, RecordRaises(x)
  PROVE  Inv'
<1> USE ApprovalsAssumption DEF Inv, RecordRaises, GoTo, Transition, queue, approvals, history
<1>1. TypeOK'
  BY DEF TypeOK, Holding, Telling, Statuses, Outcomes, Results, Steps
<1>2. Holding'
  BY DEF TypeOK, Holding
<1>3. Telling'
  BY DEF TypeOK, Holding, Telling, InHand, Outcomes
<1>4. Addressee'
  BY DEF TypeOK, Holding, Addressee
<1>5. Apart'
  BY DEF TypeOK, Holding, Apart, InHand, Executing
<1>6. InHand'
  BY DEF TypeOK, Holding, Apart, InHand, Ledger, Executing
<1>7. Ledger'
  BY DEF TypeOK, Holding, Addressee, InHand, Ledger
<1>8. Told'
  <2>1. told' = told
    OBVIOUS
  <2>2. \A a \in Ids : status[a] \in Outcomes => status'[a] = status[a] /\ result'[a] = result[a]
    BY DEF TypeOK, Holding, InHand, Outcomes
  <2> QED
    BY <2>1, <2>2 DEF TypeOK, Told
<1> QED
  BY <1>1, <1>2, <1>3, <1>4, <1>5, <1>6, <1>7, <1>8

\* The failure of an executor is recorded over "approved" alone.
LEMMA RecordFailureInv ==
  ASSUME Inv, NEW x \in Workers, RecordFailure(x)
  PROVE  Inv'
<1> USE ApprovalsAssumption DEF Inv, RecordFailure, GoTo, Transition, queue, approvals, history
<1>1. TypeOK'
  BY DEF TypeOK, Holding, Telling, Statuses, Outcomes, Results, Steps
<1>2. Holding'
  BY DEF TypeOK, Holding
<1>3. Telling'
  BY DEF TypeOK, Holding, Telling, InHand, Outcomes
<1>4. Addressee'
  BY DEF TypeOK, Holding, Addressee
<1>5. Apart'
  BY DEF TypeOK, Holding, Apart, InHand, Executing
<1>6. InHand'
  BY DEF TypeOK, Holding, Apart, InHand, Ledger, Executing
<1>7. Ledger'
  BY DEF TypeOK, Holding, Addressee, InHand, Ledger
<1>8. Told'
  <2>1. \A a \in Ids : status[a] \in Outcomes => status'[a] = status[a] /\ result'[a] = result[a]
    BY DEF TypeOK, Holding, InHand, Outcomes
  <2> QED
    BY <2>1, ToldKept
<1> QED
  BY <1>1, <1>2, <1>3, <1>4, <1>5, <1>6, <1>7, <1>8

\* The same, unacknowledged.
LEMMA RecordFailureRaisesInv ==
  ASSUME Inv, NEW x \in Workers, RecordFailureRaises(x)
  PROVE  Inv'
<1> USE ApprovalsAssumption
    DEF Inv, RecordFailureRaises, GoTo, Transition, queue, approvals, history
<1>1. TypeOK'
  BY DEF TypeOK, Holding, Telling, Statuses, Outcomes, Results, Steps
<1>2. Holding'
  BY DEF TypeOK, Holding
<1>3. Telling'
  BY DEF TypeOK, Holding, Telling, InHand, Outcomes
<1>4. Addressee'
  BY DEF TypeOK, Holding, Addressee
<1>5. Apart'
  BY DEF TypeOK, Holding, Apart, InHand, Executing
<1>6. InHand'
  BY DEF TypeOK, Holding, Apart, InHand, Ledger, Executing
<1>7. Ledger'
  BY DEF TypeOK, Holding, Addressee, InHand, Ledger
<1>8. Told'
  <2>1. told' = told
    OBVIOUS
  <2>2. \A a \in Ids : status[a] \in Outcomes => status'[a] = status[a] /\ result'[a] = result[a]
    BY DEF TypeOK, Holding, InHand, Outcomes
  <2> QED
    BY <2>1, <2>2 DEF TypeOK, Told
<1> QED
  BY <1>1, <1>2, <1>3, <1>4, <1>5, <1>6, <1>7, <1>8

\* The id of a proposal is new: nothing was told of it, and it is in nobody's hands.
LEMMA ProposeInv ==
  ASSUME Inv, NEW x \in Workers, Propose(x)
  PROVE  Inv'
<1> USE ApprovalsAssumption DEF Inv, Propose, GoTo, queue, approvals, history
<1> PICK n \in Ids : /\ Created = 1..(n - 1)
                     /\ status' = [status EXCEPT ![n] = "pending"]
                     /\ owner' = [owner EXCEPT ![n] = UserOf[msg[x]]]
  OBVIOUS
<1> status[n] = "absent"
  BY DEF Created, Ids
<1>1. TypeOK'
  BY DEF TypeOK, Holding, Telling, Statuses, Outcomes, Results, Steps
<1>2. Holding'
  BY DEF TypeOK, Holding
<1>3. Telling'
  BY DEF TypeOK, Holding, Telling, InHand, Outcomes
<1>4. Addressee'
  BY DEF TypeOK, Holding, Addressee
<1>5. Apart'
  BY DEF TypeOK, Holding, Apart, InHand, Executing
<1>6. InHand'
  BY DEF TypeOK, Holding, Apart, InHand, Ledger, Executing
<1>7. Ledger'
  BY DEF TypeOK, Holding, Addressee, InHand, Ledger
<1>8. Told'
  <2>1. \A a \in Ids : status[a] \in Outcomes => status'[a] = status[a] /\ result'[a] = result[a]
    BY DEF TypeOK, Outcomes
  <2> QED
    BY <2>1, ToldKept
<1> QED
  BY <1>1, <1>2, <1>3, <1>4, <1>5, <1>6, <1>7, <1>8

\* What is told anew is the reply of the worker.
LEMMA ToldAnew ==
  ASSUME Inv, NEW x \in Workers, Tell(x), UNCHANGED <<status, result>>
  PROVE  Told'
<1> SUFFICES ASSUME NEW a \in Ids, NEW o \in Outcomes, <<a, o>> \in told'
             PROVE  status[a] = o /\ (o = "executed" => result[a] = "returned")
  BY DEF Told
<1>1. CASE <<a, o>> \in told
  BY <1>1 DEF Inv, Told
<1>2. CASE <<a, o>> \notin told
  <2>1. reply[x] \in Outcomes /\ a = target[x] /\ o = reply[x]
    BY <1>2 DEF Tell
  <2> QED
    BY <2>1 DEF Inv, Telling
<1> QED
  BY <1>1, <1>2

\* What is told is the status of the approval.
LEMMA SendInv ==
  ASSUME Inv, NEW x \in Workers, Send(x)
  PROVE  Inv'
<1> USE ApprovalsAssumption DEF Inv, Send, GoTo, Tell, queue, approvals, history
<1> told' \subseteq Ids \X Outcomes
  BY DEF TypeOK, Telling, Tell
<1>1. TypeOK'
  BY DEF TypeOK, Holding, Telling, Statuses, Outcomes, Results, Steps
<1>2. Holding'
  BY DEF TypeOK, Holding
<1>3. Telling'
  BY DEF TypeOK, Holding, Telling, InHand, Outcomes
<1>4. Addressee'
  BY DEF TypeOK, Holding, Addressee
<1>5. Apart'
  BY DEF TypeOK, Holding, Apart, InHand, Executing
<1>6. InHand'
  BY DEF TypeOK, Holding, Apart, InHand, Ledger, Executing
<1>7. Ledger'
  BY DEF TypeOK, Holding, Addressee, InHand, Ledger
<1>8. Told'
  BY ToldAnew
<1> QED
  BY <1>1, <1>2, <1>3, <1>4, <1>5, <1>6, <1>7, <1>8

\* So is what may have been told.
LEMMA SendRaisesInv ==
  ASSUME Inv, NEW x \in Workers, SendRaises(x)
  PROVE  Inv'
<1> USE ApprovalsAssumption DEF Inv, SendRaises, GoTo, queue, approvals, history
<1> told' \subseteq Ids \X Outcomes
  BY DEF TypeOK, Telling, Tell
<1>1. TypeOK'
  BY DEF TypeOK, Holding, Telling, Statuses, Outcomes, Results, Steps
<1>2. Holding'
  BY DEF TypeOK, Holding
<1>3. Telling'
  BY DEF TypeOK, Holding, Telling, InHand, Outcomes
<1>4. Addressee'
  BY DEF TypeOK, Holding, Addressee
<1>5. Apart'
  BY DEF TypeOK, Holding, Apart, InHand, Executing
<1>6. InHand'
  BY DEF TypeOK, Holding, Apart, InHand, Ledger, Executing
<1>7. Ledger'
  BY DEF TypeOK, Holding, Addressee, InHand, Ledger
<1>8. Told'
  <2>1. CASE told' = told
    BY <2>1, ToldKept
  <2>2. CASE Tell(x)
    BY <2>2, ToldAnew
  <2> QED
    BY <2>1, <2>2
<1> QED
  BY <1>1, <1>2, <1>3, <1>4, <1>5, <1>6, <1>7, <1>8

\* Arrivals and claims leave the approvals alone.
LEMMA ArriveInv ==
  ASSUME Inv, NEW m \in Messages, Arrive(m)
  PROVE  Inv'
  BY DEF Inv, TypeOK, Holding, Telling, Addressee, Apart, Executing, InHand, Ledger, Told,
         Arrive, approvals, history

LEMMA ClaimInv ==
  ASSUME Inv, NEW x \in Workers, Claim(x) \/ ClaimNone(x)
  PROVE  Inv'
<1> USE ApprovalsAssumption
    DEF Inv, Holding, Telling, Addressee, Apart, Executing, InHand, Ledger, Told, Outcomes,
        Steps, approvals, history
<1>1. CASE Claim(x)
  <2>1. TypeOK'
    BY <1>1 DEF Claim, TypeOK, FailExpired, Exhausted
  <2> QED
    BY <1>1, <2>1 DEF Claim, TypeOK
<1>2. CASE ClaimNone(x)
  <2>1. TypeOK'
    BY <1>2 DEF ClaimNone, TypeOK, FailExpired, Exhausted
  <2> QED
    BY <1>2, <2>1 DEF ClaimNone, TypeOK
<1> QED
  BY <1>1, <1>2

LEMMA StepInv == Inv /\ [Next]_vars => Inv'
<1> SUFFICES ASSUME Inv, [Next]_vars
             PROVE  Inv'
  OBVIOUS
<1>1. CASE \E m \in Messages : Arrive(m)
  BY <1>1, ArriveInv
<1>2. CASE \E x \in Workers : Claim(x) \/ ClaimNone(x)
  BY <1>2, ClaimInv
<1>3. ASSUME NEW x \in Workers, Handle(x) \/ Crash(x)
      PROVE  Inv'
  BY <1>3, LookupInv, AgentInv, QueueInv, ApproveInv, RejectInv, DecideRaisesInv,
     ExecuteInv, ExecutorRaisesInv, RecordInv, RecordRaisesInv, RecordFailureInv,
     RecordFailureRaisesInv, ProposeInv, SendInv, SendRaisesInv
  DEF Handle
<1>4. CASE UNCHANGED vars
  BY <1>4 DEF vars, Inv, TypeOK, Holding, Telling, Addressee, Apart, Executing, InHand,
              Ledger, Told
<1> QED
  BY <1>1, <1>2, <1>3, <1>4 DEF Next

\* Inv is an invariant of every behaviour.
THEOREM Invariance == Spec => []Inv
  BY InitInv, StepInv, PTL DEF Spec

-----------------------------------------------------------------------------
\* The variables of the approvals and of the workers keep their types.
THEOREM TypeCorrect == Spec => []TypeOK
<1>1. Inv => TypeOK
  BY DEF Inv
<1> QED
  BY <1>1, Invariance, PTL

\* Retries, crashes and racing workers never repeat an action in the outside world.
THEOREM ExecutedAtMostOnce == Spec => []RunsAtMostOnce
<1>1. Inv => RunsAtMostOnce
  BY DEF Inv, Ledger, RunsAtMostOnce
<1> QED
  BY <1>1, Invariance, PTL

\* No action without the approval of the user for whom it was proposed.
THEOREM ConsentRequired == Spec => []RunsByConsent
<1>1. Inv => RunsByConsent
  BY DEF Inv, TypeOK, Statuses, Ledger, RunsByConsent
<1> QED
  BY <1>1, Invariance, PTL

\* The user is told what the table says: "executed" after the executor returned, "cancelled"
\* when it was never called, and "failed" when there is none, it raised, or its success was
\* not recorded.
THEOREM TruthToldIfRecorded == Spec => []AnswersAreTrueIfRecorded
<1>1. Inv => AnswersAreTrueIfRecorded
  BY DEF Inv, TypeOK, Ledger, Told, Outcomes, AnswersAreTrueIfRecorded
<1> QED
  BY <1>1, Invariance, PTL

\* No interleaving takes a decision or an outcome back.
THEOREM NothingTakenBack == Spec => DecisionIsFinal
<1> DEFINE Legal ==
      \A a \in Ids : status'[a] # status[a] => status'[a] \in Successors(status[a])
<1>1. Inv /\ [Next]_vars => [Legal]_vars
  <2> SUFFICES ASSUME Inv, Next
               PROVE  Legal
    OBVIOUS
  <2>1. CASE UNCHANGED status
    BY <2>1
  <2>2. ASSUME NEW x \in Workers, Approve(x) \/ Reject(x) \/ DecideRaises(x)
        PROVE  Legal
    BY <2>2
    DEF Inv, TypeOK, Approve, Reject, DecideRaises, Decided, Transition, Successors
  <2>3. ASSUME NEW x \in Workers,
               Record(x) \/ RecordRaises(x) \/ RecordFailure(x) \/ RecordFailureRaises(x)
        PROVE  Legal
    BY <2>3
    DEF Inv, TypeOK, Record, RecordRaises, RecordFailure, RecordFailureRaises,
        Transition, Successors
  <2>4. ASSUME NEW x \in Workers, Propose(x)
        PROVE  Legal
    <3>1. PICK n \in Ids : Created = 1..(n - 1) /\ status' = [status EXCEPT ![n] = "pending"]
      BY <2>4 DEF Propose
    <3>2. status[n] = "absent"
      BY <3>1 DEF Ids, Created
    <3> QED
      BY <3>1, <3>2 DEF Inv, TypeOK, Successors
  <2> QED
    BY <2>1, <2>2, <2>3, <2>4
    DEF Next, Handle, approvals, Arrive, Claim, ClaimNone, Crash, Lookup, NotAVerdict,
        DecideMisses, Fetch, Execute, ExecutorRaises, RecordFailureMisses, AgentAnswers,
        Send, SendRaises, MarkDone, Upsert, Raises, MarkFailed
<1> QED
  BY <1>1, Invariance, PTL DEF Spec, DecisionIsFinal

=============================================================================
