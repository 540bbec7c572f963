------------------------- MODULE InstructorSyncProofs -----------------------
(***************************************************************************)
(* Proofs about InstructorSync, for any events, workers, names, photos and *)
(* durations: first the queue of events and its workers, then Drive.  What *)
(* holds for one worker only has Alone as its assumption.                  *)
(***************************************************************************)
EXTENDS InstructorSync, SequenceTheorems, NaturalsInduction, WellFoundedInduction,
        TLAPS

(***************************************************************************)
(* The queue of events.  A busy worker holds an attempt of an event that   *)
(* exists.                                                                 *)
(***************************************************************************)
Holding ==
  \A w \in Workers : stage[w] # "idle" =>
    evt[w] \in Events /\ try[w] \in 1..MaxAttempts /\ status[evt[w]] # "absent"

\* A row comes from a call that was answered; before it no handler can have ended.
Received ==
  \A e \in Events :
    /\ status[e] # "absent" => response[e] # "none"
    /\ status[e] = "absent" => \A a \in 1..MaxAttempts : outcomes[e][a] = "none"

EventInv == WorkerTypeOK /\ Holding /\ Received

LEMMA InitEventInv == WorkerInit => EventInv
<1> SUFFICES ASSUME WorkerInit PROVE EventInv
  OBVIOUS
<1>1. 0 \in 0..(MaxAttempts * BackoffTicks)
  BY EventQueueAssumption
<1> QED
  BY <1>1, EventQueueAssumption
  DEF WorkerInit, QueueInit, EventInv, WorkerTypeOK, QueueTypeOK, Statuses, Stages, Outcomes,
      NoLease, Holding, Received

\* The call of a producer inserts at most the row of its own event.
LEMMA ReceiveEventInv ==
  ASSUME EventInv, NEW e \in Events, NEW k \in Inputs, Receive(e, k),
         UNCHANGED <<workerVars, outcomes>>
  PROVE  EventInv'
<1>1. /\ response[e] = "none" /\ status[e] = "absent"
      /\ kind' = [kind EXCEPT ![e] = k]
      /\ UNCHANGED <<attempts, wait, lease>>
  BY DEF Receive, eventTable, EnqueueEvent, EventInv, Received
<1>2. \/ UNCHANGED <<status, older>>
      \/ /\ status' = [status EXCEPT ![e] = "queued"]
         /\ older' = [older EXCEPT ![e] = {o \in Events : status[o] # "absent"}]
  BY DEF Receive, eventTable, EnqueueEvent
<1>3. \E r \in {"refused", "ignored", "queued"} : response' = [response EXCEPT ![e] = r]
  BY DEF Receive
<1> USE DEF EventInv, WorkerTypeOK, QueueTypeOK, Holding, workerVars
<1>4. WorkerTypeOK'
  <2>1. status' \in [Events -> Statuses] /\ older' \in [Events -> SUBSET Events]
    <3>2. "queued" \in Statuses
      BY DEF Statuses
    <3>3. CASE UNCHANGED <<status, older>>
      BY <3>3
    <3>4. CASE /\ status' = [status EXCEPT ![e] = "queued"]
               /\ older' = [older EXCEPT ![e] = {o \in Events : status[o] # "absent"}]
      <4> DEFINE S == {o \in Events : status[o] # "absent"}
      <4>1. S \in SUBSET Events /\ older' = [older EXCEPT ![e] = S]
        BY <3>4
      <4> HIDE DEF S
      <4> QED
        BY <3>2, <3>4, <4>1
    <3> QED
      BY <1>2, <3>3, <3>4
  <2>2. /\ kind' \in [Events -> Inputs \cup {NoKind}]
        /\ response' \in [Events -> {"none", "refused", "ignored", "queued"}]
    BY <1>1, <1>3
  <2> QED
    BY <1>1, <2>1, <2>2
<1>5. Holding' /\ Received'
  BY <1>1, <1>2, <1>3 DEF Received
<1> QED
  BY <1>4, <1>5

\* What a claim does to the rows.
LEMMA ClaimFacts ==
  ASSUME EventInv, NEW w \in Workers, Claim(w)
  PROVE  \E e \in Events :
           /\ evt' = [evt EXCEPT ![w] = e]
           /\ try' = [try EXCEPT ![w] = attempts[e] + 1]
           /\ stage[w] = "idle" /\ stage' = [stage EXCEPT ![w] = "dispatch"]
           /\ attempts[e] < MaxAttempts
           /\ attempts' = [attempts EXCEPT ![e] = @ + 1]
           /\ lease' = [lease EXCEPT ![e] = LeaseTicks]
           /\ status[e] \in {"queued", "processing"} /\ status'[e] = "processing"
           /\ status' \in [Events -> Statuses]
           /\ \A f \in Events \ {e} :
                \/ status'[f] = status[f]
                \/ status[f] = "processing" /\ status'[f] = "failed"
                     /\ attempts[f] = MaxAttempts
           /\ UNCHANGED <<kind, response, wait, older, backoff, outcomes>>
<1> USE DEF EventInv, WorkerTypeOK, QueueTypeOK
<1>1. PICK e \in Events :
        /\ ClaimEvent(e, LockedByOthers(w))
        /\ evt' = [evt EXCEPT ![w] = e]
        /\ try' = [try EXCEPT ![w] = attempts[e] + 1]
  BY DEF Claim
<1>2. /\ status[e] \in {"queued", "processing"} /\ attempts[e] < MaxAttempts
      /\ status'[e] = "processing" /\ status' \in [Events -> Statuses]
      /\ \A f \in Events \ {e} :
           status'[f] = status[f] \/ (status'[f] = "failed" /\ f \in Exhausted)
  BY <1>1 DEF ClaimEvent, Claimable, FailExhausted, Statuses
<1>3. \A f \in Exhausted : status[f] = "processing" /\ attempts[f] = MaxAttempts
  BY EventQueueAssumption DEF Exhausted
<1> QED
  BY <1>1, <1>2, <1>3 DEF Claim, ClaimEvent

LEMMA ClaimEventInv ==
  ASSUME EventInv, NEW w \in Workers, Claim(w)
  PROVE  EventInv'
<1> USE EventQueueAssumption DEF EventInv, WorkerTypeOK, QueueTypeOK
<1>1. PICK e \in Events :
        /\ evt' = [evt EXCEPT ![w] = e]
        /\ try' = [try EXCEPT ![w] = attempts[e] + 1]
        /\ stage' = [stage EXCEPT ![w] = "dispatch"]
        /\ attempts[e] < MaxAttempts
        /\ attempts' = [attempts EXCEPT ![e] = @ + 1]
        /\ lease' = [lease EXCEPT ![e] = LeaseTicks]
        /\ status' \in [Events -> Statuses]
        /\ \A f \in Events : status'[f] = "absent" <=> status[f] = "absent"
        /\ status[e] # "absent"
        /\ UNCHANGED <<kind, response, wait, older, backoff, outcomes>>
  BY ClaimFacts
<1>2. WorkerTypeOK'
  BY <1>1 DEF Stages
<1>3. Holding' /\ Received'
  BY <1>1 DEF Holding, Received
<1> QED
  BY <1>2, <1>3

LEMMA ClaimNoneFacts ==
  ASSUME EventInv, NEW w \in Workers, ClaimNone(w)
  PROVE  /\ UNCHANGED <<kind, response, attempts, wait, lease, older, workerVars, outcomes>>
         /\ status' \in [Events -> Statuses]
         /\ \A f \in Events :
              \/ status'[f] = status[f]
              \/ status[f] = "processing" /\ status'[f] = "failed" /\ attempts[f] = MaxAttempts
<1>1. \A f \in Exhausted : status[f] = "processing" /\ attempts[f] = MaxAttempts
  BY EventQueueAssumption DEF Exhausted, EventInv, WorkerTypeOK, QueueTypeOK
<1> QED
  BY <1>1
  DEF ClaimNone, ClaimNoEvent, FailExhausted, EventInv, WorkerTypeOK, QueueTypeOK, Statuses

LEMMA ClaimNoneEventInv ==
  ASSUME EventInv, NEW w \in Workers, ClaimNone(w)
  PROVE  EventInv'
<1>1. WorkerTypeOK'
  BY ClaimNoneFacts DEF EventInv, workerVars, WorkerTypeOK, QueueTypeOK
<1>2. Holding' /\ Received'
  BY ClaimNoneFacts DEF EventInv, workerVars, Holding, Received
<1> QED
  BY <1>1, <1>2 DEF EventInv

\* The handler ends, returning or raising a KeyError.
HandlerEnds(w) ==
  /\ stage[w] \in {"dispatch", "fetch", "work"}
  /\ \E how \in Outcomes \ {"none"} :
       /\ Ended(w, how)
       /\ stage' = [stage EXCEPT ![w] = IF how = "keyError" THEN "give_up" ELSE "mark_done"]
  /\ UNCHANGED <<queueVars, evt, try, backoff>>

LEMMA EndStep ==
  ASSUME NEW w \in Workers,
         \/ IgnorePhase(w) \/ FetchCardDenied(w) \/ WorkReturns(w)
         \/ DispatchKeyError(w) \/ FetchKeyError(w) \/ WorkKeyError(w)
  PROVE  HandlerEnds(w)
  BY DEF IgnorePhase, FetchCardDenied, WorkReturns, DispatchKeyError, FetchKeyError,
         WorkKeyError, KeyErrorAt, GoTo, HandlerEnds, Outcomes, Handled

\* Its end is recorded in the attempt of w, and nowhere else.
LEMMA WhereEnded ==
  ASSUME EventInv, NEW w \in Workers, HandlerEnds(w)
  PROVE  /\ evt[w] \in Events /\ try[w] \in 1..MaxAttempts
         /\ outcomes' \in [Events -> [1..MaxAttempts -> Outcomes]]
         /\ outcomes'[evt[w]][try[w]] \in Outcomes \ {"none"}
         /\ stage'[w] = IF outcomes'[evt[w]][try[w]] = "keyError" THEN "give_up" ELSE "mark_done"
         /\ \A v \in Workers \ {w} : stage'[v] = stage[v]
         /\ \A e \in Events, a \in 1..MaxAttempts :
              e # evt[w] \/ a # try[w] => outcomes'[e][a] = outcomes[e][a]
<1>1. PICK how \in Outcomes \ {"none"} :
        /\ outcomes' = [outcomes EXCEPT ![evt[w]] = [@ EXCEPT ![try[w]] = how]]
        /\ stage' = [stage EXCEPT ![w] = IF how = "keyError" THEN "give_up" ELSE "mark_done"]
  BY DEF HandlerEnds, Ended
<1>2. /\ outcomes \in [Events -> [1..MaxAttempts -> Outcomes]] /\ stage \in [Workers -> Stages]
      /\ evt[w] \in Events /\ try[w] \in 1..MaxAttempts
  BY DEF EventInv, WorkerTypeOK, Holding, HandlerEnds
<1>3. /\ outcomes'[evt[w]] = [outcomes[evt[w]] EXCEPT ![try[w]] = how]
      /\ \A e \in Events : e # evt[w] => outcomes'[e] = outcomes[e]
      /\ outcomes' \in [Events -> [1..MaxAttempts -> Outcomes]]
  BY <1>1, <1>2
<1>4. outcomes'[evt[w]][try[w]] = how
  BY <1>2, <1>3
<1> QED
  BY <1>1, <1>2, <1>3, <1>4

LEMMA EndsEventInv ==
  ASSUME EventInv, NEW w \in Workers, HandlerEnds(w)
  PROVE  EventInv'
<1>1. UNCHANGED <<queueVars, evt, try, backoff>> /\ stage[w] # "idle"
  BY DEF HandlerEnds
<1>2. stage' \in [Workers -> Stages]
  BY DEF HandlerEnds, EventInv, WorkerTypeOK, Stages
<1>3. WorkerTypeOK'
  BY <1>1, <1>2, WhereEnded DEF EventInv, queueVars, WorkerTypeOK, QueueTypeOK
<1>4. Holding'
  BY <1>1, WhereEnded DEF EventInv, queueVars, Holding
<1>5. Received'
  <2>1. status[evt[w]] # "absent"
    BY <1>1 DEF EventInv, Holding
  <2> QED
    BY <1>1, <2>1, WhereEnded DEF EventInv, queueVars, Received
<1> QED
  BY <1>3, <1>4, <1>5 DEF EventInv

\* A worker goes on without touching the table or ending its handler.
MoveStep(w) ==
  \/ Dispatch(w)
  \/ FetchTranscript(w) \/ FetchTranscriptRaises(w)
  \/ FetchCard(w) \/ FetchCardRaises(w)
  \/ WorkRaises(w) \/ MarkDoneRaises(w)
  \/ MarkFailedRetries(w) \/ MarkFailedForGood(w)

LEMMA MoveFacts ==
  ASSUME EventInv, NEW w \in Workers, MoveStep(w)
  PROVE  /\ stage[w] # "idle" /\ stage' \in [Workers -> Stages]
         /\ \A v \in Workers \ {w} : stage'[v] = stage[v]
         /\ UNCHANGED <<queueVars, outcomes, evt, try>>
         /\ \/ stage[w] = "dispatch" /\ stage'[w] = "fetch"
            \/ stage[w] = "fetch" /\ stage'[w] \in {"work", "failing"}
            \/ stage[w] \in {"work", "mark_done"} /\ stage'[w] = "failing"
            \/ stage[w] = "failing" /\ stage'[w] = "requeue"
            \/ stage[w] = "failing" /\ stage'[w] = "give_up" /\ attempts[evt[w]] = MaxAttempts
<1> USE DEF EventInv, WorkerTypeOK, GoTo, Unwritten, Stages
<1>1. CASE MarkFailedForGood(w)
  <2>1. attempts[evt[w]] = MaxAttempts
    BY <1>1, EventQueueAssumption DEF MarkFailedForGood, Holding, QueueTypeOK
  <2> QED
    BY <1>1, <2>1 DEF MarkFailedForGood
<1> QED
  BY <1>1
  DEF MoveStep, Dispatch, FetchTranscript, FetchTranscriptRaises, FetchCard, FetchCardRaises,
      WorkRaises, MarkDoneRaises, MarkFailedRetries

LEMMA MoveEventInv ==
  ASSUME EventInv, NEW w \in Workers, MoveStep(w)
  PROVE  EventInv'
<1>1. backoff' \in [Workers -> 0..(MaxAttempts * BackoffTicks)]
  <2>1. backoff \in [Workers -> 0..(MaxAttempts * BackoffTicks)]
    BY DEF EventInv, WorkerTypeOK
  <2>2. CASE MarkFailedRetries(w)
    <3> DEFINE b == attempts[evt[w]] * BackoffTicks
    <3>1. attempts[evt[w]] \in 0..MaxAttempts
      BY <2>2 DEF MarkFailedRetries, GoTo, EventInv, Holding, WorkerTypeOK, QueueTypeOK
    <3>2. b \in 0..(MaxAttempts * BackoffTicks)
      <4>1. \A a, m, t \in Nat : a <= m => a * t \in Nat /\ m * t \in Nat /\ a * t <= m * t
        BY SMT
      <4> QED
        BY <3>1, <4>1, EventQueueAssumption
    <3>3. backoff' = [backoff EXCEPT ![w] = b]
      BY <2>2 DEF MarkFailedRetries
    <3> HIDE DEF b
    <3> QED
      BY <2>1, <3>2, <3>3
  <2> QED
    BY <2>1, <2>2
    DEF MoveStep, Dispatch, FetchTranscript, FetchTranscriptRaises, FetchCard, FetchCardRaises,
        WorkRaises, MarkDoneRaises, MarkFailedForGood, Unwritten
<1>2. WorkerTypeOK'
  BY <1>1, MoveFacts DEF EventInv, queueVars, WorkerTypeOK, QueueTypeOK
<1>3. Holding' /\ Received'
  BY MoveFacts DEF EventInv, queueVars, Holding, Received
<1> QED
  BY <1>2, <1>3 DEF EventInv

\* A worker writes the row of its event, or dies.
LEMMA WriteFacts ==
  ASSUME EventInv, NEW w \in Workers, MarkDone(w) \/ Requeue(w) \/ GiveUp(w) \/ Crash(w)
  PROVE  /\ evt[w] \in Events /\ status[evt[w]] # "absent" /\ stage[w] # "idle"
         /\ stage' = [stage EXCEPT ![w] = "idle"]
         /\ \A v \in Workers : stage'[v] # "idle" => UNCHANGED <<stage[v], evt[v], try[v]>>
         /\ UNCHANGED <<kind, response, attempts, older, outcomes>>
         /\ \/ status' = status
            \/ stage[w] = "mark_done" /\ status' = [status EXCEPT ![evt[w]] = "done"]
            \/ stage[w] = "requeue" /\ status' = [status EXCEPT ![evt[w]] = "queued"]
            \/ stage[w] = "give_up" /\ status' = [status EXCEPT ![evt[w]] = "failed"]
  BY DEF EventInv, Holding, WorkerTypeOK, MarkDone, Requeue, GiveUp, Crash, Leave,
         MarkEventDone, RequeueEvent, FailEvent, queueVars

LEMMA WriteEventInv ==
  ASSUME EventInv, NEW w \in Workers, MarkDone(w) \/ Requeue(w) \/ GiveUp(w) \/ Crash(w)
  PROVE  EventInv'
<1> USE DEF EventInv
<1>1. 0 \in 0..(MaxAttempts * BackoffTicks) /\ 0 \in 0..MaxAttempts /\ -1 \in -1..LeaseTicks
  BY EventQueueAssumption
<1>2. QueueTypeOK'
  <2>1. status' \in [Events -> Statuses]
    BY WriteFacts DEF WorkerTypeOK, QueueTypeOK, Statuses
  <2>2. /\ wait' \in [Events -> 0..(MaxAttempts * BackoffTicks)]
        /\ lease' \in [Events -> -1..LeaseTicks]
    <3>1. CASE Requeue(w)
      <4>1. backoff[w] \in 0..(MaxAttempts * BackoffTicks)
        BY DEF WorkerTypeOK
      <4>2. /\ wait' = [wait EXCEPT ![evt[w]] = backoff[w]]
            /\ lease' = [lease EXCEPT ![evt[w]] = -1]
        BY <3>1 DEF Requeue, RequeueEvent, NoLease
      <4> QED
        BY <1>1, <4>1, <4>2 DEF WorkerTypeOK, QueueTypeOK
    <3>2. CASE MarkDone(w) \/ GiveUp(w) \/ Crash(w)
      BY <3>2 DEF MarkDone, GiveUp, Crash, MarkEventDone, FailEvent, queueVars,
                  WorkerTypeOK, QueueTypeOK
    <3> QED
      BY <3>1, <3>2
  <2> QED
    BY <2>1, <2>2, WriteFacts DEF WorkerTypeOK, QueueTypeOK
<1>3. WorkerTypeOK'
  <2>1. Leave(w)
    BY DEF MarkDone, Requeue, GiveUp, Crash
  <2> QED
    BY <1>1, <1>2, <2>1, WriteFacts DEF Leave, WorkerTypeOK, Stages
<1>4. \A e \in Events : status'[e] = "absent" <=> status[e] = "absent"
  <2>1. status \in [Events -> Statuses]
    BY DEF WorkerTypeOK, QueueTypeOK
  <2> QED
    BY <2>1, WriteFacts
<1>5. Holding' /\ Received'
  <2>1. Holding'
    BY <1>4, WriteFacts DEF Holding
  <2>2. Received'
    BY <1>4, WriteFacts DEF Received
  <2> QED
    BY <2>1, <2>2
<1> QED
  BY <1>3, <1>5

\* Done although the answer of the commit is lost: MarkDone, and then on to mark_failed.
LEMMA UnansweredEventInv ==
  ASSUME EventInv, NEW w \in Workers, MarkDoneUnanswered(w)
  PROVE  EventInv'
<1> USE DEF EventInv, MarkDoneUnanswered, GoTo, MarkEventDone
<1>1. evt[w] \in Events
  BY DEF Holding
<1>2. WorkerTypeOK'
  BY DEF WorkerTypeOK, QueueTypeOK, Stages, Statuses
<1>3. Holding' /\ Received'
  BY <1>1 DEF Holding, Received, WorkerTypeOK, QueueTypeOK
<1> QED
  BY <1>2, <1>3

\* What the other modules do in between: nothing of the queue.
LEMMA IdleEventInv ==
  ASSUME EventInv, UNCHANGED eventVars
  PROVE  EventInv'
  BY DEF eventVars, EventInv, WorkerTypeOK, QueueTypeOK, Holding, Received

LEMMA TickEventInv ==
  ASSUME EventInv, Tick
  PROVE  EventInv'
<1> USE EventQueueAssumption DEF EventInv, Tick, QueueTick
<1>1. MaxAttempts * BackoffTicks \in Nat
  OBVIOUS
<1>2. WorkerTypeOK'
  BY <1>1 DEF WorkerTypeOK, QueueTypeOK
<1>3. Holding' /\ Received'
  BY DEF Holding, Received
<1> QED
  BY <1>2, <1>3

\* A step of a worker is of one of these forms; the rest of this part goes by them.
LEMMA WorkerCases ==
  ASSUME NEW w \in Workers, WorkerStep(w) \/ Die(w)
  PROVE  \/ Claim(w) \/ ClaimNone(w)
         \/ HandlerEnds(w) \/ MoveStep(w) \/ MarkDoneUnanswered(w)
         \/ MarkDone(w) \/ Requeue(w) \/ GiveUp(w) \/ Crash(w)
         \/ UNCHANGED eventVars
  BY EndStep DEF WorkerStep, LoopStep, MoveStep, BeginSync, WorkDone, WorkFails, Die

LEMMA NextEventInv == EventInv /\ [Next]_vars => EventInv'
<1> SUFFICES ASSUME EventInv, [Next]_vars PROVE EventInv'
  OBVIOUS
<1>1. CASE UNCHANGED vars
  BY <1>1, IdleEventInv DEF vars, eventVars
<1>2. ASSUME NEW w \in Workers, WorkerStep(w) \/ Die(w) PROVE EventInv'
  BY <1>2, WorkerCases, ClaimEventInv, ClaimNoneEventInv, EndsEventInv, MoveEventInv,
     UnansweredEventInv, WriteEventInv, IdleEventInv
<1> QED
  BY <1>1, <1>2, ReceiveEventInv, TickEventInv DEF Next

LEMMA EventsAlways == Spec => []EventInv
<1>1. Init => EventInv
  BY InitEventInv DEF Init
<1> QED
  BY <1>1, NextEventInv, PTL DEF Spec

(***************************************************************************)
(* Two workers never share a try of an event, and nothing is on record for *)
(* a try whose handler has not ended.  So what is on record stays.         *)
(***************************************************************************)
AttemptHeld ==
  \A w \in Workers : stage[w] # "idle" => try[w] <= attempts[evt[w]]

AttemptsApart ==
  \A v, w \in Workers :
    v # w /\ stage[v] # "idle" /\ stage[w] # "idle" /\ evt[v] = evt[w] => try[v] # try[w]

NotYetEnded ==
  \A w \in Workers :
    stage[w] \in {"dispatch", "fetch", "work"} => outcomes[evt[w]][try[w]] = "none"

CountedEnds ==
  \A e \in Events, a \in 1..MaxAttempts : outcomes[e][a] # "none" => a <= attempts[e]

EndInv == AttemptHeld /\ AttemptsApart /\ NotYetEnded /\ CountedEnds

LEMMA InitEndInv == WorkerInit => EndInv
  BY DEF WorkerInit, QueueInit, EndInv, AttemptHeld, AttemptsApart, NotYetEnded, CountedEnds

\* Steps that hand no event out and end no handler.
LEMMA QuietEndInv ==
  ASSUME EndInv, UNCHANGED <<attempts, outcomes>>,
         \A w \in Workers : stage'[w] # "idle" =>
           /\ stage[w] # "idle" /\ UNCHANGED <<evt[w], try[w]>>
           /\ stage'[w] \in {"dispatch", "fetch", "work"} =>
                stage[w] \in {"dispatch", "fetch", "work"}
  PROVE  EndInv'
<1>1. AttemptHeld' /\ AttemptsApart'
  BY DEF EndInv, AttemptHeld, AttemptsApart
<1>2. NotYetEnded' /\ CountedEnds'
  BY DEF EndInv, NotYetEnded, CountedEnds
<1> QED
  BY <1>1, <1>2 DEF EndInv

\* A claim opens a try that nobody holds and in which no handler has ended.
LEMMA ClaimEndInv ==
  ASSUME EventInv, EndInv, NEW w \in Workers, Claim(w)
  PROVE  EndInv'
<1>1. PICK e \in Events :
        /\ evt' = [evt EXCEPT ![w] = e]
        /\ try' = [try EXCEPT ![w] = attempts[e] + 1]
        /\ stage' = [stage EXCEPT ![w] = "dispatch"]
        /\ attempts[e] < MaxAttempts /\ attempts' = [attempts EXCEPT ![e] = @ + 1]
        /\ UNCHANGED outcomes
  BY ClaimFacts
<1>2. /\ \A f \in Events :
           attempts[f] \in Nat /\ attempts'[f] \in Nat /\ attempts[f] <= attempts'[f]
      /\ attempts'[e] = attempts[e] + 1 /\ attempts[e] + 1 \in 1..MaxAttempts
  BY <1>1, EventQueueAssumption DEF EventInv, WorkerTypeOK, QueueTypeOK
<1>3. /\ stage'[w] = "dispatch" /\ evt'[w] = e /\ try'[w] = attempts[e] + 1
      /\ \A v \in Workers \ {w} : UNCHANGED <<stage[v], evt[v], try[v]>>
  BY <1>1 DEF EventInv, WorkerTypeOK
<1>4. \A v \in Workers : stage[v] # "idle" =>
        evt[v] \in Events /\ try[v] \in Nat /\ try[v] <= attempts[evt[v]]
  BY DEF EventInv, Holding, EndInv, AttemptHeld
<1>5. AttemptHeld'
  BY <1>2, <1>3, <1>4 DEF AttemptHeld
<1>6. AttemptsApart'
  <2>1. \A v \in Workers \ {w} : stage[v] # "idle" /\ evt[v] = e => try[v] # attempts[e] + 1
    BY <1>2, <1>4
  <2> QED
    BY <1>3, <2>1 DEF EndInv, AttemptsApart
<1>7. NotYetEnded'
  <2>1. outcomes[e][attempts[e] + 1] = "none"
    BY <1>2 DEF EndInv, CountedEnds
  <2> QED
    BY <1>1, <1>3, <2>1 DEF EndInv, NotYetEnded
<1>8. CountedEnds'
  BY <1>1, <1>2 DEF EndInv, CountedEnds
<1> QED
  BY <1>5, <1>6, <1>7, <1>8 DEF EndInv

LEMMA EndsEndInv ==
  ASSUME EventInv, EndInv, NEW w \in Workers, HandlerEnds(w)
  PROVE  EndInv'
<1>1. /\ evt[w] \in Events /\ try[w] \in 1..MaxAttempts
      /\ \A e \in Events, a \in 1..MaxAttempts :
           e # evt[w] \/ a # try[w] => outcomes'[e][a] = outcomes[e][a]
      /\ stage'[w] \in {"mark_done", "give_up"} /\ stage[w] # "idle"
      /\ \A v \in Workers \ {w} : stage'[v] = stage[v]
  BY WhereEnded DEF HandlerEnds
<1>2. UNCHANGED <<evt, try, attempts>>
  BY DEF HandlerEnds, queueVars
<1>3. AttemptHeld' /\ AttemptsApart'
  BY <1>1, <1>2 DEF EndInv, AttemptHeld, AttemptsApart
<1>4. NotYetEnded'
  <2> SUFFICES ASSUME NEW v \in Workers \ {w}, stage[v] \in {"dispatch", "fetch", "work"}
               PROVE  outcomes'[evt[v]][try[v]] = "none"
    BY <1>1, <1>2 DEF NotYetEnded
  <2>1. evt[v] \in Events /\ try[v] \in 1..MaxAttempts
    BY DEF EventInv, Holding
  <2>2. evt[v] # evt[w] \/ try[v] # try[w]
    BY <1>1 DEF EndInv, AttemptsApart
  <2> QED
    BY <1>1, <2>1, <2>2 DEF EndInv, NotYetEnded
<1>5. CountedEnds'
  BY <1>1, <1>2 DEF EndInv, CountedEnds, AttemptHeld
<1> QED
  BY <1>3, <1>4, <1>5 DEF EndInv

LEMMA WorkerEndInv ==
  ASSUME EventInv, EndInv, NEW w \in Workers, WorkerStep(w) \/ Die(w)
  PROVE  EndInv'
<1>1. CASE ClaimNone(w)
  BY <1>1, ClaimNoneFacts, QuietEndInv DEF workerVars
<1>2. CASE MoveStep(w)
  BY <1>2, MoveFacts, QuietEndInv DEF queueVars
<1>3. CASE MarkDoneUnanswered(w)
  BY <1>3, QuietEndInv DEF MarkDoneUnanswered, GoTo, MarkEventDone, EventInv, WorkerTypeOK
<1>4. CASE MarkDone(w) \/ Requeue(w) \/ GiveUp(w) \/ Crash(w)
  BY <1>4, WriteFacts, QuietEndInv
<1>5. CASE UNCHANGED eventVars
  BY <1>5, QuietEndInv DEF eventVars
<1> QED
  BY <1>1, <1>2, <1>3, <1>4, <1>5, WorkerCases, ClaimEndInv, EndsEndInv

LEMMA NextEndInv == EventInv /\ EndInv /\ [Next]_vars => EndInv'
<1> SUFFICES ASSUME EventInv, EndInv, [Next]_vars PROVE EndInv'
  OBVIOUS
<1>1. CASE UNCHANGED vars \/ Tick
  BY <1>1, QuietEndInv DEF vars, Tick, QueueTick
<1>2. ASSUME NEW e \in Events, NEW k \in Inputs, Receive(e, k), UNCHANGED <<workerVars, outcomes>>
      PROVE  EndInv'
  BY <1>2, QuietEndInv DEF Receive, eventTable, EnqueueEvent, workerVars
<1> QED
  BY <1>1, <1>2, WorkerEndInv DEF Next

LEMMA EndsAlways == Spec => []EndInv
<1>1. Init => EndInv
  BY InitEndInv DEF Init
<1> QED
  BY <1>1, NextEndInv, EventsAlways, PTL DEF Spec

(***************************************************************************)
(* Why an event is done or failed.  A worker reaches mark_done only after  *)
(* its handler has returned, and give_up only on a KeyError of its handler *)
(* or with the attempts spent; one that will put the event back has had no *)
(* KeyError.                                                               *)
(***************************************************************************)
ReturnedBeforeDone ==
  \A w \in Workers : stage[w] = "mark_done" => outcomes[evt[w]][try[w]] \in Handled

RetriedWithoutKeyError ==
  \A w \in Workers :
    stage[w] \in {"failing", "requeue"} => outcomes[evt[w]][try[w]] # "keyError"

CauseBeforeGivingUp ==
  \A w \in Workers : stage[w] = "give_up" =>
    \/ attempts[evt[w]] = MaxAttempts
    \/ \E a \in 1..MaxAttempts : outcomes[evt[w]][a] = "keyError"

CauseInv ==
  /\ ReturnedBeforeDone
  /\ RetriedWithoutKeyError
  /\ CauseBeforeGivingUp
  /\ DoneWasHandled
  /\ GivenUpForCause

LEMMA InitCauseInv == WorkerInit => CauseInv
  BY DEF WorkerInit, QueueInit, CauseInv, ReturnedBeforeDone, RetriedWithoutKeyError,
         CauseBeforeGivingUp, DoneWasHandled, GivenUpForCause

\* Steps that end no handler: what a worker is about to do is justified as before, or anew.
LEMMA QuietCauseInv ==
  ASSUME CauseInv, UNCHANGED outcomes,
         \A e \in Events :
           /\ attempts[e] = MaxAttempts => attempts'[e] = MaxAttempts
           /\ status'[e] = "done" => status[e] = "done" \/ HandledIn(e) # {}
           /\ status'[e] = "failed" =>
                status[e] = "failed" \/ attempts[e] = MaxAttempts \/ KeyErrorIn(e) # {},
         \A w \in Workers : stage'[w] \in {"mark_done", "failing", "requeue", "give_up"} =>
           /\ UNCHANGED <<evt[w], try[w]>> /\ evt[w] \in Events
           /\ \/ stage'[w] = stage[w]
              \/ stage'[w] \in {"failing", "requeue"} /\ outcomes[evt[w]][try[w]] # "keyError"
              \/ stage'[w] = "give_up" /\ attempts[evt[w]] = MaxAttempts
  PROVE  CauseInv'
<1> USE DEF CauseInv
<1>1. ReturnedBeforeDone'
  BY DEF ReturnedBeforeDone
<1>2. RetriedWithoutKeyError'
  BY DEF RetriedWithoutKeyError
<1>3. CauseBeforeGivingUp'
  BY DEF CauseBeforeGivingUp
<1>4. DoneWasHandled'
  BY DEF DoneWasHandled, HandledIn
<1>5. GivenUpForCause'
  BY DEF GivenUpForCause, KeyErrorIn
<1> QED
  BY <1>1, <1>2, <1>3, <1>4, <1>5

LEMMA ClaimCauseInv ==
  ASSUME EventInv, CauseInv, NEW w \in Workers, Claim(w)
  PROVE  CauseInv'
<1>1. PICK e \in Events :
        /\ evt' = [evt EXCEPT ![w] = e]
        /\ try' = [try EXCEPT ![w] = attempts[e] + 1]
        /\ stage' = [stage EXCEPT ![w] = "dispatch"]
        /\ attempts[e] < MaxAttempts /\ attempts' = [attempts EXCEPT ![e] = @ + 1]
        /\ status'[e] = "processing"
        /\ \A f \in Events \ {e} :
             \/ status'[f] = status[f]
             \/ status'[f] = "failed" /\ attempts[f] = MaxAttempts
        /\ UNCHANGED outcomes
  BY ClaimFacts
<1>2. \A f \in Events :
        /\ attempts[f] = MaxAttempts => attempts'[f] = MaxAttempts
        /\ status'[f] = "done" => status[f] = "done"
        /\ status'[f] = "failed" => status[f] = "failed" \/ attempts[f] = MaxAttempts
  BY <1>1, EventQueueAssumption DEF EventInv, WorkerTypeOK, QueueTypeOK
<1>3. stage'[w] = "dispatch" /\ \A v \in Workers \ {w} : UNCHANGED <<stage[v], evt[v], try[v]>>
  BY <1>1 DEF EventInv, WorkerTypeOK
<1>4. \A v \in Workers : stage[v] # "idle" => evt[v] \in Events
  BY DEF EventInv, Holding
<1> QED
  BY <1>1, <1>2, <1>3, <1>4, QuietCauseInv

LEMMA MoveCauseInv ==
  ASSUME EventInv, EndInv, CauseInv, NEW w \in Workers, MoveStep(w)
  PROVE  CauseInv'
<1>1. evt[w] \in Events /\ UNCHANGED <<queueVars, outcomes, evt, try>>
  BY MoveFacts DEF EventInv, Holding
<1>2. stage[w] \in {"fetch", "work", "mark_done", "failing"} =>
        outcomes[evt[w]][try[w]] # "keyError"
  BY DEF EndInv, NotYetEnded, CauseInv, ReturnedBeforeDone, RetriedWithoutKeyError, Handled
<1>3. \A v \in Workers : stage[v] # "idle" => evt[v] \in Events
  BY DEF EventInv, Holding
<1> QED
  BY <1>1, <1>2, <1>3, MoveFacts, QuietCauseInv DEF queueVars

LEMMA EndsCauseInv ==
  ASSUME EventInv, EndInv, CauseInv, NEW w \in Workers, HandlerEnds(w)
  PROVE  CauseInv'
<1>1. /\ evt[w] \in Events /\ try[w] \in 1..MaxAttempts
      /\ outcomes' \in [Events -> [1..MaxAttempts -> Outcomes]]
      /\ outcomes'[evt[w]][try[w]] \in Outcomes \ {"none"}
      /\ stage'[w] = IF outcomes'[evt[w]][try[w]] = "keyError" THEN "give_up" ELSE "mark_done"
      /\ \A v \in Workers \ {w} : stage'[v] = stage[v]
  BY WhereEnded
<1>2. UNCHANGED <<status, attempts, evt, try>> /\ stage[w] \in {"dispatch", "fetch", "work"}
  BY DEF HandlerEnds, queueVars
<1>3. \A e \in Events, a \in 1..MaxAttempts :
        outcomes[e][a] # "none" => outcomes'[e][a] = outcomes[e][a]
  <2>1. outcomes[evt[w]][try[w]] = "none"
    BY <1>2 DEF EndInv, NotYetEnded
  <2> QED
    BY <2>1, WhereEnded
<1>4. \A v \in Workers \ {w} : stage[v] # "idle" =>
        /\ evt[v] \in Events /\ try[v] \in 1..MaxAttempts
        /\ outcomes'[evt[v]][try[v]] = outcomes[evt[v]][try[v]]
  BY <1>2, WhereEnded DEF EventInv, Holding, EndInv, AttemptsApart
<1>5. ReturnedBeforeDone' /\ RetriedWithoutKeyError'
  BY <1>1, <1>2, <1>4
  DEF CauseInv, ReturnedBeforeDone, RetriedWithoutKeyError, Handled, Outcomes
<1>6. CauseBeforeGivingUp'
  <2> SUFFICES ASSUME NEW v \in Workers, stage'[v] = "give_up", attempts[evt[v]] # MaxAttempts
               PROVE  \E a \in 1..MaxAttempts : outcomes'[evt[v]][a] = "keyError"
    BY <1>2 DEF CauseBeforeGivingUp
  <2>1. CASE v = w
    BY <1>1, <2>1
  <2>2. CASE v # w
    <3>1. stage[v] = "give_up" /\ evt[v] \in Events
      BY <1>1, <1>4, <2>2
    <3> QED
      BY <1>3, <3>1 DEF CauseInv, CauseBeforeGivingUp
  <2> QED
    BY <2>1, <2>2
<1>7. DoneWasHandled'
  BY <1>2, <1>3 DEF CauseInv, DoneWasHandled, HandledIn, Handled
<1>8. GivenUpForCause'
  BY <1>2, <1>3 DEF CauseInv, GivenUpForCause, KeyErrorIn
<1> QED
  BY <1>5, <1>6, <1>7, <1>8 DEF CauseInv

\* What a worker writes into the row is what has happened.
LEMMA WrittenForCause ==
  ASSUME EventInv, CauseInv, NEW w \in Workers, evt[w] \in Events, stage[w] # "idle"
  PROVE  /\ stage[w] = "mark_done" => HandledIn(evt[w]) # {}
         /\ stage[w] = "give_up" =>
              attempts[evt[w]] = MaxAttempts \/ KeyErrorIn(evt[w]) # {}
  BY DEF EventInv, Holding, CauseInv, ReturnedBeforeDone, CauseBeforeGivingUp, HandledIn,
         KeyErrorIn

LEMMA WriteCauseInv ==
  ASSUME EventInv, CauseInv, NEW w \in Workers,
         MarkDone(w) \/ Requeue(w) \/ GiveUp(w) \/ Crash(w)
  PROVE  CauseInv'
<1>1. \A e \in Events :
        /\ status'[e] = "done" => status[e] = "done" \/ HandledIn(e) # {}
        /\ status'[e] = "failed" =>
             status[e] = "failed" \/ attempts[e] = MaxAttempts \/ KeyErrorIn(e) # {}
  <2>1. status \in [Events -> Statuses]
    BY DEF EventInv, WorkerTypeOK, QueueTypeOK
  <2> QED
    BY <2>1, WriteFacts, WrittenForCause
<1>2. \A v \in Workers : stage[v] # "idle" => evt[v] \in Events
  BY DEF EventInv, Holding
<1> QED
  BY <1>1, <1>2, WriteFacts, QuietCauseInv

LEMMA UnansweredCauseInv ==
  ASSUME EventInv, CauseInv, NEW w \in Workers, MarkDoneUnanswered(w)
  PROVE  CauseInv'
<1>1. /\ stage[w] = "mark_done" /\ stage' = [stage EXCEPT ![w] = "failing"]
      /\ status' = [status EXCEPT ![evt[w]] = "done"]
      /\ UNCHANGED <<attempts, outcomes, evt, try>>
  BY DEF MarkDoneUnanswered, GoTo, MarkEventDone
<1>2. evt[w] \in Events /\ HandledIn(evt[w]) # {} /\ outcomes[evt[w]][try[w]] # "keyError"
  BY <1>1, WrittenForCause DEF EventInv, Holding, CauseInv, ReturnedBeforeDone, Handled
<1>3. \A v \in Workers : stage[v] # "idle" => evt[v] \in Events
  BY DEF EventInv, Holding
<1> QED
  BY <1>1, <1>2, <1>3, QuietCauseInv DEF EventInv, WorkerTypeOK, QueueTypeOK

LEMMA WorkerCauseInv ==
  ASSUME EventInv, EndInv, CauseInv, NEW w \in Workers, WorkerStep(w) \/ Die(w)
  PROVE  CauseInv'
<1>1. \A v \in Workers : stage[v] # "idle" => evt[v] \in Events
  BY DEF EventInv, Holding
<1>2. CASE ClaimNone(w)
  BY <1>1, <1>2, ClaimNoneFacts, QuietCauseInv DEF workerVars
<1>3. CASE UNCHANGED eventVars
  BY <1>1, <1>3, QuietCauseInv DEF eventVars
<1> QED
  BY <1>2, <1>3, WorkerCases, ClaimCauseInv, EndsCauseInv, MoveCauseInv, UnansweredCauseInv,
     WriteCauseInv

LEMMA NextCauseInv == EventInv /\ EndInv /\ CauseInv /\ [Next]_vars => CauseInv'
<1> SUFFICES ASSUME EventInv, EndInv, CauseInv, [Next]_vars PROVE CauseInv'
  OBVIOUS
<1>1. \A v \in Workers : stage[v] # "idle" => evt[v] \in Events
  BY DEF EventInv, Holding
<1>2. CASE UNCHANGED vars \/ Tick
  BY <1>1, <1>2, QuietCauseInv DEF vars, Tick, QueueTick
<1>3. ASSUME NEW e \in Events, NEW k \in Inputs, Receive(e, k), UNCHANGED <<workerVars, outcomes>>
      PROVE  CauseInv'
  <2>1. /\ UNCHANGED attempts
        /\ \/ UNCHANGED status
           \/ status' = [status EXCEPT ![e] = "queued"]
    BY <1>3 DEF Receive, eventTable, EnqueueEvent
  <2>2. \A f \in Events : status'[f] \in {status[f], "queued"}
    BY <2>1 DEF EventInv, WorkerTypeOK, QueueTypeOK
  <2> QED
    BY <1>1, <1>3, <2>1, <2>2, QuietCauseInv DEF workerVars
<1> QED
  BY <1>2, <1>3, WorkerCauseInv DEF Next

LEMMA CausesAlways == Spec => []CauseInv
<1>1. Init => CauseInv
  BY InitCauseInv DEF Init
<1> QED
  BY <1>1, NextCauseInv, EventsAlways, EndsAlways, PTL DEF Spec

\* No event is done before its handler has returned.
THEOREM HandledBeforeDone == Spec => []DoneWasHandled
<1>1. CauseInv => DoneWasHandled
  BY DEF CauseInv
<1> QED
  BY <1>1, CausesAlways, PTL

\* No event is failed while it has attempts left, unless its handler has raised a KeyError:
\* no other exception, no crash and no lease that runs out costs an event its retries,
\* however many workers there are.
THEOREM FailedForCause == Spec => []GivenUpForCause
<1>1. CauseInv => GivenUpForCause
  BY DEF CauseInv
<1> QED
  BY <1>1, CausesAlways, PTL

(***************************************************************************)
(* Refinement.  Every step of the queue of events and its workers is, row  *)
(* by row, a step of EventContract or leaves the row alone.                *)
(***************************************************************************)
EventRefines(e) ==
  Contract!EventStep(e) \/ Contract!Keep(e)

\* What the contract calls handled and refused changes only when a handler ends.
LEMMA SameHistory ==
  ASSUME NEW e \in Events, UNCHANGED outcomes
  PROVE  Contract!SameEnds(e)
  BY DEF Contract!SameEnds, HandledIn, KeyErrorIn

LEMMA ReceiveRefines ==
  ASSUME EventInv, NEW f \in Events, NEW k \in Inputs, Receive(f, k), UNCHANGED outcomes,
         NEW e \in Events
  PROVE  EventRefines(e)
<1>1. /\ UNCHANGED attempts
      /\ \/ status'[e] = status[e]
         \/ status[e] = "absent" /\ status'[e] = "queued"
  BY DEF Receive, eventTable, EnqueueEvent, EventInv, WorkerTypeOK, QueueTypeOK, Received
<1> QED
  BY <1>1, SameHistory
  DEF EventRefines, EventState, Contract!EventStep, Contract!Keep, Contract!Accept,
      Contract!SameTries

LEMMA ClaimRefines ==
  ASSUME EventInv, NEW w \in Workers, Claim(w) \/ ClaimNone(w), NEW e \in Events
  PROVE  EventRefines(e)
<1> USE DEF EventRefines, EventState, Contract!SameTries, Contract!EventStep
<1>1. Contract!SameEnds(e)
  BY SameHistory, ClaimFacts, ClaimNoneFacts
<1>2. CASE status[e] \in {"queued", "processing"} /\ status'[e] = "processing"
           /\ attempts[e] < MaxAttempts /\ attempts'[e] = attempts[e] + 1
  BY <1>1, <1>2 DEF Contract!Try
<1>3. CASE status'[e] = "failed" /\ status[e] = "processing"
           /\ attempts[e] = MaxAttempts /\ attempts'[e] = attempts[e]
  BY <1>1, <1>3 DEF Contract!GiveUpOn
<1>4. CASE status'[e] = status[e] /\ attempts'[e] = attempts[e]
  BY <1>1, <1>4 DEF Contract!Keep
<1>5. CASE Claim(w)
  <2>1. PICK x \in Events :
          /\ attempts[x] < MaxAttempts
          /\ attempts' = [attempts EXCEPT ![x] = @ + 1]
          /\ status[x] \in {"queued", "processing"} /\ status'[x] = "processing"
          /\ \A f \in Events \ {x} :
               \/ status'[f] = status[f]
               \/ status[f] = "processing" /\ status'[f] = "failed" /\ attempts[f] = MaxAttempts
    BY <1>5, ClaimFacts
  <2>2. attempts'[e] = IF e = x THEN attempts[e] + 1 ELSE attempts[e]
    BY <2>1 DEF EventInv, WorkerTypeOK, QueueTypeOK
  <2> QED
    BY <1>2, <1>3, <1>4, <2>1, <2>2
<1>6. CASE ClaimNone(w)
  BY <1>3, <1>4, <1>6, ClaimNoneFacts
<1> QED
  BY <1>5, <1>6

LEMMA EndsRefine ==
  ASSUME EventInv, EndInv, NEW w \in Workers, HandlerEnds(w), NEW e \in Events
  PROVE  EventRefines(e)
<1> USE DEF EventRefines, EventState, Contract!EventStep
<1>1. UNCHANGED <<status, attempts>> /\ stage[w] \in {"dispatch", "fetch", "work"}
  BY DEF HandlerEnds, queueVars
<1>2. /\ evt[w] \in Events /\ try[w] \in 1..MaxAttempts
      /\ outcomes' \in [Events -> [1..MaxAttempts -> Outcomes]]
      /\ outcomes'[evt[w]][try[w]] \in Outcomes \ {"none"}
      /\ \A f \in Events, a \in 1..MaxAttempts :
           f # evt[w] \/ a # try[w] => outcomes'[f][a] = outcomes[f][a]
  BY WhereEnded
<1>3. CASE e = evt[w]
  <2>1. outcomes[e][try[w]] = "none" /\ try[w] <= attempts[e] /\ attempts[e] \in Nat
    BY <1>1, <1>2, <1>3, EventQueueAssumption
    DEF EndInv, NotYetEnded, AttemptHeld, EventInv, WorkerTypeOK, QueueTypeOK
  <2>2. try[w] \in Contract!Pending(e) /\ status[e] # "absent"
    BY <1>1, <1>2, <1>3, <2>1
    DEF Contract!Pending, HandledIn, KeyErrorIn, Handled, EventInv, Holding
  <2>3. CASE outcomes'[e][try[w]] = "keyError"
    <3>1. HandledIn(e)' = HandledIn(e) /\ KeyErrorIn(e)' = KeyErrorIn(e) \cup {try[w]}
      BY <1>2, <1>3, <2>1, <2>3 DEF HandledIn, KeyErrorIn, Handled
    <3> QED
      BY <1>1, <2>2, <3>1 DEF Contract!Refuse
  <2>4. CASE outcomes'[e][try[w]] # "keyError"
    <3>1. outcomes'[e][try[w]] \in Handled
      BY <1>2, <1>3, <2>4 DEF Outcomes
    <3>2. HandledIn(e)' = HandledIn(e) \cup {try[w]} /\ KeyErrorIn(e)' = KeyErrorIn(e)
      BY <1>2, <1>3, <2>1, <2>4, <3>1 DEF HandledIn, KeyErrorIn
    <3> QED
      BY <1>1, <2>2, <3>2 DEF Contract!Handle
  <2> QED
    BY <2>3, <2>4
<1>4. CASE e # evt[w]
  <2>1. HandledIn(e)' = HandledIn(e) /\ KeyErrorIn(e)' = KeyErrorIn(e)
    BY <1>2, <1>4 DEF HandledIn, KeyErrorIn
  <2> QED
    BY <1>1, <2>1 DEF Contract!Keep, Contract!SameTries, Contract!SameEnds
<1> QED
  BY <1>3, <1>4

\* A worker writes the row of e, for a cause; the write itself is a step of the contract.
LEMMA WriteRefines ==
  ASSUME EventInv, EndInv, CauseInv, NEW w \in Workers,
         \/ MarkDone(w) \/ Requeue(w) \/ GiveUp(w) \/ Crash(w) \/ MarkDoneUnanswered(w),
         NEW e \in Events
  PROVE  EventRefines(e)
<1> USE DEF EventRefines, EventState, Contract!EventStep, Contract!Keep, Contract!SameTries
<1>1. /\ evt[w] \in Events /\ status[evt[w]] # "absent" /\ stage[w] # "idle"
      /\ try[w] \in 1..attempts[evt[w]] /\ try[w] \in 1..MaxAttempts
      /\ status \in [Events -> Statuses]
  <2>1. stage[w] # "idle"
    BY WriteFacts DEF MarkDoneUnanswered, GoTo
  <2> QED
    BY <2>1, EventQueueAssumption
    DEF EventInv, Holding, EndInv, AttemptHeld, WorkerTypeOK, QueueTypeOK
<1>2. /\ UNCHANGED <<attempts, outcomes>>
      /\ \/ status' = status
         \/ stage[w] = "mark_done" /\ status' = [status EXCEPT ![evt[w]] = "done"]
         \/ stage[w] = "requeue" /\ status' = [status EXCEPT ![evt[w]] = "queued"]
         \/ stage[w] = "give_up" /\ status' = [status EXCEPT ![evt[w]] = "failed"]
  BY WriteFacts DEF MarkDoneUnanswered, GoTo, MarkEventDone
<1>3. Contract!SameEnds(e)
  BY <1>2, SameHistory
<1>4. CASE e # evt[w] \/ status' = status
  BY <1>1, <1>2, <1>3, <1>4
<1>5. CASE e = evt[w] /\ stage[w] = "mark_done" /\ status'[e] = "done"
  BY <1>1, <1>2, <1>3, <1>5, WrittenForCause DEF Contract!Close
<1>6. CASE e = evt[w] /\ stage[w] = "requeue" /\ status'[e] = "queued"
  <2>1. try[w] \notin KeyErrorIn(e)
    BY <1>6 DEF CauseInv, RetriedWithoutKeyError, KeyErrorIn
  <2> QED
    BY <1>1, <1>2, <1>3, <1>6, <2>1 DEF Statuses, Contract!Reopen
<1>7. CASE e = evt[w] /\ stage[w] = "give_up" /\ status'[e] = "failed"
  BY <1>1, <1>2, <1>3, <1>7, WrittenForCause DEF Contract!GiveUpOn
<1> QED
  BY <1>1, <1>2, <1>4, <1>5, <1>6, <1>7

LEMMA WorkerRefines ==
  ASSUME EventInv, EndInv, CauseInv, NEW w \in Workers, WorkerStep(w) \/ Die(w),
         NEW e \in Events
  PROVE  EventRefines(e)
<1>1. CASE MoveStep(w) \/ UNCHANGED eventVars
  <2>1. UNCHANGED <<status, attempts, outcomes>>
    BY <1>1, MoveFacts DEF queueVars, eventVars
  <2> QED
    BY <2>1, SameHistory DEF EventRefines, EventState, Contract!Keep, Contract!SameTries
<1> QED
  BY <1>1, WorkerCases, ClaimRefines, EndsRefine, WriteRefines

\* The rows of event_queue behave as EventContract says, for any number of workers: every
\* event is tried at most MaxAttempts times, its handler ends at most once in each try, it is
\* closed only after it was handled and given up only for want of tries or on a KeyError of
\* its handler, wherever that was raised.
THEOREM Refinement == Spec => ImplementsContract
<1>1. Init => Contract!ContractInit
  <2> SUFFICES ASSUME Init PROVE Contract!ContractInit
    OBVIOUS
  <2>1. \A e \in Events : HandledIn(e) = {} /\ KeyErrorIn(e) = {}
    BY DEF Init, WorkerInit, QueueInit, HandledIn, KeyErrorIn, Handled
  <2> QED
    BY <2>1 DEF Init, WorkerInit, QueueInit, EventState, Contract!ContractInit
<1>2. EventInv /\ EndInv /\ CauseInv /\ [Next]_vars
        => [Contract!ContractNext]_(Contract!contractVars)
  <2> SUFFICES ASSUME EventInv, EndInv, CauseInv, [Next]_vars
               PROVE  [Contract!ContractNext]_(Contract!contractVars)
    OBVIOUS
  <2>1. CASE Tick \/ UNCHANGED vars
    BY <2>1
    DEF Tick, QueueTick, vars, Contract!contractVars, EventState, HandledIn, KeyErrorIn
  <2>2. CASE ~(Tick \/ UNCHANGED vars)
    BY <2>2, ReceiveRefines, WorkerRefines DEF Next, EventRefines, Contract!ContractNext
  <2> QED
    BY <2>1, <2>2
<1> QED
  BY <1>1, <1>2, EventsAlways, EndsAlways, CausesAlways, PTL
  DEF Spec, ImplementsContract, Contract!ContractSpec

(***************************************************************************)
(* Drive.  What a caller knows of the folder and of the file it is about   *)
(* to write stays true, whoever else is at work: nothing is ever deleted,  *)
(* and a file stays in its folder and in its role.                         *)
(***************************************************************************)
IsFile(j, i, role) == j \in DOMAIN files /\ files[j].folder = i /\ files[j].role = role

\* A worker is inside sync_instructor_to_drive only during its work on a card ...
Working(w) == at[w] # "off" => stage[w] = "work" /\ OnCard(w)

\* ... whose name it has read, in a folder of that name ...
Named(w) == at[w] \notin {"off", "raised"} => info[w].name = NameOf[evt[w]]

InFolder(w) ==
  at[w] \in {"photo", "putPhoto", "notes", "putNotes", "returned"} =>
    folder[w] \in DOMAIN folders /\ folders[folder[w]] = info[w].name

\* ... where the file it is about to update is, and in the end informacoes.md.
OnTarget(w) ==
  /\ at[w] = "putPhoto" /\ target[w] # NoFile => IsFile(target[w], folder[w], "photo")
  /\ at[w] = "putNotes" /\ target[w] # NoFile => IsFile(target[w], folder[w], "notes")

Noted(w) == at[w] = "returned" => \E j \in DOMAIN files : IsFile(j, folder[w], "notes")

Sound(w) == Working(w) /\ Named(w) /\ InFolder(w) /\ OnTarget(w) /\ Noted(w)

Filed(e) ==
  \E i \in DOMAIN folders, j \in DOMAIN files :
    folders[i] = NameOf[e] /\ IsFile(j, i, "notes")

SyncedIsFiled ==
  \A e \in Events, a \in 1..MaxAttempts :
    kind[e] = "card" /\ outcomes[e][a] = "worked" => Filed(e)

SyncInv ==
  /\ Drive!DriveTypeOK
  /\ \A w \in Workers : Sound(w)
  /\ SyncedIsFiled

\* The records of files when there are n folders.
FileRecords(n) ==
  [folder : 1..n, role : {"photo", "notes"}, ext : Photos \cup {NoPhoto}]

LEMMA SyncedMeansDone == SyncInv => DoneMeansFiled
<1> SUFFICES ASSUME SyncInv, NEW e \in Events, kind[e] = "card",
                    NEW a \in 1..MaxAttempts, outcomes[e][a] = "worked"
             PROVE  \E i \in Drive!FoldersNamed(NameOf[e]) : Drive!FilesIn(i, "notes") # {}
  BY DEF DoneMeansFiled
<1>1. PICK i \in DOMAIN folders, j \in DOMAIN files :
        folders[i] = NameOf[e] /\ IsFile(j, i, "notes")
  BY DEF SyncInv, SyncedIsFiled, Filed
<1>2. i \in Drive!FoldersNamed(NameOf[e]) /\ j \in Drive!FilesIn(i, "notes")
  BY <1>1 DEF Drive!FoldersNamed, Drive!FilesIn, IsFile
<1> QED
  BY <1>2

LEMMA InitSyncInv == Init => SyncInv
<1> SUFFICES ASSUME Init PROVE SyncInv
  OBVIOUS
<1>1. Drive!DriveTypeOK
  BY EmptySeq DEF Init, Drive!DriveInit, Drive!DriveTypeOK, Drive!Places, Drive!Infos, Drive!NoInfo
<1>2. \A w \in Workers : Sound(w)
  BY DEF Init, Drive!DriveInit, Sound, Working, Named, InFolder, OnTarget, Noted
<1>3. SyncedIsFiled
  BY DEF Init, WorkerInit, SyncedIsFiled
<1> QED
  BY <1>1, <1>2, <1>3 DEF SyncInv

-----------------------------------------------------------------------------
(* Steps outside Drive.                                                    *)

\* They keep the invariant if they leave alone the events that are being worked on, and
\* let no handler return from its work.
LEMMA OutsideSyncInv ==
  ASSUME SyncInv, UNCHANGED driveVars,
         \A w \in Workers : at[w] # "off" =>
           stage'[w] = stage[w] /\ evt'[w] = evt[w] /\ kind'[evt[w]] = kind[evt[w]],
         \A e \in Events, a \in 1..MaxAttempts :
           kind'[e] = "card" /\ outcomes'[e][a] = "worked" =>
             kind[e] = "card" /\ outcomes[e][a] = "worked"
  PROVE  SyncInv'
<1> USE DEF SyncInv, driveVars
<1>1. Drive!DriveTypeOK'
  BY DEF Drive!DriveTypeOK
<1>2. ASSUME NEW w \in Workers PROVE Sound(w)'
  <2>1. Sound(w)
    OBVIOUS
  <2>2. Working(w)' /\ Named(w)'
    BY <2>1 DEF Sound, Working, Named, OnCard
  <2>3. InFolder(w)' /\ OnTarget(w)' /\ Noted(w)'
    BY <2>1 DEF Sound, InFolder, OnTarget, Noted, IsFile
  <2> QED
    BY <2>2, <2>3 DEF Sound
<1>3. SyncedIsFiled'
  BY DEF SyncedIsFiled, Filed, IsFile
<1> QED
  BY <1>1, <1>2, <1>3

LEMMA ReceiveSyncInv ==
  ASSUME EventInv, SyncInv, NEW e \in Events, NEW k \in Inputs, Receive(e, k),
         UNCHANGED <<workerVars, outcomes, driveVars>>
  PROVE  SyncInv'
<1>1. kind' = [kind EXCEPT ![e] = k] /\ status[e] = "absent"
  BY DEF Receive, EventInv, Received
<1>2. \A a \in 1..MaxAttempts : outcomes[e][a] = "none"
  BY <1>1 DEF EventInv, Received
<1>3. \A w \in Workers : at[w] # "off" => evt[w] # e
  BY <1>1 DEF SyncInv, Sound, Working, EventInv, Holding
<1>4. kind \in [Events -> Inputs \cup {NoKind}]
  BY DEF EventInv, WorkerTypeOK, QueueTypeOK
<1> QED
  BY <1>1, <1>2, <1>3, <1>4, OutsideSyncInv DEF workerVars

LEMMA LoopSyncInv ==
  ASSUME EventInv, SyncInv, NEW w \in Workers, LoopStep(w), UNCHANGED driveVars
  PROVE  SyncInv'
<1>1. stage[w] # "work" /\ kind' = kind
  BY DEF LoopStep, Claim, ClaimNone, Dispatch, IgnorePhase, DispatchKeyError, FetchKeyError,
         KeyErrorAt, FetchTranscript,
         FetchTranscriptRaises, FetchCard, FetchCardDenied, FetchCardRaises, MarkDone,
         MarkDoneRaises, MarkDoneUnanswered, MarkFailedRetries, MarkFailedForGood, Requeue,
         GiveUp, GoTo, Unwritten, queueVars, ClaimEvent, ClaimNoEvent, MarkEventDone,
         RequeueEvent, FailEvent
<1>2. at[w] = "off"
  BY <1>1 DEF SyncInv, Sound, Working
<1>3. \A v \in Workers \ {w} : stage'[v] = stage[v] /\ evt'[v] = evt[v]
  BY DEF LoopStep, Claim, ClaimNone, Dispatch, IgnorePhase, DispatchKeyError, FetchKeyError,
         KeyErrorAt, FetchTranscript,
         FetchTranscriptRaises, FetchCard, FetchCardDenied, FetchCardRaises, MarkDone,
         MarkDoneRaises, MarkDoneUnanswered, MarkFailedRetries, MarkFailedForGood, Requeue,
         GiveUp, GoTo, Leave, workerVars, EventInv, WorkerTypeOK
<1>4. outcomes' = outcomes \/ \E how \in {"ignored", "skipped", "keyError"} : Ended(w, how)
  BY DEF LoopStep, Claim, ClaimNone, Dispatch, IgnorePhase, DispatchKeyError, FetchKeyError,
         KeyErrorAt, FetchTranscript,
         FetchTranscriptRaises, FetchCard, FetchCardDenied, FetchCardRaises, MarkDone,
         MarkDoneRaises, MarkDoneUnanswered, MarkFailedRetries, MarkFailedForGood, Requeue,
         GiveUp, Unwritten
<1>5. \A e \in Events, a \in 1..MaxAttempts :
        outcomes'[e][a] = "worked" => outcomes[e][a] = "worked"
  <2>1. CASE outcomes' = outcomes
    BY <2>1
  <2>2. ASSUME NEW how \in {"ignored", "skipped", "keyError"}, Ended(w, how),
               NEW e \in Events, NEW a \in 1..MaxAttempts, outcomes'[e][a] = "worked"
        PROVE  outcomes[e][a] = "worked"
    <3>1. outcomes' = [outcomes EXCEPT ![evt[w]] = [@ EXCEPT ![try[w]] = how]]
      BY <2>2 DEF Ended
    <3>2. outcomes \in [Events -> [1..MaxAttempts -> Outcomes]]
      BY DEF EventInv, WorkerTypeOK
    <3>3. outcomes'[e] = outcomes[e] \/ outcomes'[e] = [outcomes[e] EXCEPT ![try[w]] = how]
      BY <3>1, <3>2
    <3>4. outcomes'[e][a] \in {outcomes[e][a], how}
      BY <3>2, <3>3
    <3> QED
      BY <2>2, <3>4
  <2> QED
    BY <1>4, <2>1, <2>2
<1> QED
  BY <1>1, <1>2, <1>3, <1>5, OutsideSyncInv

LEMMA TickSyncInv ==
  ASSUME SyncInv, Tick \/ UNCHANGED eventVars, UNCHANGED driveVars
  PROVE  SyncInv'
  BY OutsideSyncInv DEF Tick, QueueTick, eventVars

-----------------------------------------------------------------------------
(* Steps inside Drive.                                                     *)

LEMMA SeqMonotone ==
  ASSUME NEW S, NEW T, S \subseteq T, NEW s \in Seq(S)
  PROVE  s \in Seq(T)
<1>1. \A i \in 1..Len(s) : s[i] \in T
  BY ElementOfSeq
<1> QED
  BY <1>1

\* Folders and files may be added, never removed or moved.
Grown ==
  /\ Len(folders) <= Len(folders') /\ Len(files) <= Len(files')
  /\ \A i \in DOMAIN folders : i \in DOMAIN folders' /\ folders'[i] = folders[i]
  /\ \A j \in DOMAIN files :
       /\ j \in DOMAIN files'
       /\ files'[j].folder = files[j].folder /\ files'[j].role = files[j].role

DriveObjectsOK ==
  folders \in Seq(Names) /\ files \in Seq(FileRecords(Len(folders)))

LEMMA AddFolderGrows ==
  ASSUME EventInv, SyncInv, NEW w \in Workers, at[w] = "createFolder", Drive!AddFolder(w),
         UNCHANGED files
  PROVE  /\ Grown /\ DriveObjectsOK'
         /\ Len(folders') = Len(folders) + 1
         /\ folders'[Len(folders) + 1] = info[w].name
         /\ info[w].name \in Names
<1>1. folders \in Seq(Names) /\ files \in Seq(FileRecords(Len(folders)))
  BY DEF SyncInv, Drive!DriveTypeOK, FileRecords
<1>2. info[w].name = NameOf[evt[w]] /\ evt[w] \in Events
  BY DEF SyncInv, Sound, Working, Named, OnCard, EventInv, WorkerTypeOK
<1>3. info[w].name \in Names
  BY <1>2, CardAssumption
<1>4. folders' = Append(folders, info[w].name)
  BY DEF Drive!AddFolder
<1>5. /\ folders' \in Seq(Names) /\ Len(folders') = Len(folders) + 1
      /\ \A i \in 1..Len(folders) : folders'[i] = folders[i]
      /\ folders'[Len(folders) + 1] = info[w].name
  BY <1>1, <1>3, <1>4, AppendProperties
<1>6. FileRecords(Len(folders)) \subseteq FileRecords(Len(folders'))
  BY <1>1, <1>5 DEF FileRecords
<1>7. files' \in Seq(FileRecords(Len(folders')))
  BY <1>1, <1>6, SeqMonotone
<1> QED
  BY <1>1, <1>3, <1>5, <1>7 DEF Grown, DriveObjectsOK

LEMMA PutFileGrows ==
  ASSUME SyncInv, NEW w \in Workers, NEW role \in {"photo", "notes"},
         NEW ext \in Photos \cup {NoPhoto},
         folder[w] \in DOMAIN folders,
         target[w] # NoFile => IsFile(target[w], folder[w], role),
         Drive!PutFile(w, role, ext), UNCHANGED folders
  PROVE  /\ Grown /\ DriveObjectsOK'
         /\ \E j \in DOMAIN files' :
              files'[j].folder = folder[w] /\ files'[j].role = role
<1> DEFINE file == [folder |-> folder[w], role |-> role, ext |-> ext]
           Recs == FileRecords(Len(folders))
<1>1. folders \in Seq(Names) /\ files \in Seq(Recs) /\ Len(files) \in Nat
  BY DEF SyncInv, Drive!DriveTypeOK, FileRecords
<1>2. file \in Recs
  BY <1>1 DEF FileRecords
<1>3. CASE target[w] = NoFile
  <2>1. files' = Append(files, file)
    BY <1>3 DEF Drive!PutFile
  <2>2. /\ files' \in Seq(Recs) /\ Len(files') = Len(files) + 1
        /\ \A j \in 1..Len(files) : files'[j] = files[j]
        /\ files'[Len(files) + 1] = file
    <3> HIDE DEF file, Recs
    <3> QED
      BY <1>1, <1>2, <2>1, AppendProperties
  <2>3. Grown /\ DriveObjectsOK'
    BY <1>1, <2>2 DEF Grown, DriveObjectsOK
  <2>4. Len(files) + 1 \in DOMAIN files'
    BY <1>1, <2>2
  <2>5. PICK n \in DOMAIN files' : files'[n] = file
    BY <2>2, <2>4
  <2>6. files'[n].folder = folder[w] /\ files'[n].role = role
    BY <2>5
  <2> QED
    BY <2>3, <2>6
<1>4. CASE target[w] # NoFile
  <2>1. files' = [files EXCEPT ![target[w]] = file]
    BY <1>4 DEF Drive!PutFile
  <2>2. /\ target[w] \in 1..Len(files)
        /\ files[target[w]].folder = folder[w] /\ files[target[w]].role = role
    BY <1>1, <1>4 DEF IsFile
  <2>3. /\ files' \in Seq(Recs) /\ Len(files') = Len(files)
        /\ \A j \in 1..Len(files) : files'[j] = IF j = target[w] THEN file ELSE files[j]
    <3> HIDE DEF file, Recs
    <3> QED
      BY <1>1, <1>2, <2>1, <2>2, ExceptSeq
  <2>4. file.folder = folder[w] /\ file.role = role
    OBVIOUS
  <2>5. Grown
    BY <1>1, <2>2, <2>3, <2>4 DEF Grown
  <2>6. DriveObjectsOK'
    BY <1>1, <2>3 DEF DriveObjectsOK
  <2>7. target[w] \in DOMAIN files' /\ files'[target[w]] = file
    BY <1>1, <2>2, <2>3
  <2> QED
    BY <2>4, <2>5, <2>6, <2>7 DEF IsFile
<1> QED
  BY <1>3, <1>4

\* The other workers keep what they know when Drive has grown.
LEMMA GrownSyncInv ==
  ASSUME EventInv, SyncInv, NEW w \in Workers, UNCHANGED eventVars, Grown, Drive!DriveTypeOK',
         \A v \in Workers \ {w} :
           UNCHANGED <<at[v], info[v], folder[v], target[v]>>,
         Sound(w)'
  PROVE  SyncInv'
<1>1. ASSUME NEW v \in Workers \ {w} PROVE Sound(v)'
  <2>1. Sound(v) /\ UNCHANGED <<at[v], info[v], folder[v], target[v]>>
    BY DEF SyncInv
  <2>2. Working(v)' /\ Named(v)'
    BY <2>1 DEF Sound, Working, Named, OnCard, eventVars
  <2>3. InFolder(v)' /\ OnTarget(v)' /\ Noted(v)'
    BY <2>1 DEF Sound, InFolder, OnTarget, Noted, IsFile, Grown
  <2> QED
    BY <2>2, <2>3 DEF Sound
<1>2. SyncedIsFiled'
  <2> SUFFICES ASSUME NEW e \in Events, Filed(e) PROVE Filed(e)'
    BY DEF SyncInv, SyncedIsFiled, eventVars
  <2> QED
    BY DEF Filed, IsFile, Grown
<1> QED
  BY <1>1, <1>2 DEF SyncInv

\* The call raises: nothing is left of it, but Drive may have grown.
LEMMA RaisedSyncInv ==
  ASSUME EventInv, SyncInv, NEW w \in Workers, UNCHANGED eventVars,
         stage[w] = "work", OnCard(w),
         Grown, DriveObjectsOK', Drive!End(w, "raised")
  PROVE  SyncInv'
<1>1. Drive!DriveTypeOK /\ Len(folders) \in Nat /\ Len(files) \in Nat
  BY DEF SyncInv, Drive!DriveTypeOK
<1>2. Len(folders') \in Nat /\ Len(files') \in Nat
  BY DEF DriveObjectsOK
<1>3. Drive!DriveTypeOK'
  <2>1. at' \in [Workers -> Drive!Places] /\ info' \in [Workers -> Drive!Infos]
    BY <1>1 DEF Drive!End, Drive!DriveTypeOK, Drive!Places, Drive!Infos, Drive!NoInfo
  <2>2. folder' \in [Workers -> 0..Len(folders')]
    <3>1. \A v \in Workers : folder[v] \in 0..Len(folders')
      BY <1>1, <1>2 DEF Drive!DriveTypeOK, Grown
    <3>2. 0 \in 0..Len(folders')
      BY <1>2
    <3> QED
      BY <1>1, <3>1, <3>2 DEF Drive!End, Drive!DriveTypeOK
  <2>3. target' \in [Workers -> (1..Len(files')) \cup {NoFile}]
    <3>1. \A v \in Workers : target[v] \in (1..Len(files')) \cup {NoFile}
      BY <1>1, <1>2 DEF Drive!DriveTypeOK, Grown
    <3> QED
      BY <1>1, <3>1 DEF Drive!End, Drive!DriveTypeOK
  <2> QED
    BY <2>1, <2>2, <2>3 DEF Drive!DriveTypeOK, DriveObjectsOK, FileRecords
<1>4. Sound(w)'
  BY <1>1
  DEF Drive!End, Sound, Working, Named, InFolder, OnTarget, Noted, OnCard, eventVars,
      Drive!DriveTypeOK
<1>5. \A v \in Workers \ {w} : UNCHANGED <<at[v], info[v], folder[v], target[v]>>
  BY <1>1 DEF Drive!End, Drive!DriveTypeOK
<1> QED
  BY <1>3, <1>4, <1>5, GrownSyncInv

LEMMA SameDrive ==
  ASSUME SyncInv, UNCHANGED <<folders, files>>
  PROVE  Grown /\ DriveObjectsOK'
  BY DEF Grown, DriveObjectsOK, SyncInv, Drive!DriveTypeOK, FileRecords

\* A query that asks for the oldest file first returns one of the files it matches.
LEMMA OldestExists ==
  ASSUME NEW S, S \subseteq Nat, S # {}
  PROVE  Drive!Oldest(S) \in S
<1> DEFINE R == {ss \in Nat \X Nat : ss[1] < ss[2]}
<1>1. IsWellFoundedOn(R, Nat)
  BY NatLessThanWellFounded DEF OpToRel
<1>2. \E j \in S : \A k \in S : <<k, j>> \notin R
  <2> HIDE DEF R
  <2> QED
    BY <1>1, WFMin
<1>3. \A j, k \in Nat : <<k, j>> \notin R => j <= k
  <2> SUFFICES ASSUME NEW j \in Nat, NEW k \in Nat, k < j PROVE <<k, j>> \in R
    BY SMT
  <2>1. <<k, j>> \in Nat \X Nat /\ <<k, j>>[1] < <<k, j>>[2]
    OBVIOUS
  <2> QED
    BY <2>1
<1>4. \E j \in S : \A k \in S : j <= k
  <2> HIDE DEF R
  <2> QED
    BY <1>2, <1>3
<1> QED
  BY <1>4 DEF Drive!Oldest

\* Queries: Drive stays as it is.
LEMMA QuerySyncInv ==
  ASSUME EventInv, SyncInv, NEW w \in Workers, UNCHANGED eventVars,
         \/ Drive!FindFolder(w) \/ Drive!SkipPhoto(w) \/ Drive!FindPhoto(w)
         \/ Drive!FindNotes(w)
  PROVE  SyncInv'
<1> USE DEF Drive!Move, Drive!Places, Drive!Infos
<1>1. /\ UNCHANGED <<folders, files, info>> /\ at[w] # "off"
      /\ \E p \in Drive!Places \ {"off"} : at' = [at EXCEPT ![w] = p]
  BY DEF Drive!FindFolder, Drive!SkipPhoto, Drive!FindPhoto, Drive!FindNotes
<1>2. Drive!DriveTypeOK /\ Sound(w)
  BY DEF SyncInv
<1>3. Len(folders) \in Nat /\ Len(files) \in Nat /\ NoFile \notin Nat
      /\ DOMAIN folders = 1..Len(folders) /\ DOMAIN files = 1..Len(files)
  BY <1>2, CardAssumption DEF Drive!DriveTypeOK
<1>4. Grown
  BY <1>1 DEF Grown
<1>5. Working(w)'
  BY <1>1, <1>2 DEF Sound, Working, OnCard, eventVars
<1>6. CASE Drive!FindFolder(w)
  <2>1. /\ at[w] = "folder" /\ target' = target
        /\ \/ at'[w] = "createFolder" /\ folder' = folder
           \/ /\ at'[w] = "photo"
              /\ \E i \in DOMAIN folders :
                   folders[i] = info[w].name /\ folder' = [folder EXCEPT ![w] = i]
    BY <1>1, <1>2, <1>6 DEF Drive!FindFolder, Drive!FoldersNamed, Drive!DriveTypeOK
  <2>2. Drive!DriveTypeOK'
    BY <1>1, <1>2, <1>3, <2>1 DEF Drive!DriveTypeOK
  <2>3. Sound(w)'
    BY <1>1, <1>2, <1>5, <2>1
    DEF Sound, Named, InFolder, OnTarget, Noted, eventVars, Drive!DriveTypeOK
  <2>4. \A v \in Workers \ {w} : UNCHANGED <<at[v], info[v], folder[v], target[v]>>
    BY <1>1, <1>2, <2>1 DEF Drive!DriveTypeOK
  <2> QED
    BY <1>4, <2>2, <2>3, <2>4, GrownSyncInv
<1>7. CASE Drive!SkipPhoto(w)
  <2>1. at[w] = "photo" /\ at'[w] = "notes" /\ UNCHANGED <<folder, target>>
    BY <1>1, <1>2, <1>7 DEF Drive!SkipPhoto, Drive!DriveTypeOK
  <2>2. Drive!DriveTypeOK'
    BY <1>1, <1>2, <2>1 DEF Drive!DriveTypeOK
  <2>3. Sound(w)'
    BY <1>1, <1>2, <1>5, <2>1 DEF Sound, Named, InFolder, OnTarget, Noted, eventVars
  <2>4. \A v \in Workers \ {w} : UNCHANGED <<at[v], info[v], folder[v], target[v]>>
    BY <1>1, <1>2, <2>1 DEF Drive!DriveTypeOK
  <2> QED
    BY <1>4, <2>2, <2>3, <2>4, GrownSyncInv
<1>8. CASE Drive!FindPhoto(w) \/ Drive!FindNotes(w)
  <2>1. PICK t \in DOMAIN files \cup {NoFile} :
          /\ target' = [target EXCEPT ![w] = t] /\ folder' = folder
          /\ \/ /\ at[w] = "photo" /\ at'[w] = "putPhoto"
                /\ t # NoFile => IsFile(t, folder[w], "photo")
             \/ /\ at[w] = "notes" /\ at'[w] = "putNotes"
                /\ t # NoFile => IsFile(t, folder[w], "notes")
    <3>1. CASE Drive!FindPhoto(w)
      <4> DEFINE found == Drive!FilesIn(folder[w], "photo")
      <4>1. found \subseteq DOMAIN files /\ \A j \in found : IsFile(j, folder[w], "photo")
        BY DEF Drive!FilesIn, IsFile
      <4>2. found # {} => Drive!Oldest(found) \in found
        BY <1>3, <4>1, OldestExists
      <4>3. /\ at[w] = "photo" /\ at'[w] = "putPhoto" /\ folder' = folder
            /\ target' = [target EXCEPT ![w] = IF found = {} THEN NoFile ELSE Drive!Oldest(found)]
        BY <1>2, <3>1 DEF Drive!FindPhoto, Drive!DriveTypeOK
      <4> HIDE DEF found
      <4> QED
        BY <4>1, <4>2, <4>3
    <3>2. CASE Drive!FindNotes(w)
      <4> DEFINE found == Drive!FilesIn(folder[w], "notes")
      <4>1. found \subseteq DOMAIN files /\ \A j \in found : IsFile(j, folder[w], "notes")
        BY DEF Drive!FilesIn, IsFile
      <4>2. /\ at[w] = "notes" /\ at'[w] = "putNotes" /\ folder' = folder
            /\ \E j \in IF found = {} THEN {NoFile} ELSE found : target' = [target EXCEPT ![w] = j]
        BY <1>2, <3>2 DEF Drive!FindNotes, Drive!DriveTypeOK
      <4> HIDE DEF found
      <4> QED
        BY <4>1, <4>2
    <3> QED
      BY <1>8, <3>1, <3>2
  <2>2. Drive!DriveTypeOK'
    BY <1>1, <1>2, <1>3, <2>1 DEF Drive!DriveTypeOK
  <2>3. Sound(w)'
    BY <1>1, <1>2, <1>5, <2>1
    DEF Sound, Named, InFolder, OnTarget, Noted, IsFile, eventVars, Drive!DriveTypeOK
  <2>4. \A v \in Workers \ {w} : UNCHANGED <<at[v], info[v], folder[v], target[v]>>
    BY <1>1, <1>2, <2>1 DEF Drive!DriveTypeOK
  <2> QED
    BY <1>4, <2>2, <2>3, <2>4, GrownSyncInv
<1> QED
  BY <1>6, <1>7, <1>8

LEMMA CreateFolderSyncInv ==
  ASSUME EventInv, SyncInv, NEW w \in Workers, UNCHANGED eventVars,
         Drive!CreateFolder(w)
  PROVE  SyncInv'
<1> USE DEF Drive!Move, Drive!Places
<1>1. /\ at[w] = "createFolder" /\ Drive!AddFolder(w) /\ UNCHANGED <<files, info, target>>
      /\ at' = [at EXCEPT ![w] = "photo"]
      /\ folder' = [folder EXCEPT ![w] = Len(folders) + 1]
  BY DEF Drive!CreateFolder
<1>2. Drive!DriveTypeOK /\ Sound(w)
  BY DEF SyncInv
<1>3. /\ Grown /\ DriveObjectsOK'
      /\ Len(folders') = Len(folders) + 1
      /\ folders'[Len(folders) + 1] = info[w].name
  BY <1>1, AddFolderGrows
<1>4. Len(folders) \in Nat /\ DOMAIN folders' = 1..Len(folders')
  BY <1>2, <1>3 DEF Drive!DriveTypeOK, DriveObjectsOK
<1>5. Drive!DriveTypeOK'
  <2>1. /\ at' \in [Workers -> Drive!Places]
        /\ folder' \in [Workers -> 0..Len(folders')]
        /\ UNCHANGED <<info, target, files>>
    <3>1. \A v \in Workers : folder[v] \in 0..Len(folders')
      BY <1>2, <1>3, <1>4 DEF Drive!DriveTypeOK
    <3>2. Len(folders) + 1 \in 0..Len(folders')
      BY <1>3, <1>4
    <3>3. folder' \in [Workers -> 0..Len(folders')]
      BY <1>1, <1>2, <3>1, <3>2 DEF Drive!DriveTypeOK
    <3> QED
      BY <1>1, <1>2, <3>3 DEF Drive!DriveTypeOK
  <2> QED
    BY <1>2, <1>3, <2>1 DEF Drive!DriveTypeOK, DriveObjectsOK, FileRecords, Drive!Infos
<1>6. Sound(w)'
  BY <1>1, <1>2, <1>3, <1>4
  DEF Sound, Working, Named, InFolder, OnTarget, Noted, OnCard, eventVars, Drive!DriveTypeOK
<1>7. \A v \in Workers \ {w} : UNCHANGED <<at[v], info[v], folder[v], target[v]>>
  BY <1>1, <1>2 DEF Drive!DriveTypeOK
<1> QED
  BY <1>3, <1>5, <1>6, <1>7, GrownSyncInv

LEMMA PutSyncInv ==
  ASSUME EventInv, SyncInv, NEW w \in Workers, UNCHANGED eventVars,
         Drive!PutPhoto(w) \/ Drive!PutNotes(w)
  PROVE  SyncInv'
<1> USE DEF Drive!Move, Drive!Places, Drive!Infos
<1>1. Drive!DriveTypeOK /\ Sound(w)
  BY DEF SyncInv
<1>2. PICK role \in {"photo", "notes"}, ext \in Photos \cup {NoPhoto} :
        /\ Drive!PutFile(w, role, ext) /\ UNCHANGED <<folders, info, folder>>
        /\ \/ role = "photo" /\ at[w] = "putPhoto"
           \/ role = "notes" /\ at[w] = "putNotes"
        /\ \/ target' = target
           \/ target' = [target EXCEPT ![w] = NoFile]
        /\ \/ role = "photo" /\ at' = [at EXCEPT ![w] = "notes"]
           \/ role = "notes" /\ at' = [at EXCEPT ![w] = "returned"]
  BY <1>1 DEF Drive!PutPhoto, Drive!PutNotes, Drive!DriveTypeOK
<1>3. /\ folder[w] \in DOMAIN folders
      /\ target[w] # NoFile => IsFile(target[w], folder[w], role)
  BY <1>1, <1>2 DEF Sound, InFolder, OnTarget
<1>4. /\ Grown /\ DriveObjectsOK'
      /\ \E j \in DOMAIN files' : IsFile(j, folder[w], role)'
  BY <1>2, <1>3, PutFileGrows DEF IsFile
<1>5. Drive!DriveTypeOK'
  <2>1. /\ at' \in [Workers -> Drive!Places]
        /\ target' \in [Workers -> 1..Len(files') \cup {NoFile}]
    <3>1. Len(files) \in Nat /\ Len(files') \in Nat /\ Len(files) <= Len(files')
      BY <1>1, <1>4 DEF Drive!DriveTypeOK, DriveObjectsOK, Grown
    <3>2. \A v \in Workers : target[v] \in 1..Len(files') \cup {NoFile}
      BY <1>1, <3>1 DEF Drive!DriveTypeOK
    <3>3. target' \in [Workers -> 1..Len(files') \cup {NoFile}]
      BY <1>1, <1>2, <3>2 DEF Drive!DriveTypeOK
    <3> QED
      BY <1>1, <1>2, <3>3 DEF Drive!DriveTypeOK
  <2> QED
    BY <1>1, <1>2, <1>4, <2>1 DEF Drive!DriveTypeOK, DriveObjectsOK, FileRecords
<1>6. Sound(w)'
  BY <1>1, <1>2, <1>4
  DEF Sound, Working, Named, InFolder, OnTarget, Noted, OnCard, IsFile, eventVars,
      Drive!DriveTypeOK
<1>7. \A v \in Workers \ {w} : UNCHANGED <<at[v], info[v], folder[v], target[v]>>
  BY <1>1, <1>2 DEF Drive!DriveTypeOK
<1> QED
  BY <1>4, <1>5, <1>6, <1>7, GrownSyncInv

\* A call that raises, with or without effect.
LEMMA RaisesSyncInv ==
  ASSUME EventInv, SyncInv, NEW w \in Workers, UNCHANGED eventVars,
         \/ Drive!CreateFolderUnanswered(w) \/ Drive!PutPhotoUnanswered(w)
         \/ Drive!PutNotesUnanswered(w) \/ Drive!SyncRaises(w)
  PROVE  SyncInv'
<1>1. Drive!DriveTypeOK /\ Sound(w) /\ at[w] # "off" /\ Drive!End(w, "raised")
  BY DEF SyncInv, Drive!CreateFolderUnanswered, Drive!PutPhotoUnanswered,
         Drive!PutNotesUnanswered, Drive!SyncRaises
<1>2. stage[w] = "work" /\ OnCard(w)
  BY <1>1 DEF Sound, Working
<1>3. CASE Drive!CreateFolderUnanswered(w)
  BY <1>1, <1>2, <1>3, AddFolderGrows, RaisedSyncInv DEF Drive!CreateFolderUnanswered
<1>4. ASSUME NEW role \in {"photo", "notes"}, NEW ext \in Photos \cup {NoPhoto},
             Drive!PutFile(w, role, ext), UNCHANGED folders,
             \/ role = "photo" /\ at[w] = "putPhoto"
             \/ role = "notes" /\ at[w] = "putNotes"
      PROVE  SyncInv'
  <2>1. /\ folder[w] \in DOMAIN folders
        /\ target[w] # NoFile => IsFile(target[w], folder[w], role)
    BY <1>1, <1>4 DEF Sound, InFolder, OnTarget
  <2>2. Grown /\ DriveObjectsOK'
    BY <1>4, <2>1, PutFileGrows
  <2> QED
    BY <1>1, <1>2, <2>2, RaisedSyncInv
<1>5. CASE Drive!PutPhotoUnanswered(w) \/ Drive!PutNotesUnanswered(w)
  <2>1. info[w].photo \in Photos \cup {NoPhoto}
    BY <1>1 DEF Drive!DriveTypeOK, Drive!Infos
  <2> QED
    BY <1>4, <1>5, <2>1 DEF Drive!PutPhotoUnanswered, Drive!PutNotesUnanswered
<1>6. CASE Drive!SyncRaises(w)
  BY <1>1, <1>2, <1>6, SameDrive, RaisedSyncInv DEF Drive!SyncRaises
<1> QED
  BY <1>3, <1>5, <1>6

LEMMA BeginSyncInv ==
  ASSUME EventInv, SyncInv, NEW w \in Workers, BeginSync(w)
  PROVE  SyncInv'
<1> USE DEF Drive!Places, Drive!Infos
<1>1. Drive!DriveTypeOK /\ OnCard(w) /\ stage[w] = "work" /\ UNCHANGED eventVars
  BY DEF SyncInv, BeginSync
<1>2. NameOf[evt[w]] \in Names
  BY <1>1, CardAssumption DEF OnCard, EventInv, WorkerTypeOK
<1>3. UNCHANGED <<folders, files>> /\ Grown /\ DriveObjectsOK'
  BY SameDrive DEF BeginSync, Drive!StartSync
<1>4. CASE Drive!End(w, "raised")
  BY <1>1, <1>3, <1>4, RaisedSyncInv
<1>5. ASSUME NEW i \in CardInfos(evt[w]), i.name # NoName,
             at' = [at EXCEPT ![w] = "folder"], info' = [info EXCEPT ![w] = i],
             UNCHANGED <<folder, target>>
      PROVE  SyncInv'
  <2>1. i \in Drive!Infos /\ i.name = NameOf[evt[w]]
    BY <1>2, <1>5 DEF CardInfos
  <2>2. Drive!DriveTypeOK'
    BY <1>1, <1>3, <1>5, <2>1 DEF Drive!DriveTypeOK
  <2>3. Sound(w)'
    BY <1>1, <1>3, <1>5, <2>1
    DEF Sound, Working, Named, InFolder, OnTarget, Noted, OnCard, eventVars, Drive!DriveTypeOK
  <2>4. \A v \in Workers \ {w} : UNCHANGED <<at[v], info[v], folder[v], target[v]>>
    BY <1>1, <1>5 DEF Drive!DriveTypeOK
  <2> QED
    BY <1>1, <1>3, <2>2, <2>3, <2>4, GrownSyncInv
<1> QED
  BY <1>4, <1>5 DEF BeginSync, Drive!StartSync

\* The end of a piece of work, by return, exception or death: the locals are gone, and
\* only work on a card that has returned counts as done.
LEMMA ForgetSyncInv ==
  ASSUME EventInv, SyncInv, NEW w \in Workers, WorkDone(w) \/ WorkFails(w) \/ Die(w)
  PROVE  SyncInv'
<1> USE DEF Drive!Forget, Drive!End, Drive!Places, Drive!Infos, Drive!NoInfo
<1>1. Drive!DriveTypeOK /\ Drive!Forget(w) /\ UNCHANGED <<folders, files, kind>>
  BY DEF SyncInv, WorkDone, WorkFails, Die, WorkReturns, WorkRaises, WorkKeyError, KeyErrorAt,
         Crash, Unwritten, queueVars
<1>2. Drive!DriveTypeOK'
  BY <1>1 DEF Drive!DriveTypeOK
<1>3. Sound(w)'
  BY <1>1 DEF Sound, Working, Named, InFolder, OnTarget, Noted, Drive!DriveTypeOK
<1>4. ASSUME NEW v \in Workers \ {w} PROVE Sound(v)'
  <2>1. Sound(v) /\ UNCHANGED <<at[v], info[v], folder[v], target[v]>>
    BY <1>1 DEF SyncInv, Drive!DriveTypeOK
  <2>2. stage'[v] = stage[v] /\ evt'[v] = evt[v]
    BY DEF WorkDone, WorkFails, Die, WorkReturns, WorkRaises, WorkKeyError, KeyErrorAt, Crash,
           GoTo, Leave, EventInv, WorkerTypeOK
  <2>3. Working(v)' /\ Named(v)'
    BY <1>1, <2>1, <2>2 DEF Sound, Working, Named, OnCard
  <2>4. InFolder(v)' /\ OnTarget(v)' /\ Noted(v)'
    BY <1>1, <2>1 DEF Sound, InFolder, OnTarget, Noted, IsFile
  <2> QED
    BY <2>3, <2>4 DEF Sound
<1>5. SyncedIsFiled'
  <2> SUFFICES ASSUME NEW e \in Events, NEW a \in 1..MaxAttempts,
                      kind[e] = "card", outcomes'[e][a] = "worked"
               PROVE  Filed(e)
    BY <1>1 DEF SyncedIsFiled, Filed, IsFile
  <2>1. CASE outcomes[e][a] = "worked"
    BY <2>1 DEF SyncInv, SyncedIsFiled
  <2>2. CASE outcomes[e][a] # "worked"
    <3>1. WorkDone(w)
      <4>1. ~WorkKeyError(w)
        <5> SUFFICES ASSUME WorkKeyError(w) PROVE FALSE
          OBVIOUS
        <5>1. outcomes' = [outcomes EXCEPT ![evt[w]] = [@ EXCEPT ![try[w]] = "keyError"]]
          BY DEF WorkKeyError, KeyErrorAt, Ended
        <5>2. outcomes \in [Events -> [1..MaxAttempts -> Outcomes]]
          BY DEF EventInv, WorkerTypeOK
        <5>3. outcomes'[e] \in {outcomes[e], [outcomes[e] EXCEPT ![try[w]] = "keyError"]}
          BY <5>1, <5>2
        <5>4. outcomes'[e][a] \in {outcomes[e][a], "keyError"}
          BY <5>2, <5>3
        <5> QED
          BY <2>2, <5>4
      <4> QED
        BY <2>2, <4>1 DEF WorkFails, Die, WorkRaises, Crash, Unwritten
    <3>2. evt[w] = e
      BY <2>2, <3>1 DEF WorkDone, WorkReturns, Ended, EventInv, WorkerTypeOK
    <3>3. evt[w] # NoEvent
      BY <3>2, EventWorkerAssumption
    <3>4. at[w] = "returned" /\ Sound(w)
      BY <3>1, <3>2, <3>3 DEF WorkDone, OnCard, SyncInv
    <3>5. folder[w] \in DOMAIN folders /\ folders[folder[w]] = NameOf[e]
      BY <3>2, <3>4 DEF Sound, InFolder, Named
    <3> QED
      BY <3>4, <3>5 DEF Sound, Noted, Filed
  <2> QED
    BY <2>1, <2>2
<1> QED
  BY <1>2, <1>3, <1>4, <1>5 DEF SyncInv

LEMMA NextSyncInv == EventInv /\ SyncInv /\ [Next]_vars => SyncInv'
<1> SUFFICES ASSUME EventInv, SyncInv, [Next]_vars PROVE SyncInv'
  OBVIOUS
<1>1. CASE UNCHANGED vars
  BY <1>1, TickSyncInv DEF vars, eventVars, driveVars
<1>2. ASSUME NEW w \in Workers, Drive!SyncStep(w), UNCHANGED eventVars PROVE SyncInv'
  BY <1>2, QuerySyncInv, CreateFolderSyncInv, PutSyncInv, RaisesSyncInv DEF Drive!SyncStep
<1>3. ASSUME NEW w \in Workers, WorkerStep(w) \/ Die(w) PROVE SyncInv'
  BY <1>2, <1>3, LoopSyncInv, BeginSyncInv, ForgetSyncInv DEF WorkerStep
<1> QED
  BY <1>1, <1>3, ReceiveSyncInv, TickSyncInv DEF Next

LEMMA SyncAlways == Spec => [](EventInv /\ SyncInv)
  BY EventsAlways, InitSyncInv, NextSyncInv, PTL DEF Spec

\* The table, the workers and the objects in Drive keep their types.
THEOREM TypeCorrect == Spec => []TypeOK
<1>1. EventInv /\ SyncInv => TypeOK
  BY DEF EventInv, SyncInv, TypeOK
<1> QED
  BY <1>1, SyncAlways, PTL

\* Whatever workers race and whatever fails, a card that was synchronised is in Drive.
THEOREM SyncedCardIsFiled == Spec => []DoneMeansFiled
  BY SyncAlways, SyncedMeansDone, PTL

(***************************************************************************)
(* A single worker, the deployment of docker-compose.yml: nobody comes     *)
(* between a query and the creation it leads to.                           *)
(***************************************************************************)
Alone == \A v, w \in Workers : v = w

FolderMissing ==
  \A w \in Workers : at[w] = "createFolder" =>
    \A i \in DOMAIN folders : folders[i] # info[w].name

FileMissing ==
  \A w \in Workers : target[w] = NoFile =>
    /\ at[w] = "putPhoto" => \A j \in DOMAIN files : ~IsFile(j, folder[w], "photo")
    /\ at[w] = "putNotes" => \A j \in DOMAIN files : ~IsFile(j, folder[w], "notes")

NoTwins ==
  \A j, k \in DOMAIN files :
    files[j].folder = files[k].folder /\ files[j].role = files[k].role => j = k

AloneInv == FolderMissing /\ FileMissing /\ NoTwins /\ OneFolderPerName

LEMMA InitAloneInv == Init => AloneInv
  BY DEF Init, Drive!DriveInit, AloneInv, FolderMissing, FileMissing, NoTwins,
         OneFolderPerName, Drive!OneFolderPerName

LEMMA NoTwinsMeansOne == NoTwins => OneOfEachFile
  BY DEF NoTwins, OneOfEachFile, Drive!OneOfEachFile, Drive!FilesIn

\* As long as Drive does not change, only the worker that looks needs to know.
LEMMA UnchangedAlone ==
  ASSUME AloneInv, UNCHANGED <<folders, files>>,
         \A w \in Workers :
           \/ UNCHANGED <<at[w], info[w], folder[w], target[w]>>
           \/ at'[w] \notin {"createFolder", "putPhoto", "putNotes"}
  PROVE  AloneInv'
  BY DEF AloneInv, FolderMissing, FileMissing, NoTwins, OneFolderPerName,
         Drive!OneFolderPerName, IsFile

LEMMA QueryAlone ==
  ASSUME Alone, SyncInv, AloneInv, NEW w \in Workers,
         Drive!FindFolder(w) \/ Drive!FindPhoto(w) \/ Drive!FindNotes(w)
  PROVE  AloneInv'
<1>1. Drive!DriveTypeOK /\ \A v \in Workers : v = w
  BY DEF SyncInv, Alone
<1> USE DEF AloneInv, Drive!Move
<1>2. UNCHANGED <<folders, files, info>>
  BY DEF Drive!FindFolder, Drive!FindPhoto, Drive!FindNotes
<1>3. NoTwins' /\ OneFolderPerName'
  BY <1>2 DEF NoTwins, OneFolderPerName, Drive!OneFolderPerName
<1>4. FolderMissing'
  BY <1>1, <1>2 DEF Drive!FindFolder, Drive!FindPhoto, Drive!FindNotes, Drive!FoldersNamed,
                    FolderMissing, Drive!DriveTypeOK
<1>5. FileMissing'
  <2>1. CASE Drive!FindFolder(w)
    BY <1>1, <2>1 DEF Drive!FindFolder, FileMissing, Drive!DriveTypeOK
  <2>2. ASSUME NEW role \in {"photo", "notes"}, target'[w] = NoFile,
               Drive!FilesIn(folder[w], role) # {} => target'[w] \in Drive!FilesIn(folder[w], role)
        PROVE  \A j \in DOMAIN files : ~IsFile(j, folder[w], role)
    <3>1. Drive!FilesIn(folder[w], role) \subseteq Nat
      BY <1>1 DEF Drive!FilesIn, Drive!DriveTypeOK
    <3>2. Drive!FilesIn(folder[w], role) = {}
      BY <2>2, <3>1, CardAssumption
    <3> QED
      BY <3>2 DEF Drive!FilesIn, IsFile
  <2>3. CASE Drive!FindPhoto(w)
    <3> DEFINE found == Drive!FilesIn(folder[w], "photo")
    <3>1. found \subseteq Nat
      BY <1>1 DEF Drive!FilesIn, Drive!DriveTypeOK
    <3>2. found # {} => Drive!Oldest(found) \in found
      BY <3>1, OldestExists
    <3>3. /\ at'[w] = "putPhoto" /\ folder' = folder
          /\ target'[w] = IF found = {} THEN NoFile ELSE Drive!Oldest(found)
      BY <1>1, <2>3 DEF Drive!FindPhoto, Drive!DriveTypeOK
    <3>4. found # {} => target'[w] \in found
      BY <3>2, <3>3
    <3>5. target'[w] = NoFile => \A j \in DOMAIN files : ~IsFile(j, folder[w], "photo")
      BY <2>2, <3>4
    <3> HIDE DEF found
    <3> QED
      BY <1>1, <1>2, <3>3, <3>5 DEF FileMissing, IsFile
  <2>4. CASE Drive!FindNotes(w)
    <3> DEFINE found == Drive!FilesIn(folder[w], "notes")
    <3>1. /\ at'[w] = "putNotes" /\ folder' = folder
          /\ \E j \in IF found = {} THEN {NoFile} ELSE found : target' = [target EXCEPT ![w] = j]
      BY <1>1, <2>4 DEF Drive!FindNotes, Drive!DriveTypeOK
    <3>2. found # {} => target'[w] \in found
      BY <1>1, <3>1 DEF Drive!DriveTypeOK
    <3>3. target'[w] = NoFile => \A j \in DOMAIN files : ~IsFile(j, folder[w], "notes")
      BY <2>2, <3>2
    <3> HIDE DEF found
    <3> QED
      BY <1>1, <1>2, <3>1, <3>3 DEF FileMissing, IsFile
  <2> QED
    BY <2>1, <2>3, <2>4
<1> QED
  BY <1>3, <1>4, <1>5

LEMMA CreateFolderAlone ==
  ASSUME Alone, EventInv, SyncInv, AloneInv, NEW w \in Workers,
         Drive!CreateFolder(w) \/ Drive!CreateFolderUnanswered(w)
  PROVE  AloneInv'
<1>1. Drive!DriveTypeOK /\ \A v \in Workers : v = w
  BY DEF SyncInv, Alone
<1>2. /\ at[w] = "createFolder" /\ at'[w] \in {"photo", "raised"}
      /\ Drive!AddFolder(w) /\ UNCHANGED files
  BY <1>1 DEF Drive!CreateFolder, Drive!CreateFolderUnanswered, Drive!Move, Drive!End,
              Drive!DriveTypeOK
<1>3. /\ Grown /\ DriveObjectsOK'
      /\ Len(folders') = Len(folders) + 1
      /\ folders'[Len(folders) + 1] = info[w].name
  BY <1>2, AddFolderGrows
<1>4. /\ Len(folders) \in Nat
      /\ DOMAIN folders = 1..Len(folders) /\ DOMAIN folders' = 1..(Len(folders) + 1)
  BY <1>1, <1>3 DEF Drive!DriveTypeOK, DriveObjectsOK
<1>5. OneFolderPerName'
  <2>1. \A i \in DOMAIN folders : folders[i] # info[w].name
    BY <1>2 DEF AloneInv, FolderMissing
  <2>2. \A i, j \in DOMAIN folders : folders[i] = folders[j] => i = j
    BY DEF AloneInv, OneFolderPerName, Drive!OneFolderPerName
  <2> SUFFICES ASSUME NEW i \in 1..(Len(folders) + 1), NEW j \in 1..(Len(folders) + 1),
                      folders'[i] = folders'[j]
               PROVE  i = j
    BY <1>4 DEF OneFolderPerName, Drive!OneFolderPerName
  <2>3. i \in DOMAIN folders \/ i = Len(folders) + 1
    BY <1>4
  <2>4. j \in DOMAIN folders \/ j = Len(folders) + 1
    BY <1>4
  <2> QED
    BY <1>3, <2>1, <2>2, <2>3, <2>4 DEF Grown
<1>6. FolderMissing' /\ FileMissing' /\ NoTwins'
  BY <1>1, <1>2 DEF AloneInv, FolderMissing, FileMissing, NoTwins
<1> QED
  BY <1>5, <1>6 DEF AloneInv

LEMMA PutAlone ==
  ASSUME Alone, SyncInv, AloneInv, NEW w \in Workers,
         \/ Drive!PutPhoto(w) \/ Drive!PutPhotoUnanswered(w)
         \/ Drive!PutNotes(w) \/ Drive!PutNotesUnanswered(w)
  PROVE  AloneInv'
<1>1. Drive!DriveTypeOK /\ Sound(w) /\ \A v \in Workers : v = w
  BY DEF SyncInv, Alone
<1>2. PICK role \in {"photo", "notes"}, ext \in Photos \cup {NoPhoto} :
        /\ Drive!PutFile(w, role, ext) /\ UNCHANGED folders
        /\ \/ role = "photo" /\ at[w] = "putPhoto"
           \/ role = "notes" /\ at[w] = "putNotes"
        /\ at'[w] \in {"notes", "returned", "raised"}
  BY <1>1 DEF Drive!PutPhoto, Drive!PutPhotoUnanswered, Drive!PutNotes,
              Drive!PutNotesUnanswered, Drive!DriveTypeOK, Drive!Move, Drive!End, Drive!Infos
<1>3. /\ folder[w] \in DOMAIN folders
      /\ target[w] # NoFile => IsFile(target[w], folder[w], role)
      /\ target[w] = NoFile => \A j \in DOMAIN files : ~IsFile(j, folder[w], role)
  BY <1>1, <1>2 DEF Sound, InFolder, OnTarget, AloneInv, FileMissing
<1> DEFINE file == [folder |-> folder[w], role |-> role, ext |-> ext]
           Recs == FileRecords(Len(folders))
<1>4. files \in Seq(Recs) /\ Len(files) \in Nat /\ DOMAIN files = 1..Len(files) /\ file \in Recs
  BY <1>1, <1>3 DEF Drive!DriveTypeOK, FileRecords
<1>5. file.folder = folder[w] /\ file.role = role
  OBVIOUS
<1>6. NoTwins'
  <2>1. \A j, k \in 1..Len(files) :
          files[j].folder = files[k].folder /\ files[j].role = files[k].role => j = k
    BY <1>4 DEF AloneInv, NoTwins
  <2>2. CASE target[w] = NoFile
    <3>1. files' = Append(files, file)
      BY <1>2, <2>2 DEF Drive!PutFile
    <3> HIDE DEF file, Recs
    <3>2. /\ DOMAIN files' = 1..(Len(files) + 1)
          /\ \A j \in 1..Len(files) : files'[j] = files[j]
          /\ files'[Len(files) + 1] = file
      BY <1>4, <3>1, AppendProperties
    <3>3. \A j \in 1..Len(files) : ~(files[j].folder = folder[w] /\ files[j].role = role)
      BY <1>3, <1>4, <2>2 DEF IsFile
    <3>4. \A j \in 1..(Len(files) + 1) : j \in 1..Len(files) \/ j = Len(files) + 1
      BY <1>4
    <3> SUFFICES ASSUME NEW j \in DOMAIN files', NEW k \in DOMAIN files',
                        files'[j].folder = files'[k].folder, files'[j].role = files'[k].role
                 PROVE  j = k
      BY DEF NoTwins
    <3> QED
      BY <1>5, <2>1, <3>2, <3>3, <3>4
  <2>3. CASE target[w] # NoFile
    <3>1. files' = [files EXCEPT ![target[w]] = file] /\ target[w] \in 1..Len(files)
      BY <1>2, <1>3, <1>4, <2>3 DEF Drive!PutFile, IsFile
    <3> HIDE DEF file, Recs
    <3>2. /\ DOMAIN files' = 1..Len(files)
          /\ \A j \in 1..Len(files) : files'[j] = IF j = target[w] THEN file ELSE files[j]
      BY <1>4, <3>1
    <3>3. files[target[w]].folder = folder[w] /\ files[target[w]].role = role
      BY <1>3, <2>3 DEF IsFile
    <3>4. \A j \in 1..Len(files) :
            files'[j].folder = files[j].folder /\ files'[j].role = files[j].role
      BY <1>5, <3>2, <3>3
    <3> QED
      BY <2>1, <3>2, <3>4 DEF NoTwins
  <2> QED
    BY <2>2, <2>3
<1>7. FolderMissing' /\ FileMissing' /\ OneFolderPerName'
  BY <1>1, <1>2
  DEF AloneInv, FolderMissing, FileMissing, OneFolderPerName, Drive!OneFolderPerName
<1> QED
  BY <1>6, <1>7 DEF AloneInv

LEMMA NextAlone == Alone /\ EventInv /\ SyncInv /\ AloneInv /\ [Next]_vars => AloneInv'
<1> SUFFICES ASSUME Alone, EventInv, SyncInv, AloneInv, [Next]_vars PROVE AloneInv'
  OBVIOUS
<1>1. Drive!DriveTypeOK
  BY DEF SyncInv
<1>2. CASE UNCHANGED driveVars
  BY <1>2, UnchangedAlone DEF driveVars
<1>3. ASSUME NEW w \in Workers, Drive!SyncStep(w), UNCHANGED eventVars PROVE AloneInv'
  <2>1. CASE Drive!SkipPhoto(w) \/ Drive!SyncRaises(w)
    <3>1. UNCHANGED <<folders, files>> /\ at'[w] \in {"notes", "raised"}
      BY <1>1, <2>1 DEF Drive!SkipPhoto, Drive!SyncRaises, Drive!Move, Drive!End,
                        Drive!DriveTypeOK
    <3> QED
      BY <3>1, UnchangedAlone DEF Alone
  <2> QED
    BY <1>3, <2>1, QueryAlone, CreateFolderAlone, PutAlone DEF Drive!SyncStep
<1>4. ASSUME NEW w \in Workers, BeginSync(w) PROVE AloneInv'
  <2>1. UNCHANGED <<folders, files>> /\ at'[w] \in {"folder", "raised"}
    BY <1>1, <1>4 DEF BeginSync, Drive!StartSync, Drive!End, Drive!DriveTypeOK
  <2> QED
    BY <2>1, UnchangedAlone DEF Alone
<1>5. ASSUME NEW w \in Workers, WorkDone(w) \/ WorkFails(w) \/ Die(w) PROVE AloneInv'
  <2>1. UNCHANGED <<folders, files>> /\ at'[w] = "off"
    BY <1>1, <1>5 DEF WorkDone, WorkFails, Die, Drive!Forget, Drive!End, Drive!DriveTypeOK
  <2> QED
    BY <2>1, UnchangedAlone DEF Alone
<1>6. ASSUME NEW w \in Workers, WorkerStep(w) \/ Die(w) PROVE AloneInv'
  BY <1>2, <1>3, <1>4, <1>5, <1>6 DEF WorkerStep
<1> QED
  BY <1>2, <1>6 DEF Next, vars, driveVars

LEMMA AloneAlways ==
  ASSUME Alone
  PROVE  Spec => [](SyncInv /\ AloneInv)
<1>1. EventInv /\ SyncInv /\ AloneInv /\ [Next]_vars => AloneInv'
  BY NextAlone
<1> QED
  BY <1>1, InitAloneInv, SyncAlways, PTL DEF Spec

\* However often the one worker tries again, and whatever answers it loses, no
\* instructor gets a second folder.
THEOREM NeverTwoFolders ==
  ASSUME Alone
  PROVE  Spec => []OneFolderPerName
<1>1. AloneInv => OneFolderPerName
  BY DEF AloneInv
<1> QED
  BY <1>1, AloneAlways, PTL

\* ... nor a second photo or a second informacoes.md.
THEOREM NeverTwoFiles ==
  ASSUME Alone
  PROVE  Spec => []OneOfEachFile
<1>1. AloneInv => OneOfEachFile
  BY NoTwinsMeansOne DEF AloneInv
<1> QED
  BY <1>1, AloneAlways, PTL

\* The event of a worker that is at work has not failed; a failed one stays so.
BusyNotFailed == \A w \in Workers : stage[w] # "idle" => status[evt[w]] # "failed"

FailedStays == \A e \in Events : status[e] = "failed" => status'[e] = "failed"

LEMMA ReceiveNotFailed ==
  ASSUME EventInv, BusyNotFailed, NEW e \in Events, NEW k \in Inputs, Receive(e, k),
         UNCHANGED <<workerVars, outcomes>>
  PROVE  BusyNotFailed' /\ FailedStays
<1>1. \/ UNCHANGED status
      \/ status[e] = "absent" /\ status' = [status EXCEPT ![e] = "queued"]
  BY DEF Receive, eventTable, EnqueueEvent, EventInv, Received
<1>2. \A f \in Events :
        status'[f] = status[f] \/ (status[f] = "absent" /\ status'[f] = "queued")
  BY <1>1 DEF EventInv, WorkerTypeOK, QueueTypeOK
<1> QED
  BY <1>2 DEF workerVars, BusyNotFailed, FailedStays, EventInv, Holding

LEMMA WorkerNotFailed ==
  ASSUME Alone, EventInv, BusyNotFailed, NEW w \in Workers, WorkerStep(w) \/ Die(w)
  PROVE  BusyNotFailed' /\ FailedStays
<1>1. /\ \A v \in Workers : v = w
      /\ stage[w] # "idle" => evt[w] \in Events
      /\ status \in [Events -> Statuses] /\ evt \in [Workers -> Events \cup {NoEvent}]
  BY DEF Alone, EventInv, Holding, WorkerTypeOK, QueueTypeOK
<1> USE DEF BusyNotFailed, FailedStays
<1>2. CASE Claim(w)
  <2>1. PICK e \in Events :
          /\ evt' = [evt EXCEPT ![w] = e]
          /\ status[e] # "failed" /\ status'[e] = "processing"
          /\ \A f \in Events \ {e} : status[f] = "failed" => status'[f] = "failed"
    BY <1>2, ClaimFacts
  <2> QED
    BY <1>1, <2>1
<1>3. CASE ClaimNone(w)
  <2>1. UNCHANGED <<stage, evt>> /\ stage[w] = "idle"
    BY <1>3 DEF ClaimNone, workerVars
  <2> QED
    BY <1>1, <1>3, <2>1, ClaimNoneFacts
<1>4. CASE MarkDone(w) \/ Requeue(w) \/ GiveUp(w) \/ Crash(w)
  <2>1. stage'[w] = "idle"
    BY <1>4 DEF MarkDone, Requeue, GiveUp, Crash, Leave, EventInv, WorkerTypeOK
  <2>2. stage[w] # "idle" /\ \A e \in Events : e # evt[w] => status'[e] = status[e]
    BY <1>1, <1>4, WriteFacts
  <2> QED
    BY <1>1, <2>1, <2>2
<1>5. CASE MarkDoneUnanswered(w)
  BY <1>1, <1>5 DEF MarkDoneUnanswered, MarkEventDone, GoTo
<1>6. CASE HandlerEnds(w) \/ MoveStep(w) \/ UNCHANGED eventVars
  <2>1. UNCHANGED <<status, evt>> /\ (stage[w] # "idle" \/ UNCHANGED stage)
    BY <1>6, MoveFacts DEF HandlerEnds, queueVars, eventVars
  <2> QED
    BY <1>1, <2>1
<1> QED
  BY <1>2, <1>3, <1>4, <1>5, <1>6, WorkerCases

LEMMA NextNotFailed ==
  Alone /\ EventInv /\ BusyNotFailed /\ [Next]_vars => BusyNotFailed' /\ FailedStays
<1> SUFFICES ASSUME Alone, EventInv, BusyNotFailed, [Next]_vars
             PROVE  BusyNotFailed' /\ FailedStays
  OBVIOUS
<1>1. CASE UNCHANGED eventVars \/ Tick
  BY <1>1 DEF Tick, QueueTick, eventVars, BusyNotFailed, FailedStays
<1> QED
  BY <1>1, WorkerNotFailed, ReceiveNotFailed DEF Next, vars, eventVars

\* With a single worker an event that has failed is never handled again.
THEOREM FailedForGood ==
  ASSUME Alone
  PROVE  Spec => FailedIsFinal
<1>1. Init => BusyNotFailed
  BY DEF Init, WorkerInit, BusyNotFailed
<1>2. EventInv /\ BusyNotFailed /\ [Next]_vars => BusyNotFailed'
  BY NextNotFailed
<1>3. EventInv /\ BusyNotFailed /\ [Next]_vars
        => [\A e \in Events : status[e] = "failed" => status'[e] = "failed"]_eventVars
  BY NextNotFailed DEF FailedStays
<1> QED
  BY <1>1, <1>2, <1>3, EventsAlways, PTL DEF Spec, FailedIsFinal

=============================================================================
