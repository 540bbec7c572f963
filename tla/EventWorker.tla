----------------------------- MODULE EventWorker ----------------------------
(***************************************************************************)
(* run_event_worker (src/gyros_os/worker/event_worker.py) with its two     *)
(* handlers (worker/event_handlers/fireflies.py and pipefy.py) over the    *)
(* table of EventQueue.                                                    *)
(*                                                                         *)
(* A worker claims an event, looks up the handler, which first fetches the *)
(* transcript or the card and then works on it: the ingestion of the       *)
(* transcript or the synchronisation of the card with Drive.  The work is  *)
(* left open here (WorkReturns, WorkRaises, WorkKeyError); InstructorSync  *)
(* fills it in for the cards.  The except clauses stand around the whole   *)
(* handler: a KeyError from anywhere in it goes to mark_event_failed       *)
(* without retry, any other exception with it.  An exception of            *)
(* claim_next_event or mark_event_failed leaves run_event_worker and ends  *)
(* the process (Crash).                                                    *)
(***************************************************************************)
EXTENDS EventQueue

CONSTANTS
  Workers,  \* the event workers that run at the same time
  NoEvent   \* stands for "no event" (None)

ASSUME EventWorkerAssumption == NoEvent \notin Events

VARIABLES
  stage,    \* what each worker is about to do
  evt,      \* the event it has claimed
  try,      \* event.attempts as the claim returned it
  backoff,  \* the process_after mark_event_failed has computed, minus now
  outcomes  \* history: how the handler ended, in each attempt of each event

workerVars == <<stage, evt, try, backoff>>
eventVars == <<kind, response, status, attempts, wait, lease, older,
               stage, evt, try, backoff, outcomes>>

Stages == {"idle", "dispatch", "fetch", "work", "mark_done",
           "failing", "requeue", "give_up"}
\* How a handler returns; and how it ends for good.  Other exceptions leave "none".
Handled == {"worked", "ignored", "skipped"}
Outcomes == Handled \cup {"none", "keyError"}

WorkerTypeOK ==
  /\ QueueTypeOK
  /\ stage \in [Workers -> Stages]
  /\ evt \in [Workers -> Events \cup {NoEvent}]
  /\ try \in [Workers -> 0..MaxAttempts]
  /\ backoff \in [Workers -> 0..(MaxAttempts * BackoffTicks)]
  /\ outcomes \in [Events -> [1..MaxAttempts -> Outcomes]]

WorkerInit ==
  /\ QueueInit
  /\ stage = [w \in Workers |-> "idle"]
  /\ evt = [w \in Workers |-> NoEvent]
  /\ try = [w \in Workers |-> 0]
  /\ backoff = [w \in Workers |-> 0]
  /\ outcomes = [e \in Events |-> [a \in 1..MaxAttempts |-> "none"]]

-----------------------------------------------------------------------------
GoTo(w, from, to) ==
  /\ stage[w] = from
  /\ stage' = [stage EXCEPT ![w] = to]
  /\ UNCHANGED <<evt, try>>

\* The turn is over, by return or by death: the locals are gone.
Leave(w) ==
  /\ stage' = [stage EXCEPT ![w] = "idle"]
  /\ evt' = [evt EXCEPT ![w] = NoEvent]
  /\ try' = [try EXCEPT ![w] = 0]
  /\ backoff' = [backoff EXCEPT ![w] = 0]

Unwritten == UNCHANGED <<queueVars, backoff, outcomes>>

\* Events on which another worker may have an UPDATE not yet committed.
LockedByOthers(w) ==
  {evt[v] : v \in {u \in Workers \ {w} :
                     stage[u] \in {"mark_done", "requeue", "give_up"}}}

Claim(w) ==
  /\ stage[w] = "idle"
  /\ \E e \in Events :
       /\ ClaimEvent(e, LockedByOthers(w))
       /\ evt' = [evt EXCEPT ![w] = e]
       /\ try' = [try EXCEPT ![w] = attempts[e] + 1]
  /\ stage' = [stage EXCEPT ![w] = "dispatch"]
  /\ UNCHANGED <<backoff, outcomes>>

\* Nothing to claim: the worker sleeps a second and asks again.
ClaimNone(w) ==
  /\ stage[w] = "idle"
  /\ ClaimNoEvent(LockedByOthers(w))
  /\ UNCHANGED <<workerVars, outcomes>>

\* History: the handler of w returns, or raises a KeyError.
Ended(w, how) ==
  outcomes' = [outcomes EXCEPT ![evt[w]][try[w]] = how]

\* Defect: the event is marked done before its handler has run.
DispatchDone(w) ==
  /\ GoTo(w, "dispatch", "mark_done")
  /\ kind[evt[w]] \in {"transcript", "card"}
  /\ Unwritten

\* HANDLERS[event_type], then the keys of the payload.
Dispatch(w) ==
  /\ GoTo(w, "dispatch", "fetch")
  /\ kind[evt[w]] \in {"transcript", "card"}
  /\ Unwritten

\* The card is in a phase nobody watches: handled, with action "ignored".
IgnorePhase(w) ==
  /\ GoTo(w, "dispatch", "mark_done")
  /\ kind[evt[w]] = "otherPhase"
  /\ Ended(w, "ignored")
  /\ UNCHANGED <<queueVars, backoff>>

\* except KeyError: mark_event_failed(retry=False), whatever attempts are left.
KeyErrorAt(w, from) ==
  /\ GoTo(w, from, "give_up")
  /\ Ended(w, "keyError")
  /\ UNCHANGED <<queueVars, backoff>>

\* HANDLERS has no such event_type, or the payload lacks a key.
DispatchKeyError(w) ==
  /\ KeyErrorAt(w, "dispatch")
  /\ kind[evt[w]] = "malformed"

\* FirefliesClient.get_transcript has an answer that validates ...
FetchTranscript(w) ==
  /\ GoTo(w, "fetch", "work")
  /\ kind[evt[w]] = "transcript"
  /\ Unwritten

\* ... or raises: HTTP status, GraphQL error, null or invalid transcript.
FetchTranscriptRaises(w) ==
  /\ GoTo(w, "fetch", "failing")
  /\ kind[evt[w]] = "transcript"
  /\ Unwritten

\* PipefyClient.get_card has a card that validates ...
FetchCard(w) ==
  /\ GoTo(w, "fetch", "work")
  /\ kind[evt[w]] = "card"
  /\ Unwritten

\* ... or _post or get_card raises: no token, HTTP status, GraphQL error, null, invalid.
FetchCardRaises(w) ==
  /\ GoTo(w, "fetch", "failing")
  /\ kind[evt[w]] = "card"
  /\ Unwritten

\* An answer in an unexpected form: errors is an object, and errors[0] a KeyError.
FetchKeyError(w) == KeyErrorAt(w, "fetch")

\* PipefyAccessDenied: it would be denied again, so it counts as handled.
FetchCardDenied(w) ==
  /\ GoTo(w, "fetch", "mark_done")
  /\ kind[evt[w]] = "card"
  /\ Ended(w, "skipped")
  /\ UNCHANGED <<queueVars, backoff>>

WorkReturns(w) ==
  /\ GoTo(w, "work", "mark_done")
  /\ Ended(w, "worked")
  /\ UNCHANGED <<queueVars, backoff>>

WorkRaises(w) ==
  /\ GoTo(w, "work", "failing")
  /\ Unwritten

\* Drive answers without the id it was asked for: created["id"].
WorkKeyError(w) ==
  /\ KeyErrorAt(w, "work")
  /\ kind[evt[w]] = "card"

MarkDone(w) ==
  /\ stage[w] = "mark_done"
  /\ MarkEventDone(evt[w])
  /\ Leave(w)
  /\ UNCHANGED outcomes

\* mark_event_done stands inside the try block.
MarkDoneRaises(w) ==
  /\ GoTo(w, "mark_done", "failing")
  /\ Unwritten

\* The commit went through, its answer did not come: done, and yet an exception.
MarkDoneUnanswered(w) ==
  /\ GoTo(w, "mark_done", "failing")
  /\ MarkEventDone(evt[w])
  /\ UNCHANGED <<backoff, outcomes>>

\* mark_event_failed, its SELECT: there are attempts left ...
MarkFailedRetries(w) ==
  /\ GoTo(w, "failing", "requeue")
  /\ attempts[evt[w]] < MaxAttempts
  /\ backoff' = [backoff EXCEPT ![w] = attempts[evt[w]] * BackoffTicks]
  /\ UNCHANGED <<queueVars, outcomes>>

\* Defect: mark_event_failed gives up one attempt too early.
MarkFailedTooEarly(w) ==
  /\ GoTo(w, "failing", "give_up")
  /\ attempts[evt[w]] >= MaxAttempts - 1
  /\ Unwritten

\* ... or there are none.
MarkFailedForGood(w) ==
  /\ GoTo(w, "failing", "give_up")
  /\ attempts[evt[w]] >= MaxAttempts
  /\ Unwritten

\* mark_event_failed, its UPDATE and commit.
Requeue(w) ==
  /\ stage[w] = "requeue"
  /\ RequeueEvent(evt[w], backoff[w])
  /\ Leave(w)
  /\ UNCHANGED outcomes

GiveUp(w) ==
  /\ stage[w] = "give_up"
  /\ FailEvent(evt[w])
  /\ Leave(w)
  /\ UNCHANGED outcomes

\* The process of w dies, wherever it is, and is started again.
Crash(w) ==
  /\ stage[w] # "idle"
  /\ Leave(w)
  /\ UNCHANGED <<queueVars, outcomes>>

\* NOW() is frozen in the transaction of mark_event_failed: its backoff runs already.
Tick ==
  /\ QueueTick
  /\ backoff' = [w \in Workers |-> IF backoff[w] > 0 THEN backoff[w] - 1 ELSE 0]
  /\ UNCHANGED <<stage, evt, try, outcomes>>

-----------------------------------------------------------------------------
\* The steps of the loop around the work of the handler.
LoopStep(w) ==
  \/ Claim(w) \/ ClaimNone(w)
  \/ Dispatch(w) \/ IgnorePhase(w) \/ DispatchKeyError(w)
  \/ FetchTranscript(w) \/ FetchTranscriptRaises(w)
  \/ FetchCard(w) \/ FetchCardDenied(w) \/ FetchCardRaises(w)
  \/ FetchKeyError(w)
  \/ MarkDone(w) \/ MarkDoneRaises(w) \/ MarkDoneUnanswered(w)
  \/ MarkFailedRetries(w) \/ MarkFailedForGood(w)
  \/ Requeue(w) \/ GiveUp(w)

-----------------------------------------------------------------------------
(* What the queue of events promises.                                      *)

\* The attempts in which the handler of e has returned, and those that a KeyError has ended.
HandledIn(e) == {a \in 1..MaxAttempts : outcomes[e][a] \in Handled}
KeyErrorIn(e) == {a \in 1..MaxAttempts : outcomes[e][a] = "keyError"}

\* An event is done only after some attempt of its handler has returned.
DoneWasHandled ==
  \A e \in Events : status[e] = "done" => HandledIn(e) # {}

\* An event fails only for want of attempts, or on a KeyError of its handler: any other
\* error of Fireflies, Pipefy, Drive or the database, a crash or a lease that runs out never
\* costs an event its retries (event_worker.py:58-76, event_queue.py:98-110, 219-250).
GivenUpForCause ==
  \A e \in Events :
    status[e] = "failed" => attempts[e] = MaxAttempts \/ KeyErrorIn(e) # {}

\* With a single worker a failed event stays failed: nobody handles it any more.
FailedIsFinal ==
  [][\A e \in Events : status[e] = "failed" => status'[e] = "failed"]_eventVars

\* The queue of events and its workers implement the contract of EventContract: an event in
\* processing is open, and its tries are what claim_next_event has counted
\* (event_queue.py:88-262, event_worker.py:31-78).
EventState ==
  [e \in Events |-> IF status[e] \in {"queued", "processing"} THEN "open" ELSE status[e]]

Contract == INSTANCE EventContract
  WITH state <- EventState, tries <- attempts,
       handled <- [e \in Events |-> HandledIn(e)],
       refused <- [e \in Events |-> KeyErrorIn(e)]

ImplementsContract == Contract!ContractSpec

\* Every event the webhook has acknowledged with 202 is settled in the end,
\* whatever crashes and fails on the way.
EventSettles ==
  \A e \in Events :
    (response[e] = "queued") ~> (status[e] \in {"done", "failed"})

=============================================================================
