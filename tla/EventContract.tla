---------------------------- MODULE EventContract ---------------------------
(***************************************************************************)
(* What gyros-os promises about one row of event_queue, whatever the       *)
(* number of workers, their crashes and the calls that fail: the event is  *)
(* tried at most MaxAttempts times, its handler ends at most once in each  *)
(* try, a done event was handled, and an event is given up only when its   *)
(* tries are spent or its handler has refused it in one of them.  It       *)
(* promises no more: an event can be handled again, and a closed one be    *)
(* opened again.                                                           *)
(***************************************************************************)
EXTENDS Naturals

CONSTANTS
  Events,       \* the rows that can be inserted
  MaxAttempts   \* max_attempts

VARIABLES
  state,    \* "absent", "open", "done" or "failed"
  tries,    \* how many times the event has been handed to a worker
  handled,  \* the tries in which its handler has returned
  refused   \* the tries in which its handler has given the event up for good

contractVars == <<state, tries, handled, refused>>

ContractInit ==
  /\ state = [e \in Events |-> "absent"]
  /\ tries = [e \in Events |-> 0]
  /\ handled = [e \in Events |-> {}]
  /\ refused = [e \in Events |-> {}]

-----------------------------------------------------------------------------
(* Steps of event e; each leaves what it does not mention as it is.        *)

SameEnds(e) == handled'[e] = handled[e] /\ refused'[e] = refused[e]
SameTries(e) == tries'[e] = tries[e] /\ SameEnds(e)

Keep(e) == state'[e] = state[e] /\ SameTries(e)

Accept(e) == state[e] = "absent" /\ state'[e] = "open" /\ SameTries(e)

Try(e) ==
  /\ state[e] = "open" /\ state'[e] = "open"
  /\ tries[e] < MaxAttempts /\ tries'[e] = tries[e] + 1
  /\ SameEnds(e)

\* A try in which the handler has neither returned nor refused.  It may end late, when the
\* event is closed already.
Pending(e) == (1..tries[e]) \ (handled[e] \cup refused[e])

Handle(e) ==
  /\ state[e] # "absent" /\ state'[e] = state[e] /\ tries'[e] = tries[e]
  /\ \E a \in Pending(e) : handled'[e] = handled[e] \cup {a}
  /\ refused'[e] = refused[e]

Refuse(e) ==
  /\ state[e] # "absent" /\ state'[e] = state[e] /\ tries'[e] = tries[e]
  /\ \E a \in Pending(e) : refused'[e] = refused[e] \cup {a}
  /\ handled'[e] = handled[e]

Close(e) ==
  /\ state[e] # "absent" /\ state'[e] = "done"
  /\ handled[e] # {}
  /\ SameTries(e)

GiveUpOn(e) ==
  /\ state[e] # "absent" /\ state'[e] = "failed"
  /\ tries[e] = MaxAttempts \/ refused[e] # {}
  /\ SameTries(e)

\* By a try that has not been refused.
Reopen(e) ==
  /\ state[e] \in {"done", "failed"} /\ state'[e] = "open"
  /\ \E a \in 1..tries[e] : a \notin refused[e]
  /\ SameTries(e)

EventStep(e) ==
  Accept(e) \/ Try(e) \/ Handle(e) \/ Refuse(e) \/ Close(e) \/ GiveUpOn(e) \/ Reopen(e)

\* One statement can change several rows (claim_next_event), each by a step of its own.
ContractNext ==
  \A e \in Events : EventStep(e) \/ Keep(e)

ContractSpec == ContractInit /\ [][ContractNext]_contractVars
=============================================================================
