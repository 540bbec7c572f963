---------------------------- MODULE ReplyContract ---------------------------
(***************************************************************************)
(* What gyros-os promises about one row of message_queue, whatever the     *)
(* number of workers, their crashes and the calls that fail: the row is    *)
(* tried at most MaxAttempts times, each try answers the user at most      *)
(* once, a done row has been answered and a failed row has been tried      *)
(* MaxAttempts times.  It promises no more: an answer can go out without   *)
(* being recorded, and a closed row can be opened again.                   *)
(***************************************************************************)
EXTENDS Naturals

CONSTANTS
  Requests,     \* the rows that can be inserted
  MaxAttempts   \* max_attempts

VARIABLES
  state,    \* "absent", "open", "done" or "failed"
  tries,    \* how many times the row has been handed to a worker
  replies   \* how many answers went out in each try

contractVars == <<state, tries, replies>>

ContractInit ==
  /\ state = [r \in Requests |-> "absent"]
  /\ tries = [r \in Requests |-> 0]
  /\ replies = [r \in Requests |-> [a \in 1..MaxAttempts |-> 0]]

-----------------------------------------------------------------------------
(* Steps of row r; each leaves what it does not mention as it is.          *)

Keep(r) ==
  state'[r] = state[r] /\ tries'[r] = tries[r] /\ replies'[r] = replies[r]

Accept(r) ==
  /\ state[r] = "absent" /\ state'[r] = "open"
  /\ tries'[r] = tries[r] /\ replies'[r] = replies[r]

Try(r) ==
  /\ state[r] = "open" /\ state'[r] = "open"
  /\ tries[r] < MaxAttempts /\ tries'[r] = tries[r] + 1
  /\ replies'[r] = replies[r]

\* A late worker can answer a row that is closed already.
Reply(r) ==
  /\ state[r] # "absent" /\ state'[r] = state[r] /\ tries'[r] = tries[r]
  /\ \E a \in 1..tries[r] : /\ replies[r][a] = 0
                            /\ replies'[r] = [replies[r] EXCEPT ![a] = 1]

Close(r) ==
  /\ state[r] # "absent" /\ state'[r] = "done"
  /\ \E a \in 1..tries[r] : replies[r][a] = 1
  /\ tries'[r] = tries[r] /\ replies'[r] = replies[r]

GiveUpOn(r) ==
  /\ state[r] # "absent" /\ state'[r] = "failed"
  /\ tries[r] = MaxAttempts
  /\ tries'[r] = tries[r] /\ replies'[r] = replies[r]

Reopen(r) ==
  /\ state[r] \in {"done", "failed"} /\ state'[r] = "open"
  /\ tries'[r] = tries[r] /\ replies'[r] = replies[r]

RowStep(r) ==
  Accept(r) \/ Try(r) \/ Reply(r) \/ Close(r) \/ GiveUpOn(r) \/ Reopen(r)

\* One statement can change several rows (claim_next), each by a step of its own.
ContractNext ==
  \A r \in Requests : RowStep(r) \/ Keep(r)

ContractSpec == ContractInit /\ [][ContractNext]_contractVars
=============================================================================
