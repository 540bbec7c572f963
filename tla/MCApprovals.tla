----------------------------- MODULE MCApprovals ----------------------------
(***************************************************************************)
(* Instances of Approvals for TLC: the messages of a short conversation.   *)
(***************************************************************************)
EXTENDS Approvals, TLC

CONSTANTS
  ask,       \* a message of the user that is not a verdict
  yes,       \* "approve" of the user, without an id
  no,        \* "reject" of the user, without an id
  alien,     \* "approve 1" of another user
  user, other

MCUsers == {user, other}
MCUserOf == [m \in Messages |-> IF m = alien THEN other ELSE user]
MCVerdict == [m \in Messages |->
  IF m = ask THEN "none" ELSE IF m = no THEN "reject" ELSE "approve"]
MCNamed == [m \in Messages |-> IF m = alien THEN 1 ELSE NoId]

WorkerSymmetry == Permutations(Workers)
=============================================================================
