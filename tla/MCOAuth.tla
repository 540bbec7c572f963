------------------------------- MODULE MCOAuth ------------------------------
(***************************************************************************)
(* Instances of OAuth for TLC: two consents of one user, one of another.   *)
(***************************************************************************)
EXTENDS OAuth, TLC

CONSTANTS
  ana, bia,        \* users
  first, second,   \* two flows of ana
  alien,           \* a flow of bia
  again            \* a callback that repeats the state of first

MCUserOf == [f \in Flows |-> IF f = alien THEN bia ELSE ana]
MCFlowOf == [b \in Callbacks |-> IF b = again THEN first ELSE b]
MCClientUser == [c \in Clients |-> ana]

ClientSymmetry == Permutations(Clients)
=============================================================================
