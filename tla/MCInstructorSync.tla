-------------------------- MODULE MCInstructorSync --------------------------
(***************************************************************************)
(* Instances of InstructorSync for TLC: every card carries the same name,  *)
(* for that is where two events meet in Drive.                             *)
(***************************************************************************)
EXTENDS InstructorSync, TLC

CONSTANT ana

MCNames == {ana}
MCNameOf == [e \in Events |-> ana]
=============================================================================
