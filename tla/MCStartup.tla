------------------------------ MODULE MCStartup -----------------------------
(***************************************************************************)
(* Instances of Startup for TLC: an API replica or two and the worker over *)
(* four files, of which 1 is like 001, 3 like 005, 2 and 4 like the rest.  *)
(***************************************************************************)
EXTENDS Startup

CONSTANTS api, replica, worker
=============================================================================
