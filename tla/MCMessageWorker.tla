-------------------------- MODULE MCMessageWorker ---------------------------
(***************************************************************************)
(* Instances of MessageWorker for TLC.  All requests belong to one thread: *)
(* within a thread is where the queue shares anything.                     *)
(***************************************************************************)
EXTENDS MessageWorker, TLC

CONSTANT thread

MCThreads == {thread}
MCThreadOf == [q \in Requests |-> thread]

\* Texts are interchangeable; so are workers.  Sound for the invariants.
TextSymmetry == Permutations(Requests \ Media)
WorkerSymmetry == Permutations(Workers)
=============================================================================
