---------------------------- MODULE StartupProofs ---------------------------
(***************************************************************************)
(* Proofs about Startup, for any processes, files and number of crashes.   *)
(***************************************************************************)
EXTENDS Startup, TLAPS

\* What a process has read is still recorded.
SeenIsRecorded == \A p \in Processes : seen[p] \subseteq recorded

\* A process is at a file only when all the files before it are recorded.
AtFile == {"execute", "wait", "self_commit", "insert", "commit"}

PriorRecorded ==
  \A p \in Processes : pc[p] \in AtFile =>
    \A f \in Files : f < file[p] => f \in recorded

\* Only a file is inserted, and only a file with its own COMMIT is committed before that.
RightTransaction ==
  \A p \in Processes :
    /\ pc[p] \in {"insert", "commit"} => file[p] \in Files
    /\ pc[p] = "self_commit" => CommitsItself(file[p])

Inv ==
  /\ TypeOK /\ SeenIsRecorded /\ PriorRecorded /\ RightTransaction
  /\ RecordedInOrder /\ Resumable /\ WorkerHasSchema

-----------------------------------------------------------------------------
LEMMA InitInv == Init => Inv
  BY StartupAssumption
  DEF Init, Inv, TypeOK, Steps, Files, SeenIsRecorded, PriorRecorded, AtFile,
      RightTransaction, RecordedInOrder, Resumable, WorkerHasSchema

\* Recorded files are in the schema.
LEMMA RecordedIsApplied ==
  ASSUME TypeOK, RecordedInOrder
  PROVE  recorded \subseteq applied
  BY StartupAssumption DEF TypeOK, RecordedInOrder, Files

-----------------------------------------------------------------------------
(* What each action does to the invariant.                                 *)

\* A step that leaves the database alone and stays at the same file, or leaves it.
LEMMA MoveInv ==
  ASSUME Inv, NEW p \in Processes, NEW to \in Steps,
         GoTo(p, to),
         UNCHANGED <<applied, recorded, file, seen>>,
         crashes' \in 0..MaxCrashes,
         to \in AtFile => pc[p] \in AtFile,
         to \in {"insert", "commit"} => file[p] \in Files,
         to = "self_commit" => CommitsItself(file[p]),
         (to \in {"setup", "ready"} /\ p \notin Apis) => pc[p] \in {"setup", "ready"}
  PROVE  Inv'
<1> USE DEF Inv, GoTo
<1>1. TypeOK'
  BY DEF TypeOK
<1>2. SeenIsRecorded' /\ RecordedInOrder' /\ Resumable'
  BY DEF SeenIsRecorded, RecordedInOrder, Resumable
<1>3. PriorRecorded'
  BY DEF TypeOK, PriorRecorded
<1>4. RightTransaction'
  BY DEF TypeOK, RightTransaction, CommitsItself
<1>5. WorkerHasSchema'
  BY DEF TypeOK, WorkerHasSchema
<1> QED
  BY <1>1, <1>2, <1>3, <1>4, <1>5

LEMMA BootInv ==
  ASSUME Inv, NEW p \in Processes, Boot(p)
  PROVE  Inv'
<1> USE DEF Inv, Boot, GoTo
<1>1. TypeOK'
  BY StartupAssumption DEF TypeOK, Steps
<1>2. SeenIsRecorded' /\ RecordedInOrder' /\ Resumable'
  BY DEF SeenIsRecorded, RecordedInOrder, Resumable
<1>3. PriorRecorded'
  BY StartupAssumption DEF TypeOK, PriorRecorded, Files
<1>4. RightTransaction'
  BY DEF TypeOK, RightTransaction, CommitsItself
<1>5. WorkerHasSchema'
  BY DEF TypeOK, WorkerHasSchema
<1> QED
  BY <1>1, <1>2, <1>3, <1>4, <1>5

\* What is committed without its name is a file that can be run again.
LEMMA SelfCommitInv ==
  ASSUME Inv, NEW p \in Processes, SelfCommit(p)
  PROVE  Inv'
<1> USE DEF Inv, SelfCommit, GoTo
<1>1. TypeOK'
  BY DEF TypeOK, Steps
<1>2. SeenIsRecorded' /\ RecordedInOrder'
  BY DEF SeenIsRecorded, RecordedInOrder
<1>3. Resumable'
  BY StartupAssumption DEF Resumable, RightTransaction, CommitsItself
<1>4. PriorRecorded'
  BY DEF TypeOK, PriorRecorded, AtFile
<1>5. RightTransaction'
  BY DEF TypeOK, RightTransaction, CommitsItself, Files
<1>6. WorkerHasSchema'
  BY DEF TypeOK, WorkerHasSchema
<1> QED
  BY <1>1, <1>2, <1>3, <1>4, <1>5, <1>6

\* The loop goes on to a file before which every file is recorded, or all of them are.
LEMMA NextFile ==
  ASSUME TypeOK, NEW p \in Processes, NEW done \in 0..LastFile,
         TypeOK', GoToNextFile(p, done),
         seen'[p] \subseteq recorded',
         \A f \in Files : f <= done => f \in recorded'
  PROVE  \/ pc' = [pc EXCEPT ![p] = "setup"] /\ file' = file /\ recorded' = Files
         \/ /\ pc' = [pc EXCEPT ![p] = "execute"]
            /\ \E g \in Files : /\ file' = [file EXCEPT ![p] = g]
                                /\ \A f \in Files : f < g => f \in recorded'
<1> DEFINE pending == {f \in Files : f > done} \ seen'[p]
<1>1. \A f \in Files : f \notin pending => f \in recorded'
  BY StartupAssumption DEF Files
<1>2. CASE pending = {} /\ GoTo(p, "setup") /\ UNCHANGED file
  BY <1>1, <1>2 DEF GoTo, TypeOK
<1>3. ASSUME NEW g \in pending, \A f \in pending : g <= f,
             GoTo(p, "execute"), file' = [file EXCEPT ![p] = g]
      PROVE  /\ pc' = [pc EXCEPT ![p] = "execute"]
             /\ \E h \in Files : /\ file' = [file EXCEPT ![p] = h]
                                 /\ \A f \in Files : f < h => f \in recorded'
  <2>1. \A f \in Files : f < g => f \notin pending
    BY <1>3, StartupAssumption DEF Files
  <2> QED
    BY <1>1, <1>3, <2>1 DEF GoTo
<1> QED
  BY <1>2, <1>3 DEF GoToNextFile

\* GoToNextFile keeps the types.
LEMMA NextFileType ==
  ASSUME TypeOK, NEW p \in Processes, NEW done, GoToNextFile(p, done)
  PROVE  pc' \in [Processes -> Steps] /\ file' \in [Processes -> 0..LastFile]
  BY StartupAssumption DEF TypeOK, GoToNextFile, GoTo, Steps, Files

LEMMA ListInv ==
  ASSUME Inv, NEW p \in Processes, List(p)
  PROVE  Inv'
<1> USE DEF Inv, List
<1>1. TypeOK'
  BY NextFileType DEF TypeOK
<1>2. SeenIsRecorded' /\ RecordedInOrder' /\ Resumable'
  BY DEF TypeOK, SeenIsRecorded, RecordedInOrder, Resumable
<1>3. \/ pc' = [pc EXCEPT ![p] = "setup"] /\ file' = file /\ recorded' = Files
      \/ /\ pc' = [pc EXCEPT ![p] = "execute"]
         /\ \E g \in Files : /\ file' = [file EXCEPT ![p] = g]
                             /\ \A f \in Files : f < g => f \in recorded'
  BY <1>1, <1>2, NextFile, StartupAssumption DEF SeenIsRecorded, Files
<1>4. PriorRecorded'
  BY <1>3 DEF TypeOK, PriorRecorded, AtFile
<1>5. RightTransaction'
  BY <1>3 DEF TypeOK, RightTransaction, CommitsItself
<1>6. WorkerHasSchema'
  BY <1>3 DEF TypeOK, WorkerHasSchema
<1> QED
  BY <1>1, <1>2, <1>4, <1>5, <1>6

LEMMA CommitInv ==
  ASSUME Inv, NEW p \in Processes, Commit(p)
  PROVE  Inv'
<1> USE DEF Inv, Commit
<1>1. file[p] \in Files /\ file[p] \in 0..LastFile
  BY DEF RightTransaction, TypeOK
<1>2. TypeOK'
  BY <1>1, NextFileType DEF TypeOK
<1>3. SeenIsRecorded'
  BY DEF SeenIsRecorded
<1>4. \A f \in Files : f <= file[p] => f \in recorded'
  <2> SUFFICES ASSUME NEW f \in Files, f <= file[p]
               PROVE  f \in recorded'
    OBVIOUS
  <2>1. f = file[p] \/ f < file[p]
    BY <1>1, StartupAssumption DEF Files
  <2> QED
    BY <2>1 DEF PriorRecorded, AtFile
<1>5. RecordedInOrder'
  <2>1. \A f \in Files : f < file[p] => f \in applied
    BY RecordedIsApplied DEF PriorRecorded, AtFile
  <2>2. 1..file[p] \subseteq applied'
    BY <1>1, <2>1, StartupAssumption DEF Files
  <2> QED
    BY <2>2 DEF RecordedInOrder
<1>6. Resumable'
  BY DEF Resumable
<1>7. \/ pc' = [pc EXCEPT ![p] = "setup"] /\ file' = file /\ recorded' = Files
      \/ /\ pc' = [pc EXCEPT ![p] = "execute"]
         /\ \E g \in Files : /\ file' = [file EXCEPT ![p] = g]
                             /\ \A f \in Files : f < g => f \in recorded'
  BY <1>1, <1>2, <1>3, <1>4, NextFile DEF SeenIsRecorded
<1>8. PriorRecorded'
  BY <1>7 DEF TypeOK, PriorRecorded, AtFile
<1>9. RightTransaction'
  BY <1>7 DEF TypeOK, RightTransaction, CommitsItself
<1>10. WorkerHasSchema'
  BY <1>1, <1>7 DEF TypeOK, WorkerHasSchema
<1> QED
  BY <1>2, <1>3, <1>5, <1>6, <1>8, <1>9, <1>10

LEMMA NextInv == Inv /\ [Next]_vars => Inv'
<1> SUFFICES ASSUME Inv, [Next]_vars
             PROVE  Inv'
  OBVIOUS
<1>1. CASE UNCHANGED vars
  BY <1>1 DEF vars, Inv, TypeOK, SeenIsRecorded, PriorRecorded, RightTransaction,
              RecordedInOrder, Resumable, WorkerHasSchema, CommitsItself
<1>2. ASSUME NEW p \in Processes, Step(p) \/ Crash(p)
      PROVE  Inv'
  <2> USE DEF Inv
  <2>1. TypeOK /\ crashes \in 0..MaxCrashes
    BY DEF TypeOK
  <2>2. CASE Blocked(p)
    BY <2>1, <2>2, MoveInv DEF Blocked, AtFile, Steps
  <2>3. CASE Execute(p)
    <3>1. ~CommitsItself(file[p]) => file[p] \in Files
      BY <2>1, StartupAssumption DEF TypeOK, CommitsItself, Files
    <3>2. CASE CommitsItself(file[p])
      BY <2>1, <2>3, <3>2, MoveInv DEF Execute, AtFile, Steps
    <3>3. CASE ~CommitsItself(file[p])
      BY <2>1, <2>3, <3>1, <3>3, MoveInv DEF Execute, AtFile, Steps
    <3> QED
      BY <3>2, <3>3
  <2>4. CASE Insert(p)
    BY <2>1, <2>4, MoveInv DEF Insert, AtFile, Steps, RightTransaction
  <2>5. CASE ExecuteRaises(p) \/ InsertRaises(p)
    BY <2>1, <2>5, MoveInv DEF ExecuteRaises, InsertRaises, Raise, AtFile, Steps
  <2>6. CASE SetUp(p)
    BY <2>1, <2>6, MoveInv DEF SetUp, AtFile, Steps
  <2>7. CASE Crash(p)
    BY <2>1, <2>7, MoveInv, StartupAssumption DEF Crash, AtFile, Steps
  <2> QED
    BY <1>2, <2>2, <2>3, <2>4, <2>5, <2>6, <2>7,
       BootInv, SelfCommitInv, ListInv, CommitInv DEF Step
<1> QED
  BY <1>1, <1>2 DEF Next

-----------------------------------------------------------------------------
THEOREM Invariant == Spec => []Inv
<1>1. Init => Inv
  BY InitInv
<1>2. Inv /\ [Next]_vars => Inv'
  BY NextInv
<1> QED
  BY <1>1, <1>2, PTL DEF Spec

\* The database and the locals of the processes keep their types.
THEOREM TypeCorrect == Spec => []TypeOK
<1>1. Inv => TypeOK
  BY DEF Inv
<1> QED
  BY <1>1, Invariant, PTL

\* A file is recorded only when it and all the files before it are in the schema.
THEOREM InOrder == Spec => []RecordedInOrder
<1>1. Inv => RecordedInOrder
  BY DEF Inv
<1> QED
  BY <1>1, Invariant, PTL

\* What the next start will run again can be run again.
THEOREM CanResume == Spec => []Resumable
<1>1. Inv => Resumable
  BY DEF Inv
<1> QED
  BY <1>1, Invariant, PTL

\* A worker runs only on a complete schema.
THEOREM CompleteForWorkers == Spec => []WorkerHasSchema
<1>1. Inv => WorkerHasSchema
  BY DEF Inv
<1> QED
  BY <1>1, Invariant, PTL
=============================================================================
