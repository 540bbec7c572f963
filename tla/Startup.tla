------------------------------- MODULE Startup ------------------------------
(***************************************************************************)
(* The start of the API replicas and of the worker over one database:      *)
(* run_migrations (src/gyros_os/shared/db.py), the lifespan of the API     *)
(* (src/gyros_os/server/main.py) and main of the worker                    *)
(* (src/gyros_os/worker/main.py).                                          *)
(*                                                                         *)
(* Every process creates the table _migrations, reads once which files it  *)
(* lists, and then runs and records the others in order, one transaction   *)
(* per file; but a file that holds a BEGIN and a COMMIT of its own is      *)
(* committed before its name is inserted.  Nothing keeps two processes     *)
(* from doing this at the same time but the locks of the database.  An     *)
(* exception ends the worker, and is swallowed by the API, which goes on.  *)
(***************************************************************************)
EXTENDS Integers

CONSTANTS
  Processes,       \* the processes that start on this database ...
  Apis,            \* ... those of them that are API replicas; the others are workers
  LastFile,        \* the files of db/migrations are 1..LastFile, in the order of their names
  SelfCommitting,  \* files with a BEGIN and a COMMIT of their own (005, 006)
  Rerunnable,      \* files made of IF NOT EXISTS and ON CONFLICT DO NOTHING (all but 001)
  MaxCrashes       \* bound on the crashes and redeploys

Files == 1..LastFile

ASSUME StartupAssumption ==
  /\ Apis \subseteq Processes
  /\ LastFile \in Nat \ {0}
  /\ SelfCommitting \subseteq Rerunnable
  /\ Rerunnable \subseteq Files
  /\ MaxCrashes \in Nat

VARIABLES
  applied,   \* what is committed in the schema: files, and 0 for the table _migrations
  recorded,  \* the names in _migrations
  pc,        \* what each process is about to do
  file,      \* the file it is at; 0 while it creates the table
  seen,      \* the set "applied" of run_migrations: the names it has read
  crashes    \* crashes and redeploys so far

vars == <<applied, recorded, pc, file, seen, crashes>>

Steps == {"down", "execute", "wait", "self_commit", "list", "insert", "commit", "setup", "ready"}

\* Types of the database and of the processes' locals.
TypeOK ==
  /\ applied \subseteq 0..LastFile
  /\ recorded \subseteq Files
  /\ pc \in [Processes -> Steps]
  /\ file \in [Processes -> 0..LastFile]
  /\ seen \in [Processes -> SUBSET Files]
  /\ crashes \in 0..MaxCrashes

Init ==
  /\ applied = {}
  /\ recorded = {}
  /\ pc = [p \in Processes |-> "down"]
  /\ file = [p \in Processes |-> 0]
  /\ seen = [p \in Processes |-> {}]
  /\ crashes = 0

-----------------------------------------------------------------------------
(* The transactions.                                                       *)

\* Defect: the connection of the pool is in autocommit mode.
CommitsAlways(f) == TRUE

\* Whether the effects of f are committed before its name is inserted.
CommitsItself(f) == f \in SelfCommitting \cup {0}

\* p has run the statements of f in a transaction that is still open: their locks are held.
Holds(p, f) ==
  /\ file[p] = f
  /\ \/ pc[p] = "self_commit"
     \/ pc[p] \in {"insert", "commit"} /\ ~CommitsItself(f)

\* p has inserted the name of f in a transaction that is still open.
Inserts(p, f) == pc[p] = "commit" /\ file[p] = f

Others(p) == Processes \ {p}

GoTo(p, to) == pc' = [pc EXCEPT ![p] = to]

\* Defect: the files are run in the order of the directory, not of their names.
GoToAnyFile(p, done) ==
  LET pending == Files \ (seen'[p] \cup recorded \cup {done})
  IN  IF pending = {}
      THEN GoTo(p, "setup") /\ UNCHANGED file
      ELSE GoTo(p, "execute") /\ \E f \in pending : file' = [file EXCEPT ![p] = f]

\* Defect: the loop goes one past the last file.
GoToFileAfter(p, done) ==
  /\ GoTo(p, IF done > LastFile THEN "setup" ELSE "execute")
  /\ file' = [file EXCEPT ![p] = done + 1]

\* The for loop: on to the first file after done that was not in the list.
GoToNextFile(p, done) ==
  LET pending == {f \in Files : f > done} \ seen'[p]
  IN  \/ pending = {} /\ GoTo(p, "setup") /\ UNCHANGED file
      \/ \E f \in pending :
           /\ \A g \in pending : f <= g
           /\ GoTo(p, "execute")
           /\ file' = [file EXCEPT ![p] = f]

-----------------------------------------------------------------------------
(* The steps of a process.                                                 *)

Boot(p) ==
  /\ pc[p] = "down"
  /\ GoTo(p, "execute")
  /\ file' = [file EXCEPT ![p] = 0]
  /\ UNCHANGED <<applied, recorded, seen, crashes>>

\* The statements of the file meet the locks of another process.
Blocked(p) ==
  /\ pc[p] = "execute"
  /\ \E q \in Others(p) : Holds(q, file[p])
  /\ GoTo(p, "wait")
  /\ UNCHANGED <<applied, recorded, file, seen, crashes>>

\* They succeed: nothing of them is there yet, or all of them pass over what is there.
Execute(p) ==
  /\ pc[p] \in {"execute", "wait"}
  /\ \A q \in Others(p) : ~Holds(q, file[p])
  /\ file[p] \in applied => file[p] \in Rerunnable \cup {0}
  /\ GoTo(p, IF CommitsItself(file[p]) THEN "self_commit" ELSE "insert")
  /\ UNCHANGED <<applied, recorded, file, seen, crashes>>

\* The COMMIT inside the file, or the one after CREATE TABLE _migrations.
SelfCommit(p) ==
  /\ pc[p] = "self_commit"
  /\ applied' = applied \cup {file[p]}
  /\ GoTo(p, IF file[p] = 0 THEN "list" ELSE "insert")
  /\ UNCHANGED <<recorded, file, seen, crashes>>

\* SELECT name FROM _migrations.
List(p) ==
  /\ pc[p] = "list"
  /\ seen' = [seen EXCEPT ![p] = recorded]
  /\ GoToNextFile(p, 0)
  /\ UNCHANGED <<applied, recorded, crashes>>

\* INSERT INTO _migrations; it waits for an open INSERT of the same name.
Insert(p) ==
  /\ pc[p] = "insert"
  /\ \A q \in Others(p) : ~Inserts(q, file[p])
  /\ file[p] \notin recorded
  /\ GoTo(p, "commit")
  /\ UNCHANGED <<applied, recorded, file, seen, crashes>>

Commit(p) ==
  /\ pc[p] = "commit"
  /\ applied' = applied \cup {file[p]}
  /\ recorded' = recorded \cup {file[p]}
  /\ UNCHANGED <<seen, crashes>>
  /\ GoToNextFile(p, file[p])

\* Defect: the worker, like the API, logs the exception of run_migrations and goes on.
RaiseSwallowed(p) == GoTo(p, "setup")

\* The exception rolls the transaction back.  lifespan logs migrations_skipped
\* and goes on; it ends the worker, which is started again.
Raise(p) == GoTo(p, IF p \in Apis THEN "setup" ELSE "down")

\* The statements fail: the tables of 001 exist already, or another process made
\* something while p waited, which IF NOT EXISTS does not always pass over.
ExecuteRaises(p) ==
  /\ pc[p] \in {"execute", "wait"}
  /\ \A q \in Others(p) : ~Holds(q, file[p])
  /\ file[p] \in applied
  /\ pc[p] = "wait" \/ file[p] \notin Rerunnable \cup {0}
  /\ Raise(p)
  /\ UNCHANGED <<applied, recorded, file, seen, crashes>>

\* UNIQUE (name): another process has recorded the file since p read the list.
InsertRaises(p) ==
  /\ pc[p] = "insert"
  /\ file[p] \in recorded
  /\ Raise(p)
  /\ UNCHANGED <<applied, recorded, file, seen, crashes>>

\* setup of the checkpointer and of the store; then the process serves, or polls the queues.
SetUp(p) ==
  /\ pc[p] = "setup"
  /\ GoTo(p, "ready")
  /\ UNCHANGED <<applied, recorded, file, seen, crashes>>

\* The process dies or is replaced; an open transaction rolls back.
Crash(p) ==
  /\ pc[p] # "down"
  /\ crashes < MaxCrashes
  /\ crashes' = crashes + 1
  /\ GoTo(p, "down")
  /\ UNCHANGED <<applied, recorded, file, seen>>

Step(p) ==
  \/ Boot(p)
  \/ Blocked(p)
  \/ Execute(p)
  \/ SelfCommit(p)
  \/ List(p)
  \/ Insert(p)
  \/ Commit(p)
  \/ ExecuteRaises(p)
  \/ InsertRaises(p)
  \/ SetUp(p)

Next == \E p \in Processes : Step(p) \/ Crash(p)

Spec == Init /\ [][Next]_vars

\* A process takes its next step, and one that has ended with an error is started again.
FairSpec == Spec /\ \A p \in Processes : WF_vars(Step(p))

-----------------------------------------------------------------------------
(* Properties.                                                             *)

\* A file is recorded only when it and every file before it are in the schema,
\* whatever the processes do at the same time and wherever they die: a later
\* file may refer to what an earlier one made (db.py:127-142).
RecordedInOrder == \A f \in recorded : 1..f \subseteq applied

\* What is in the schema without being recorded will be run again, and must pass
\* over itself: 001, which would not, is committed together with its name (db.py:137-142).
Resumable == applied \ recorded \subseteq Rerunnable \cup {0}

\* A worker polls the queues only on a complete schema (worker/main.py:75-78).
WorkerHasSchema ==
  \A p \in Processes \ Apis : pc[p] \in {"setup", "ready"} => recorded = Files

\* In the end the schema is complete and every worker runs: no crash and no race of two
\* starts leaves a schema on which the next start fails again (db.py:109-143).
SchemaCompletes ==
  <>[](recorded = Files /\ \A p \in Processes \ Apis : pc[p] = "ready")
=============================================================================
