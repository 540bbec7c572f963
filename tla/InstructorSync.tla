--------------------------- MODULE InstructorSync ---------------------------
(***************************************************************************)
(* The event worker at work on Pipefy cards: EventWorker, whose work on a  *)
(* card is one call of DriveSync by the same worker.  What Pipefy says of  *)
(* the card is read anew in every attempt, and may have changed.           *)
(***************************************************************************)
EXTENDS EventWorker, Sequences

CONSTANTS
  Names, NoName, Photos, NoPhoto, NoFile,  \* as in DriveSync
  NameOf                                   \* the name on the card of each event

ASSUME CardAssumption ==
  /\ NameOf \in [Events -> Names]
  /\ NoName \notin Names
  /\ NoPhoto \notin Photos
  /\ NoFile \notin Nat

VARIABLES folders, files, at, info, folder, target

Drive == INSTANCE DriveSync WITH Callers <- Workers

driveVars == <<folders, files, at, info, folder, target>>

vars == <<kind, response, status, attempts, wait, lease, older,
          stage, evt, try, backoff, outcomes,
          folders, files, at, info, folder, target>>

\* Types of the table, of the workers and of what is in Drive.
TypeOK == WorkerTypeOK /\ Drive!DriveTypeOK

Init == WorkerInit /\ Drive!DriveInit

-----------------------------------------------------------------------------
OnCard(w) == evt[w] # NoEvent /\ kind[evt[w]] = "card"

\* InstructorInfo.from_card: the name may have been cleared, the photo changed.
CardInfos(e) ==
  [name : {NameOf[e], NoName}, photo : Photos \cup {NoPhoto}]

\* get_google_drive_client, then the call; its raising is SyncRaises at the first step.
BeginSync(w) ==
  /\ OnCard(w)
  /\ stage[w] = "work"
  /\ \E i \in CardInfos(evt[w]) : Drive!StartSync(w, i)
  /\ UNCHANGED eventVars

\* The transcript is ingested (KnowledgeBase), the card is synchronised.
WorkDone(w) ==
  /\ OnCard(w) => at[w] = "returned"
  /\ WorkReturns(w)
  /\ Drive!Forget(w)
  /\ UNCHANGED <<folders, files>>

WorkFails(w) ==
  /\ OnCard(w) => at[w] = "raised"
  /\ WorkRaises(w) \/ WorkKeyError(w)
  /\ Drive!Forget(w)
  /\ UNCHANGED <<folders, files>>

WorkerStep(w) ==
  \/ LoopStep(w) /\ UNCHANGED driveVars
  \/ Drive!SyncStep(w) /\ UNCHANGED eventVars
  \/ BeginSync(w)
  \/ WorkDone(w) \/ WorkFails(w)

Die(w) ==
  /\ Crash(w)
  /\ Drive!Forget(w)
  /\ UNCHANGED <<folders, files>>

Next ==
  \/ \E e \in Events, k \in Inputs :
       Receive(e, k) /\ UNCHANGED <<workerVars, outcomes, driveVars>>
  \/ \E w \in Workers : WorkerStep(w) \/ Die(w)
  \/ Tick /\ UNCHANGED driveVars

Spec == Init /\ [][Next]_vars

(***************************************************************************)
(* Fairness: time passes, and a worker that is running keeps going: every  *)
(* call it awaits ends or raises.  No call is forced to succeed, no event  *)
(* to arrive, no process to stay alive.                                    *)
(***************************************************************************)
FairSpec ==
  /\ Spec
  /\ WF_vars(Tick /\ UNCHANGED driveVars)
  /\ \A w \in Workers : WF_vars(WorkerStep(w))

-----------------------------------------------------------------------------
\* Drive holds one folder per instructor, and one of each file in it, under
\* every retry, duplicate event and lost answer of a single worker.
OneFolderPerName == Drive!OneFolderPerName
OneOfEachFile == Drive!OneOfEachFile

\* An event that is done because its card was synchronised has left a folder of
\* that name with an informacoes.md in it.
DoneMeansFiled ==
  \A e \in Events :
    (kind[e] = "card" /\ \E a \in 1..MaxAttempts : outcomes[e][a] = "worked") =>
      \E i \in Drive!FoldersNamed(NameOf[e]) : Drive!FilesIn(i, "notes") # {}

=============================================================================
