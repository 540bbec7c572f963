------------------------------ MODULE Approvals -----------------------------
(***************************************************************************)
(* Human approval of the actions gyros-os takes in the outside world.      *)
(*                                                                         *)
(* The agent never acts: its tool propose_action inserts a row of the      *)
(* table approvals.  An inbound message that is nothing but a verdict      *)
(* (approve or reject, with or without the id of an approval) is taken by  *)
(* try_handle_approval_reply before the agent runs: it finds the approval, *)
(* decides it, executes it and answers.  Every status change is one UPDATE *)
(* ... WHERE status = expected (_transition_status).                       *)
(*                                                                         *)
(* The queue is reduced to what a turn can see of it: a row is claimed     *)
(* when it is queued, or processing with a lease that may have expired, at *)
(* most MaxAttempts times, and mark_done and mark_failed overwrite its     *)
(* status (MessageQueue and MessageWorker have the detail).  Ids come from *)
(* a sequence, so the order of the ids is the order of proposed_at.        *)
(***************************************************************************)
EXTENDS Naturals

CONSTANTS
  Messages,      \* the rows of message_queue
  Users,         \* phone numbers
  UserOf,        \* message.phone_number
  Verdict,       \* what parse_approval_decision makes of each message
  Named,         \* the id it finds in the message, NoId when there is none
  NoId,          \* stands for None
  NoUser,        \* owner of a row that does not exist yet
  NoMessage,     \* decider of an approval nobody has decided
  MaxProposals,  \* bound: how many approvals are created
  Unregistered,  \* the approvals whose action_type has no executor
  Workers,       \* the message workers
  MaxAttempts    \* max_attempts of message_queue

Ids == 1..MaxProposals

ASSUME ApprovalsAssumption ==
  /\ UserOf \in [Messages -> Users]
  /\ Verdict \in [Messages -> {"approve", "reject", "none"}]
  /\ Named \in [Messages -> Ids \cup {NoId}]
  /\ NoId \notin Ids
  /\ NoUser \notin Users
  /\ NoMessage \notin Messages
  /\ MaxProposals \in Nat
  /\ Unregistered \subseteq Ids
  /\ MaxAttempts \in Nat \ {0}

VARIABLES
  status,    \* approvals.status, "absent" before the INSERT
  owner,     \* approvals.requested_by
  inbox,     \* message_queue.status
  tries,     \* message_queue.attempts
  pc,        \* what each worker is about to do
  msg,       \* the message it handles
  target,    \* the approval it has looked up
  reply,     \* what it is going to answer
  decider,   \* history: the message that decided each approval
  ran,       \* history: how often the executor of each approval took effect
  result,    \* history: how the call of each executor ended
  told       \* history: what the users were told, as <<approval, outcome>>

queue == <<inbox, tries>>
approvals == <<status, owner>>
history == <<decider, ran, result, told>>
vars == <<status, owner, inbox, tries, pc, msg, target, reply, decider, ran, result, told>>

Statuses == {"absent", "pending", "approved", "rejected", "executed", "failed"}
Outcomes == {"executed", "failed", "rejected"}
Results == {"none", "returned", "raised", "unrecorded"}
Steps == {"idle", "lookup", "decide", "fetch", "execute", "record", "record_failure",
          "agent", "send", "mark_done", "upsert", "failing"}

\* Types of the two tables, of the workers' locals and of the history.
TypeOK ==
  /\ status \in [Ids -> Statuses]
  /\ owner \in [Ids -> Users \cup {NoUser}]
  /\ inbox \in [Messages -> {"absent", "queued", "processing", "done", "failed"}]
  /\ tries \in [Messages -> 0..MaxAttempts]
  /\ pc \in [Workers -> Steps]
  /\ msg \in [Workers -> Messages \cup {NoMessage}]
  /\ target \in [Workers -> Ids \cup {NoId}]
  /\ reply \in [Workers -> Outcomes \cup {"other"}]
  /\ decider \in [Ids -> Messages \cup {NoMessage}]
  /\ ran \in [Ids -> Nat]
  /\ result \in [Ids -> Results]
  /\ told \subseteq Ids \X Outcomes

Init ==
  /\ status = [a \in Ids |-> "absent"]
  /\ owner = [a \in Ids |-> NoUser]
  /\ inbox = [m \in Messages |-> "absent"]
  /\ tries = [m \in Messages |-> 0]
  /\ pc = [w \in Workers |-> "idle"]
  /\ msg = [w \in Workers |-> NoMessage]
  /\ target = [w \in Workers |-> NoId]
  /\ reply = [w \in Workers |-> "other"]
  /\ decider = [a \in Ids |-> NoMessage]
  /\ ran = [a \in Ids |-> 0]
  /\ result = [a \in Ids |-> "none"]
  /\ told = {}

-----------------------------------------------------------------------------
(* The queue, as a turn sees it.                                           *)

Created == {a \in Ids : status[a] # "absent"}

\* The webhook inserts the row of message m.
Arrive(m) ==
  /\ inbox[m] = "absent"
  /\ inbox' = [inbox EXCEPT ![m] = "queued"]
  /\ UNCHANGED <<approvals, tries, pc, msg, target, reply, history>>

\* claim_next first fails the rows that have crashed in their last attempt.
FailExpired(gone) == [m \in Messages |-> IF m \in gone THEN "failed" ELSE inbox[m]]
Exhausted == {m \in Messages : inbox[m] = "processing" /\ tries[m] = MaxAttempts}

\* Defect: the claim forgets attempts < max_attempts.
ClaimForever(w) ==
  /\ pc[w] = "idle"
  /\ \E m \in Messages :
       /\ inbox[m] \in {"queued", "processing"}
       /\ inbox' = [inbox EXCEPT ![m] = "processing"]
       /\ tries' = [tries EXCEPT ![m] = @ + 1]
       /\ msg' = [msg EXCEPT ![w] = m]
  /\ pc' = [pc EXCEPT ![w] = "lookup"]
  /\ UNCHANGED <<approvals, target, reply, history>>

Claim(w) ==
  /\ pc[w] = "idle"
  /\ \E m \in Messages, gone \in SUBSET Exhausted :
       /\ inbox[m] \in {"queued", "processing"}
       /\ tries[m] < MaxAttempts
       /\ inbox' = [FailExpired(gone) EXCEPT ![m] = "processing"]
       /\ tries' = [tries EXCEPT ![m] = @ + 1]
       /\ msg' = [msg EXCEPT ![w] = m]
  /\ pc' = [pc EXCEPT ![w] = "lookup"]
  /\ UNCHANGED <<approvals, target, reply, history>>

\* Nothing it may claim yet: the rest is in backoff or under a lease.
ClaimNone(w) ==
  /\ pc[w] = "idle"
  /\ \E gone \in SUBSET Exhausted : inbox' = FailExpired(gone)
  /\ UNCHANGED <<approvals, tries, pc, msg, target, reply, history>>

GoTo(w, from, to) ==
  /\ pc[w] = from
  /\ pc' = [pc EXCEPT ![w] = to]

\* The turn is over, by return or by death.
Leave(w) ==
  /\ pc' = [pc EXCEPT ![w] = "idle"]
  /\ msg' = [msg EXCEPT ![w] = NoMessage]
  /\ target' = [target EXCEPT ![w] = NoId]
  /\ reply' = [reply EXCEPT ![w] = "other"]

-----------------------------------------------------------------------------
(* try_handle_approval_reply.                                              *)

\* Defect: requested_by is not compared with the sender.
AnyPending(u) == {a \in Ids : status[a] = "pending"}

OwnPending(u) == {a \in Ids : status[a] = "pending" /\ owner[a] = u}

LatestPending(u) == {a \in OwnPending(u) : \A b \in OwnPending(u) : b <= a}

\* The approval the verdict of m is about: the one it names, else the latest pending one.
Addressed(m) ==
  IF Verdict[m] = "none" THEN {}
  ELSE IF Named[m] # NoId THEN OwnPending(UserOf[m]) \cap {Named[m]}
  ELSE LatestPending(UserOf[m])

Lookup(w) ==
  /\ GoTo(w, "lookup", "decide")
  /\ \E a \in Addressed(msg[w]) : target' = [target EXCEPT ![w] = a]
  /\ UNCHANGED <<approvals, queue, msg, reply, history>>

\* No verdict, or none about a pending approval of this user.
NotAVerdict(w) ==
  /\ GoTo(w, "lookup", "agent")
  /\ Addressed(msg[w]) = {}
  /\ UNCHANGED <<approvals, queue, msg, target, reply, history>>

\* Defect: the UPDATE has no AND status = expected.
TransitionAnyway(a, from, to) ==
  status' = [status EXCEPT ![a] = to]

\* _transition_status: UPDATE ... WHERE id = a AND status = from.
Transition(a, from, to) ==
  /\ status[a] = from
  /\ status' = [status EXCEPT ![a] = to]

\* mark_approved or mark_rejected, committed.
Decided(w) ==
  /\ Transition(target[w], "pending",
                IF Verdict[msg[w]] = "approve" THEN "approved" ELSE "rejected")
  /\ decider' = [decider EXCEPT ![target[w]] = msg[w]]

Approve(w) ==
  /\ GoTo(w, "decide", "fetch")
  /\ Verdict[msg[w]] = "approve"
  /\ Decided(w)
  /\ UNCHANGED <<owner, queue, msg, target, reply, ran, result, told>>

Reject(w) ==
  /\ GoTo(w, "decide", "send")
  /\ Verdict[msg[w]] = "reject"
  /\ Decided(w)
  /\ reply' = [reply EXCEPT ![w] = "rejected"]
  /\ UNCHANGED <<owner, queue, msg, target, ran, result, told>>

\* InvalidApprovalTransition: decided by another message since the lookup.
DecideMisses(w) ==
  /\ GoTo(w, "decide", "agent")
  /\ status[target[w]] # "pending"
  /\ UNCHANGED <<approvals, queue, msg, target, reply, history>>

\* The database raises, before the commit or after it.
DecideRaises(w) ==
  /\ GoTo(w, "decide", "failing")
  /\ Decided(w) \/ UNCHANGED <<status, decider>>
  /\ UNCHANGED <<owner, queue, msg, target, reply, ran, result, told>>

-----------------------------------------------------------------------------
(* execute_approval.                                                       *)

\* get_approval, the check of its status and get_executor.
Fetch(w) ==
  /\ GoTo(w, "fetch", IF target[w] \in Unregistered THEN "record_failure" ELSE "execute")
  /\ status[target[w]] = "approved"
  /\ UNCHANGED <<approvals, queue, msg, target, reply, history>>

\* The executor acts on the outside world and returns its result.
Execute(w) ==
  /\ GoTo(w, "execute", "record")
  /\ ran' = [ran EXCEPT ![target[w]] = @ + 1]
  /\ result' = [result EXCEPT ![target[w]] = "returned"]
  /\ UNCHANGED <<approvals, queue, msg, target, reply, decider, told>>

\* It raises: refused, or cut off after the outside world has acted.
ExecutorRaises(w) ==
  /\ GoTo(w, "execute", "record_failure")
  /\ \/ ran' = [ran EXCEPT ![target[w]] = @ + 1]
     \/ UNCHANGED ran
  /\ result' = [result EXCEPT ![target[w]] = "raised"]
  /\ UNCHANGED <<approvals, queue, msg, target, reply, decider, told>>

\* mark_executed.
Record(w) ==
  /\ GoTo(w, "record", "send")
  /\ Transition(target[w], "approved", "executed")
  /\ reply' = [reply EXCEPT ![w] = "executed"]
  /\ UNCHANGED <<owner, queue, msg, target, history>>

\* Defect: a mark_executed that raises is taken for an executed one.
RecordRaisesUnnoticed(w) ==
  /\ GoTo(w, "record", "send")
  /\ Transition(target[w], "approved", "executed") \/ UNCHANGED status
  /\ reply' = [reply EXCEPT ![w] = "executed"]
  /\ UNCHANGED <<owner, queue, msg, target, history>>

\* It is inside the try block of the executor: when it raises, mark_failed follows, although
\* the action has taken place.
RecordRaises(w) ==
  /\ GoTo(w, "record", "record_failure")
  /\ Transition(target[w], "approved", "executed") \/ UNCHANGED status
  /\ result' = [result EXCEPT ![target[w]] = "unrecorded"]
  /\ UNCHANGED <<owner, queue, msg, target, reply, decider, ran, told>>

\* mark_failed of the approval.
RecordFailure(w) ==
  /\ GoTo(w, "record_failure", "send")
  /\ Transition(target[w], "approved", "failed")
  /\ reply' = [reply EXCEPT ![w] = "failed"]
  /\ UNCHANGED <<owner, queue, msg, target, history>>

\* InvalidApprovalTransition: mark_executed had committed although it raised.
RecordFailureMisses(w) ==
  /\ GoTo(w, "record_failure", "agent")
  /\ status[target[w]] # "approved"
  /\ UNCHANGED <<approvals, queue, msg, target, reply, history>>

RecordFailureRaises(w) ==
  /\ GoTo(w, "record_failure", "failing")
  /\ Transition(target[w], "approved", "failed") \/ UNCHANGED status
  /\ UNCHANGED <<owner, queue, msg, target, reply, history>>

-----------------------------------------------------------------------------
(* The agent, and the end of the turn.                                     *)

\* The agent calls propose_action: create_approval, for the user it talks to.
Propose(w) ==
  /\ pc[w] = "agent"
  /\ \E a \in Ids :
       /\ Created = 1..(a - 1)
       /\ status' = [status EXCEPT ![a] = "pending"]
       /\ owner' = [owner EXCEPT ![a] = UserOf[msg[w]]]
  /\ UNCHANGED <<queue, pc, msg, target, reply, history>>

AgentAnswers(w) ==
  /\ GoTo(w, "agent", "send")
  /\ UNCHANGED <<approvals, queue, msg, target, reply, history>>

\* History of an answer that reaches the user.
Tell(w) ==
  told' = IF reply[w] \in Outcomes THEN told \cup {<<target[w], reply[w]>>} ELSE told

Send(w) ==
  /\ GoTo(w, "send", "mark_done")
  /\ Tell(w)
  /\ UNCHANGED <<approvals, queue, msg, target, reply, decider, ran, result>>

SendRaises(w) ==
  /\ GoTo(w, "send", "failing")
  /\ Tell(w) \/ UNCHANGED told
  /\ UNCHANGED <<approvals, queue, msg, target, reply, decider, ran, result>>

MarkDone(w) ==
  /\ GoTo(w, "mark_done", "upsert")
  /\ inbox' = [inbox EXCEPT ![msg[w]] = "done"]
  /\ UNCHANGED <<approvals, tries, msg, target, reply, history>>

Upsert(w) ==
  /\ pc[w] = "upsert"
  /\ Leave(w)
  /\ UNCHANGED <<approvals, queue, history>>

\* Any other call of the turn raises without having changed anything.
Raises(w) ==
  /\ pc[w] \in {"lookup", "fetch", "agent", "mark_done", "upsert"}
  /\ pc' = [pc EXCEPT ![w] = "failing"]
  /\ UNCHANGED <<approvals, queue, msg, target, reply, history>>

\* mark_failed of the message.
MarkFailed(w) ==
  /\ pc[w] = "failing"
  /\ inbox' = [inbox EXCEPT ![msg[w]] =
                 IF tries[msg[w]] < MaxAttempts THEN "queued" ELSE "failed"]
  /\ Leave(w)
  /\ UNCHANGED <<approvals, tries, history>>

\* The worker process dies and is started again.
Crash(w) ==
  /\ pc[w] # "idle"
  /\ Leave(w)
  /\ UNCHANGED <<approvals, queue, history>>

-----------------------------------------------------------------------------
Handle(w) ==
  \/ Lookup(w) \/ NotAVerdict(w)
  \/ Approve(w) \/ Reject(w) \/ DecideMisses(w) \/ DecideRaises(w)
  \/ Fetch(w) \/ Execute(w) \/ ExecutorRaises(w)
  \/ Record(w) \/ RecordRaises(w)
  \/ RecordFailure(w) \/ RecordFailureMisses(w) \/ RecordFailureRaises(w)
  \/ Propose(w) \/ AgentAnswers(w)
  \/ Send(w) \/ SendRaises(w) \/ MarkDone(w) \/ Upsert(w)
  \/ Raises(w) \/ MarkFailed(w)

Next ==
  \/ \E m \in Messages : Arrive(m)
  \/ \E w \in Workers : Claim(w) \/ ClaimNone(w) \/ Handle(w) \/ Crash(w)

Spec == Init /\ [][Next]_vars

-----------------------------------------------------------------------------
(* Properties.                                                             *)

\* However often the verdict is repeated, retried or handled by two workers,
\* the action of an approval reaches the outside world at most once.
RunsAtMostOnce == \A a \in Ids : ran[a] <= 1

\* No action without the consent of its owner: what has run was approved, by a
\* message of the user for whom it was proposed; what was rejected never ran.
RunsByConsent ==
  \A a \in Ids : ran[a] > 0 =>
    /\ status[a] \in {"approved", "executed", "failed"}
    /\ decider[a] \in Messages
    /\ Verdict[decider[a]] = "approve"
    /\ UserOf[decider[a]] = owner[a]

\* A decision is never taken back: pending -> approved -> executed or failed,
\* pending -> rejected, and no other change, whoever races with whom.
Successors(s) ==
  CASE s = "absent" -> {"pending"}
    [] s = "pending" -> {"approved", "rejected"}
    [] s = "approved" -> {"executed", "failed"}
    [] OTHER -> {}

DecisionIsFinal ==
  [][\A a \in Ids : status'[a] # status[a] => status'[a] \in Successors(status[a])]_vars

\* What the user is told of an approval is what the table holds.  "Executed" is told only of an
\* action whose executor was called once and returned, "cancelled" only of one whose executor
\* was never called.  "Failed" is told when there is no executor or it raised, which it may do
\* after having acted; of an action whose executor returned it is told only when mark_executed
\* raised, and then it is not true (service.py:319-335, against the docstring at 292-294).
AnswersAreTrueIfRecorded ==
  \A a \in Ids :
    /\ \A o \in Outcomes : <<a, o>> \in told => status[a] = o
    /\ <<a, "executed">> \in told => ran[a] = 1 /\ result[a] = "returned"
    /\ <<a, "rejected">> \in told => ran[a] = 0 /\ result[a] = "none"
    /\ <<a, "failed">> \in told =>
         \/ a \in Unregistered
         \/ result[a] = "raised"
         \/ result[a] = "unrecorded" /\ ran[a] = 1

\* Each action waits for a verdict of its own: one message decides one approval.
OneDecisionPerMessage ==
  \A a, b \in Ids : decider[a] # NoMessage /\ decider[a] = decider[b] => a = b

=============================================================================
