# Formal model of gyros-os

gyros-os answers WhatsApp messages with LLM agents. An API process receives webhook calls and
writes them into PostgreSQL; worker processes take them from there, run the agent, answer
through Twilio and, when a human has approved it, act on the outside world. A second loop of the
worker handles events: transcripts of meetings go into a knowledge base, cards of instructors into a
Google Drive. This directory holds TLA+ modules that model these parts, the TLC configurations that
check them, and TLAPS proofs. Everything is translated from `src/gyros_os/` and `db/migrations/`;
paths below are relative to the repository, or to `src/gyros_os/`.

## 1. Inventory

| component | state | operations | talks to |
|---|---|---|---|
| message queue (`shared/queue.py`, `001_initial.sql`) | table `message_queue` | `enqueue_or_buffer`, `claim_next`, `mark_done`, `mark_failed`, `upsert_conversation` | API and workers, through the table |
| message worker (`worker/main.py`, `consumer.py`, `processor.py`) | one message in hand | poll loop, `process_message` | queue, agent, Twilio, approval handler |
| approvals (`approvals/`, `worker/approval_handler.py`, `agents/tools/approvals.py`) | table `approvals` | `create_approval`, `mark_*`, `execute_approval`, `try_handle_approval_reply` | queue (messages are verdicts), executors |
| event queue and worker (`shared/event_queue.py`, `worker/event_worker.py`, `worker/event_handlers/`) | table `event_queue` | `enqueue_event`, `claim_next_event`, `mark_event_*`, handlers | Fireflies webhook, knowledge base, Drive |
| knowledge base (`rag/`, `server/routes/kb.py`) | `kb_docs`, `kb_chunks` | `ingest_text`, upload, delete, `retrieve` | event worker, panel, agents |
| Drive synchronisation (`integrations/google_drive/`) | folders and files in Drive | find or create folder, put photo, put `informacoes.md` | event worker |
| OAuth (`oauth/`, `server/routes/oauth_routes.py`) | `oauth_credentials`, states in memory | start, callback, renewal | executors, Drive |
| Twilio client (`worker/twilio_client.py`) | none | `send_message`, `split_message_body` | workers |
| API dependencies (`server/dependencies.py`) | rate window per phone, in memory | `check_rate_limit` | webhooks |
| database, startup (`shared/db.py`, `server/main.py`, `worker/main.py`) | schema, `_migrations`, pool | `run_migrations`, boot | everything |
| agents, middleware (`agents/`) | LangGraph checkpoints | summarise, tools | LLM |
| webhooks, chat and admin API, media, clients, scripts, frontend | none of their own that others rely on | | |

Behaviours that are hard to test:

* **Races on a row.** `enqueue_or_buffer` reads a row and updates it later; the advisory lock keeps other
  enqueuers out, not the workers. Both `mark_failed` functions read and then write. A renewed token is written
  over whatever the row holds by then. `ingest_text` commits twice.
* **Leases.** A worker slower than its lease goes on working on a row that is no longer its own.
* **Crashes.** A worker can die between the answer and `mark_done`, between `mark_approved` and the executor, in its
  last attempt, inside a migration, between two calls to Drive.
* **Retries.** A message, event or card that has had effects is processed again.
* **Lost answers.** A commit or a call to Drive has its effect, and the caller gets an exception.
* **Order.** `created_at` is the begin of a transaction; verdicts without an id refer to "the latest pending" proposal at
  the time they are processed; several processes run the migrations at once.

What makes each component correct:

* queues: no accepted text is lost or doubled; what is closed was answered or handled; everything accepted settles;
  attempts are bounded; what has failed for good stays so.
* approvals: at most one execution, only by consent of the owner; decisions are final; the user is told what the table holds, and never that an action
  was executed or cancelled when it was not. ("Failed" can be false, see the known disagreements.)
* knowledge base: one document per source; the chunks of a document come from one ingestion, the current one once it was reported ready.
* Drive: one folder per instructor, one photo and one `informacoes.md` in it, however often a card is synchronised.
* OAuth: tokens stay with their user; a state is used once; the refresh token survives every renewal.
* startup: migrations are recorded in order, can be resumed after a crash anywhere, and a worker runs on a complete schema.
* algorithms: splitting and chunking lose nothing; a message respects its limit, and a chunk stays below twice its target; the rate limit refuses exactly at its limit.

The full list, at its lines, is under `hazards` in `PROJECT.json`.

## 2. Modules

```
ReplyContract            what the queue promises about a row        (abstract)
MessageQueue             table message_queue, enqueue transactions, claim and mark statements
 `-- MessageWorker       workers over the queue; implements ReplyContract
      |-- MCMessageWorker
      `-- MessageWorkerProofs -- SingleWorkerProofs
Approvals                approvals, verdicts, execution, over the queue as a turn sees it
 |-- MCApprovals
 `-- ApprovalsProofs
EventContract            what the event queue promises about a row  (abstract)
EventQueue               table event_queue and its producers
 `-- EventWorker         the loop of the event worker and its handlers, their work left open;
      |                  implements EventContract
      `-- InstructorSync      EventWorker with, for the work on a card, an instance of ...
           |   DriveSync      ... sync_instructor_to_drive over the objects in Drive
           |-- MCInstructorSync
           `-- InstructorSyncProofs
KnowledgeBase            documents, chunks, ingestion     MCKnowledgeBase, KnowledgeBaseProofs
OAuth                    states, credentials, renewals    MCOAuth, OAuthProofs
Startup                  migrations and boot              MCStartup, StartupProofs
MessageSplit, Chunking, RateLimit      pure algorithms
 `-- Algorithms          all inputs, one state each (up to a bound for TLC)
      `-- AlgorithmsProofs
```

### MessageQueue

One element of `Requests` is one webhook call, that is one call of `enqueue_or_buffer`; a row is
named after the call that inserted it, and `body` is the set of calls whose text it carries (the
concatenation of lines). A call is a transaction in steps: `BeginEnqueue` (NOW(), and with it
`created_at`, is fixed), then for media `EnqueueMedia` (lock, flush, INSERT, COMMIT), for text
`SelectPending` (lock, process_after, SELECT) and `ExtendPending` or `InsertText` (write, COMMIT).
`AbortEnqueue` is a failure of the API or of the database. The media branch is one action: the
rows it changes stay locked until its commit, and what it computes is read in the same statement
that writes. The text branch is two, for its SELECT locks nothing that a worker respects.

*Time* is kept as distances: `wait` is process_after - now, `lease` is lease_until - now, `age` how
far the frozen NOW() of a transaction lies behind. `QueueTick` brings them one unit closer.
`created_at` only serves to compare, so `older[q]` is the set of calls that began before q.

`process_after` of a text and `lease_until` come from the clock of the process (`datetime.now`), the comparisons use
the clock of the database; the model takes the two for one.

*READ COMMITTED and SKIP LOCKED.* A claim may pass over rows that another transaction has locked
(`LockedByEnqueue`, `LockedByOthers`); it may, not must, because the lock is taken somewhere
inside the interval that the model's step stands for.

### MessageWorker

`pc[w]` follows `process_message`: `agent` (preprocessing, approval handler, graph), `send`,
`mark_done`, `upsert`; `failing`, `requeue` and `give_up` are the statements of `mark_failed`. Every call may raise
(`...Raises`), `Crash` may happen anywhere, and an exception of `claim_next` or `mark_failed` is a crash,
since nothing catches it. The three ways of answering (automatic answer, approval, agent) have the same
order of calls and are one path. `sent` and `answered` are history variables.

### ReplyContract

Per row: `absent`, `open`, `done`, `failed`; at most `MaxAttempts` tries, at most one reply per try,
`done` only after a reply, `failed` only when the tries are spent. It allows a reply that is never
recorded and a closed row that is opened again, because the code does. `ImplementsContract` maps `queued` and
`processing` to `open`, `attempts` to `tries`, `sent` to `replies`.

### EventContract

Per row as well: an event is tried at most `MaxAttempts` times, and in each try its handler ends at most once, by returning (`handled`) or by giving the event up for good (`refused`).
`done` comes only after a handler has returned, `failed` only when the tries are spent or one of them was refused. It allows a handler to end when its event is closed
already, a done event that fails, and a closed one that is opened again: leases expire, and `mark_event_done` and `mark_event_failed` look at nothing but the id.
`ImplementsContract` maps `queued` and `processing` to `open`, `attempts` to `tries`, the attempts in which the handler returned to `handled`, those that ended in a `KeyError` to `refused`.

### Approvals

The queue is reduced to what a turn can see: a message may be claimed when it is `queued`, or
`processing` with a lease that may have run out. The steps are those of `try_handle_approval_reply` and
`execute_approval`: lookup, `mark_approved` or `mark_rejected` (one UPDATE with the expected status each), the read of
`execute_approval`, the executor, `mark_executed` or `mark_failed`, the answer, `mark_done`. A database call that
raises may have been committed (`DecideRaises`, `RecordRaises`, `RecordFailureRaises`). `mark_executed` stands in the `try` block of the executor, so when it raises
`mark_failed` follows, although the action has taken place; `result` is the history that tells this case (`unrecorded`) from an executor that raised. A message that is no verdict, or not about a
pending approval of its sender, goes to the agent, which may propose any number of actions. `mark_failed` of the
message is one step here; its two statements are in MessageWorker.

### EventQueue and EventWorker

An event is one call of a producer: the Fireflies webhook, or `scripts/enqueue_pipefy_event.py`. `kind` abstracts the request
and its payload to what the code tells apart: refused (bad signature, invalid), ignored (test ping, summary, other event),
a transcript, a card in the watched phase, a card elsewhere, and one that no handler can take. Nothing removes duplicates, so two events
about one card are two events. The table is like `message_queue` without the debounce. A worker goes through `dispatch`, `fetch` (the API of
Fireflies or Pipefy), `work`, `mark_done`. The `except` clauses stand around the whole handler, so a `KeyError` leads to `give_up` at once, with attempts left, wherever it comes from (`KeyErrorAt`): the lookup in `HANDLERS` and the
keys of the payload (`DispatchKeyError`), an answer of Fireflies or Pipefy whose `errors` is an object (`FetchKeyError`), an answer of Drive without an id (`WorkKeyError`). Access denied by Pipefy counts as
handled, everything else leads to `failing`. `MarkDoneUnanswered` is a commit whose answer is lost: the event is done, and then
requeued or failed. An exception in `claim_next_event` or `mark_event_failed` ends the process (`Crash`). If the INSERT of the webhook is
committed and its answer lost, the producer calls again; that is another event.

### DriveSync and InstructorSync

Drive does not know unique names: `_find_or_create_folder`, `_upload_photo` and `_upsert_informacoes_md` each look up and then create or
update, two calls each. Folders and files are sequences in the order of their creation, the answer of a query is the set of matches: any of
them for folders and notes, the oldest for photos (`orderBy="createdTime"`). A call raises with its effect done (`...Unanswered`) or without (`SyncRaises`); what has
not had its effect when the call raises never has it, and what has had it is found by the next query. `InstructorSync` replaces the open work of `EventWorker` on
a card by such a call. The card is read again in every attempt: its name may have been cleared, its photo changed or removed. The folder's name and the slug of the photo both
come from `nome`; a card whose `nome_completo` is made of blanks only (folder named after the title, photo after the id) is left out.

### KnowledgeBase

A run is one execution of `ingest_text`, a chunk is a run and an index, so that chunks of different texts differ. `Upsert` and
`InsertChunks` are the two transactions, `Embed` what lies between, `StoreFile` the third one of an upload, `Delete` the route of the panel. The constraints of `005_gyros_os_foundation.sql`
are guards: one document per source (`SameRef`), no `chunk_index` twice in a document and no chunk without its document (`Insertable`). Transcripts are tried again, uploads are not.

### OAuth

A flow is one call of `/oauth/google/start`; its tokens carry its name, so that the properties can follow them. `ttl` is `_state_store`, `Restart` empties it. The calls
of a client are steps: read the row, decide, ask Google, UPSERT; the row may change between any two. A callback may come several times with one
state. Encryption is left out: a token decrypts to what was encrypted, or the call raises.

### Startup

Files are numbered in the order of their names, 0 is the table `_migrations`. `CommitsItself` are the files with a `BEGIN` and `COMMIT` of their own (005, 006), `Rerunnable` those that pass over
what they find (all but 001). A process whose statements meet the locks of another one waits, and may then fail even so: `IF NOT EXISTS` does not protect against a
concurrent creation. `Raise` is where the processes differ: `lifespan` of the API logs `migrations_skipped` and goes on to serve, the worker ends and is started again.

### Algorithms

`MessageSplit` works on letters, blanks and line ends and returns intervals of positions; `Chunking` on a document whose tokens are numbered: a sentence is an
interval of them, a paragraph a sequence of sentences, a chunk the sequence of intervals it joins, with the count of its tokens. That count is of the joined text: each blank line
between two pieces adds a token, unless the token before it is one (`Absorbing`, as a full stop) that the encoding merges with the line ends; the comparisons with the target and the overlap sum the pieces alone, as in the code; `RateLimit` on the times of requests of
one number in one process, `request_history` being the set of the requests that left a timestamp in it. A loop of the code is a function from the number of passes to the state after them
(`Passes`, `Collected`, `Sliced`, `Taken`, `Checked`), over the operator that is one pass (`Pass`, `Slice`, `Take`, `Check`); for a `while` loop the domain is a number of passes that
is always enough, and a pass that has nothing left to do changes nothing. A step of `Algorithms` makes one of the inputs longer, so that the properties are checked on every input within
the bounds, and proved of every input.

### Defects beside the definitions

An operator whose comment starts with "Defect:" is not part of the model. It is the definition that
follows it with a plausible bug; with the one put in place of the other, TLC refutes the property
that `PROJECT.json` names under `mutants`.

## 3. Runs

| run | instance | expects | what it shows |
|---|---|---|---|
| `Debounce` | 3 texts and 1 medium of one thread, 1 worker, 1 attempt | pass | `TypeOK`, `TextKept`: no interleaving of webhook calls and claims loses or doubles a text |
| `OneWorker` | 2 texts, 1 worker, 3 attempts, fair | pass | `QueuedHasAttempts`, `FailedIsFinal`, and `EventuallySettled`: every accepted text ends in a settled row |
| `TwoWorkers` | 2 texts, 2 workers, 2 attempts | pass | `OneReplyPerAttempt`, `DoneMeansReplied`, `FailedHasSpentAll`, `ImplementsContract` |
| `Verdicts` | an approve and a reject of one user, an approve of another one who names approval 1; 2 proposals, one without an executor; 2 workers, 2 attempts | pass | `TypeOK`, `RunsAtMostOnce`, `RunsByConsent`, `AnswersAreTrueIfRecorded`, `DecisionIsFinal` |
| `Events` | 2 events of any kind, cards of one name, 2 extensions, 1 worker, 2 attempts, fair | pass | `GivenUpForCause`, `DoneMeansFiled`, `OneFolderPerName`, `OneOfEachFile`, `ImplementsContract`, `FailedIsFinal`, `EventSettles` |
| `Knowledge` | 2 uploads and a transcript of one source, texts of 1 and 2 chunks, 2 tries | pass | `OneDocPerRef`, `ChunksOfOneRun`, `ReadyIsIndexed` |
| `Consent` | 2 flows of one user, 1 of another, a repeated callback, 2 clients | pass | `OwnGrants`, `RedeemedOnce`, `RefreshTokenKept` |
| `Startup` | 2 API replicas and a worker, 4 files, 2 crashes, fair | pass | `RecordedInOrder`, `Resumable`, `WorkerHasSchema`, `SchemaCompletes` |
| `Algorithms` | replies of up to 8 letters at limit 5; documents of 8 tokens and one more sentence, of 1 to 7 tokens each, at target 4, overlap 2, two absorbing tokens; 5 requests at limit 2 | pass | `OnlyBlanksAreLost`, `OnlyLongWordsAreCut`, `ChunksCoverText`, `ChunksAreBounded`, `RefusedExactlyAtLimit` |
| `LostText` | 2 texts, 1 worker | violation | `DoneAnswersAll` |
| `OneYesTwoActions` | 2 proposals, 1 worker | violation | `OneDecisionPerMessage` |
| `RawCut` | replies of up to 7 letters at limit 5 | violation | `NaturalLimitFirst` |

The three runs that expect a violation check what a comment, docstring or document of the repository
says; `findings` in `PROJECT.json` quotes the sentence and explains the counterexample.

**Known disagreements without a run.** The models contain the steps that lead to each of these:

* A failure of `upsert_conversation` sends a done message back to the queue, and it is answered again (`processor.py:190`; `docs/DATABASE.md:189`).
* With two workers, a claim between the two statements of `mark_failed` leaves a queued row without attempts that nobody can claim (`queue.py:402`; docstring at 386).
* An approve executes a proposal made after it was sent (`service.py:184`; `agents/tools/approvals.py:88`).
* An approval whose executor has succeeded ends as `failed` when `mark_executed` raises, and the user reads that it failed although it took place (`service.py:322`; docstring at 292;
  `approval_handler.py:51`). `AnswersAreTrueIfRecorded` shows that this is the only false answer.
* A `KeyError` from anywhere in a handler, such as an answer of Pipefy in an unexpected form, fails the event without a retry (`event_worker.py:58`; `pipefy.py:14-17` counts on
  retries up to `max_attempts`, and the log calls it an unknown event type).
* The token counts of chunks exceed the target by more than the overlap: the blank lines that join the pieces are not in the check (`chunking.py:67`; comment at 54). A document of one-token
  paragraphs gives chunks of 1023 tokens.
* An approved action is never concluded after a crash behind `mark_approved` (`approval_handler.py:124`; `006_approvals.sql:8`).
* Flushed text does not always precede its medium (`docs/TWILIO.md:437`; `created_at` is the begin of the transaction).
* A lease does not exclude a second worker once `mark_failed` of an earlier one has cleared it (`001_initial.sql:34`).
* The retry of a verdict that has been applied goes to the agent (`approval_handler.py:15`).
* Two event workers on one card can create two folders or two `informacoes.md` (`drive_sync.py:353`); deployed is one.
* Of two concurrent ingestions the one that inserts first wins, although the other may have written the content
  (`rag/ingest.py:30`); the loser raises, and as an upload is not tried again.
* An API replica serves on an incomplete schema when its migrations fail, for `lifespan` swallows the exception; `docs/RAILWAY.md:217` expects it to end and be retried.
* A buffer kept as overlap is emitted a second time after the slices of an oversized piece (`rag/chunking.py:59`).

**Bounds.** All requests of an instance of the message queue share one thread, because the lock, the debounce and the
flush act within a thread; between threads only the order of the claim is shared, which the
instance has as well. `TxnTicks` bounds how long an enqueue transaction stays open: one
unit is enough for the debounce window to close inside it. Three texts are the fewest with two extensions of one row
that also race each other; two attempts are the fewest with a retry and a last attempt, `OneWorker` has the three of the
schema. `MaxProposals` bounds the proposals: two are enough for a verdict to hit the wrong one. In `Verdicts` no message is reserved for proposing:
a verdict that finds nothing to decide goes to the agent, so every message may propose in one attempt and decide in another, and approval 1 may be of either user. In `Events` both cards carry one name, for that is where two events
meet; `Inputs` has one kind of each outcome of the producers. In `Knowledge` all calls are about one source, since sources share nothing. In `Startup` file 1 stands
for 001, file 3 for 005, and the others for the rest; `MaxCrashes` bounds the crashes, and with it makes the schema complete in the end. In `Consent` all clients
act for the user with two flows; `Algorithms` has limits small enough for several parts, chunks and refusals in one input, and words, sentences and gaps on both sides of every limit; both bounds of `ChunksAreBounded` are reached.
Texts are symmetric in `Debounce`, workers in `Verdicts`, clients in `Consent`; runs with liveness use no symmetry.

**Deadlock** is checked but in `Knowledge`, `Startup` and `Algorithms`, which stop when every call has ended, every process is ready and has no crash left, and every input has reached its bound.

**Fairness** (`FairSpec`). Time passes (WF of `Tick`). A worker goes on (WF of `WorkerStep`): its loop
waits only for calls that return or raise, and a process that died is started again by the
container (`docker-compose.yml`, `railway.json`). A transaction that is open ends. Nothing obliges a request to
arrive, a call to succeed, or a worker not to die; `EventuallySettled` and `EventSettles` hold all the same, since each claim
uses up an attempt. They are stated for one worker: with two, a row can be left queued without attempts. In `Startup` a
process takes its next step, and one that has ended is started again; waiting for the lock of a process that goes on or dies is not endless.

## 4. Proofs

All theorems hold for every value of the constants under the named assumptions of the modules. An ASSUME `Alone` restricts a theorem to a single worker.

| module | theorem | states |
|---|---|---|
| `MessageWorkerProofs` | `TypeCorrect` | `[]TypeOK` |
| | `NoTextLostByEnqueue` | `[]TextKept` |
| | `RepliesBounded` | `[]OneReplyPerAttempt` |
| | `DoneOnlyAfterReply` | `[]DoneMeansReplied` |
| | `FailedOnlyWhenSpent` | `[]FailedHasSpentAll` |
| | `Refinement` | `ImplementsContract` |
| `SingleWorkerProofs` | `NeverStuck` (`Alone`) | `[]QueuedHasAttempts` |
| | `FailedForGood` (`Alone`) | `FailedIsFinal` |
| `ApprovalsProofs` | `TypeCorrect` | `[]TypeOK` |
| | `ExecutedAtMostOnce` | `[]RunsAtMostOnce` |
| | `ConsentRequired` | `[]RunsByConsent` |
| | `TruthToldIfRecorded` | `[]AnswersAreTrueIfRecorded` |
| | `NothingTakenBack` | `DecisionIsFinal` |
| `InstructorSyncProofs` | `TypeCorrect` | `[]TypeOK` |
| | `HandledBeforeDone` | `[]DoneWasHandled` |
| | `Refinement` | `ImplementsContract` |
| | `FailedForCause` | `[]GivenUpForCause` |
| | `SyncedCardIsFiled` | `[]DoneMeansFiled` |
| | `NeverTwoFolders` (`Alone`) | `[]OneFolderPerName` |
| | `NeverTwoFiles` (`Alone`) | `[]OneOfEachFile` |
| | `FailedForGood` (`Alone`) | `FailedIsFinal` |
| `KnowledgeBaseProofs` | `TypeCorrect` | `[]TypeOK` |
| | `OneDocument` | `[]OneDocPerRef` |
| | `NeverMixed` | `[]ChunksOfOneRun` |
| | `Indexed` | `[]ReadyIsIndexed` |
| `OAuthProofs` | `TypeCorrect` | `[]TypeOK` |
| | `TokensStayWithUser` | `[]OwnGrants` |
| | `NoReplay` | `[]RedeemedOnce` |
| | `CanStillRenew` | `RefreshTokenKept` |
| `StartupProofs` | `TypeCorrect` | `[]TypeOK` |
| | `InOrder` | `[]RecordedInOrder` |
| | `CanResume` | `[]Resumable` |
| | `CompleteForWorkers` | `[]WorkerHasSchema` |
| `AlgorithmsProofs` | `NoTextIsLost` | `[]OnlyBlanksAreLost` |
| | `NoWordIsCut` | `[]OnlyLongWordsAreCut` |
| | `NoGapInChunks` | `[]ChunksCoverText` |
| | `NoChunkIsTooLong` | `[]ChunksAreBounded` |
| | `LimitIsEnforced` | `[]RefusedExactlyAtLimit` |

**Messages.** `TypeOK` is inductive with `Holding` (a busy worker has a row and a valid attempt number). The reply
properties need `ReplyInv`: a worker holds an attempt that has been counted (`AttemptHeld`), no two workers hold the same
attempt of a row (`AttemptsApart`), an attempt whose worker has not sent yet has no reply (`NotYetSent`), a
worker at `mark_done` has replied (`SentBeforeDone`), one at `give_up` has found the attempts spent
(`SpentBeforeGivingUp`). Leases do not appear: exclusion per attempt comes from the counter, and so holds when leases
expire too early. `TextKept` needs `TextInv`: one transaction per thread is past its SELECT (`LockHeldByOne`), only committed
calls are in bodies and only their rows exist (`RowsCommitted`), and the body read by a SELECT is
still the body of that row (`SeenIsCurrent`): workers change the status of a row under the transaction, never its text. With one worker,
a row about to be requeued still has attempts (`RequeueHasAttempts`) and one in hand is not failed (`BusyNotFailed`).

**Approvals.** One inductive invariant, `Inv`: of an approval between `mark_approved` and its conclusion at most one worker knows
(`Apart`), what that worker knows of status and executor (`InHand`), what the status says about the executor and the
decider (`Ledger`), whom a decision is about (`Addressee`), and that an outcome about to be told is the status (`Telling`, `Told`). `InHand` and `Ledger` follow `result` too: an approval becomes
`failed` only for want of an executor, after one that raised, or after a `mark_executed` that raised.

**Events and Drive.** `EventInv`: a busy worker holds an event that was accepted and an attempt that was counted (`Holding`, `Received`).
`EndInv`: attempts in hand are never shared (`AttemptHeld`, `AttemptsApart`), so that two workers on one event end in different tries, and nothing is on record for an attempt
whose handler has not ended (`NotYetEnded`, `CountedEnds`). `CauseInv`: a worker at `mark_done` has an attempt that returned on record (`ReturnedBeforeDone`), one on the way to retry has none that ended
in a `KeyError` (`RetriedWithoutKeyError`), one at `give_up` has the cause, spent attempts or a `KeyError` (`CauseBeforeGivingUp`). As for
messages, no lease appears in it. `SyncInv` says what a caller knows of Drive at each place: its folder has the
name of its card, the file it is about to update is in that folder. For one worker `AloneInv` adds that a folder or file about to be created does not exist yet
(`FolderMissing`, `FileMissing`): nobody can have made it since the query. This is the step that fails with two workers.

**Knowledge base.** Besides the properties themselves the invariant needs `IndexedOnInsert`: a call past its insertion whose text is still the content has its own chunks
in the document. Whoever overwrites the content removes the chunks in the same transaction, and nobody can insert beside chunks that are there.

**OAuth.** A client that has decided to renew has a refresh token (`Renewable`), the e-mail a callback holds is that of its flow (`OwnEmail`),
and a state that is still in the store has not been redeemed (`Unspent`).

**Startup.** The list a process has read is recorded (`SeenIsRecorded`), a process at a file has everything before it recorded
(`PriorRecorded`), and is at `self_commit` only with a file that commits itself (`RightTransaction`).

**Algorithms.** The state only makes the inputs (`InputsOK`: paragraphs are not empty and sentences follow one another, times do not run back); the work is about
the loops. `LoopDefined` shows once that a loop which stays within a set of states has a state after each pass, and `Counting` is induction over the passes, as a fact about sets
(both from well-founded induction on the natural numbers; a function defined by recursion is otherwise a CHOOSE of which nothing is known). Then each loop has its invariant:

* `SplitInv` (`split_message_body`): the parts so far are in order and within the limit, what lies between them is blank (`OnlyBlanksBetween`), and each part but the last ends where `PartEnd` says
  with more than the limit ahead of it (`CutsOK`). A part that begins a reply may begin with blanks, every other one begins with a letter; so the raw cut behind `if not chunk`
  is only reached in the first. This is how the finding of `RawCut` came up: without the exception of the first part the property cannot be proved, and is false.
* `SliceInv` (`_fixed_split`): the slices reach up to some r, the next begins at r + 1 at the latest and ends behind it, which needs an overlap smaller than the target.
* `ChunkInv` (`chunk_text`): when the pieces up to `reach` were taken, the chunks cover the document up to some r and the buffer holds what lies between. `BufferOK`: the pieces of the buffer are within the target, or they are an overlap and
  one more piece, since the comparison is not repeated after the overlap was put into it. A piece has a token, so the pieces of the buffer are at most its tokens, and the blank lines fewer than the pieces (`CountOfJoined`, `JoinedIsChunk`). `Covers` says that chunks reach ever further without a gap, and composes (`CoversConcat`); `Tiles` says it of pieces.
* `Counted` (`check_rate_limit`): `request_history` is what of the accepted requests is within the window; what a call forgets, a later call would not count, since time does not run back.

Only model-checked: `EventuallySettled`, `EventSettles` and `SchemaCompletes`, for liveness under fairness is beyond the prover, as is ENABLED. That the bodies, documents and
requests of the code are what the inputs of `Algorithms` are (the division of a text into tokens and sentences) is a matter of the model, not of a proof.

## 5. Not modelled

* Wording and formatting, among them `_render_informacoes_md` and the formatting of transcripts; the LLM's choices and the state of LangGraph's checkpointer.
* The content of the conversations table: `upsert_conversation` is a call that succeeds or raises.
* `worker/media.py`: a decision over media type and configuration with calls to external services and no state. `agents/middleware/trim.py`: no agent of the catalog uses it.
* Single-statement reads and writes of the panel (`routes/chat.py`, `routes/admin.py`), `webhook_sync.py`, which answers in one call without the queue, and signature checks.
* The paging of `get_cards_in_phase` and the scripts, which are run by hand. `scripts/run_migrations.py` keeps a ledger of its own (`schema_migrations`): when it runs first, 001 fails in
  every process afterwards; `Startup` takes a database that only the processes migrate.
* A card whose name changes between attempts, be it edited or cleared so that `from_card` falls back to the title: `InstructorSync` has one name per card, or none.
* Races of two event workers in a run: `Events` has one worker, as deployed. What holds for any number of them is proved (section 4); what needs one says so.
* A tokenizer in which joining pieces changes more than the blank lines: `Absorbing` covers the merge of a blank line with the token before it, as `cl100k_base` does.
* The connection pool as a bounded resource, with leases computed before the wait for a connection; clocks that differ.
* The frontend, snapshots under `patch/`, load tests, container files.

What would come next: the pool as a resource that both loops of a worker and the API share; a contract for approvals, with its refinement;
Approvals composed with MessageQueue instead of the queue as a turn sees it.
