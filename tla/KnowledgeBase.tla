---------------------------- MODULE KnowledgeBase ---------------------------
(***************************************************************************)
(* The knowledge base of gyros-os: the tables kb_docs and kb_chunks, the   *)
(* ingestion of a text (src/gyros_os/rag/ingest.py) and the routes that    *)
(* upload, list and delete documents (server/routes/kb.py).                *)
(*                                                                         *)
(* ingest_text commits twice: first the document with its chunks removed,  *)
(* then, after chunking and embedding, the new chunks; an upload commits a *)
(* third time, the original file.  Between the commits anything may        *)
(* happen: another ingestion of the same source, the deletion of the       *)
(* document, an exception, the death of the process.                       *)
(*                                                                         *)
(* A run is one execution of ingest_text, <<call, number of the try>>; the *)
(* event worker tries the transcript of a meeting again, nobody retries an *)
(* upload.  A document is named after the run that inserted it, and a      *)
(* chunk is <<run, chunk_index>>.                                          *)
(***************************************************************************)
EXTENDS Naturals

CONSTANTS
  Calls,    \* uploads, and events about a transcript
  Uploads,  \* the calls that are uploads
  RefOf,    \* (source_type, source_ref): the file name or the meeting
  Size,     \* how many chunks the text of each call has
  MaxTries, \* max_attempts of the event about a transcript
  NoDoc     \* stands for "no document" and for "no file"

Runs == Calls \X (1..MaxTries)
Pieces(r) == {<<r, i>> : i \in 1..Size[r[1]]}

\* An upload without text is refused, a transcript always has its heading.
ASSUME BaseAssumption ==
  /\ Uploads \subseteq Calls
  /\ Size \in [Calls -> Nat \ {0}]
  /\ MaxTries \in Nat \ {0}
  /\ NoDoc \notin Runs \cup Calls

VARIABLES
  docs,     \* kb_docs: the documents that exist
  content,  \* content of each document: the run that wrote it
  chunks,   \* kb_chunks of each document
  file,     \* file_data of each document: the upload it came with
  step,     \* where each call stands
  try,      \* how often it has entered ingest_text
  doc       \* doc_id in its current run

vars == <<docs, content, chunks, file, step, try, doc>>

Steps == {"new", "rejected", "ingest", "embed", "insert", "file", "ready", "raised"}

TypeOK ==
  /\ docs \subseteq Runs
  /\ content \in [Runs -> Runs \cup {NoDoc}]
  /\ chunks \in [Runs -> SUBSET UNION {Pieces(r) : r \in Runs}]
  /\ file \in [Runs -> Calls \cup {NoDoc}]
  /\ step \in [Calls -> Steps]
  /\ try \in [Calls -> 0..MaxTries]
  /\ doc \in [Calls -> Runs \cup {NoDoc}]

Init ==
  /\ docs = {}
  /\ content = [d \in Runs |-> NoDoc]
  /\ chunks = [d \in Runs |-> {}]
  /\ file = [d \in Runs |-> NoDoc]
  /\ step = [c \in Calls |-> "new"]
  /\ try = [c \in Calls |-> 0]
  /\ doc = [c \in Calls |-> NoDoc]

-----------------------------------------------------------------------------
Run(c) == <<c, try[c]>>
tables == <<docs, content, chunks, file>>

Go(c, from, to) == step[c] = from /\ step' = [step EXCEPT ![c] = to]

\* upload_document and _parse_file: empty file, unknown extension, no text, parser error.
Reject(c) ==
  /\ c \in Uploads
  /\ Go(c, "new", "rejected")
  /\ UNCHANGED <<tables, try, doc>>

\* Defect: the event about a transcript is retried without end.
EnterAlways(c) ==
  /\ \/ Go(c, "new", "ingest")
     \/ c \notin Uploads /\ Go(c, "raised", "ingest")
  /\ try' = [try EXCEPT ![c] = @ + 1]
  /\ doc' = [doc EXCEPT ![c] = NoDoc]
  /\ UNCHANGED tables

\* The call enters ingest_text: an upload once, a transcript again after an exception.
Enter(c) ==
  /\ \/ Go(c, "new", "ingest")
     \/ c \notin Uploads /\ Go(c, "raised", "ingest")
  /\ try[c] < MaxTries
  /\ try' = [try EXCEPT ![c] = @ + 1]
  /\ doc' = [doc EXCEPT ![c] = NoDoc]
  /\ UNCHANGED tables

\* Documents of the same source: UNIQUE (organization_id, source_type, source_ref).
SameRef(c) == {d \in docs : RefOf[d[1]] = RefOf[c]}

\* Defect: INSERT without ON CONFLICT.
UpsertInserts(c) ==
  LET d == Run(c)
  IN /\ Go(c, "ingest", "embed")
     /\ doc' = [doc EXCEPT ![c] = d]
     /\ docs' = docs \cup {d}
     /\ content' = [content EXCEPT ![d] = Run(c)]
     /\ chunks' = [chunks EXCEPT ![d] = {}]
     /\ UNCHANGED <<file, try>>

\* First transaction of ingest_text: upsert the document, delete its chunks, commit.
Upsert(c) ==
  LET d == IF SameRef(c) = {} THEN Run(c) ELSE CHOOSE x \in SameRef(c) : TRUE
  IN /\ Go(c, "ingest", "embed")
     /\ doc' = [doc EXCEPT ![c] = d]
     /\ docs' = docs \cup {d}
     /\ content' = [content EXCEPT ![d] = Run(c)]
     /\ chunks' = [chunks EXCEPT ![d] = {}]
     /\ UNCHANGED <<file, try>>

\* chunk_text and embed_texts.
Embed(c) ==
  /\ Go(c, "embed", "insert")
  /\ UNCHANGED <<tables, try, doc>>

\* Defect: INSERT ... ON CONFLICT (doc_id, chunk_index) DO NOTHING.
InsertableAnyhow(c) == doc[c] \in docs

\* Defect: the foreign key on kb_docs is missing.
InsertableOrphan(c) ==
  \A i \in 1..Size[c] : \A r \in Runs : <<r, i>> \notin chunks[doc[c]]

\* The constraints of kb_chunks: the document exists, no chunk_index comes twice.
Insertable(c) ==
  /\ doc[c] \in docs
  /\ \A i \in 1..Size[c] : \A r \in Runs : <<r, i>> \notin chunks[doc[c]]

\* Second transaction: all the chunks or none; UNIQUE or the foreign key may refuse.
InsertChunks(c) ==
  /\ Go(c, "insert", IF c \in Uploads THEN "file" ELSE "ready")
  /\ Insertable(c)
  /\ chunks' = [chunks EXCEPT ![doc[c]] = @ \cup Pieces(Run(c))]
  /\ UNCHANGED <<docs, content, file, try, doc>>

\* Any statement raises, be it for a constraint, or the process dies: the open
\* transaction is rolled back, what was committed stays.
Raise(c) ==
  /\ step[c] \in {"ingest", "embed", "insert", "file"}
  /\ step' = [step EXCEPT ![c] = "raised"]
  /\ UNCHANGED <<tables, try, doc>>

\* The commit went through, but its answer did not come.
InsertUnanswered(c) ==
  /\ Go(c, "insert", "raised")
  /\ Insertable(c)
  /\ chunks' = [chunks EXCEPT ![doc[c]] = @ \cup Pieces(Run(c))]
  /\ UNCHANGED <<docs, content, file, try, doc>>

\* upload_document stores the original: UPDATE by id, which may match no row.
StoreFile(c) ==
  /\ Go(c, "file", "ready")
  /\ file' = IF doc[c] \in docs THEN [file EXCEPT ![doc[c]] = c] ELSE file
  /\ UNCHANGED <<docs, content, chunks, try, doc>>

\* delete_document: chunks and document in one transaction.
Delete(d) ==
  /\ d \in docs
  /\ docs' = docs \ {d}
  /\ content' = [content EXCEPT ![d] = NoDoc]
  /\ chunks' = [chunks EXCEPT ![d] = {}]
  /\ file' = [file EXCEPT ![d] = NoDoc]
  /\ UNCHANGED <<step, try, doc>>

CallStep(c) ==
  \/ Reject(c) \/ Enter(c) \/ Upsert(c) \/ Embed(c)
  \/ InsertChunks(c) \/ InsertUnanswered(c) \/ StoreFile(c) \/ Raise(c)

Next ==
  \/ \E c \in Calls : CallStep(c)
  \/ \E d \in docs : Delete(d)

Spec == Init /\ [][Next]_vars

-----------------------------------------------------------------------------
\* What retrieve finds of a document: kb_chunks joined with kb_docs.
Found(d) == IF d \in docs THEN chunks[d] ELSE {}

\* A source has one document, whoever ingests it at the same time, and
\* however often (rag/ingest.py:49-84, UNIQUE of kb_docs).
OneDocPerRef ==
  \A d, e \in docs : RefOf[d[1]] = RefOf[e[1]] => d = e

\* No two ingestions are ever mixed: a document has no chunks, or all the chunks
\* of one run and no others; and a document that is gone leaves no chunks behind
\* (rag/ingest.py:77-116, kb.py:215-240, UNIQUE and REFERENCES of kb_chunks).
ChunksOfOneRun ==
  \A d \in Runs :
    chunks[d] = {} \/ (d \in docs /\ \E r \in Runs : chunks[d] = Pieces(r))

\* A call that was told "ready", whose text is still the content of its document,
\* is the one a search finds: chunks of an overtaken ingestion cannot replace it
\* (rag/ingest.py:94-116).
ReadyIsIndexed ==
  \A c \in Calls :
    (step[c] = "ready" /\ doc[c] \in docs /\ content[doc[c]] = Run(c)) =>
      Found(doc[c]) = Pieces(Run(c))
=============================================================================
