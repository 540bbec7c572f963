------------------------- MODULE KnowledgeBaseProofs ------------------------
(***************************************************************************)
(* Proofs about KnowledgeBase, for any calls, sources, sizes and tries.    *)
(***************************************************************************)
EXTENDS KnowledgeBase, TLAPS

\* A call that is past its beginning has entered ingest_text.
Entered == \A c \in Calls : step[c] \notin {"new", "rejected"} => try[c] \in 1..MaxTries

\* ReadyIsIndexed holds as soon as the chunks are committed: an upload that still has
\* to store its file is already the one a search finds.
IndexedOnInsert ==
  \A c \in Calls :
    (step[c] \in {"file", "ready"} /\ doc[c] \in docs /\ content[doc[c]] = Run(c)) =>
      chunks[doc[c]] = Pieces(Run(c))

Inv == TypeOK /\ Entered /\ OneDocPerRef /\ ChunksOfOneRun /\ IndexedOnInsert

-----------------------------------------------------------------------------
LEMMA InitInv == Init => Inv
  BY BaseAssumption
  DEF Init, Inv, TypeOK, Steps, Entered, OneDocPerRef, ChunksOfOneRun, IndexedOnInsert

\* A call that is past its beginning names a run.
LEMMA RunIsRun ==
  ASSUME TypeOK, Entered, NEW c \in Calls, step[c] \notin {"new", "rejected"}
  PROVE  Run(c) \in Runs
  BY DEF Entered, Run, Runs

\* Chunks are accepted only for a document that has none: any run has a chunk with index 1.
LEMMA InsertableIsEmpty ==
  ASSUME TypeOK, ChunksOfOneRun, NEW c \in Calls, Insertable(c)
  PROVE  doc[c] \in Runs /\ chunks[doc[c]] = {}
<1>1. doc[c] \in Runs
  BY DEF TypeOK, Insertable
<1>2. ASSUME NEW r \in Runs, chunks[doc[c]] = Pieces(r)
      PROVE  FALSE
  <2>1. Size[r[1]] \in Nat \ {0} /\ Size[c] \in Nat \ {0}
    BY <1>2, BaseAssumption DEF Runs
  <2>2. 1 \in 1..Size[r[1]] /\ 1 \in 1..Size[c]
    BY <2>1
  <2>3. <<r, 1>> \in chunks[doc[c]]
    BY <1>2, <2>2 DEF Pieces
  <2> QED
    BY <2>2, <2>3 DEF Insertable
<1> QED
  BY <1>1, <1>2 DEF ChunksOfOneRun

-----------------------------------------------------------------------------
(* What each action does to the invariant.                                 *)

\* An action that leaves the tables, the tries and the documents of the calls alone.
LEMMA MoveInv ==
  ASSUME Inv, NEW c \in Calls, NEW to \in Steps,
         step' = [step EXCEPT ![c] = to],
         UNCHANGED <<tables, try, doc>>,
         to \in {"new", "rejected"} \/ step[c] \notin {"new", "rejected"},
         to \in {"file", "ready"} => step[c] = "file"
  PROVE  Inv'
<1> USE DEF Inv, tables
<1>1. TypeOK'
  BY DEF TypeOK
<1>2. Entered'
  BY DEF TypeOK, Entered
<1>3. OneDocPerRef' /\ ChunksOfOneRun'
  BY DEF OneDocPerRef, ChunksOfOneRun
<1>4. IndexedOnInsert'
  BY DEF TypeOK, IndexedOnInsert, Run
<1> QED
  BY <1>1, <1>2, <1>3, <1>4

LEMMA EnterInv ==
  ASSUME Inv, NEW c \in Calls, Enter(c)
  PROVE  Inv'
<1> USE DEF Inv, Enter, Go, tables
<1>1. try[c] + 1 \in 1..MaxTries
  BY BaseAssumption DEF TypeOK
<1>2. TypeOK'
  BY <1>1 DEF TypeOK, Steps
<1>3. Entered'
  BY <1>1 DEF TypeOK, Entered
<1>4. OneDocPerRef' /\ ChunksOfOneRun'
  BY DEF OneDocPerRef, ChunksOfOneRun
<1>5. IndexedOnInsert'
  BY DEF TypeOK, IndexedOnInsert, Run
<1> QED
  BY <1>2, <1>3, <1>4, <1>5

\* The upsert empties the document it takes over, and takes its content from the others.
LEMMA UpsertInv ==
  ASSUME Inv, NEW c \in Calls, Upsert(c)
  PROVE  Inv'
<1> DEFINE d == IF SameRef(c) = {} THEN Run(c) ELSE CHOOSE x \in SameRef(c) : TRUE
<1> USE DEF Inv
<1>1. Run(c) \in Runs
  BY RunIsRun DEF Upsert, Go
<1>2. d \in Runs /\ RefOf[d[1]] = RefOf[c]
  <2>1. CASE SameRef(c) = {}
    BY <1>1, <2>1 DEF Run
  <2>2. CASE SameRef(c) # {}
    BY <2>2 DEF SameRef, TypeOK
  <2> QED
    BY <2>1, <2>2
<1>3. /\ step[c] = "ingest" /\ step' = [step EXCEPT ![c] = "embed"]
      /\ doc' = [doc EXCEPT ![c] = d]
      /\ docs' = docs \cup {d}
      /\ content' = [content EXCEPT ![d] = Run(c)]
      /\ chunks' = [chunks EXCEPT ![d] = {}]
      /\ UNCHANGED <<file, try>>
  BY DEF Upsert, Go
<1> HIDE DEF d
<1>4. TypeOK'
  BY <1>1, <1>2, <1>3 DEF TypeOK, Steps
<1>5. Entered'
  BY <1>3 DEF TypeOK, Entered
<1>6. OneDocPerRef'
  <2>1. ASSUME NEW e \in docs, RefOf[e[1]] = RefOf[c]
        PROVE  e = d
    <3>1. e \in SameRef(c)
      BY <2>1 DEF SameRef
    <3>2. d \in docs /\ RefOf[d[1]] = RefOf[c]
      BY <3>1 DEF d, SameRef
    <3> QED
      BY <2>1, <3>2 DEF OneDocPerRef
  <2> QED
    BY <1>2, <1>3, <2>1 DEF OneDocPerRef
<1>7. ChunksOfOneRun'
  BY <1>2, <1>3 DEF TypeOK, ChunksOfOneRun
<1>8. IndexedOnInsert'
  <2> SUFFICES ASSUME NEW b \in Calls, step'[b] \in {"file", "ready"},
                      doc'[b] \in docs', content'[doc'[b]] = Run(b)'
               PROVE  chunks'[doc'[b]] = Pieces(Run(b)')
    BY DEF IndexedOnInsert, Pieces
  <2>1. b # c /\ doc'[b] = doc[b] /\ step'[b] = step[b] /\ Run(b)' = Run(b)
    BY <1>3 DEF TypeOK, Run
  <2>2. Run(b) # Run(c)
    BY <2>1 DEF Run
  <2>3. doc[b] # d
    BY <1>2, <1>3, <2>1, <2>2 DEF TypeOK
  <2> QED
    BY <1>2, <1>3, <2>1, <2>3 DEF TypeOK, IndexedOnInsert
<1> QED
  BY <1>4, <1>5, <1>6, <1>7, <1>8

\* The chunks go into an empty document: no other call has its chunks there.
LEMMA InsertInv ==
  ASSUME Inv, NEW c \in Calls, NEW to \in {"file", "ready", "raised"},
         Go(c, "insert", to), Insertable(c),
         chunks' = [chunks EXCEPT ![doc[c]] = @ \cup Pieces(Run(c))],
         UNCHANGED <<docs, content, file, try, doc>>
  PROVE  Inv'
<1> USE DEF Inv, Go
<1>1. Run(c) \in Runs
  BY RunIsRun
<1>2. doc[c] \in Runs /\ doc[c] \in docs /\ chunks[doc[c]] = {}
  BY InsertableIsEmpty DEF Insertable
<1>3. chunks' = [chunks EXCEPT ![doc[c]] = Pieces(Run(c))]
  BY <1>2
<1>4. TypeOK'
  <2>1. Pieces(Run(c)) \in SUBSET UNION {Pieces(r) : r \in Runs}
    BY <1>1
  <2>2. chunks' \in [Runs -> SUBSET UNION {Pieces(r) : r \in Runs}]
    BY <1>3, <2>1 DEF TypeOK
  <2> QED
    BY <2>2 DEF TypeOK, Steps
<1>5. Entered'
  BY DEF TypeOK, Entered
<1>6. OneDocPerRef'
  BY DEF OneDocPerRef
<1>7. ChunksOfOneRun'
  <2> SUFFICES ASSUME NEW e \in Runs
               PROVE  \/ chunks'[e] = {}
                      \/ e \in docs' /\ \E r \in Runs : chunks'[e] = Pieces(r)
    BY DEF ChunksOfOneRun, Pieces
  <2>1. CASE e = doc[c]
    BY <1>1, <1>2, <1>3, <2>1 DEF TypeOK
  <2>2. CASE e # doc[c]
    BY <1>3, <2>2 DEF TypeOK, ChunksOfOneRun
  <2> QED
    BY <2>1, <2>2
<1>8. IndexedOnInsert'
  <2> SUFFICES ASSUME NEW b \in Calls, step'[b] \in {"file", "ready"},
                      doc'[b] \in docs', content'[doc'[b]] = Run(b)'
               PROVE  chunks'[doc'[b]] = Pieces(Run(b)')
    BY DEF IndexedOnInsert, Pieces
  <2>0. Run(b)' = Run(b)
    BY DEF Run
  <2>1. CASE b = c
    BY <1>2, <1>3, <2>0, <2>1 DEF TypeOK
  <2>2. CASE b # c
    <3>1. chunks[doc[b]] = Pieces(Run(b))
      BY <2>0, <2>2 DEF TypeOK, IndexedOnInsert
    <3>2. Run(b) \in Runs /\ step[b] = step'[b]
      BY <2>2, RunIsRun DEF TypeOK
    <3>3. <<Run(b), 1>> \in Pieces(Run(b))
      BY <3>2, BaseAssumption DEF Pieces, Runs
    <3>4. doc[b] # doc[c]
      BY <1>2, <3>1, <3>3
    <3> QED
      BY <1>3, <2>0, <3>1, <3>4 DEF TypeOK
  <2> QED
    BY <2>1, <2>2
<1> QED
  BY <1>4, <1>5, <1>6, <1>7, <1>8

LEMMA StoreFileInv ==
  ASSUME Inv, NEW c \in Calls, StoreFile(c)
  PROVE  Inv'
<1> USE DEF Inv, StoreFile, Go
<1>1. TypeOK'
  BY DEF TypeOK, Steps
<1>2. Entered'
  BY DEF TypeOK, Entered
<1>3. OneDocPerRef' /\ ChunksOfOneRun'
  BY DEF OneDocPerRef, ChunksOfOneRun
<1>4. IndexedOnInsert'
  BY DEF TypeOK, IndexedOnInsert, Run
<1> QED
  BY <1>1, <1>2, <1>3, <1>4

LEMMA DeleteInv ==
  ASSUME Inv, NEW d \in docs, Delete(d)
  PROVE  Inv'
<1> USE DEF Inv, Delete
<1>1. d \in Runs
  BY DEF TypeOK
<1>2. TypeOK'
  BY <1>1 DEF TypeOK
<1>3. Entered'
  BY DEF Entered
<1>4. OneDocPerRef'
  BY DEF OneDocPerRef
<1>5. ChunksOfOneRun'
  BY <1>1 DEF TypeOK, ChunksOfOneRun
<1>6. IndexedOnInsert'
  BY <1>1 DEF TypeOK, IndexedOnInsert, Run
<1> QED
  BY <1>2, <1>3, <1>4, <1>5, <1>6

LEMMA NextInv == Inv /\ [Next]_vars => Inv'
<1> SUFFICES ASSUME Inv, [Next]_vars
             PROVE  Inv'
  OBVIOUS
<1>1. CASE UNCHANGED vars
  BY <1>1 DEF vars, Inv, TypeOK, Entered, OneDocPerRef, ChunksOfOneRun, IndexedOnInsert, Run
<1>2. ASSUME NEW c \in Calls, Reject(c)
      PROVE  Inv'
  BY <1>2, MoveInv DEF Reject, Go, Steps
<1>3. ASSUME NEW c \in Calls, Embed(c)
      PROVE  Inv'
  BY <1>3, MoveInv DEF Embed, Go, Steps
<1>4. ASSUME NEW c \in Calls, Raise(c)
      PROVE  Inv'
  BY <1>4, MoveInv DEF Raise, Steps
<1>5. ASSUME NEW c \in Calls, InsertChunks(c)
      PROVE  Inv'
  BY <1>5, InsertInv DEF InsertChunks
<1>6. ASSUME NEW c \in Calls, InsertUnanswered(c)
      PROVE  Inv'
  BY <1>6, InsertInv DEF InsertUnanswered
<1>7. ASSUME NEW c \in Calls, CallStep(c)
      PROVE  Inv'
  BY <1>2, <1>3, <1>4, <1>5, <1>6, <1>7, EnterInv, UpsertInv, StoreFileInv DEF CallStep
<1> QED
  BY <1>1, <1>7, DeleteInv DEF Next

-----------------------------------------------------------------------------
THEOREM Invariant == Spec => []Inv
<1>1. Init => Inv
  BY InitInv
<1>2. Inv /\ [Next]_vars => Inv'
  BY NextInv
<1> QED
  BY <1>1, <1>2, PTL DEF Spec

\* The tables and the locals of the calls keep their types.
THEOREM TypeCorrect == Spec => []TypeOK
<1>1. Inv => TypeOK
  BY DEF Inv
<1> QED
  BY <1>1, Invariant, PTL

\* A source has one document, whatever ingestions of it overlap.
THEOREM OneDocument == Spec => []OneDocPerRef
<1>1. Inv => OneDocPerRef
  BY DEF Inv
<1> QED
  BY <1>1, Invariant, PTL

\* The chunks of two ingestions are never mixed, and none outlives its document.
THEOREM NeverMixed == Spec => []ChunksOfOneRun
<1>1. Inv => ChunksOfOneRun
  BY DEF Inv
<1> QED
  BY <1>1, Invariant, PTL

\* A search finds what the last successful ingestion of the content has written.
THEOREM Indexed == Spec => []ReadyIsIndexed
<1>1. Inv => ReadyIsIndexed
  BY DEF Inv, IndexedOnInsert, ReadyIsIndexed, Found
<1> QED
  BY <1>1, Invariant, PTL
=============================================================================
