------------------------------ MODULE Chunking ------------------------------
(***************************************************************************)
(* chunk_text of src/gyros_os/rag/chunking.py: how a document is cut into  *)
(* the chunks that are embedded.                                           *)
(*                                                                         *)
(* The tokens are numbered through the text, and an extract [from, to] is  *)
(* an interval of them.  A text is a sequence of paragraphs, a paragraph   *)
(* the sequence of its sentences, a sentence an extract.  A chunk has the  *)
(* extracts it joins with blank lines between them, and the number of      *)
(* tokens of the joined text, which includes the blank lines.              *)
(***************************************************************************)
EXTENDS Integers, Sequences, FiniteSets

\* The tokens of the document, such as a full stop, that the encoding makes one token with
\* the blank line behind them; behind any other one the blank line is a token of its own.
CONSTANT Absorbing

ASSUME ChunkingAssumption == Absorbing \subseteq Nat

\* Tokens of an extract, and of the extracts of a buffer or chunk.
TokensOf(e) == e[2] - e[1] + 1

Totals(extracts) ==
  LET total[n \in 0..Len(extracts)] ==
        IF n = 0 THEN 0 ELSE total[n - 1] + TokensOf(extracts[n])
  IN  total

TotalTokens(extracts) == Totals(extracts)[Len(extracts)]

\* What count_tokens says of a buffer joined with blank lines, and the chunk made of it.
CountTokens(pieces) ==
  TotalTokens(pieces) + Cardinality({k \in 1..(Len(pieces) - 1) : pieces[k][2] \notin Absorbing})

Joined(pieces) == [pieces |-> pieces, tokens |-> CountTokens(pieces)]

\* A paragraph within the target is one piece; another one is cut into its sentences.
Whole(paragraph) == <<paragraph[1][1], paragraph[Len(paragraph)][2]>>

ParagraphPieces(paragraph, target) ==
  IF TokensOf(Whole(paragraph)) <= target THEN <<Whole(paragraph)>> ELSE paragraph

\* The loop over the paragraphs, after each of them.
Collected(text, target) ==
  LET pieces[n \in 0..Len(text)] ==
        IF n = 0 THEN <<>> ELSE pieces[n - 1] \o ParagraphPieces(text[n], target)
  IN  pieces

Pieces(text, target) == Collected(text, target)[Len(text)]

\* Defect: the next slice begins behind the token at which the last one ended.
NextSliceSkips(end, last, overlap) == IF end <= last THEN end + 1 ELSE end

\* Where the slice after one that ends before "end" begins.
NextSlice(end, last, overlap) == IF end <= last THEN end - overlap ELSE end

\* A pass of the loop of _fixed_split: a slice of target tokens, or what is left.
Slice(st, last, target, overlap) ==
  LET end == IF st.start + target <= last + 1 THEN st.start + target ELSE last + 1
  IN  IF st.start > last
      THEN st
      ELSE [slices |-> Append(st.slices, [pieces |-> << <<st.start, end - 1>> >>,
                                          tokens |-> end - st.start]),
            start |-> NextSlice(end, last, overlap)]

\* After each number of passes; every slice reaches a token further at least.
Sliced(piece, target, overlap) ==
  LET after[n \in 0..TokensOf(piece)] ==
        IF n = 0
        THEN [slices |-> <<>>, start |-> piece[1]]
        ELSE Slice(after[n - 1], piece[2], target, overlap)
  IN  after

FixedSplit(piece, target, overlap) == Sliced(piece, target, overlap)[TokensOf(piece)].slices

\* Defect: the overlap takes the whole buffer along.
OverlapAll(buffer, overlap) == buffer

\* _apply_overlap: the longest end of the buffer within the overlap.
ApplyOverlap(buffer, overlap) ==
  LET ends == {k \in 1..(Len(buffer) + 1) :
                 TotalTokens(SubSeq(buffer, k, Len(buffer))) <= overlap}
  IN  SubSeq(buffer, CHOOSE k \in ends : \A j \in ends : k <= j, Len(buffer))

\* The buffer becomes a chunk and its end begins the next buffer.
Flush(st, overlap) ==
  IF st.buffer = <<>>
  THEN st
  ELSE [chunks |-> Append(st.chunks, Joined(st.buffer)),
        buffer |-> ApplyOverlap(st.buffer, overlap)]

\* The body of the loop over the pieces; the blank lines are not in the sum it checks.
Take(st, piece, target, overlap) ==
  LET flushed == Flush(st, overlap)
      room == IF TotalTokens(st.buffer) + TokensOf(piece) > target THEN flushed ELSE st
  IN  IF TokensOf(piece) > target
      THEN [chunks |-> flushed.chunks \o FixedSplit(piece, target, overlap),
            buffer |-> flushed.buffer]
      ELSE [chunks |-> room.chunks, buffer |-> Append(room.buffer, piece)]

\* The loop over the pieces, after each of them.
Taken(pieces, target, overlap) ==
  LET after[n \in 0..Len(pieces)] ==
        IF n = 0
        THEN [chunks |-> <<>>, buffer |-> <<>>]
        ELSE Take(after[n - 1], pieces[n], target, overlap)
  IN  after

ChunkText(text, target, overlap) ==
  LET pieces == Pieces(text, target)
      end == Taken(pieces, target, overlap)[Len(pieces)]
  IN  IF end.buffer = <<>> THEN end.chunks ELSE Append(end.chunks, Joined(end.buffer))
=============================================================================
