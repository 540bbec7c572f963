---------------------------- MODULE MessageSplit ----------------------------
(***************************************************************************)
(* split_message_body of src/gyros_os/worker/twilio_client.py: how a reply *)
(* is cut into messages that the provider takes.                           *)
(*                                                                         *)
(* A body is a sequence of "x" (any letter), "sp" and "nl"; a part is the  *)
(* interval [from, to] of its positions, and "remaining" is always the end *)
(* of the body that begins at position i.                                  *)
(***************************************************************************)
EXTENDS Integers, Sequences, FiniteSetsExt

Blanks == {"sp", "nl"}

\* The separators in the order in which they are tried.
Separators == << <<"nl", "nl">>, <<"nl">>, <<"sp">> >>

\* remaining.rfind(sep, 0, limit + 1) > 0: where the separator may begin, counted from i.
CutsAt(body, i, limit, sep) ==
  {k \in 1..(limit + 1 - Len(sep)) : SubSeq(body, i + k, i + k + Len(sep) - 1) = sep}

\* Defect: the hard cut is taken before the separators are tried.
HardCut(body, i, limit) == limit

\* split_at: the last place of the first separator that has one, else the limit.
SplitAt(body, i, limit) ==
  LET found == {n \in DOMAIN Separators : CutsAt(body, i, limit, Separators[n]) # {}}
  IN  IF found = {}
      THEN limit
      ELSE Max(CutsAt(body, i, limit, Separators[Min(found)]))

\* Length of remaining[:n].rstrip().
Stripped(body, i, n) ==
  Max({0} \cup {k \in 1..n : body[i + k - 1] \notin Blanks})

\* The last position of the part that begins at i.
PartEnd(body, i, limit) ==
  LET n == Stripped(body, i, SplitAt(body, i, limit))
  IN  i + (IF n = 0 THEN limit ELSE n) - 1

\* Defect: the next part begins one position after the cut, as if a separator were there.
PastSeparator(body, j) == j + 1

\* lstrip: the first position from j on that is not blank, or the end of the body.
SkipBlanks(body, j) ==
  Min({k \in j..Len(body) : body[k] \notin Blanks} \cup {Len(body) + 1})

\* A pass of the while loop: the parts so far, and where "remaining" begins.
Pass(st, body, limit) ==
  IF st.i > Len(body)
  THEN st
  ELSE IF Len(body) - st.i + 1 <= limit
  THEN [parts |-> Append(st.parts, <<st.i, Len(body)>>), i |-> Len(body) + 1]
  ELSE LET to == PartEnd(body, st.i, limit)
       IN  [parts |-> Append(st.parts, <<st.i, to>>), i |-> SkipBlanks(body, to + 1)]

\* After each number of passes; every pass takes a letter at least.
Passes(body, limit) ==
  LET after[n \in 0..Len(body)] ==
        IF n = 0 THEN [parts |-> <<>>, i |-> 1] ELSE Pass(after[n - 1], body, limit)
  IN  after

SplitMessageBody(body, limit) ==
  IF Len(body) <= limit
  THEN << <<1, Len(body)>> >>
  ELSE Passes(body, limit)[Len(body)].parts
=============================================================================
