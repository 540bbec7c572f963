----------------------------- MODULE Algorithms -----------------------------
(***************************************************************************)
(* The pure algorithms of the program over all inputs up to a bound: the   *)
(* cut of a reply into messages, of a document into chunks, and the answer *)
(* of the rate limit to a sequence of requests.  A step makes one of the   *)
(* three inputs longer, so that every input within the bounds is a state.  *)
(***************************************************************************)
EXTENDS MessageSplit, Chunking, RateLimit

CONSTANTS
  BodyLimit, MaxBody,              \* TWILIO_MESSAGE_BODY_LIMIT; bound on the letters of a body
  Target, Overlap,                 \* TARGET_TOKENS and OVERLAP_TOKENS
  MaxSentence, MaxTokens,          \* bounds on the tokens of a sentence and of a document
  RequestLimit, Window,            \* rate_limit_per_hour, and the hour in ticks
  MaxRequests, MaxTime             \* bounds on the requests and on their times

ASSUME AlgorithmsAssumption ==
  /\ BodyLimit \in Nat \ {0}
  /\ Target \in Nat /\ Overlap \in Nat /\ Overlap < Target
  /\ RequestLimit \in Nat \ {0} /\ Window \in Nat \ {0}
  /\ MaxSentence \in Nat /\ MaxTime \in Nat

VARIABLES
  body,      \* a reply
  text,      \* a document
  arrivals   \* the times at which requests of one phone number arrive

vars == <<body, text, arrivals>>

Init == body = <<>> /\ text = <<>> /\ arrivals = <<>>

Write ==
  /\ text = <<>> /\ arrivals = <<>>
  /\ Len(body) < MaxBody
  /\ \E c \in Blanks \cup {"x"} : body' = Append(body, c)
  /\ UNCHANGED <<text, arrivals>>

Tokens(t) == IF t = <<>> THEN 0 ELSE t[Len(t)][Len(t[Len(t)])][2]

\* The next sentence of the document, of n tokens.
Sentence(n) == <<Tokens(text) + 1, Tokens(text) + n>>

NewParagraph ==
  /\ body = <<>> /\ arrivals = <<>>
  /\ Tokens(text) < MaxTokens
  /\ \E n \in 1..MaxSentence : text' = Append(text, <<Sentence(n)>>)
  /\ UNCHANGED <<body, arrivals>>

NewSentence ==
  /\ body = <<>> /\ arrivals = <<>>
  /\ text # <<>>
  /\ Tokens(text) < MaxTokens
  /\ \E n \in 1..MaxSentence :
       text' = [text EXCEPT ![Len(text)] = Append(@, Sentence(n))]
  /\ UNCHANGED <<body, arrivals>>

Arrive ==
  /\ body = <<>> /\ text = <<>>
  /\ Len(arrivals) < MaxRequests
  /\ \E t \in 0..MaxTime :
       /\ arrivals # <<>> => t >= arrivals[Len(arrivals)]
       /\ arrivals' = Append(arrivals, t)
  /\ UNCHANGED <<body, text>>

Next == Write \/ NewParagraph \/ NewSentence \/ Arrive

Spec == Init /\ [][Next]_vars

-----------------------------------------------------------------------------
(* Properties.                                                             *)

Parts == SplitMessageBody(body, BodyLimit)

\* The parts of a reply follow one another, each fits into a message of the provider, and
\* what lies before, between and behind them is blank: no text is lost, none is sent twice
\* (twilio_client.py:256-296).
OnlyBlanksAreLost ==
  /\ \A n \in DOMAIN Parts :
       /\ Parts[n][2] - Parts[n][1] + 1 \in 0..BodyLimit
       /\ n > 1 => Parts[n - 1][2] < Parts[n][1] /\ Parts[n][1] <= Parts[n][2]
  /\ \A i \in DOMAIN body :
       body[i] \in Blanks \/ \E n \in DOMAIN Parts : i \in Parts[n][1]..Parts[n][2]

\* A word is cut in two only where a message holds nothing but letters of it and is full, so
\* that the word is longer than a message; a reply that begins with blanks may be cut anywhere
\* in its first message, which is full as well (twilio_client.py:280-294).
OnlyLongWordsAreCut ==
  \A n \in 1..(Len(Parts) - 1) :
    LET to == Parts[n][2]
    IN  (body[to] \notin Blanks /\ body[to + 1] \notin Blanks) =>
          /\ to - Parts[n][1] + 1 = BodyLimit
          /\ \/ n = 1 /\ body[1] \in Blanks
             \/ \A i \in Parts[n][1]..to : body[i] \notin Blanks

\* The docstring: natural limits are tried before a raw cut (twilio_client.py:261-264).  A word
\* is cut in two only where no blank behind another letter comes before it in the message.
NaturalLimitFirst ==
  \A n \in 1..(Len(Parts) - 1) :
    LET to == Parts[n][2]
    IN  (body[to] \notin Blanks /\ body[to + 1] \notin Blanks) =>
          \A i \in (Parts[n][1] + 1)..to : body[i] \in Blanks => body[i - 1] \in Blanks

Chunks == ChunkText(text, Target, Overlap)

TokensIn(pieces) == UNION {pieces[k][1]..pieces[k][2] : k \in DOMAIN pieces}
TokensUpTo(n) == UNION {TokensIn(Chunks[k].pieces) : k \in 1..n}

\* The chunks of a document reach ever further into it without leaving out a token, and
\* together they are the whole document, whatever was kept as overlap (rag/chunking.py:45-82).
ChunksCoverText ==
  /\ \A n \in DOMAIN Chunks : \E reach \in 1..Tokens(text) : TokensUpTo(n) = 1..reach
  /\ TokensUpTo(Len(Chunks)) = 1..Tokens(text)

\* A chunk holds tokens in the order of the text and none of them twice.  It is not empty, and
\* its text holds no more than the target and the overlap that may precede it: the check
\* against the target is not repeated after the overlap was put into the buffer.  The blank
\* lines are in no check but in the count that is stored.  So a chunk of paragraphs of one
\* token has almost twice the target, and none has more; one that an overlap took over the
\* target has few paragraphs, and its blank lines are no more than the overlap
\* (rag/chunking.py:56-80).
ChunksAreBounded ==
  \A n \in DOMAIN Chunks :
    LET chunk == Chunks[n]
        total == TotalTokens(chunk.pieces)
    IN  /\ total \in 1..(Target + Overlap)
        /\ chunk.tokens <= IF total <= Target THEN 2 * Target - 1 ELSE Target + 2 * Overlap
        /\ \A k \in DOMAIN chunk.pieces :
             /\ chunk.pieces[k][1] <= chunk.pieces[k][2]
             /\ k > 1 => chunk.pieces[k - 1][2] < chunk.pieces[k][1]

\* A request is refused exactly when limit requests of the hour before it were accepted;
\* those refused do not count, so a client that goes on trying is not locked out for ever,
\* and forgetting old timestamps at each call changes nothing (dependencies.py:150-170).
RefusedExactlyAtLimit ==
  LET accepted == Accepted(arrivals, RequestLimit, Window)
  IN  \A n \in DOMAIN arrivals :
        n \in accepted <=>
          Cardinality({k \in accepted : k < n /\ arrivals[k] > arrivals[n] - Window})
            < RequestLimit
=============================================================================
