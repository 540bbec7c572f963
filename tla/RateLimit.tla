------------------------------ MODULE RateLimit -----------------------------
(***************************************************************************)
(* check_rate_limit of src/gyros_os/server/dependencies.py for one phone   *)
(* number in one process: a sliding window over the accepted requests.     *)
(* The list of timestamps is the set of the requests that left them there. *)
(***************************************************************************)
EXTENDS Integers, Sequences, FiniteSets

\* Defect: a request that is refused is registered too.
RegisterAlways(history, n, accepted) == history \cup {n}

\* request_history[phone].append(now), which the 429 skips.
Register(history, n, accepted) == IF accepted THEN history \cup {n} ELSE history

\* Timestamps not older than the window when request n arrives.
Recent(history, arrivals, n, window) ==
  {k \in history : arrivals[k] > arrivals[n] - window}

\* The call for request n: what is left in request_history, and the requests answered so far
\* without a 429.
Check(st, arrivals, n, limit, window) ==
  LET recent == Recent(st.history, arrivals, n, window)
      accepted == Cardinality(recent) < limit
  IN  [history |-> Register(recent, n, accepted),
       accepted |-> IF accepted THEN st.accepted \cup {n} ELSE st.accepted]

\* After each number of calls.
Checked(arrivals, limit, window) ==
  LET after[n \in 0..Len(arrivals)] ==
        IF n = 0
        THEN [history |-> {}, accepted |-> {}]
        ELSE Check(after[n - 1], arrivals, n, limit, window)
  IN  after

\* The requests of a sequence of arrival times that are let in.
Accepted(arrivals, limit, window) == Checked(arrivals, limit, window)[Len(arrivals)].accepted
=============================================================================
