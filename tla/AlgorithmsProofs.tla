--------------------------- MODULE AlgorithmsProofs -------------------------
(***************************************************************************)
(* Proofs about Algorithms: its properties hold for inputs of any length.  *)
(*                                                                         *)
(* A loop is a function from the number of passes to the state after them. *)
(* LoopDefined shows that the function exists, so that it satisfies its    *)
(* equation; what a loop returns follows by Counting from an invariant of  *)
(* its passes.                                                             *)
(***************************************************************************)
EXTENDS Algorithms, SequenceTheorems, FiniteSetTheorems, NaturalsInduction,
        WellFoundedInduction, TLAPS

(***************************************************************************)
(* Induction, as facts about sets.                                         *)
(***************************************************************************)

\* A set of natural numbers that is not empty has a least element.
LEMMA LeastExists ==
  ASSUME NEW S, S \subseteq Nat, S # {}
  PROVE  \E j \in S : \A k \in S : j <= k
<1> DEFINE R == {ss \in Nat \X Nat : ss[1] < ss[2]}
<1>1. IsWellFoundedOn(R, Nat)
  BY NatLessThanWellFounded DEF OpToRel
<1>2. \E j \in S : \A k \in S : <<k, j>> \notin R
  <2> HIDE DEF R
  <2> QED
    BY <1>1, WFMin
<1>3. \A j, k \in Nat : <<k, j>> \notin R => j <= k
  <2> SUFFICES ASSUME NEW j \in Nat, NEW k \in Nat, k < j PROVE <<k, j>> \in R
    BY SMT
  <2>1. <<k, j>> \in Nat \X Nat /\ <<k, j>>[1] < <<k, j>>[2]
    OBVIOUS
  <2> QED
    BY <2>1
<1> QED
  <2> HIDE DEF R
  <2> QED
    BY <1>2, <1>3

\* What holds of 0 and is kept by every pass up to the last holds after each of them.
LEMMA Counting ==
  ASSUME NEW N \in Nat, NEW S, 0 \in S, \A n \in 0..(N - 1) : n \in S => n + 1 \in S
  PROVE  0..N \subseteq S
<1> DEFINE T == {n \in 0..N : n \notin S}
<1> SUFFICES ASSUME T # {} PROVE FALSE
  OBVIOUS
<1>1. T \subseteq Nat
  OBVIOUS
<1>2. PICK j \in T : \A k \in T : j <= k
  <2> HIDE DEF T
  <2> QED
    BY <1>1, LeastExists
<1>3. j \in 1..N
  BY <1>2
<1>4. j - 1 \in 0..(N - 1) /\ j - 1 \notin T
  BY <1>2, <1>3
<1> QED
  BY <1>2, <1>3, <1>4

\* Pass n of a loop takes state s to G[n][s]; f has the state after each of N passes from x.
Within(S, G, N) == \A n \in 1..N, s \in S : G[n][s] \in S

IsLoop(f, x, S, G, N) ==
  f \in [0..N -> S] /\ f[0] = x /\ \A n \in 1..N : f[n] = G[n][f[n - 1]]

\* A loop that stays within S has a state after each pass.
LEMMA LoopDefined ==
  ASSUME NEW N \in Nat, NEW S, NEW x \in S, NEW G, Within(S, G, N)
  PROVE  \E f : IsLoop(f, x, S, G, N)
<1> USE DEF Within, IsLoop
<1> DEFINE Fits(f, m) == /\ f[0] = x
                         /\ \A n \in 1..m : f[n] = G[n][f[n - 1]]
           T == {m \in 0..N : \E f \in [0..m -> S] : Fits(f, m)}
<1>1. 0 \in T
  <2> DEFINE f == [n \in 0..0 |-> x]
  <2>1. f \in [0..0 -> S] /\ Fits(f, 0)
    OBVIOUS
  <2>2. 0 \in 0..N
    OBVIOUS
  <2> QED
    <3> HIDE DEF Fits, f
    <3> QED
      BY <2>1, <2>2
<1>2. ASSUME NEW m \in 0..(N - 1), m \in T PROVE m + 1 \in T
  <2>1. PICK f \in [0..m -> S] : Fits(f, m)
    BY <1>2
  <2> DEFINE g == [n \in 0..(m + 1) |-> IF n <= m THEN f[n] ELSE G[m + 1][f[m]]]
  <2>2. G[m + 1][f[m]] \in S
    OBVIOUS
  <2>3. g \in [0..(m + 1) -> S]
    BY <2>2
  <2>4. Fits(g, m + 1)
    <3>1. g[0] = x
      BY <2>1
    <3>2. ASSUME NEW n \in 1..(m + 1) PROVE g[n] = G[n][g[n - 1]]
      <4>1. CASE n \in 1..m
        <5>1. g[n] = f[n] /\ g[n - 1] = f[n - 1]
          BY <4>1
        <5> QED
          BY <2>1, <4>1, <5>1
      <4>2. CASE n = m + 1
        <5>1. g[m + 1] = G[m + 1][f[m]] /\ g[m] = f[m] /\ (m + 1) - 1 = m
          OBVIOUS
        <5> QED
          <6> HIDE DEF g
          <6> QED
            BY <4>2, <5>1
      <4> QED
        BY <4>1, <4>2
    <3> QED
      BY <3>1, <3>2
  <2> QED
    <3> HIDE DEF Fits, g
    <3> QED
      BY <2>3, <2>4
<1>3. 0..N \subseteq T
  <2> HIDE DEF T
  <2> QED
    BY <1>1, <1>2, Counting
<1> QED
  BY <1>3

(***************************************************************************)
(* The rate limit.  After n calls request_history holds the requests let   *)
(* in that are not older than the window when the n-th arrives: what a     *)
(* call forgets, no later call would count, for time does not run back.    *)
(***************************************************************************)
LEMMA CheckedDefined ==
  ASSUME NEW arr \in Seq(Nat), NEW limit, NEW window
  PROVE  /\ Checked(arr, limit, window)[0] = [history |-> {}, accepted |-> {}]
         /\ \A n \in 1..Len(arr) :
              Checked(arr, limit, window)[n]
                = Check(Checked(arr, limit, window)[n - 1], arr, n, limit, window)
<1> DEFINE N == Len(arr)
           S == [history : SUBSET Nat, accepted : SUBSET Nat]
           x == [history |-> {}, accepted |-> {}]
           C(st, n) == Check(st, arr, n, limit, window)
           G == [n \in 1..N |-> [st \in S |-> C(st, n)]]
           F(f) == [n \in 0..N |-> IF n = 0 THEN x ELSE C(f[n - 1], n)]
<1>1. N \in Nat /\ x \in S
  OBVIOUS
<1>2. ASSUME NEW st \in S, NEW n \in 1..N PROVE C(st, n) \in S
  BY DEF Check, Register, Recent
<1>3. /\ Within(S, G, N)
      /\ \A n \in 1..N, st \in S : G[n][st] = C(st, n)
  <2> HIDE DEF S, C, N
  <2> QED
    BY <1>2 DEF Within
<1>4. \E f : f = F(f)
  <2> HIDE DEF S, C, N, x, G
  <2>1. PICK f : IsLoop(f, x, S, G, N)
    BY <1>1, <1>3, LoopDefined
  <2>2. ASSUME NEW n \in 0..N PROVE f[n] = IF n = 0 THEN x ELSE C(f[n - 1], n)
    <3>1. CASE n = 0
      BY <2>1, <3>1 DEF IsLoop
    <3>2. CASE n \in 1..N
      <4>1. f[n - 1] \in S /\ f[n] = G[n][f[n - 1]]
        BY <1>1, <2>1, <3>2 DEF IsLoop
      <4> QED
        BY <1>3, <3>2, <4>1
    <3> QED
      BY <1>1, <3>1, <3>2
  <2>3. f = F(f)
    BY <2>1, <2>2 DEF IsLoop
  <2> QED
    BY <2>3
<1>5. Checked(arr, limit, window) = CHOOSE f : f = F(f)
  BY DEF Checked
<1>6. Checked(arr, limit, window) = F(Checked(arr, limit, window))
  <2> HIDE DEF F
  <2> QED
    BY <1>4, <1>5
<1> QED
  <2> HIDE DEF C, x
  <2>1. \A n \in 0..N : Checked(arr, limit, window)[n]
                        = IF n = 0 THEN x ELSE C(Checked(arr, limit, window)[n - 1], n)
    BY <1>6
  <2>2. QED
    BY <1>1, <2>1 DEF C, x

Ordered(arr) == \A j, k \in DOMAIN arr : j <= k => arr[j] <= arr[k]

\* The requests let in among the first n, and what of them is left in request_history.
Counted(st, arr, n, limit, window) ==
  /\ st.accepted \subseteq 1..n
  /\ st.history = {k \in st.accepted : arr[k] > arr[n] - window}
  /\ \A m \in 1..n :
       m \in st.accepted <=>
         Cardinality({k \in st.accepted : k < m /\ arr[k] > arr[m] - window}) < limit

LEMMA CheckCounts ==
  ASSUME NEW arr \in Seq(Nat), Ordered(arr), NEW limit \in Nat, NEW window \in Nat \ {0},
         NEW n \in 1..Len(arr), NEW st,
         \/ n = 1 /\ st = [history |-> {}, accepted |-> {}]
         \/ n > 1 /\ Counted(st, arr, n - 1, limit, window)
  PROVE  Counted(Check(st, arr, n, limit, window), arr, n, limit, window)
<1> DEFINE recent == Recent(st.history, arr, n, window)
           ok == Cardinality(recent) < limit
           new == Check(st, arr, n, limit, window)
           Before(a, m) == {k \in a : k < m /\ arr[k] > arr[m] - window}
<1>1. st.accepted \subseteq 1..(n - 1)
  BY DEF Counted
<1>2. \A k \in 1..n : arr[k] \in Nat /\ arr[k] <= arr[n] /\ (k < n => arr[k] <= arr[n - 1])
  <2>1. \A k \in 1..n : k \in DOMAIN arr /\ (k < n => n - 1 \in DOMAIN arr)
    OBVIOUS
  <2> QED
    BY <2>1 DEF Ordered
<1>3. recent = Before(st.accepted, n)
  <2>1. CASE n = 1
    BY <2>1 DEF Recent
  <2>2. CASE n > 1
    <3>1. st.history = {k \in st.accepted : arr[k] > arr[n - 1] - window}
      BY <2>2 DEF Counted
    <3>2. n - 1 \in 1..n
      BY <2>2
    <3> QED
      BY <1>1, <1>2, <3>1, <3>2 DEF Recent
  <2> QED
    BY <2>1, <2>2
<1>4. /\ new.history = IF ok THEN recent \cup {n} ELSE recent
      /\ new.accepted = IF ok THEN st.accepted \cup {n} ELSE st.accepted
  BY DEF Check, Register
<1>5. \A m \in 1..n : Before(new.accepted, m) = Before(st.accepted, m)
  <2> HIDE DEF new, ok
  <2> QED
    BY <1>1, <1>4
<1>6. ASSUME NEW m \in 1..n
      PROVE  m \in new.accepted <=> Cardinality(Before(new.accepted, m)) < limit
  <2> HIDE DEF new, Before
  <2>1. CASE m = n
    <3>1. n \in new.accepted <=> ok
      BY <1>1, <1>4
    <3> QED
      BY <1>3, <1>5, <2>1, <3>1
  <2>2. CASE m < n
    <3>1. m \in new.accepted <=> m \in st.accepted
      BY <1>4, <2>2
    <3>2. m \in 1..(n - 1) /\ n > 1
      BY <2>2
    <3>3. m \in st.accepted <=> Cardinality(Before(st.accepted, m)) < limit
      BY <3>2 DEF Counted, Before
    <3> QED
      BY <1>5, <3>1, <3>3
  <2> QED
    BY <2>1, <2>2
<1>7. new.accepted \subseteq 1..n
  <2> HIDE DEF new
  <2> QED
    BY <1>1, <1>4
<1>8. new.history = {k \in new.accepted : arr[k] > arr[n] - window}
  <2>1. n \in 1..n /\ arr[n] > arr[n] - window
    BY <1>2
  <2>2. recent = {k \in st.accepted : arr[k] > arr[n] - window}
    BY <1>1, <1>3
  <2> HIDE DEF new, recent
  <2> QED
    BY <1>4, <2>1, <2>2
<1> QED
  BY <1>6, <1>7, <1>8 DEF Counted

\* What Accepted returns, for arrivals in the order of time.
LEMMA AcceptedCounts ==
  ASSUME NEW arr \in Seq(Nat), Ordered(arr), NEW limit \in Nat, NEW window \in Nat \ {0},
         NEW n \in 1..Len(arr)
  PROVE  LET accepted == Accepted(arr, limit, window)
         IN  n \in accepted <=>
               Cardinality({k \in accepted : k < n /\ arr[k] > arr[n] - window}) < limit
<1> DEFINE c == Checked(arr, limit, window)
           T == {k \in 0..Len(arr) : k > 0 => Counted(c[k], arr, k, limit, window)}
<1>1. Len(arr) \in Nat
  OBVIOUS
<1>2. 0 \in T
  BY <1>1
<1>3. ASSUME NEW k \in 0..(Len(arr) - 1), k \in T PROVE k + 1 \in T
  <2>1. k + 1 \in 1..Len(arr) /\ (k + 1) - 1 = k
    BY <1>1
  <2>2. c[k + 1] = Check(c[k], arr, k + 1, limit, window)
    BY <2>1, CheckedDefined
  <2>3. k = 0 => c[k] = [history |-> {}, accepted |-> {}]
    BY CheckedDefined
  <2> HIDE DEF c
  <2>4. Counted(c[k + 1], arr, k + 1, limit, window)
    BY <1>3, <2>1, <2>2, <2>3, CheckCounts
  <2> QED
    BY <2>1, <2>4
<1>4. 0..Len(arr) \subseteq T
  <2> HIDE DEF T
  <2> QED
    BY <1>1, <1>2, <1>3, Counting
<1>5. Counted(c[Len(arr)], arr, Len(arr), limit, window)
  BY <1>1, <1>4
<1> QED
  BY <1>5 DEF Counted, Accepted

(***************************************************************************)
(* The cut of a reply.                                                     *)
(***************************************************************************)
Letters == Blanks \cup {"x"}

LEMMA MinLeast ==
  ASSUME NEW S, S \subseteq Nat, S # {}
  PROVE  Min(S) \in S /\ \A k \in S : Min(S) <= k
<1>1. \E j \in S : \A k \in S : j <= k
  BY LeastExists
<1> QED
  BY <1>1 DEF Min

LEMMA MaxGreatest ==
  ASSUME NEW n \in Nat, NEW S, S \subseteq 0..n, S # {}
  PROVE  Max(S) \in S /\ \A k \in S : k <= Max(S)
<1> DEFINE R == {n - k : k \in S}
<1>1. R \subseteq Nat /\ R # {}
  <2>1. \A k \in S : n - k \in Nat
    OBVIOUS
  <2>2. PICK k \in S : TRUE
    OBVIOUS
  <2>3. n - k \in R
    BY <2>2
  <2> QED
    BY <2>1, <2>3
<1>2. PICK j \in R : \A k \in R : j <= k
  <2> HIDE DEF R
  <2> QED
    BY <1>1, LeastExists
<1>3. n - j \in S
  BY <1>2
<1>4. ASSUME NEW k \in S PROVE k <= n - j
  <2>1. n - k \in R /\ k \in 0..n /\ j \in Nat
    BY <1>1, <1>2
  <2>2. j <= n - k
    BY <1>2, <2>1
  <2> HIDE DEF R
  <2> QED
    BY <2>1, <2>2
<1>5. \E m \in S : \A k \in S : m >= k
  BY <1>3, <1>4
<1>6. Max(S) \in S /\ \A k \in S : Max(S) >= k
  BY <1>5 DEF Max
<1> QED
  BY <1>6

LEMMA SkipBlanksSkips ==
  ASSUME NEW b \in Seq(Letters), NEW j \in 1..(Len(b) + 1)
  PROVE  /\ SkipBlanks(b, j) \in j..(Len(b) + 1)
         /\ \A k \in j..(SkipBlanks(b, j) - 1) : b[k] \in Blanks
         /\ SkipBlanks(b, j) <= Len(b) => b[SkipBlanks(b, j)] \notin Blanks
<1> DEFINE S == {k \in j..Len(b) : b[k] \notin Blanks} \cup {Len(b) + 1}
<1>1. Len(b) \in Nat
  OBVIOUS
<1>2. S \subseteq Nat /\ S # {}
  BY <1>1
<1>3. Min(S) \in S /\ \A k \in S : Min(S) <= k
  <2> HIDE DEF S
  <2> QED
    BY <1>2, MinLeast
<1>4. SkipBlanks(b, j) = Min(S)
  BY DEF SkipBlanks
<1>5. ASSUME NEW k \in j..(Min(S) - 1) PROVE b[k] \in Blanks
  BY <1>1, <1>3
<1> QED
  <2>1. Min(S) \in j..(Len(b) + 1) /\ (Min(S) <= Len(b) => b[Min(S)] \notin Blanks)
    BY <1>1, <1>3
  <2> HIDE DEF S
  <2> QED
    BY <1>4, <1>5, <2>1

LEMMA StrippedStrips ==
  ASSUME NEW b \in Seq(Letters), NEW i \in Nat, NEW n \in Nat
  PROVE  /\ Stripped(b, i, n) \in 0..n
         /\ Stripped(b, i, n) > 0 => b[i + Stripped(b, i, n) - 1] \notin Blanks
         /\ \A k \in (Stripped(b, i, n) + 1)..n : b[i + k - 1] \in Blanks
<1> DEFINE S == {0} \cup {k \in 1..n : b[i + k - 1] \notin Blanks}
<1>1. S \subseteq 0..n /\ S # {}
  OBVIOUS
<1>2. Max(S) \in S /\ \A k \in S : k <= Max(S)
  <2> HIDE DEF S
  <2> QED
    BY <1>1, MaxGreatest
<1>3. Stripped(b, i, n) = Max(S)
  BY DEF Stripped
<1>4. Max(S) \in 0..n /\ (Max(S) > 0 => b[i + Max(S) - 1] \notin Blanks)
  BY <1>2
<1>5. ASSUME NEW k \in (Max(S) + 1)..n PROVE b[i + k - 1] \in Blanks
  BY <1>2, <1>4
<1> QED
  <2> HIDE DEF S
  <2> QED
    BY <1>3, <1>4, <1>5

\* The cut is at a blank, or at the limit when there is no blank up to it.
LEMMA SplitAtBlank ==
  ASSUME NEW b \in Seq(Letters), NEW limit \in Nat \ {0}, NEW i \in 1..Len(b),
         Len(b) - i + 1 > limit
  PROVE  /\ SplitAt(b, i, limit) \in 1..limit
         /\ \/ b[i + SplitAt(b, i, limit)] \in Blanks
            \/ /\ SplitAt(b, i, limit) = limit
               /\ \A k \in 1..limit : b[i + k] \notin Blanks
<1> DEFINE cuts(n) == CutsAt(b, i, limit, Separators[n])
           found == {n \in DOMAIN Separators : cuts(n) # {}}
<1>1. /\ DOMAIN Separators = 1..3
      /\ Separators[1] = <<"nl", "nl">> /\ Separators[2] = <<"nl">> /\ Separators[3] = <<"sp">>
  BY DEF Separators
<1>2. ASSUME NEW k \in 1..limit PROVE i + k \in 1..Len(b) /\ b[i + k] \in Letters
  OBVIOUS
<1>3. ASSUME NEW n \in 1..3, NEW k \in cuts(n) PROVE k \in 1..limit /\ b[i + k] \in Blanks
  <2> DEFINE sep == Separators[n]
  <2>1. Len(sep) \in 1..2 /\ sep[1] \in Blanks
    <3>1. n = 1 \/ n = 2 \/ n = 3
      OBVIOUS
    <3>2. sep = <<"nl", "nl">> \/ sep = <<"nl">> \/ sep = <<"sp">>
      BY <1>1, <3>1
    <3> HIDE DEF sep
    <3> QED
      BY <3>2 DEF Blanks
  <2>2. k \in 1..(limit + 1 - Len(sep)) /\ SubSeq(b, i + k, i + k + Len(sep) - 1) = sep
    BY DEF CutsAt
  <2> HIDE DEF sep
  <2>3. k \in 1..limit
    BY <2>1, <2>2
  <2>4. SubSeq(b, i + k, i + k + Len(sep) - 1)[1] = b[i + k]
    BY <2>1, <2>3, <1>2
  <2> QED
    BY <2>1, <2>2, <2>3, <2>4
<1>4. CASE found = {}
  <2>1. SplitAt(b, i, limit) = limit
    BY <1>4 DEF SplitAt
  <2>2. ASSUME NEW k \in 1..limit PROVE b[i + k] \notin Blanks
    <3>1. cuts(2) = {} /\ cuts(3) = {}
      <4>1. 2 \in DOMAIN Separators /\ 3 \in DOMAIN Separators
        BY <1>1
      <4> HIDE DEF cuts
      <4> QED
        BY <1>4, <4>1
    <3>2. /\ Len(Separators[2]) = 1 /\ Len(Separators[3]) = 1
      BY <1>1
    <3>3. k \notin cuts(2) /\ k \notin cuts(3)
      BY <3>1
    <3>4. SubSeq(b, i + k, i + k) # <<"nl">> /\ SubSeq(b, i + k, i + k) # <<"sp">>
      BY <1>1, <3>2, <3>3 DEF CutsAt
    <3>5. SubSeq(b, i + k, i + k) = <<b[i + k]>>
      <4>1. i + k \in 1..Len(b)
        BY <1>2
      <4>2. ASSUME NEW p \in 1..Len(b) PROVE SubSeq(b, p, p) = <<b[p]>>
        <5>1. /\ SubSeq(b, p, p) \in Seq(Letters) /\ Len(SubSeq(b, p, p)) = 1
              /\ SubSeq(b, p, p)[1] = b[p]
          OBVIOUS
        <5>2. <<b[p]>> \in Seq(Letters) /\ Len(<<b[p]>>) = 1 /\ <<b[p]>>[1] = b[p]
          OBVIOUS
        <5>3. \A q \in 1..Len(SubSeq(b, p, p)) : SubSeq(b, p, p)[q] = <<b[p]>>[q]
          BY <5>1, <5>2
        <5> HIDE DEF Letters
        <5> QED
          BY <5>1, <5>2, <5>3, SeqEqual
      <4> QED
        BY <4>1, <4>2
    <3> QED
      BY <3>4, <3>5 DEF Blanks
  <2> QED
    BY <2>1, <2>2
<1>5. CASE found # {}
  <2>1. Min(found) \in found
    <3>1. found \subseteq Nat
      BY <1>1
    <3> HIDE DEF found
    <3> QED
      BY <1>5, <3>1, MinLeast
  <2>2. Min(found) \in 1..3 /\ cuts(Min(found)) # {}
    BY <1>1, <2>1
  <2> DEFINE S == cuts(Min(found))
  <2>3. \A k \in S : k \in 1..limit /\ b[i + k] \in Blanks
    <3> HIDE DEF found, cuts
    <3> QED
      BY <1>3, <2>2
  <2>4. SplitAt(b, i, limit) = Max(S)
    BY <1>5 DEF SplitAt
  <2> HIDE DEF S
  <2>5. S # {}
    BY <2>2 DEF S
  <2>6. S \subseteq 0..limit
    BY <2>3
  <2>7. Max(S) \in S
    BY <2>5, <2>6, MaxGreatest
  <2> QED
    BY <2>3, <2>4, <2>7
<1> QED
  BY <1>4, <1>5

\* A part that is not the last is within the limit, and one whose end cuts a word is full; when
\* it begins with a letter it holds nothing but letters.
LEMMA PartEndCuts ==
  ASSUME NEW b \in Seq(Letters), NEW limit \in Nat \ {0}, NEW i \in 1..Len(b),
         Len(b) - i + 1 > limit
  PROVE  LET to == PartEnd(b, i, limit)
         IN  /\ to \in i..(i + limit - 1) /\ to < Len(b)
             /\ b[to + 1] \notin Blanks =>
                  /\ to = i + limit - 1
                  /\ b[i] \notin Blanks => \A k \in i..to : b[k] \notin Blanks
<1> DEFINE cut == SplitAt(b, i, limit)
           n == Stripped(b, i, cut)
           to == PartEnd(b, i, limit)
<1>1. /\ cut \in 1..limit
      /\ \/ b[i + cut] \in Blanks
         \/ cut = limit /\ \A k \in 1..limit : b[i + k] \notin Blanks
  BY SplitAtBlank
<1>2. /\ n \in 0..cut
      /\ n > 0 => b[i + n - 1] \notin Blanks
      /\ \A k \in (n + 1)..cut : b[i + k - 1] \in Blanks
  <2>1. cut \in Nat /\ i \in Nat
    BY <1>1
  <2> HIDE DEF cut
  <2> QED
    BY <2>1, StrippedStrips
<1>3. to = i + (IF n = 0 THEN limit ELSE n) - 1
  BY DEF PartEnd
<1> HIDE DEF cut, n, to
<1>4. to \in i..(i + limit - 1) /\ to < Len(b)
  BY <1>1, <1>2, <1>3
<1>5. ASSUME b[to + 1] \notin Blanks, n # 0
      PROVE  to = i + limit - 1 /\ \A k \in 1..limit : b[i + k] \notin Blanks
  <2>1. to + 1 = i + n
    BY <1>2, <1>3, <1>5
  <2>2. n = cut
    <3>1. n < cut => n + 1 \in (n + 1)..cut /\ i + (n + 1) - 1 = to + 1
      BY <1>1, <1>2, <2>1
    <3> QED
      BY <1>1, <1>2, <1>5, <3>1
  <2> QED
    BY <1>1, <1>3, <1>5, <2>1, <2>2
<1>6. ASSUME b[i] \notin Blanks PROVE n # 0
  <2>1. 1 \in 1..cut /\ i + 1 - 1 = i
    BY <1>1
  <2> QED
    BY <1>2, <1>6, <2>1
<1>7. ASSUME b[to + 1] \notin Blanks, b[i] \notin Blanks, NEW k \in i..to
      PROVE  b[k] \notin Blanks
  <2>1. \A m \in 1..limit : b[i + m] \notin Blanks
    BY <1>5, <1>6, <1>7
  <2>2. CASE k > i
    <3>1. k - i \in 1..limit /\ i + (k - i) = k
      BY <1>4, <2>2
    <3> QED
      BY <2>1, <3>1
  <2> QED
    BY <1>4, <1>7, <2>2
<1>8. b[to + 1] \notin Blanks => to = i + limit - 1
  BY <1>3, <1>5
<1> QED
  BY <1>4, <1>7, <1>8 DEF to

(***************************************************************************)
(* The invariant of the loop.  The parts lie in order before "remaining",  *)
(* and everything else there is blank; a part behind which something is    *)
(* left was cut off, and what is left begins with a letter.                *)
(***************************************************************************)
PartsOK(parts, i, b, limit) ==
  /\ parts \in Seq(Nat \X Nat) /\ i \in 1..(Len(b) + 1)
  /\ \A n \in DOMAIN parts :
       /\ 1 <= parts[n][1] /\ parts[n][1] <= parts[n][2] /\ parts[n][2] < i
       /\ parts[n][2] - parts[n][1] + 1 <= limit
       /\ n > 1 => parts[n - 1][2] < parts[n][1]

OnlyBlanksBetween(parts, i, b) ==
  \A j \in 1..(i - 1) :
    b[j] \in Blanks \/ \E n \in DOMAIN parts : j \in parts[n][1]..parts[n][2]

CutsOK(parts, i, b, limit) ==
  /\ parts = <<>> => i = 1
  /\ parts # <<>> /\ i <= Len(b) => b[i] \notin Blanks
  /\ \A n \in DOMAIN parts :
       /\ n = 1 => parts[n][1] = 1
       /\ n > 1 => b[parts[n][1]] \notin Blanks
       /\ n < Len(parts) \/ i <= Len(b) =>
            /\ parts[n][2] = PartEnd(b, parts[n][1], limit)
            /\ Len(b) - parts[n][1] + 1 > limit

SplitInv(st, b, limit) ==
  /\ PartsOK(st.parts, st.i, b, limit)
  /\ OnlyBlanksBetween(st.parts, st.i, b)
  /\ CutsOK(st.parts, st.i, b, limit)

\* What a pass adds: the part from i to "to", behind which only blanks come before next.
LEMMA AddPart ==
  ASSUME NEW b \in Seq(Letters), NEW limit \in Nat \ {0}, NEW parts, NEW i \in 1..Len(b),
         PartsOK(parts, i, b, limit), OnlyBlanksBetween(parts, i, b), CutsOK(parts, i, b, limit),
         NEW to \in i..Len(b), to - i + 1 <= limit,
         NEW next \in (to + 1)..(Len(b) + 1),
         \A k \in (to + 1)..(next - 1) : b[k] \in Blanks,
         next <= Len(b) => /\ b[next] \notin Blanks
                           /\ to = PartEnd(b, i, limit) /\ Len(b) - i + 1 > limit
  PROVE  /\ PartsOK(Append(parts, <<i, to>>), next, b, limit)
         /\ OnlyBlanksBetween(Append(parts, <<i, to>>), next, b)
         /\ CutsOK(Append(parts, <<i, to>>), next, b, limit)
<1> DEFINE new == Append(parts, <<i, to>>)
           N == Len(parts)
<1>1. /\ parts \in Seq(Nat \X Nat) /\ N \in Nat /\ DOMAIN parts = 1..N
      /\ <<i, to>> \in Nat \X Nat
  BY DEF PartsOK
<1>2. /\ new \in Seq(Nat \X Nat) /\ DOMAIN new = 1..(N + 1) /\ Len(new) = N + 1
      /\ \A n \in 1..N : new[n] = parts[n]
      /\ new[N + 1] = <<i, to>>
  BY <1>1
<1>3. new[N + 1][1] = i /\ new[N + 1][2] = to
  BY <1>2
<1> HIDE DEF new
<1>4. \A n \in 1..N : parts[n][1] \in Nat /\ parts[n][2] \in Nat
  BY <1>1
<1>5. PartsOK(new, next, b, limit)
  <2>1. ASSUME NEW n \in 1..(N + 1)
        PROVE  /\ 1 <= new[n][1] /\ new[n][1] <= new[n][2] /\ new[n][2] < next
               /\ new[n][2] - new[n][1] + 1 <= limit
               /\ n > 1 => new[n - 1][2] < new[n][1]
    <3>1. CASE n \in 1..N
      <4> n > 1 => n - 1 \in 1..N
        BY <1>1, <3>1
      <4>1. new[n] = parts[n] /\ (n > 1 => new[n - 1] = parts[n - 1])
        BY <1>2, <3>1
      <4>2. /\ 1 <= parts[n][1] /\ parts[n][1] <= parts[n][2] /\ parts[n][2] < i
            /\ parts[n][2] - parts[n][1] + 1 <= limit
            /\ n > 1 => parts[n - 1][2] < parts[n][1]
        BY <1>1, <3>1 DEF PartsOK
      <4>3. i <= next /\ i \in Nat /\ next \in Nat
        OBVIOUS
      <4> QED
        BY <1>4, <3>1, <4>1, <4>2, <4>3
    <3>2. CASE n = N + 1
      <4>1. n > 1 => new[n - 1] = parts[N] /\ N \in 1..N
        BY <1>1, <1>2, <3>2
      <4>2. n > 1 => parts[N][2] < i
        BY <1>1, <4>1 DEF PartsOK
      <4> QED
        BY <1>3, <3>2, <4>1, <4>2
    <3>3. n \in 1..N \/ n = N + 1
      BY <1>1
    <3> QED
      BY <3>1, <3>2, <3>3, Zenon
  <2>2. next \in 1..(Len(b) + 1)
    OBVIOUS
  <2> QED
    BY <1>2, <2>1, <2>2 DEF PartsOK
<1>6. OnlyBlanksBetween(new, next, b)
  <2>1. ASSUME NEW j \in 1..(next - 1), b[j] \notin Blanks
        PROVE  \E n \in 1..(N + 1) : j \in new[n][1]..new[n][2]
    <3>1. CASE j < i
      <4>1. PICK n \in 1..N : j \in parts[n][1]..parts[n][2]
        BY <1>1, <2>1, <3>1 DEF OnlyBlanksBetween
      <4>2. n \in 1..(N + 1) /\ new[n] = parts[n]
        BY <1>1, <1>2
      <4> QED
        BY <4>1, <4>2
    <3>2. CASE j \in i..to
      BY <1>1, <1>3, <3>2
    <3>3. CASE j > to
      BY <2>1, <3>3
    <3> QED
      BY <3>1, <3>2, <3>3
  <2> QED
    BY <1>2, <2>1 DEF OnlyBlanksBetween
<1>7. CutsOK(new, next, b, limit)
  <2>1. ASSUME NEW n \in 1..(N + 1)
        PROVE  /\ n = 1 => new[n][1] = 1
               /\ n > 1 => b[new[n][1]] \notin Blanks
               /\ n < N + 1 \/ next <= Len(b) =>
                    /\ new[n][2] = PartEnd(b, new[n][1], limit)
                    /\ Len(b) - new[n][1] + 1 > limit
    <3>1. CASE n \in 1..N
      <4>1. new[n] = parts[n] /\ n <= N /\ (n < N \/ i <= Len(b))
        BY <1>1, <1>2, <3>1
      <4> QED
        BY <1>1, <3>1, <4>1 DEF CutsOK
    <3>2. CASE n = N + 1
      <4>1. n > 1 => parts # <<>>
        BY <1>1, <3>2
      <4>2. n = 1 => parts = <<>>
        BY <1>1, <3>2
      <4>3. i <= Len(b) /\ ~(n < N + 1)
        BY <1>1, <3>2
      <4>4. (n = 1 => i = 1) /\ (n > 1 => b[i] \notin Blanks)
        BY <4>1, <4>2, <4>3 DEF CutsOK
      <4>5. new[n][1] = i /\ new[n][2] = to
        BY <1>3, <3>2
      <4> QED
        BY <4>3, <4>4, <4>5
    <3> QED
      BY <1>1, <3>1, <3>2
  <2>2. new # <<>>
    BY <1>1, <1>2
  <2> QED
    BY <1>2, <2>1, <2>2 DEF CutsOK
<1> QED
  BY <1>5, <1>6, <1>7 DEF new

LEMMA PassKeepsInv ==
  ASSUME NEW b \in Seq(Letters), NEW limit \in Nat \ {0}, NEW st, SplitInv(st, b, limit)
  PROVE  /\ SplitInv(Pass(st, b, limit), b, limit)
         /\ Pass(st, b, limit).i > st.i \/ Pass(st, b, limit).i = Len(b) + 1
<1> DEFINE i == st.i
           new == Pass(st, b, limit)
<1>1. /\ i \in 1..(Len(b) + 1) /\ Len(b) \in Nat
      /\ PartsOK(st.parts, i, b, limit) /\ OnlyBlanksBetween(st.parts, i, b)
      /\ CutsOK(st.parts, i, b, limit)
  BY DEF SplitInv, PartsOK
<1>2. CASE i > Len(b)
  <2>1. new = st
    BY <1>2 DEF Pass
  <2> QED
    BY <1>1, <1>2, <2>1
<1>3. ASSUME NEW to \in i..Len(b), to - i + 1 <= limit, i <= Len(b),
             NEW next \in (to + 1)..(Len(b) + 1),
             \A k \in (to + 1)..(next - 1) : b[k] \in Blanks,
             next <= Len(b) => /\ b[next] \notin Blanks
                               /\ to = PartEnd(b, i, limit) /\ Len(b) - i + 1 > limit,
             new = [parts |-> Append(st.parts, <<i, to>>), i |-> next]
      PROVE  SplitInv(new, b, limit) /\ new.i > i
  <2>1. new.parts = Append(st.parts, <<i, to>>) /\ new.i = next
    BY <1>3
  <2>2. i \in 1..Len(b)
    BY <1>1, <1>3
  <2> HIDE DEF i, new
  <2>3. /\ PartsOK(Append(st.parts, <<i, to>>), next, b, limit)
        /\ OnlyBlanksBetween(Append(st.parts, <<i, to>>), next, b)
        /\ CutsOK(Append(st.parts, <<i, to>>), next, b, limit)
    BY <1>1, <1>3, <2>2, AddPart
  <2>4. next > i
    BY <1>1, <1>3
  <2> QED
    BY <2>1, <2>3, <2>4 DEF SplitInv
<1>4. CASE i <= Len(b) /\ Len(b) - i + 1 <= limit
  <2>1. new = [parts |-> Append(st.parts, <<i, Len(b)>>), i |-> Len(b) + 1]
    BY <1>1, <1>4 DEF Pass
  <2>2. /\ Len(b) \in i..Len(b) /\ Len(b) + 1 \in (Len(b) + 1)..(Len(b) + 1)
        /\ \A k \in (Len(b) + 1)..((Len(b) + 1) - 1) : b[k] \in Blanks
        /\ ~(Len(b) + 1 <= Len(b))
    BY <1>1, <1>4
  <2> HIDE DEF i, new
  <2> QED
    BY <1>3, <1>4, <2>1, <2>2 DEF i, new
<1>5. CASE i <= Len(b) /\ Len(b) - i + 1 > limit
  <2> DEFINE to == PartEnd(b, i, limit)
             next == SkipBlanks(b, to + 1)
  <2>1. new = [parts |-> Append(st.parts, <<i, to>>), i |-> next]
    BY <1>1, <1>5 DEF Pass
  <2>2. i \in 1..Len(b)
    BY <1>1, <1>5
  <2>3. to \in i..(i + limit - 1) /\ to < Len(b)
    <3> HIDE DEF i
    <3> QED
      BY <1>5, <2>2, PartEndCuts
  <2>4. to \in i..Len(b) /\ to - i + 1 <= limit /\ to + 1 \in 1..(Len(b) + 1)
    BY <1>1, <2>2, <2>3
  <2>5. /\ next \in (to + 1)..(Len(b) + 1)
        /\ \A k \in (to + 1)..(next - 1) : b[k] \in Blanks
        /\ next <= Len(b) => b[next] \notin Blanks
    <3> HIDE DEF to
    <3> QED
      BY <2>4, SkipBlanksSkips
  <2> HIDE DEF i, new, next
  <2> QED
    BY <1>3, <1>5, <2>1, <2>4, <2>5 DEF i, new
<1> QED
  BY <1>1, <1>2, <1>4, <1>5

LEMMA PassesDefined ==
  ASSUME NEW b \in Seq(Letters), NEW limit \in Nat \ {0}
  PROVE  /\ Passes(b, limit)[0] = [parts |-> <<>>, i |-> 1]
         /\ SplitInv([parts |-> <<>>, i |-> 1], b, limit)
         /\ \A n \in 1..Len(b) : Passes(b, limit)[n] = Pass(Passes(b, limit)[n - 1], b, limit)
<1> DEFINE N == Len(b)
           S == {st \in [parts : Seq(Nat \X Nat), i : Nat] : SplitInv(st, b, limit)}
           x == [parts |-> <<>>, i |-> 1]
           P(st) == Pass(st, b, limit)
           G == [n \in 1..N |-> [st \in S |-> P(st)]]
           F(f) == [n \in 0..N |-> IF n = 0 THEN x ELSE P(f[n - 1])]
<1>1. N \in Nat /\ x \in S
  <2>1. N \in Nat /\ x \in [parts : Seq(Nat \X Nat), i : Nat]
    OBVIOUS
  <2>2. x.parts = <<>> /\ x.i = 1 /\ DOMAIN x.parts = {} /\ <<>> \in Seq(Nat \X Nat)
    OBVIOUS
  <2> HIDE DEF x
  <2>3. PartsOK(x.parts, x.i, b, limit)
    BY <2>1, <2>2 DEF PartsOK
  <2>4. OnlyBlanksBetween(x.parts, x.i, b) /\ CutsOK(x.parts, x.i, b, limit)
    BY <2>2 DEF OnlyBlanksBetween, CutsOK
  <2> QED
    BY <2>1, <2>3, <2>4 DEF SplitInv
<1>2. ASSUME NEW st \in S PROVE P(st) \in S
  <2>1. SplitInv(P(st), b, limit)
    BY PassKeepsInv
  <2>2. P(st).parts \in Seq(Nat \X Nat) /\ P(st).i \in Nat
    BY <1>1, <2>1 DEF SplitInv, PartsOK
  <2>3. P(st) \in [parts : Seq(Nat \X Nat), i : Nat]
    BY <2>2 DEF Pass
  <2> HIDE DEF P
  <2> QED
    BY <2>1, <2>3
<1>3. /\ Within(S, G, N)
      /\ \A n \in 1..N, st \in S : G[n][st] = P(st)
  <2> HIDE DEF S, P, N
  <2> QED
    BY <1>2 DEF Within
<1>4. \E f : f = F(f)
  <2> HIDE DEF S, P, N, x, G
  <2>1. PICK f : IsLoop(f, x, S, G, N)
    BY <1>1, <1>3, LoopDefined
  <2>2. ASSUME NEW n \in 0..N PROVE f[n] = IF n = 0 THEN x ELSE P(f[n - 1])
    <3>1. CASE n = 0
      BY <2>1, <3>1 DEF IsLoop
    <3>2. CASE n \in 1..N
      <4>1. f[n - 1] \in S /\ f[n] = G[n][f[n - 1]]
        BY <1>1, <2>1, <3>2 DEF IsLoop
      <4> QED
        BY <1>3, <3>2, <4>1
    <3> QED
      BY <1>1, <3>1, <3>2
  <2>3. f = F(f)
    BY <2>1, <2>2 DEF IsLoop
  <2> QED
    BY <2>3
<1>5. Passes(b, limit) = CHOOSE f : f = F(f)
  BY DEF Passes
<1>6. Passes(b, limit) = F(Passes(b, limit))
  <2> HIDE DEF F
  <2> QED
    BY <1>4, <1>5
<1> QED
  <2> HIDE DEF P, x
  <2>1. \A n \in 0..N : Passes(b, limit)[n] = IF n = 0 THEN x ELSE P(Passes(b, limit)[n - 1])
    BY <1>6
  <2>2. SplitInv(x, b, limit)
    BY <1>1
  <2> QED
    BY <1>1, <2>1, <2>2 DEF P, x

\* The loop ends: behind the last pass nothing remains.
LEMMA AllSplit ==
  ASSUME NEW b \in Seq(Letters), NEW limit \in Nat \ {0}
  PROVE  /\ SplitInv(Passes(b, limit)[Len(b)], b, limit)
         /\ Passes(b, limit)[Len(b)].i = Len(b) + 1
<1> DEFINE c == Passes(b, limit)
           T == {n \in 0..Len(b) :
                   SplitInv(c[n], b, limit) /\ (c[n].i > n \/ c[n].i = Len(b) + 1)}
<1>1. Len(b) \in Nat
  OBVIOUS
<1>2. 0 \in T
  <2>1. c[0].i = 1 /\ SplitInv(c[0], b, limit)
    BY PassesDefined
  <2> QED
    BY <1>1, <2>1
<1>3. ASSUME NEW n \in 0..(Len(b) - 1), n \in T PROVE n + 1 \in T
  <2>1. n + 1 \in 1..Len(b) /\ (n + 1) - 1 = n
    BY <1>1
  <2>2. c[n + 1] = Pass(c[n], b, limit)
    BY <2>1, PassesDefined
  <2> HIDE DEF c
  <2>3. /\ SplitInv(c[n + 1], b, limit)
        /\ c[n + 1].i > c[n].i \/ c[n + 1].i = Len(b) + 1
    BY <1>3, <2>2, PassKeepsInv
  <2>4. c[n].i \in 1..(Len(b) + 1) /\ c[n + 1].i \in 1..(Len(b) + 1)
    BY <1>3, <2>3 DEF SplitInv, PartsOK
  <2>5. c[n + 1].i > n + 1 \/ c[n + 1].i = Len(b) + 1
    BY <1>1, <1>3, <2>3, <2>4
  <2> QED
    BY <2>1, <2>3, <2>5
<1>4. 0..Len(b) \subseteq T
  <2> HIDE DEF T
  <2> QED
    BY <1>1, <1>2, <1>3, Counting
<1>5. Len(b) \in T
  BY <1>1, <1>4
<1>6. c[Len(b)].i \in 1..(Len(b) + 1)
  BY <1>5 DEF SplitInv, PartsOK
<1> QED
  <2> HIDE DEF c
  <2>1. SplitInv(c[Len(b)], b, limit) /\ c[Len(b)].i = Len(b) + 1
    BY <1>1, <1>5, <1>6
  <2> QED
    BY <2>1 DEF c

LEMMA SplitLosesBlanksOnly ==
  ASSUME body \in Seq(Letters), BodyLimit \in Nat \ {0}
  PROVE  OnlyBlanksAreLost
<1> DEFINE end == Passes(body, BodyLimit)[Len(body)]
<1>1. CASE Len(body) <= BodyLimit
  <2>1. Parts = << <<1, Len(body)>> >>
    BY <1>1 DEF Parts, SplitMessageBody
  <2>2. DOMAIN Parts = {1} /\ Parts[1][1] = 1 /\ Parts[1][2] = Len(body)
    BY <2>1
  <2> QED
    BY <1>1, <2>2 DEF OnlyBlanksAreLost
<1>2. CASE Len(body) > BodyLimit
  <2>1. Parts = end.parts
    BY <1>2 DEF Parts, SplitMessageBody
  <2>2. /\ PartsOK(Parts, Len(body) + 1, body, BodyLimit)
        /\ OnlyBlanksBetween(Parts, Len(body) + 1, body)
    BY <2>1, AllSplit DEF SplitInv
  <2>3. ASSUME NEW n \in DOMAIN Parts
        PROVE  /\ Parts[n][2] - Parts[n][1] + 1 \in 0..BodyLimit
               /\ n > 1 => Parts[n - 1][2] < Parts[n][1] /\ Parts[n][1] <= Parts[n][2]
    <3>1. Parts[n][1] \in Nat /\ Parts[n][2] \in Nat
      BY <2>2 DEF PartsOK
    <3> QED
      BY <2>2, <3>1 DEF PartsOK
  <2>4. ASSUME NEW j \in DOMAIN body
        PROVE  body[j] \in Blanks \/ \E n \in DOMAIN Parts : j \in Parts[n][1]..Parts[n][2]
    <3>1. j \in 1..((Len(body) + 1) - 1)
      OBVIOUS
    <3> QED
      BY <2>2, <3>1 DEF OnlyBlanksBetween
  <2> QED
    BY <2>3, <2>4 DEF OnlyBlanksAreLost
<1> QED
  BY <1>1, <1>2

LEMMA SplitCutsLongWords ==
  ASSUME body \in Seq(Letters), BodyLimit \in Nat \ {0}
  PROVE  OnlyLongWordsAreCut
<1> DEFINE end == Passes(body, BodyLimit)[Len(body)]
<1>1. CASE Len(body) <= BodyLimit
  <2>1. Parts = << <<1, Len(body)>> >>
    BY <1>1 DEF Parts, SplitMessageBody
  <2>2. 1..(Len(Parts) - 1) = {}
    BY <2>1
  <2> QED
    BY <2>2 DEF OnlyLongWordsAreCut
<1>2. CASE Len(body) > BodyLimit
  <2>1. Parts = end.parts
    BY <1>2 DEF Parts, SplitMessageBody
  <2>2. /\ PartsOK(Parts, Len(body) + 1, body, BodyLimit)
        /\ CutsOK(Parts, Len(body) + 1, body, BodyLimit)
    BY <2>1, AllSplit DEF SplitInv
  <2> SUFFICES ASSUME NEW n \in 1..(Len(Parts) - 1),
                      body[Parts[n][2]] \notin Blanks, body[Parts[n][2] + 1] \notin Blanks
               PROVE  /\ Parts[n][2] - Parts[n][1] + 1 = BodyLimit
                      /\ \/ n = 1 /\ body[1] \in Blanks
                         \/ \A i \in Parts[n][1]..Parts[n][2] : body[i] \notin Blanks
    BY DEF OnlyLongWordsAreCut
  <2> DEFINE from == Parts[n][1]
             to == Parts[n][2]
  <2>3. n \in DOMAIN Parts /\ n < Len(Parts) /\ n >= 1
    BY <2>2 DEF PartsOK
  <2>4. from \in 1..Len(body)
    <3>1. from \in Nat /\ to \in Nat
      BY <2>2, <2>3 DEF PartsOK
    <3>2. 1 <= from /\ from <= to /\ to < Len(body) + 1
      BY <2>2, <2>3 DEF PartsOK
    <3> QED
      BY <3>1, <3>2
  <2>5. to = PartEnd(body, from, BodyLimit) /\ Len(body) - from + 1 > BodyLimit
    BY <2>2, <2>3 DEF CutsOK
  <2>6. (n = 1 => from = 1) /\ (n > 1 => body[from] \notin Blanks)
    BY <2>2, <2>3 DEF CutsOK
  <2> HIDE DEF from, to
  <2>7. /\ to = from + BodyLimit - 1
        /\ body[from] \notin Blanks => \A i \in from..to : body[i] \notin Blanks
    <3>1. body[to + 1] \notin Blanks
      BY DEF to
    <3> QED
      BY <2>4, <2>5, <3>1, PartEndCuts
  <2>8. to - from + 1 = BodyLimit
    BY <2>4, <2>7
  <2>9. (n = 1 /\ body[1] \in Blanks) \/ \A i \in from..to : body[i] \notin Blanks
    BY <2>3, <2>6, <2>7
  <2> QED
    BY <2>8, <2>9 DEF from, to
<1> QED
  BY <1>1, <1>2

(***************************************************************************)
(* The chunks of a document: sums of tokens.                               *)
(***************************************************************************)
Extract == Nat \X Nat

LEMMA TotalsDefined ==
  ASSUME NEW es \in Seq(Extract)
  PROVE  /\ Totals(es)[0] = 0
         /\ \A n \in 1..Len(es) : Totals(es)[n] = Totals(es)[n - 1] + TokensOf(es[n])
<1> DEFINE N == Len(es)
           P(t, n) == t + TokensOf(es[n])
           G == [n \in 1..N |-> [t \in Int |-> P(t, n)]]
           F(f) == [n \in 0..N |-> IF n = 0 THEN 0 ELSE P(f[n - 1], n)]
<1>1. N \in Nat /\ 0 \in Int
  OBVIOUS
<1>2. ASSUME NEW t \in Int, NEW n \in 1..N PROVE P(t, n) \in Int
  <2>1. es[n][1] \in Nat /\ es[n][2] \in Nat
    BY DEF Extract
  <2> QED
    BY <2>1 DEF TokensOf
<1>3. /\ Within(Int, G, N)
      /\ \A n \in 1..N, t \in Int : G[n][t] = P(t, n)
  <2> HIDE DEF P, N
  <2> QED
    BY <1>2 DEF Within
<1>4. \E f : f = F(f)
  <2> HIDE DEF P, N, G
  <2>1. PICK f : IsLoop(f, 0, Int, G, N)
    BY <1>1, <1>3, LoopDefined
  <2>2. ASSUME NEW n \in 0..N PROVE f[n] = IF n = 0 THEN 0 ELSE P(f[n - 1], n)
    <3>1. CASE n = 0
      BY <2>1, <3>1 DEF IsLoop
    <3>2. CASE n \in 1..N
      <4>1. f[n - 1] \in Int /\ f[n] = G[n][f[n - 1]]
        BY <1>1, <2>1, <3>2 DEF IsLoop
      <4> QED
        BY <1>3, <3>2, <4>1
    <3> QED
      BY <1>1, <3>1, <3>2
  <2>3. f = F(f)
    BY <2>1, <2>2 DEF IsLoop
  <2> QED
    BY <2>3
<1>5. Totals(es) = CHOOSE f : f = F(f)
  BY DEF Totals
<1>6. Totals(es) = F(Totals(es))
  <2> HIDE DEF F
  <2> QED
    BY <1>4, <1>5
<1> QED
  <2> HIDE DEF P
  <2>1. \A n \in 0..N : Totals(es)[n] = IF n = 0 THEN 0 ELSE P(Totals(es)[n - 1], n)
    BY <1>6
  <2> QED
    BY <1>1, <2>1 DEF P

\* Extracts that hold tokens, in the order of the text.
Extracts(es) ==
  /\ es \in Seq(Extract)
  /\ \A k \in DOMAIN es :
       1 <= es[k][1] /\ es[k][1] <= es[k][2] /\ (k > 1 => es[k - 1][2] < es[k][1])

LEMMA TotalAtLeastLen ==
  ASSUME NEW es, Extracts(es)
  PROVE  TotalTokens(es) \in Int /\ TotalTokens(es) >= Len(es)
<1> DEFINE T == {n \in 0..Len(es) : Totals(es)[n] \in Int /\ Totals(es)[n] >= n}
<1>1. es \in Seq(Extract) /\ Len(es) \in Nat
  BY DEF Extracts
<1>2. 0 \in T
  BY <1>1, TotalsDefined
<1>3. ASSUME NEW n \in 0..(Len(es) - 1), n \in T PROVE n + 1 \in T
  <2>1. n + 1 \in 1..Len(es) /\ (n + 1) - 1 = n
    BY <1>1
  <2>2. Totals(es)[n + 1] = Totals(es)[n] + TokensOf(es[n + 1])
    BY <1>1, <2>1, TotalsDefined
  <2>3. TokensOf(es[n + 1]) \in Int /\ TokensOf(es[n + 1]) >= 1
    <3>1. es[n + 1][1] \in Nat /\ es[n + 1][2] \in Nat
      BY <1>1, <2>1 DEF Extract
    <3>2. es[n + 1][1] <= es[n + 1][2]
      BY <1>1, <2>1 DEF Extracts
    <3> QED
      BY <3>1, <3>2 DEF TokensOf
  <2> QED
    BY <1>3, <2>1, <2>2, <2>3
<1>4. 0..Len(es) \subseteq T
  <2> HIDE DEF T
  <2> QED
    BY <1>1, <1>2, <1>3, Counting
<1> QED
  BY <1>1, <1>4 DEF TotalTokens

LEMMA TotalOfAppend ==
  ASSUME NEW es \in Seq(Extract), NEW e \in Extract
  PROVE  TotalTokens(Append(es, e)) = TotalTokens(es) + TokensOf(e)
<1> DEFINE new == Append(es, e)
           T == {n \in 0..Len(es) : Totals(new)[n] = Totals(es)[n]}
<1>1. /\ new \in Seq(Extract) /\ Len(new) = Len(es) + 1 /\ Len(es) \in Nat
      /\ \A n \in 1..Len(es) : new[n] = es[n]
      /\ new[Len(es) + 1] = e
  OBVIOUS
<1> HIDE DEF new
<1>2. 0 \in T
  BY <1>1, TotalsDefined
<1>3. ASSUME NEW n \in 0..(Len(es) - 1), n \in T PROVE n + 1 \in T
  <2>1. n + 1 \in 1..Len(es) /\ n + 1 \in 1..Len(new) /\ (n + 1) - 1 = n
    BY <1>1
  <2>2. Totals(es)[n + 1] = Totals(es)[n] + TokensOf(es[n + 1])
    BY <2>1, TotalsDefined
  <2>3. Totals(new)[n + 1] = Totals(new)[n] + TokensOf(new[n + 1])
    BY <1>1, <2>1, TotalsDefined
  <2> QED
    BY <1>1, <1>3, <2>1, <2>2, <2>3
<1>4. 0..Len(es) \subseteq T
  <2> HIDE DEF T
  <2> QED
    BY <1>1, <1>2, <1>3, Counting
<1>5. Totals(new)[Len(es)] = Totals(es)[Len(es)]
  BY <1>1, <1>4
<1>6. Totals(new)[Len(es) + 1] = Totals(new)[Len(es)] + TokensOf(e)
  <2>1. Len(es) + 1 \in 1..Len(new) /\ (Len(es) + 1) - 1 = Len(es)
    BY <1>1
  <2> QED
    BY <1>1, <2>1, TotalsDefined
<1> QED
  BY <1>1, <1>5, <1>6 DEF TotalTokens, new

LEMMA AppendExtract ==
  ASSUME NEW es, Extracts(es), NEW e \in Extract, 1 <= e[1], e[1] <= e[2],
         \A k \in DOMAIN es : es[k][2] < e[1]
  PROVE  /\ Extracts(Append(es, e)) /\ Append(es, e) # <<>>
         /\ TotalTokens(Append(es, e)) = TotalTokens(es) + e[2] - e[1] + 1
<1> DEFINE new == Append(es, e)
<1>1. /\ es \in Seq(Extract) /\ new \in Seq(Extract) /\ Len(es) \in Nat
      /\ DOMAIN es = 1..Len(es) /\ DOMAIN new = 1..(Len(es) + 1)
      /\ \A n \in 1..Len(es) : new[n] = es[n]
      /\ new[Len(es) + 1] = e
  BY DEF Extracts
<1> HIDE DEF new
<1>2. ASSUME NEW k \in 1..(Len(es) + 1)
      PROVE  /\ 1 <= new[k][1] /\ new[k][1] <= new[k][2]
             /\ k > 1 => new[k - 1][2] < new[k][1]
  <2>1. CASE k \in 1..Len(es)
    <3> k > 1 => k - 1 \in 1..Len(es)
      BY <1>1, <2>1
    <3>1. new[k] = es[k] /\ (k > 1 => new[k - 1] = es[k - 1])
      BY <1>1, <2>1
    <3> QED
      BY <1>1, <2>1, <3>1 DEF Extracts
  <2>2. CASE k = Len(es) + 1
    <3>1. k > 1 => k - 1 \in 1..Len(es) /\ new[k - 1] = es[k - 1]
      BY <1>1, <2>2
    <3> QED
      BY <1>1, <2>2, <3>1
  <2>3. k \in 1..Len(es) \/ k = Len(es) + 1
    BY <1>1
  <2> QED
    BY <2>1, <2>2, <2>3, Zenon
<1>3. TotalTokens(new) = TotalTokens(es) + TokensOf(e)
  BY <1>1, TotalOfAppend DEF new
<1>4. TokensOf(e) = e[2] - e[1] + 1 /\ e[1] \in Nat /\ e[2] \in Nat
  BY DEF TokensOf, Extract
<1>5. TotalTokens(new) = TotalTokens(es) + e[2] - e[1] + 1
  BY <1>3, <1>4, TotalAtLeastLen
<1>6. Extracts(new) /\ new # <<>>
  BY <1>1, <1>2 DEF Extracts
<1> QED
  BY <1>5, <1>6 DEF new

LEMMA TokensInExtracts ==
  ASSUME NEW es, NEW t
  PROVE  t \in TokensIn(es) <=> \E k \in DOMAIN es : t \in es[k][1]..es[k][2]
BY DEF TokensIn

LEMMA TokensInAppend ==
  ASSUME NEW es \in Seq(Extract), NEW e \in Extract
  PROVE  TokensIn(Append(es, e)) = TokensIn(es) \cup e[1]..e[2]
<1> DEFINE new == Append(es, e)
<1>1. /\ Len(es) \in Nat /\ DOMAIN es = 1..Len(es) /\ DOMAIN new = 1..(Len(es) + 1)
      /\ \A n \in 1..Len(es) : new[n] = es[n]
      /\ new[Len(es) + 1] = e
  OBVIOUS
<1> HIDE DEF new
<1>2. ASSUME NEW t PROVE t \in TokensIn(new) <=> t \in TokensIn(es) \cup e[1]..e[2]
  <2>1. ASSUME t \in TokensIn(new) PROVE t \in TokensIn(es) \cup e[1]..e[2]
    <3>1. PICK k \in 1..(Len(es) + 1) : t \in new[k][1]..new[k][2]
      BY <1>1, <2>1, TokensInExtracts
    <3>2. k \in 1..Len(es) \/ k = Len(es) + 1
      BY <1>1
    <3> QED
      BY <1>1, <3>1, <3>2, TokensInExtracts
  <2>2. ASSUME t \in TokensIn(es) PROVE t \in TokensIn(new)
    <3>1. PICK k \in 1..Len(es) : t \in es[k][1]..es[k][2]
      BY <1>1, <2>2, TokensInExtracts
    <3>2. k \in DOMAIN new /\ new[k] = es[k]
      BY <1>1
    <3> QED
      BY <3>1, <3>2, TokensInExtracts
  <2>3. ASSUME t \in e[1]..e[2] PROVE t \in TokensIn(new)
    <3>1. Len(es) + 1 \in DOMAIN new
      BY <1>1
    <3> QED
      BY <1>1, <2>3, <3>1, TokensInExtracts
  <2> QED
    BY <2>1, <2>2, <2>3
<1> QED
  BY <1>2 DEF new

\* What _apply_overlap returns: an end of the buffer, within the overlap.
LEMMA OverlapIsSubSeq ==
  ASSUME NEW buffer \in Seq(Extract), NEW overlap \in Nat
  PROVE  \E k \in 1..(Len(buffer) + 1) :
           /\ ApplyOverlap(buffer, overlap) = SubSeq(buffer, k, Len(buffer))
           /\ TotalTokens(SubSeq(buffer, k, Len(buffer))) <= overlap
<1> DEFINE N == Len(buffer)
           ends == {k \in 1..(N + 1) : TotalTokens(SubSeq(buffer, k, N)) <= overlap}
           k0 == CHOOSE k \in ends : \A j \in ends : k <= j
           kept == SubSeq(buffer, k0, N)
<1>1. N \in Nat /\ DOMAIN buffer = 1..N
  OBVIOUS
<1>2. N + 1 \in ends
  <2>1. SubSeq(buffer, N + 1, N) = <<>>
    BY <1>1
  <2>2. TotalTokens(<<>>) = 0
    <3>1. <<>> \in Seq(Extract) /\ Len(<<>>) = 0
      OBVIOUS
    <3> QED
      BY <3>1, TotalsDefined DEF TotalTokens
  <2>3. TotalTokens(SubSeq(buffer, N + 1, N)) <= overlap
    <3>1. TotalTokens(SubSeq(buffer, N + 1, N)) = TotalTokens(<<>>)
      BY <2>1, Zenon
    <3> QED
      BY <2>2, <3>1
  <2>4. N + 1 \in 1..(N + 1)
    BY <1>1
  <2> HIDE DEF N
  <2> QED
    BY <2>3, <2>4
<1>3. k0 \in ends
  <2>1. ends \subseteq Nat /\ ends # {}
    BY <1>1, <1>2
  <2> HIDE DEF ends
  <2>2. \E k \in ends : \A j \in ends : k <= j
    BY <2>1, LeastExists
  <2> QED
    BY <2>2
<1>4. k0 \in 1..(N + 1) /\ TotalTokens(kept) <= overlap
  BY <1>3
<1>5. ApplyOverlap(buffer, overlap) = kept
  BY DEF ApplyOverlap
<1> HIDE DEF k0, ends
<1> QED
  BY <1>4, <1>5

LEMMA OverlapIsEnd ==
  ASSUME NEW buffer, Extracts(buffer), NEW overlap \in Nat
  PROVE  LET kept == ApplyOverlap(buffer, overlap)
         IN  /\ Extracts(kept) /\ TotalTokens(kept) <= overlap
             /\ TokensIn(kept) \subseteq TokensIn(buffer)
<1> DEFINE N == Len(buffer)
           kept == ApplyOverlap(buffer, overlap)
<1>1. buffer \in Seq(Extract) /\ N \in Nat /\ DOMAIN buffer = 1..N
  BY DEF Extracts
<1>2. PICK k0 \in 1..(N + 1) :
        kept = SubSeq(buffer, k0, N) /\ TotalTokens(SubSeq(buffer, k0, N)) <= overlap
  BY <1>1, OverlapIsSubSeq
<1>3. TotalTokens(kept) <= overlap
  BY <1>2
<1>6. /\ kept \in Seq(Extract) /\ DOMAIN kept = 1..(N - k0 + 1)
      /\ \A n \in 1..(N - k0 + 1) : n + k0 - 1 \in 1..N /\ kept[n] = buffer[n + k0 - 1]
  <2> DEFINE sub == SubSeq(buffer, k0, N)
  <2>1. /\ sub \in Seq(Extract) /\ DOMAIN sub = 1..(N - k0 + 1)
        /\ \A n \in 1..(N - k0 + 1) : n + k0 - 1 \in 1..N /\ sub[n] = buffer[n + k0 - 1]
    BY <1>1, <1>2
  <2> HIDE DEF sub, kept
  <2> QED
    BY <1>2, <2>1 DEF sub
<1> HIDE DEF kept
<1>7. Extracts(kept)
  <2>1. ASSUME NEW n \in 1..(N - k0 + 1)
        PROVE  /\ 1 <= kept[n][1] /\ kept[n][1] <= kept[n][2]
               /\ n > 1 => kept[n - 1][2] < kept[n][1]
    <3>1. n + k0 - 1 \in 1..N /\ kept[n] = buffer[n + k0 - 1]
      BY <1>6
    <3>2. n > 1 => /\ n - 1 \in 1..(N - k0 + 1) /\ (n - 1) + k0 - 1 = (n + k0 - 1) - 1
                   /\ n + k0 - 1 > 1
      BY <1>1, <1>2
    <3>3. n > 1 => kept[n - 1] = buffer[(n + k0 - 1) - 1]
      BY <1>6, <3>2
    <3> QED
      BY <1>1, <3>1, <3>2, <3>3 DEF Extracts
  <2> QED
    BY <1>6, <2>1 DEF Extracts
<1>8. TokensIn(kept) \subseteq TokensIn(buffer)
  <2> SUFFICES ASSUME NEW t \in TokensIn(kept) PROVE t \in TokensIn(buffer)
    OBVIOUS
  <2>1. PICK n \in 1..(N - k0 + 1) : t \in kept[n][1]..kept[n][2]
    BY <1>6, TokensInExtracts
  <2>2. n + k0 - 1 \in DOMAIN buffer /\ kept[n] = buffer[n + k0 - 1]
    BY <1>1, <1>6
  <2> QED
    BY <2>1, <2>2, TokensInExtracts
<1> QED
  BY <1>3, <1>7, <1>8 DEF kept

(***************************************************************************)
(* The chunks of a document: what they cover.  Together with the tokens up *)
(* to a, chunks reach ever further without a gap, in the end up to b.      *)
(***************************************************************************)
Chunk == [pieces : Seq(Extract), tokens : Int]

TokensOfFirst(chunks, n) == UNION {TokensIn(chunks[k].pieces) : k \in 1..n}

Covers(chunks, a, b) ==
  /\ chunks \in Seq(Chunk) /\ a \in Nat /\ b \in Nat /\ a <= b
  /\ \A n \in DOMAIN chunks : \E r \in 1..b : 1..a \cup TokensOfFirst(chunks, n) = 1..r
  /\ 1..a \cup TokensOfFirst(chunks, Len(chunks)) = 1..b

LEMMA InFirst ==
  ASSUME NEW chunks, NEW n, NEW t
  PROVE  t \in TokensOfFirst(chunks, n) <=> \E k \in 1..n : t \in TokensIn(chunks[k].pieces)
BY DEF TokensOfFirst

LEMMA CoversNothing ==
  ASSUME NEW a \in Nat
  PROVE  Covers(<<>>, a, a)
<1>1. Len(<<>>) = 0 /\ DOMAIN <<>> = {} /\ <<>> \in Seq(Chunk)
  OBVIOUS
<1>2. TokensOfFirst(<<>>, 0) = {}
  BY DEF TokensOfFirst
<1> QED
  BY <1>1, <1>2 DEF Covers

LEMMA CoversOne ==
  ASSUME NEW chunk \in Chunk, NEW a \in Nat, NEW b \in Nat, a <= b, 1 <= b,
         1..a \cup TokensIn(chunk.pieces) = 1..b
  PROVE  Covers(<<chunk>>, a, b)
<1> DEFINE c == <<chunk>>
<1>1. c \in Seq(Chunk) /\ Len(c) = 1 /\ DOMAIN c = 1..1 /\ c[1] = chunk
  OBVIOUS
<1> HIDE DEF c
<1>2. TokensOfFirst(c, 1) = TokensIn(chunk.pieces)
  <2>1. ASSUME NEW t PROVE t \in TokensOfFirst(c, 1) <=> t \in TokensIn(chunk.pieces)
    <3>1. t \in TokensOfFirst(c, 1) <=> \E k \in 1..1 : t \in TokensIn(c[k].pieces)
      BY InFirst
    <3>2. 1..1 = {1}
      OBVIOUS
    <3> QED
      BY <1>1, <3>1, <3>2
  <2> QED
    BY <2>1
<1>3. b \in 1..b
  OBVIOUS
<1> QED
  BY <1>1, <1>2, <1>3 DEF Covers, c

LEMMA CoversConcat ==
  ASSUME NEW c1, NEW c2, NEW a, NEW b, NEW d, Covers(c1, a, b), Covers(c2, b, d)
  PROVE  Covers(c1 \o c2, a, d)
<1> DEFINE c == c1 \o c2
           M == Len(c1)
           N == Len(c2)
<1>1. /\ a \in Nat /\ b \in Nat /\ d \in Nat /\ a <= b /\ b <= d
      /\ c1 \in Seq(Chunk) /\ c2 \in Seq(Chunk)
  BY DEF Covers
<1>2. /\ c \in Seq(Chunk) /\ M \in Nat /\ N \in Nat /\ Len(c) = M + N
      /\ DOMAIN c = 1..(M + N) /\ DOMAIN c1 = 1..M /\ DOMAIN c2 = 1..N
      /\ \A k \in 1..M : c[k] = c1[k]
      /\ \A k \in (M + 1)..(M + N) : c[k] = c2[k - M]
  BY <1>1, ConcatProperties
<1> HIDE DEF c, M, N
<1>3. ASSUME NEW n \in 0..M PROVE TokensOfFirst(c, n) = TokensOfFirst(c1, n)
  <2>1. \A k \in 1..n : c[k] = c1[k]
    BY <1>2
  <2> QED
    BY <2>1 DEF TokensOfFirst
<1>4. ASSUME NEW n \in 0..N
      PROVE  1..a \cup TokensOfFirst(c, M + n) = 1..b \cup TokensOfFirst(c2, n)
  <2>1. 1..b = 1..a \cup TokensOfFirst(c1, M)
    BY DEF Covers, M
  <2>2. ASSUME NEW t
        PROVE  t \in TokensOfFirst(c, M + n)
                 <=> t \in TokensOfFirst(c1, M) \cup TokensOfFirst(c2, n)
    <3>1. ASSUME NEW k \in 1..(M + n), t \in TokensIn(c[k].pieces)
          PROVE  t \in TokensOfFirst(c1, M) \cup TokensOfFirst(c2, n)
      <4>1. CASE k <= M
        <5>1. k \in 1..M /\ c[k] = c1[k]
          BY <1>2, <4>1
        <5> QED
          BY <3>1, <5>1, InFirst
      <4>2. CASE k > M
        <5>1. k - M \in 1..n /\ c[k] = c2[k - M]
          BY <1>2, <4>2
        <5> QED
          BY <3>1, <5>1, InFirst
      <4> QED
        BY <1>2, <4>1, <4>2
    <3>2. ASSUME NEW k \in 1..M, t \in TokensIn(c1[k].pieces)
          PROVE  t \in TokensOfFirst(c, M + n)
      <4>1. k \in 1..(M + n) /\ c[k] = c1[k]
        BY <1>2
      <4> QED
        BY <3>2, <4>1, InFirst
    <3>3. ASSUME NEW k \in 1..n, t \in TokensIn(c2[k].pieces)
          PROVE  t \in TokensOfFirst(c, M + n)
      <4>1. M + k \in 1..(M + n) /\ M + k \in (M + 1)..(M + N) /\ (M + k) - M = k
        BY <1>2
      <4>2. c[M + k] = c2[k]
        BY <1>2, <4>1
      <4> QED
        BY <3>3, <4>1, <4>2, InFirst
    <3> QED
      BY <3>1, <3>2, <3>3, InFirst
  <2> QED
    BY <2>1, <2>2
<1>5. ASSUME NEW n \in 1..(M + N)
      PROVE  \E r \in 1..d : 1..a \cup TokensOfFirst(c, n) = 1..r
  <2>1. CASE n <= M
    <3> n \in DOMAIN c1
      BY <1>2, <2>1
    <3>1. PICK r \in 1..b : 1..a \cup TokensOfFirst(c1, n) = 1..r
      BY DEF Covers
    <3>2. r \in 1..d /\ n \in 0..M
      BY <1>1, <2>1
    <3> QED
      BY <1>3, <3>1, <3>2
  <2>2. CASE n > M
    <3>1. n - M \in 1..N /\ n - M \in 0..N /\ M + (n - M) = n
      BY <1>2, <2>2
    <3>2. PICK r \in 1..d : 1..b \cup TokensOfFirst(c2, n - M) = 1..r
      BY <1>2, <3>1 DEF Covers
    <3>3. 1..a \cup TokensOfFirst(c, n) = 1..b \cup TokensOfFirst(c2, n - M)
      BY <1>4, <3>1
    <3> QED
      BY <3>2, <3>3
  <2>3. n <= M \/ n > M
    BY <1>2
  <2> QED
    BY <2>1, <2>2, <2>3, Zenon
<1>6. 1..a \cup TokensOfFirst(c, M + N) = 1..d
  <2>1. N \in 0..N /\ 1..b \cup TokensOfFirst(c2, N) = 1..d
    BY <1>2 DEF Covers, N
  <2> QED
    BY <1>4, <2>1
<1>7. \A n \in DOMAIN c : \E r \in 1..d : 1..a \cup TokensOfFirst(c, n) = 1..r
  BY <1>2, <1>5
<1>8. 1..a \cup TokensOfFirst(c, Len(c)) = 1..d
  BY <1>2, <1>6
<1>9. Covers(c, a, d)
  <2>1. a <= d
    BY <1>1
  <2> QED
    BY <1>1, <1>2, <1>7, <1>8, <2>1 DEF Covers
<1> QED
  BY <1>9 DEF c

LEMMA CoversAppend ==
  ASSUME NEW chunks, NEW a, NEW b, NEW d, Covers(chunks, a, b),
         NEW chunk, Covers(<<chunk>>, b, d), chunk \in Chunk
  PROVE  Covers(Append(chunks, chunk), a, d)
<1>1. chunks \in Seq(Chunk)
  BY DEF Covers
<1>2. Append(chunks, chunk) = chunks \o <<chunk>>
  BY <1>1, AppendIsConcat
<1> QED
  BY <1>2, CoversConcat

(***************************************************************************)
(* The chunks of a document: the slices of a piece that is too long.  The  *)
(* slices so far reach up to r, the next one begins no later than behind   *)
(* it, and goes further.                                                   *)
(***************************************************************************)
SliceOK(chunk, target) ==
  \E e \in Extract :
    /\ chunk = [pieces |-> <<e>>, tokens |-> TokensOf(e)]
    /\ 1 <= e[1] /\ e[1] <= e[2] /\ TokensOf(e) <= target

SlicesOK(slices, target) == \A k \in DOMAIN slices : SliceOK(slices[k], target)

SliceReach(st, piece, target, r) ==
  /\ Covers(st.slices, piece[1] - 1, r)
  /\ r \in (piece[1] - 1)..piece[2] /\ st.start \in piece[1]..(piece[2] + 1)
  /\ st.start <= r + 1
  /\ IF st.start > piece[2] THEN r = piece[2] ELSE st.start + target > r + 1

SliceInv(st, piece, target) ==
  /\ SlicesOK(st.slices, target)
  /\ \E r \in Nat : SliceReach(st, piece, target, r)

LEMMA SliceKeepsInv ==
  ASSUME NEW piece \in Extract, 1 <= piece[1], piece[1] <= piece[2],
         NEW target \in Nat, NEW overlap \in Nat, overlap < target,
         NEW st, SliceInv(st, piece, target)
  PROVE  LET new == Slice(st, piece[2], target, overlap)
         IN  SliceInv(new, piece, target) /\ (new.start > st.start \/ new.start = piece[2] + 1)
<1> DEFINE new == Slice(st, piece[2], target, overlap)
           last == piece[2]
           end == IF st.start + target <= last + 1 THEN st.start + target ELSE last + 1
           e == <<st.start, end - 1>>
           s == [pieces |-> <<e>>, tokens |-> end - st.start]
<1>1. piece[1] \in Nat /\ last \in Nat
  BY DEF Extract
<1>2. PICK r \in Nat : SliceReach(st, piece, target, r)
  BY DEF SliceInv
<1>3. /\ Covers(st.slices, piece[1] - 1, r)
      /\ r \in (piece[1] - 1)..last /\ st.start \in piece[1]..(last + 1)
      /\ st.start <= r + 1
      /\ IF st.start > last THEN r = last ELSE st.start + target > r + 1
  BY <1>2 DEF SliceReach
<1>4. CASE st.start > last
  <2>1. new = st
    BY <1>4 DEF Slice
  <2>2. st.start = last + 1
    BY <1>1, <1>3, <1>4
  <2> QED
    BY <2>1, <2>2
<1>5. CASE st.start <= last
  <2>1. st.start \in Nat /\ end \in (st.start + 1)..(last + 1) /\ end - 1 >= r /\ end - 1 >= 1
    BY <1>1, <1>3, <1>5
  <2>2. new = [slices |-> Append(st.slices, s), start |-> NextSlice(end, last, overlap)]
    BY <1>1, <1>3, <1>5 DEF Slice
  <2>3. end <= last => end = st.start + target
    BY <1>1, <1>3
  <2> HIDE DEF end
  <2>4. /\ e \in Extract /\ e[1] = st.start /\ e[2] = end - 1 /\ s \in Chunk
        /\ s.pieces = <<e>> /\ end - st.start = TokensOf(e)
    BY <2>1 DEF Extract, Chunk, TokensOf
  <2>5. SliceOK(s, target)
    <3>1. TokensOf(e) <= target
      BY <1>1, <1>3, <1>5, <2>1, <2>4 DEF end
    <3>2. s = [pieces |-> <<e>>, tokens |-> TokensOf(e)]
      BY <2>4
    <3>3. 1 <= e[1] /\ e[1] <= e[2]
      BY <1>1, <1>3, <2>1, <2>4
    <3>4. e \in Extract
      BY <2>4
    <3> HIDE DEF e, s
    <3> QED
      BY <3>1, <3>2, <3>3, <3>4, Zenon DEF SliceOK
  <2>6. Covers(<<s>>, r, end - 1)
    <3>1. TokensIn(<<e>>) = st.start..(end - 1)
      <4>1. DOMAIN <<e>> = {1} /\ <<e>>[1] = e
        OBVIOUS
      <4>2. ASSUME NEW t PROVE t \in TokensIn(<<e>>) <=> t \in st.start..(end - 1)
        BY <2>4, <4>1, TokensInExtracts
      <4> QED
        BY <4>2
    <3>2. 1..r \cup st.start..(end - 1) = 1..(end - 1)
      BY <1>1, <1>3, <2>1
    <3>3. end - 1 \in Nat /\ r <= end - 1 /\ 1 <= end - 1
      BY <2>1, <2>4
    <3> HIDE DEF e, s
    <3> QED
      BY <2>4, <3>1, <3>2, <3>3, CoversOne
  <2>7. st.slices \in Seq(Chunk)
    BY <1>3 DEF Covers
  <2> HIDE DEF e, s
  <2>8. Covers(new.slices, piece[1] - 1, end - 1)
    <3>1. new.slices = Append(st.slices, s)
      BY <2>2
    <3>2. Covers(Append(st.slices, s), piece[1] - 1, end - 1)
      <4> HIDE DEF last
      <4> QED
        BY <1>3, <2>4, <2>6, CoversAppend
    <3> HIDE DEF new
    <3> QED
      BY <3>1, <3>2
  <2>9. SlicesOK(new.slices, target)
    <3> DEFINE c == Append(st.slices, s)
               N == Len(st.slices)
    <3>1. /\ N \in Nat /\ DOMAIN st.slices = 1..N /\ DOMAIN c = 1..(N + 1)
          /\ \A k \in 1..N : c[k] = st.slices[k]
          /\ c[N + 1] = s
      BY <2>7
    <3> HIDE DEF c, N
    <3>2. ASSUME NEW k \in 1..(N + 1) PROVE SliceOK(c[k], target)
      <4>1. k \in 1..N \/ k = N + 1
        BY <3>1
      <4>2. \A n \in 1..N : SliceOK(st.slices[n], target)
        BY <3>1 DEF SliceInv, SlicesOK
      <4> QED
        BY <2>5, <3>1, <4>1, <4>2
    <3>3. new.slices = c
      BY <2>2 DEF c
    <3> QED
      BY <3>1, <3>2, <3>3 DEF SlicesOK
  <2>10. /\ new.start = IF end <= last THEN end - overlap ELSE end
         /\ new.start > st.start
         /\ new.start \in piece[1]..(last + 1) /\ new.start <= (end - 1) + 1
         /\ IF new.start > last THEN end - 1 = last ELSE new.start + target > (end - 1) + 1
    <3>1. new.start = IF end <= last THEN end - overlap ELSE end
      BY <2>2 DEF NextSlice
    <3> HIDE DEF new
    <3> QED
      BY <1>1, <1>3, <1>5, <2>1, <2>3, <3>1
  <2>11. SliceReach(new, piece, target, end - 1)
    <3>1. end - 1 \in (piece[1] - 1)..last
      BY <1>1, <1>3, <2>1
    <3> HIDE DEF new
    <3> QED
      BY <2>8, <2>10, <3>1 DEF SliceReach
  <2> HIDE DEF new
  <2>12. end - 1 \in Nat
    BY <2>1
  <2> QED
    BY <2>9, <2>10, <2>11, <2>12 DEF SliceInv, new
<1> QED
  BY <1>1, <1>3, <1>4, <1>5

LEMMA SlicedDefined ==
  ASSUME NEW piece \in Extract, 1 <= piece[1], piece[1] <= piece[2],
         NEW target \in Nat, NEW overlap \in Nat, overlap < target
  PROVE  LET c == Sliced(piece, target, overlap)
         IN  /\ c[0] = [slices |-> <<>>, start |-> piece[1]]
             /\ SliceInv(c[0], piece, target)
             /\ \A n \in 1..TokensOf(piece) : c[n] = Slice(c[n - 1], piece[2], target, overlap)
<1> DEFINE N == TokensOf(piece)
           S == {st \in [slices : Seq(Chunk), start : Nat] : SliceInv(st, piece, target)}
           x == [slices |-> <<>>, start |-> piece[1]]
           P(st) == Slice(st, piece[2], target, overlap)
           G == [n \in 1..N |-> [st \in S |-> P(st)]]
           F(f) == [n \in 0..N |-> IF n = 0 THEN x ELSE P(f[n - 1])]
           c == Sliced(piece, target, overlap)
<1>0. piece[1] \in Nat /\ piece[2] \in Nat
  BY DEF Extract
<1>1. N \in Nat /\ x \in S
  <2>1. N \in Nat /\ x \in [slices : Seq(Chunk), start : Nat]
    BY <1>0 DEF TokensOf
  <2>2. x.slices = <<>> /\ x.start = piece[1] /\ DOMAIN x.slices = {}
    OBVIOUS
  <2> HIDE DEF x
  <2>3. SlicesOK(x.slices, target)
    BY <2>2 DEF SlicesOK
  <2>4. piece[1] - 1 \in Nat /\ Covers(<<>>, piece[1] - 1, piece[1] - 1)
    BY <1>0, CoversNothing
  <2>5. SliceReach(x, piece, target, piece[1] - 1)
    <3>1. Covers(x.slices, piece[1] - 1, piece[1] - 1)
      BY <2>2, <2>4
    <3>2. /\ piece[1] - 1 \in (piece[1] - 1)..piece[2] /\ x.start \in piece[1]..(piece[2] + 1)
          /\ x.start <= (piece[1] - 1) + 1 /\ ~(x.start > piece[2])
          /\ x.start + target > (piece[1] - 1) + 1
      BY <1>0, <2>2
    <3> QED
      BY <3>1, <3>2 DEF SliceReach
  <2>6. SliceInv(x, piece, target)
    BY <2>3, <2>4, <2>5 DEF SliceInv
  <2> QED
    BY <2>1, <2>6
<1>2. ASSUME NEW st \in S PROVE P(st) \in S
  <2>1. SliceInv(P(st), piece, target)
    BY SliceKeepsInv
  <2>2. P(st).slices \in Seq(Chunk) /\ P(st).start \in Nat
    <3> HIDE DEF P
    <3> QED
      BY <1>0, <2>1 DEF SliceInv, SliceReach, Covers
  <2>3. P(st) \in [slices : Seq(Chunk), start : Nat]
    BY <2>2 DEF Slice
  <2> HIDE DEF P
  <2> QED
    BY <2>1, <2>3
<1>3. /\ Within(S, G, N)
      /\ \A n \in 1..N, st \in S : G[n][st] = P(st)
  <2> HIDE DEF S, P, N
  <2> QED
    BY <1>2 DEF Within
<1>4. \E f : f = F(f)
  <2> HIDE DEF S, P, N, x, G
  <2>1. PICK f : IsLoop(f, x, S, G, N)
    BY <1>1, <1>3, LoopDefined
  <2>2. ASSUME NEW n \in 0..N PROVE f[n] = IF n = 0 THEN x ELSE P(f[n - 1])
    <3>1. CASE n = 0
      BY <2>1, <3>1 DEF IsLoop
    <3>2. CASE n \in 1..N
      <4>1. f[n - 1] \in S /\ f[n] = G[n][f[n - 1]]
        BY <1>1, <2>1, <3>2 DEF IsLoop
      <4> QED
        BY <1>3, <3>2, <4>1
    <3> QED
      BY <1>1, <3>1, <3>2
  <2>3. f = F(f)
    BY <2>1, <2>2 DEF IsLoop
  <2> QED
    BY <2>3
<1>5. c = CHOOSE f : f = F(f)
  BY DEF Sliced
<1>6. c = F(c)
  <2> HIDE DEF F
  <2> QED
    BY <1>4, <1>5
<1> QED
  <2> HIDE DEF P, x, N
  <2>1. \A n \in 0..N : c[n] = IF n = 0 THEN x ELSE P(c[n - 1])
    <3> HIDE DEF c
    <3> QED
      BY <1>6
  <2> HIDE DEF c
  <2>2. c[0] = x /\ SliceInv(x, piece, target)
    BY <1>1, <2>1
  <2>3. \A n \in 1..N : c[n] = P(c[n - 1])
    BY <1>1, <2>1
  <2> QED
    BY <2>2, <2>3 DEF P, x, N, c

LEMMA SlicesCoverPiece ==
  ASSUME NEW piece \in Extract, 1 <= piece[1], piece[1] <= piece[2],
         NEW target \in Nat, NEW overlap \in Nat, overlap < target
  PROVE  LET slices == FixedSplit(piece, target, overlap)
         IN  SlicesOK(slices, target) /\ Covers(slices, piece[1] - 1, piece[2])
<1> DEFINE N == TokensOf(piece)
           c == Sliced(piece, target, overlap)
           T == {n \in 0..N : /\ SliceInv(c[n], piece, target)
                              /\ c[n].start >= piece[1] + n \/ c[n].start = piece[2] + 1}
<1>1. /\ N \in Nat /\ piece[1] \in Nat /\ piece[2] \in Nat
      /\ piece[1] + N = piece[2] + 1
  BY DEF TokensOf, Extract
<1>2. 0 \in T
  <2>1. c[0] = [slices |-> <<>>, start |-> piece[1]] /\ SliceInv(c[0], piece, target)
    BY SlicedDefined
  <2> HIDE DEF c
  <2> QED
    BY <1>1, <2>1
<1>3. ASSUME NEW n \in 0..(N - 1), n \in T PROVE n + 1 \in T
  <2>1. n + 1 \in 1..N /\ (n + 1) - 1 = n
    BY <1>1
  <2>2. c[n + 1] = Slice(c[n], piece[2], target, overlap)
    BY <2>1, SlicedDefined
  <2> HIDE DEF c, N
  <2>3. /\ SliceInv(c[n + 1], piece, target)
        /\ c[n + 1].start > c[n].start \/ c[n + 1].start = piece[2] + 1
    BY <1>3, <2>2, SliceKeepsInv
  <2>4. /\ c[n].start \in piece[1]..(piece[2] + 1)
        /\ c[n + 1].start \in piece[1]..(piece[2] + 1)
    BY <1>3, <2>3 DEF SliceInv, SliceReach
  <2>5. c[n + 1].start >= piece[1] + (n + 1) \/ c[n + 1].start = piece[2] + 1
    BY <1>1, <1>3, <2>3, <2>4
  <2> QED
    BY <2>1, <2>3, <2>5
<1>4. 0..N \subseteq T
  <2> HIDE DEF T, N
  <2> QED
    BY <1>1, <1>2, <1>3, Counting
<1>5. /\ SliceInv(c[N], piece, target)
      /\ c[N].start >= piece[1] + N \/ c[N].start = piece[2] + 1
  BY <1>1, <1>4
<1>6. c[N].slices = FixedSplit(piece, target, overlap)
  BY DEF FixedSplit
<1> HIDE DEF c, N
<1>7. PICK r \in Nat : SliceReach(c[N], piece, target, r)
  BY <1>5 DEF SliceInv
<1>8. c[N].start > piece[2]
  BY <1>1, <1>5, <1>7 DEF SliceReach
<1>9. r = piece[2] /\ Covers(c[N].slices, piece[1] - 1, r)
  BY <1>7, <1>8 DEF SliceReach
<1> QED
  BY <1>5, <1>6, <1>9 DEF SliceInv

(***************************************************************************)
(* The chunks of a document: the pieces.  Extracts tile the tokens between *)
(* a and b when each begins behind the one before it: the sentences of a   *)
(* paragraph do, and so do the pieces of a document.                       *)
(***************************************************************************)
Tiles(es, a, b) ==
  /\ es \in Seq(Extract) /\ a \in Nat /\ b \in Nat
  /\ \A k \in DOMAIN es :
       es[k][1] = (IF k = 1 THEN a ELSE es[k - 1][2]) + 1 /\ es[k][1] <= es[k][2]
  /\ b = IF es = <<>> THEN a ELSE es[Len(es)][2]

LEMMA TilesNothing ==
  ASSUME NEW a \in Nat
  PROVE  Tiles(<<>>, a, a)
BY DEF Tiles

LEMMA TilesOne ==
  ASSUME NEW a \in Nat, NEW e \in Extract, e[1] = a + 1, e[1] <= e[2]
  PROVE  Tiles(<<e>>, a, e[2])
<1> DEFINE es == <<e>>
<1>1. es \in Seq(Extract) /\ es # <<>> /\ Len(es) = 1 /\ DOMAIN es = {1} /\ es[1] = e
  OBVIOUS
<1>2. e[2] \in Nat
  BY DEF Extract
<1> HIDE DEF es
<1> QED
  BY <1>1, <1>2 DEF Tiles, es

LEMMA TilesConcat ==
  ASSUME NEW s, NEW t, NEW a, NEW b, NEW d, Tiles(s, a, b), Tiles(t, b, d)
  PROVE  Tiles(s \o t, a, d)
<1> DEFINE c == s \o t
           M == Len(s)
           N == Len(t)
<1>1. s \in Seq(Extract) /\ t \in Seq(Extract) /\ a \in Nat /\ b \in Nat /\ d \in Nat
  BY DEF Tiles
<1>2. /\ c \in Seq(Extract) /\ M \in Nat /\ N \in Nat /\ Len(c) = M + N
      /\ DOMAIN c = 1..(M + N) /\ DOMAIN s = 1..M /\ DOMAIN t = 1..N
      /\ \A k \in 1..M : c[k] = s[k]
      /\ \A k \in (M + 1)..(M + N) : c[k] = t[k - M]
      /\ (s = <<>> <=> M = 0) /\ (t = <<>> <=> N = 0) /\ (c = <<>> <=> M + N = 0)
  BY <1>1, ConcatProperties, EmptySeq
<1>3. /\ b = IF M = 0 THEN a ELSE s[M][2]
      /\ d = IF N = 0 THEN b ELSE t[N][2]
      /\ \A k \in 1..M : /\ s[k][1] = (IF k = 1 THEN a ELSE s[k - 1][2]) + 1
                         /\ s[k][1] <= s[k][2]
      /\ \A k \in 1..N : /\ t[k][1] = (IF k = 1 THEN b ELSE t[k - 1][2]) + 1
                         /\ t[k][1] <= t[k][2]
  BY <1>2 DEF Tiles, M, N
<1> HIDE DEF c, M, N
<1>4. ASSUME NEW k \in 1..(M + N)
      PROVE  c[k][1] = (IF k = 1 THEN a ELSE c[k - 1][2]) + 1 /\ c[k][1] <= c[k][2]
  <2>1. CASE k <= M
    <3>1. k \in 1..M /\ (k # 1 => k - 1 \in 1..M)
      BY <1>2, <2>1
    <3>2. c[k] = s[k] /\ (k # 1 => c[k - 1] = s[k - 1])
      BY <1>2, <3>1
    <3> QED
      BY <1>3, <3>1, <3>2
  <2>2. CASE k = M + 1
    <3>1. 1 \in 1..N /\ k \in (M + 1)..(M + N) /\ k - M = 1 /\ k - 1 = M
      BY <1>2, <2>2
    <3>2. c[k] = t[1] /\ (M # 0 => c[k - 1] = s[M])
      BY <1>2, <3>1
    <3>3. t[1][1] = b + 1 /\ t[1][1] <= t[1][2]
      BY <1>3, <3>1
    <3> QED
      BY <1>2, <1>3, <2>2, <3>1, <3>2, <3>3
  <2>3. CASE k > M + 1
    <3>1. /\ k \in (M + 1)..(M + N) /\ k - 1 \in (M + 1)..(M + N)
          /\ k - M \in 1..N /\ k - M # 1 /\ (k - 1) - M = (k - M) - 1 /\ k # 1
      BY <1>2, <2>3
    <3>2. c[k] = t[k - M] /\ c[k - 1] = t[(k - M) - 1]
      BY <1>2, <3>1
    <3>3. t[k - M][1] = t[(k - M) - 1][2] + 1 /\ t[k - M][1] <= t[k - M][2]
      BY <1>3, <3>1
    <3> QED
      BY <3>1, <3>2, <3>3
  <2>4. k <= M \/ k = M + 1 \/ k > M + 1
    BY <1>2
  <2> QED
    BY <2>1, <2>2, <2>3, <2>4, Zenon
<1>5. d = IF c = <<>> THEN a ELSE c[Len(c)][2]
  <2>1. CASE N = 0
    <3>1. M # 0 => M \in 1..M /\ c[M] = s[M]
      BY <1>2
    <3> QED
      BY <1>2, <1>3, <2>1, <3>1
  <2>2. CASE N # 0
    <3>1. M + N \in (M + 1)..(M + N) /\ (M + N) - M = N /\ M + N # 0
      BY <1>2, <2>2
    <3>2. c[M + N] = t[N]
      BY <1>2, <3>1
    <3> QED
      BY <1>2, <1>3, <2>2, <3>1, <3>2
  <2> QED
    BY <2>1, <2>2
<1>6. Tiles(c, a, d)
  BY <1>1, <1>2, <1>4, <1>5 DEF Tiles
<1> QED
  BY <1>6 DEF c

LEMMA TilesGrow ==
  ASSUME NEW es, NEW a, NEW b, Tiles(es, a, b), es # <<>>
  PROVE  /\ a + 1 = es[1][1] /\ b = es[Len(es)][2] /\ a < b
         /\ a \in Nat /\ b \in Nat /\ es \in Seq(Extract) /\ Len(es) \in Nat \ {0}
<1> DEFINE N == Len(es)
           T == {n \in 0..(N - 1) : a < es[n + 1][2]}
<1>1. es \in Seq(Extract) /\ a \in Nat /\ b \in Nat /\ b = es[N][2]
  BY DEF Tiles
<1>2. N \in Nat \ {0} /\ DOMAIN es = 1..N
  BY <1>1, EmptySeq
<1>3. \A k \in 1..N : es[k][1] \in Nat /\ es[k][2] \in Nat
  BY <1>1, <1>2 DEF Extract
<1>4. \A k \in 1..N : /\ es[k][1] = (IF k = 1 THEN a ELSE es[k - 1][2]) + 1
                      /\ es[k][1] <= es[k][2]
  BY <1>2 DEF Tiles
<1> HIDE DEF N
<1>5. 0 \in T
  <2>1. 0 \in 0..(N - 1) /\ 1 \in 1..N /\ 0 + 1 = 1
    BY <1>2
  <2>2. es[1][1] = a + 1 /\ es[1][1] <= es[1][2]
    BY <1>4, <2>1
  <2> QED
    BY <1>1, <1>3, <2>1, <2>2
<1>6. ASSUME NEW n \in 0..((N - 1) - 1), n \in T PROVE n + 1 \in T
  <2>1. n + 1 \in 1..N /\ (n + 1) + 1 \in 1..N /\ ((n + 1) + 1) - 1 = n + 1 /\ (n + 1) + 1 # 1
    BY <1>2
  <2>2. /\ es[(n + 1) + 1][1] = es[n + 1][2] + 1
        /\ es[(n + 1) + 1][1] <= es[(n + 1) + 1][2]
    BY <1>4, <2>1
  <2>3. a < es[n + 1][2] /\ n + 1 \in 0..(N - 1)
    BY <1>2, <1>6
  <2> QED
    BY <1>1, <1>3, <2>1, <2>2, <2>3
<1>7. 0..(N - 1) \subseteq T
  <2> HIDE DEF T
  <2>1. N - 1 \in Nat
    BY <1>2
  <2> QED
    BY <1>5, <1>6, <2>1, Counting
<1>8. N - 1 \in 0..(N - 1) /\ (N - 1) + 1 = N /\ 1 \in 1..N
  BY <1>2
<1>9. a < es[N][2] /\ a + 1 = es[1][1]
  BY <1>4, <1>7, <1>8
<1> QED
  BY <1>1, <1>2, <1>9 DEF N

\* The last token of a paragraph; a document whose paragraphs follow one another.
End(paragraph) == paragraph[Len(paragraph)][2]

Before(t, p) == IF p = 0 THEN 0 ELSE End(t[p])

TextOK(t) ==
  /\ t \in Seq(Seq(Extract))
  /\ \A p \in DOMAIN t : t[p] # <<>> /\ Tiles(t[p], Before(t, p - 1), Before(t, p))

\* A paragraph and its pieces tile the same tokens.
LEMMA PiecesOfParagraph ==
  ASSUME NEW paragraph, NEW a, NEW b, Tiles(paragraph, a, b), paragraph # <<>>, NEW target
  PROVE  Tiles(ParagraphPieces(paragraph, target), a, b)
<1> DEFINE w == Whole(paragraph)
<1>1. CASE TokensOf(w) <= target
  <2>1. w = <<a + 1, b>> /\ a \in Nat /\ b \in Nat /\ a < b
    BY TilesGrow DEF Whole
  <2>2. w \in Extract /\ w[1] = a + 1 /\ w[2] = b /\ w[1] <= w[2]
    <3> HIDE DEF w
    <3>1. <<a + 1, b>>[1] = a + 1 /\ <<a + 1, b>>[2] = b /\ <<a + 1, b>> \in Extract
      BY <2>1 DEF Extract
    <3> QED
      BY <2>1, <3>1
  <2>3. ParagraphPieces(paragraph, target) = <<w>>
    BY <1>1 DEF ParagraphPieces
  <2> HIDE DEF w
  <2>4. Tiles(<<w>>, a, b)
    BY <2>1, <2>2, TilesOne
  <2> QED
    BY <2>3, <2>4
<1>2. CASE ~(TokensOf(w) <= target)
  BY <1>2 DEF ParagraphPieces
<1> QED
  BY <1>1, <1>2, Zenon

LEMMA CollectedDefined ==
  ASSUME NEW t, TextOK(t), NEW target
  PROVE  /\ Collected(t, target)[0] = <<>>
         /\ \A n \in 1..Len(t) : Collected(t, target)[n]
                                   = Collected(t, target)[n - 1] \o ParagraphPieces(t[n], target)
<1> DEFINE N == Len(t)
           S == Seq(Extract)
           P(st, n) == st \o ParagraphPieces(t[n], target)
           G == [n \in 1..N |-> [st \in S |-> P(st, n)]]
           F(f) == [n \in 0..N |-> IF n = 0 THEN <<>> ELSE P(f[n - 1], n)]
           c == Collected(t, target)
<1>1. N \in Nat /\ DOMAIN t = 1..N /\ <<>> \in S
  BY DEF TextOK
<1>2. ASSUME NEW n \in 1..N, NEW st \in S PROVE P(st, n) \in S
  <2>1. t[n] # <<>> /\ Tiles(t[n], Before(t, n - 1), Before(t, n))
    BY <1>1 DEF TextOK
  <2>2. Tiles(ParagraphPieces(t[n], target), Before(t, n - 1), Before(t, n))
    BY <2>1, PiecesOfParagraph
  <2>3. ParagraphPieces(t[n], target) \in S
    BY <2>2 DEF Tiles
  <2> QED
    BY <2>3
<1>3. /\ Within(S, G, N)
      /\ \A n \in 1..N, st \in S : G[n][st] = P(st, n)
  <2> HIDE DEF S, P, N
  <2> QED
    BY <1>2 DEF Within
<1>4. \E f : f = F(f)
  <2> HIDE DEF S, P, N, G
  <2>1. PICK f : IsLoop(f, <<>>, S, G, N)
    BY <1>1, <1>3, LoopDefined
  <2>2. ASSUME NEW n \in 0..N PROVE f[n] = IF n = 0 THEN <<>> ELSE P(f[n - 1], n)
    <3>1. CASE n = 0
      BY <2>1, <3>1 DEF IsLoop
    <3>2. CASE n \in 1..N
      <4>1. n - 1 \in 0..N
        BY <1>1, <3>2
      <4>2. f[n - 1] \in S /\ f[n] = G[n][f[n - 1]]
        BY <2>1, <3>2, <4>1 DEF IsLoop
      <4> QED
        BY <1>3, <3>2, <4>2
    <3> QED
      BY <1>1, <3>1, <3>2
  <2>3. f = F(f)
    BY <2>1, <2>2 DEF IsLoop
  <2> QED
    BY <2>3
<1>5. c = CHOOSE f : f = F(f)
  BY DEF Collected
<1>6. c = F(c)
  <2> HIDE DEF F
  <2> QED
    BY <1>4, <1>5
<1> QED
  <2> HIDE DEF P, N
  <2>1. \A n \in 0..N : c[n] = IF n = 0 THEN <<>> ELSE P(c[n - 1], n)
    <3> HIDE DEF c
    <3> QED
      BY <1>6
  <2> HIDE DEF c
  <2>2. c[0] = <<>> /\ \A n \in 1..N : c[n] = P(c[n - 1], n)
    BY <1>1, <2>1
  <2> QED
    BY <2>2 DEF P, N, c

LEMMA PiecesTile ==
  ASSUME NEW t, TextOK(t), NEW target
  PROVE  Tiles(Pieces(t, target), 0, Before(t, Len(t)))
<1> DEFINE N == Len(t)
           c == Collected(t, target)
           T == {n \in 0..N : Tiles(c[n], 0, Before(t, n))}
<1>1. N \in Nat /\ DOMAIN t = 1..N
  BY DEF TextOK
<1>2. 0 \in T
  <2>1. c[0] = <<>> /\ Before(t, 0) = 0 /\ Tiles(<<>>, 0, 0)
    BY CollectedDefined, TilesNothing DEF Before
  <2> HIDE DEF c
  <2> QED
    BY <1>1, <2>1
<1>3. ASSUME NEW n \in 0..(N - 1), n \in T PROVE n + 1 \in T
  <2>1. n + 1 \in 1..N /\ n + 1 \in 0..N /\ (n + 1) - 1 = n
    BY <1>1
  <2>2. c[n + 1] = c[n] \o ParagraphPieces(t[n + 1], target)
    BY <2>1, CollectedDefined
  <2>3. t[n + 1] # <<>> /\ Tiles(t[n + 1], Before(t, n), Before(t, n + 1))
    BY <1>1, <2>1 DEF TextOK
  <2>4. Tiles(ParagraphPieces(t[n + 1], target), Before(t, n), Before(t, n + 1))
    BY <2>3, PiecesOfParagraph
  <2> HIDE DEF c
  <2>5. Tiles(c[n + 1], 0, Before(t, n + 1))
    BY <1>3, <2>2, <2>4, TilesConcat
  <2> QED
    BY <2>1, <2>5
<1>4. 0..N \subseteq T
  <2> HIDE DEF T, N
  <2> QED
    BY <1>1, <1>2, <1>3, Counting
<1>5. Tiles(c[N], 0, Before(t, N))
  BY <1>1, <1>4
<1> QED
  BY <1>5 DEF Pieces

(***************************************************************************)
(* The chunks of a document: the loop over the pieces.  When the pieces up *)
(* to reach were taken, the chunks cover the document up to some r, and    *)
(* the buffer holds what lies between r and reach.                         *)
(***************************************************************************)
ChunkOK(chunk, target, overlap) ==
  /\ chunk \in Chunk /\ Extracts(chunk.pieces) /\ chunk.pieces # <<>>
  /\ TotalTokens(chunk.pieces) <= target + overlap
  /\ chunk.tokens <= IF TotalTokens(chunk.pieces) <= target
                      THEN 2 * target - 1
                      ELSE target + 2 * overlap

ChunksOK(chunks, target, overlap) == \A k \in DOMAIN chunks : ChunkOK(chunks[k], target, overlap)

\* A buffer over the target is an overlap, of which each piece has a token, and one more piece.
BufferOK(buffer, target, overlap) ==
  /\ Extracts(buffer)
  /\ \/ TotalTokens(buffer) <= target
     \/ TotalTokens(buffer) <= target + overlap /\ Len(buffer) <= overlap + 1

ChunkInv(st, reach, target, overlap) ==
  /\ ChunksOK(st.chunks, target, overlap)
  /\ BufferOK(st.buffer, target, overlap)
  /\ \E r \in 0..reach : Covers(st.chunks, 0, r) /\ 1..r \cup TokensIn(st.buffer) = 1..reach

LEMMA NoExtracts == Extracts(<<>>) /\ TotalTokens(<<>>) = 0 /\ TokensIn(<<>>) = {}
<1>1. <<>> \in Seq(Extract) /\ Len(<<>>) = 0 /\ DOMAIN <<>> = {}
  OBVIOUS
<1>2. Totals(<<>>)[0] = 0
  BY <1>1, TotalsDefined
<1>3. TotalTokens(<<>>) = Totals(<<>>)[0]
  BY DEF TotalTokens
<1> QED
  BY <1>1, <1>2, <1>3 DEF Extracts, TokensIn

LEMMA SliceIsChunk ==
  ASSUME NEW chunk, NEW target \in Nat, NEW overlap \in Nat, overlap < target,
         SliceOK(chunk, target)
  PROVE  ChunkOK(chunk, target, overlap)
<1>1. PICK e \in Extract :
        /\ chunk = [pieces |-> <<e>>, tokens |-> TokensOf(e)]
        /\ 1 <= e[1] /\ e[1] <= e[2] /\ TokensOf(e) <= target
  BY DEF SliceOK
<1>2. e[1] \in Nat /\ e[2] \in Nat /\ TokensOf(e) = e[2] - e[1] + 1
  BY DEF Extract, TokensOf
<1>3. Append(<<>>, e) = <<e>> /\ DOMAIN <<>> = {}
  OBVIOUS
<1>4. /\ Extracts(Append(<<>>, e)) /\ Append(<<>>, e) # <<>>
      /\ TotalTokens(Append(<<>>, e)) = TotalTokens(<<>>) + e[2] - e[1] + 1
  BY <1>1, <1>3, NoExtracts, AppendExtract
<1>5. TotalTokens(<<e>>) = TotalTokens(Append(<<>>, e))
  BY <1>3, Zenon
<1>6. TotalTokens(<<e>>) = TokensOf(e) /\ Extracts(<<e>>) /\ <<e>> # <<>>
  BY <1>2, <1>3, <1>4, <1>5, NoExtracts
<1>7. chunk.pieces = <<e>> /\ chunk.tokens = TokensOf(e) /\ chunk \in Chunk
  BY <1>1, <1>2 DEF Chunk
<1>8. TokensOf(e) <= target + overlap /\ TokensOf(e) <= 2 * target - 1
  BY <1>1, <1>2
<1> QED
  BY <1>1, <1>6, <1>7, <1>8 DEF ChunkOK

LEMMA TotalIsInt ==
  ASSUME NEW es \in Seq(Extract)
  PROVE  TotalTokens(es) \in Int
<1> DEFINE T == {n \in 0..Len(es) : Totals(es)[n] \in Int}
<1>1. Len(es) \in Nat /\ 0 \in T
  BY TotalsDefined
<1>2. ASSUME NEW n \in 0..(Len(es) - 1), n \in T PROVE n + 1 \in T
  <2>1. n + 1 \in 1..Len(es) /\ (n + 1) - 1 = n
    BY <1>1
  <2>2. Totals(es)[n + 1] = Totals(es)[n] + TokensOf(es[n + 1])
    BY <2>1, TotalsDefined
  <2>3. TokensOf(es[n + 1]) \in Int
    BY <1>1, <2>1 DEF Extract, TokensOf
  <2> QED
    BY <1>2, <2>1, <2>2, <2>3
<1>3. 0..Len(es) \subseteq T
  <2> HIDE DEF T
  <2> QED
    BY <1>1, <1>2, Counting
<1> QED
  BY <1>1, <1>3 DEF TotalTokens

\* Blank lines lie between the pieces, so that there are fewer of them.
LEMMA CountOfJoined ==
  ASSUME NEW es \in Seq(Extract)
  PROVE  /\ Joined(es) \in Chunk /\ Joined(es).pieces = es
         /\ es # <<>> => Joined(es).tokens <= TotalTokens(es) + Len(es) - 1
<1> DEFINE S == {k \in 1..(Len(es) - 1) : es[k][2] \notin Absorbing}
<1>1. Len(es) \in Nat /\ 1 \in Int /\ Len(es) - 1 \in Int
  OBVIOUS
<1>2. /\ IsFiniteSet(1..(Len(es) - 1))
      /\ Cardinality(1..(Len(es) - 1)) = IF 1 > Len(es) - 1 THEN 0 ELSE (Len(es) - 1) - 1 + 1
  BY <1>1, FS_Interval
<1>3. IsFiniteSet(S) /\ Cardinality(S) <= Cardinality(1..(Len(es) - 1))
  <2>1. S \subseteq 1..(Len(es) - 1)
    OBVIOUS
  <2> HIDE DEF S
  <2> QED
    BY <1>2, <2>1, FS_Subset
<1>4. Cardinality(S) \in Nat
  BY <1>3, FS_CardinalityType
<1>5. es # <<>> => Len(es) >= 1
  BY <1>1, EmptySeq
<1>6. CountTokens(es) = TotalTokens(es) + Cardinality(S)
  BY DEF CountTokens
<1> HIDE DEF S
<1>7. CountTokens(es) \in Int
  BY <1>4, <1>6, TotalIsInt
<1>8. es # <<>> => CountTokens(es) <= TotalTokens(es) + Len(es) - 1
  BY <1>1, <1>2, <1>3, <1>4, <1>5, <1>6, TotalIsInt
<1> QED
  BY <1>7, <1>8 DEF Joined, Chunk

LEMMA JoinedIsChunk ==
  ASSUME NEW target \in Nat, NEW overlap \in Nat, overlap < target,
         NEW buffer, BufferOK(buffer, target, overlap), buffer # <<>>
  PROVE  ChunkOK(Joined(buffer), target, overlap)
<1> DEFINE chunk == Joined(buffer)
<1>1. Extracts(buffer) /\ buffer \in Seq(Extract) /\ Len(buffer) \in Nat
  BY DEF BufferOK, Extracts
<1>2. /\ chunk \in Chunk /\ chunk.pieces = buffer /\ chunk.tokens \in Int
      /\ chunk.tokens <= TotalTokens(buffer) + Len(buffer) - 1
  BY <1>1, CountOfJoined DEF Chunk
<1>3. TotalTokens(buffer) \in Int /\ TotalTokens(buffer) >= Len(buffer)
  BY <1>1, TotalAtLeastLen
<1> HIDE DEF chunk
<1>4. TotalTokens(buffer) <= target + overlap
  BY <1>3 DEF BufferOK
<1>5. chunk.tokens <= IF TotalTokens(buffer) <= target
                      THEN 2 * target - 1
                      ELSE target + 2 * overlap
  BY <1>1, <1>2, <1>3 DEF BufferOK
<1> QED
  BY <1>1, <1>2, <1>4, <1>5 DEF ChunkOK, chunk

LEMMA ChunksConcat ==
  ASSUME NEW c1 \in Seq(Chunk), NEW c2 \in Seq(Chunk), NEW target, NEW overlap,
         ChunksOK(c1, target, overlap), ChunksOK(c2, target, overlap)
  PROVE  ChunksOK(c1 \o c2, target, overlap)
<1> DEFINE c == c1 \o c2
           M == Len(c1)
           N == Len(c2)
<1>1. /\ M \in Nat /\ N \in Nat
      /\ DOMAIN c = 1..(M + N) /\ DOMAIN c1 = 1..M /\ DOMAIN c2 = 1..N
      /\ \A k \in 1..M : c[k] = c1[k]
      /\ \A k \in (M + 1)..(M + N) : c[k] = c2[k - M]
  BY ConcatProperties
<1> HIDE DEF c, M, N
<1>2. ASSUME NEW k \in 1..(M + N) PROVE ChunkOK(c[k], target, overlap)
  <2>1. CASE k \in 1..M
    BY <1>1, <2>1 DEF ChunksOK
  <2>2. CASE k \in (M + 1)..(M + N)
    <3>1. k - M \in 1..N
      BY <1>1, <2>2
    <3> QED
      BY <1>1, <2>2, <3>1 DEF ChunksOK
  <2>3. k \in 1..M \/ k \in (M + 1)..(M + N)
    BY <1>1
  <2> QED
    BY <2>1, <2>2, <2>3, Zenon
<1> QED
  BY <1>1, <1>2 DEF ChunksOK, c

LEMMA ChunksOne ==
  ASSUME NEW chunk, NEW target, NEW overlap, ChunkOK(chunk, target, overlap)
  PROVE  ChunksOK(<<chunk>>, target, overlap)
BY DEF ChunksOK

\* The buffer becomes a chunk: the chunks cover all that was taken, the buffer is an overlap.
LEMMA FlushCovers ==
  ASSUME NEW target \in Nat, NEW overlap \in Nat, overlap < target,
         NEW st, NEW reach \in Nat, ChunkInv(st, reach, target, overlap)
  PROVE  LET new == Flush(st, overlap)
         IN  /\ ChunksOK(new.chunks, target, overlap) /\ Covers(new.chunks, 0, reach)
             /\ Extracts(new.buffer) /\ TotalTokens(new.buffer) <= overlap
             /\ TokensIn(new.buffer) \subseteq 1..reach
<1> DEFINE new == Flush(st, overlap)
<1>1. PICK r \in 0..reach :
        Covers(st.chunks, 0, r) /\ 1..r \cup TokensIn(st.buffer) = 1..reach
  BY DEF ChunkInv
<1>2. /\ ChunksOK(st.chunks, target, overlap) /\ BufferOK(st.buffer, target, overlap)
      /\ Extracts(st.buffer) /\ st.chunks \in Seq(Chunk) /\ st.buffer \in Seq(Extract)
  BY <1>1 DEF ChunkInv, BufferOK, Covers, Extracts
<1> DEFINE joined == Joined(st.buffer)
<1>3. CASE st.buffer = <<>>
  <2>1. new = st
    BY <1>3 DEF Flush
  <2> HIDE DEF new
  <2>2. TokensIn(st.buffer) = {} /\ TotalTokens(st.buffer) = 0
    <3>1. TokensIn(st.buffer) = TokensIn(<<>>) /\ TotalTokens(st.buffer) = TotalTokens(<<>>)
      BY <1>3, Zenon
    <3> QED
      BY <3>1, NoExtracts
  <2>3. r = reach
    BY <1>1, <2>2
  <2> QED
    BY <1>1, <1>2, <2>1, <2>2, <2>3 DEF new
<1>4. CASE st.buffer # <<>>
  <2>1. new = [chunks |-> Append(st.chunks, joined),
               buffer |-> ApplyOverlap(st.buffer, overlap)]
    BY <1>4 DEF Flush
  <2>2. 1 <= reach
    <3>1. 1 \in DOMAIN st.buffer
      BY <1>2, <1>4, EmptySeq
    <3>2. st.buffer[1] \in Extract /\ st.buffer[1][1] <= st.buffer[1][2]
      BY <1>2, <3>1 DEF Extracts
    <3>3. st.buffer[1][1] \in st.buffer[1][1]..st.buffer[1][2]
      BY <3>2 DEF Extract
    <3>4. st.buffer[1][1] \in TokensIn(st.buffer)
      BY <3>1, <3>3, TokensInExtracts
    <3>5. st.buffer[1][1] \in 1..reach
      BY <1>1, <3>4
    <3> QED
      BY <3>5
  <2> joined \in Chunk /\ joined.pieces = st.buffer
    BY <1>2, CountOfJoined
  <2> HIDE DEF joined
  <2>3. Covers(<<joined>>, r, reach)
    <3>1. r \in Nat /\ r <= reach /\ 1..r \cup TokensIn(st.buffer) = 1..reach
      BY <1>1
    <3> QED
      BY <1>2, <2>2, <3>1, CoversOne
  <2>4. Covers(Append(st.chunks, joined), 0, reach)
    BY <1>1, <1>2, <2>3, CoversAppend
  <2>5. ChunksOK(Append(st.chunks, joined), target, overlap)
    <3>1. ChunksOK(<<joined>>, target, overlap)
      BY <1>2, <1>4, JoinedIsChunk, ChunksOne DEF joined
    <3>2. <<joined>> \in Seq(Chunk)
      BY <1>2
    <3>3. Append(st.chunks, joined) = st.chunks \o <<joined>>
      BY <1>2, AppendIsConcat
    <3> QED
      BY <1>2, <3>1, <3>2, <3>3, ChunksConcat
  <2>6. LET kept == ApplyOverlap(st.buffer, overlap)
        IN  /\ Extracts(kept) /\ TotalTokens(kept) <= overlap
            /\ TokensIn(kept) \subseteq 1..reach
    <3>1. TokensIn(st.buffer) \subseteq 1..reach
      BY <1>1
    <3> QED
      BY <1>2, <3>1, OverlapIsEnd
  <2>7. new.chunks = Append(st.chunks, joined) /\ new.buffer = ApplyOverlap(st.buffer, overlap)
    BY <2>1
  <2> HIDE DEF new
  <2> QED
    BY <2>4, <2>5, <2>6, <2>7 DEF new
<1> QED
  BY <1>3, <1>4, Zenon

LEMMA TakeKeepsInv ==
  ASSUME NEW target \in Nat, NEW overlap \in Nat, overlap < target,
         NEW reach \in Nat, NEW st, ChunkInv(st, reach, target, overlap),
         NEW piece \in Extract, piece[1] = reach + 1, piece[1] <= piece[2]
  PROVE  ChunkInv(Take(st, piece, target, overlap), piece[2], target, overlap)
<1> DEFINE flushed == Flush(st, overlap)
           room == IF TotalTokens(st.buffer) + TokensOf(piece) > target THEN flushed ELSE st
           slices == FixedSplit(piece, target, overlap)
           new == Take(st, piece, target, overlap)
<1>1. /\ piece[2] \in Nat /\ reach < piece[2] /\ 1 <= piece[1]
      /\ TokensOf(piece) = piece[2] - reach
  BY DEF Extract, TokensOf
<1>2. /\ ChunksOK(flushed.chunks, target, overlap) /\ Covers(flushed.chunks, 0, reach)
      /\ Extracts(flushed.buffer) /\ TotalTokens(flushed.buffer) <= overlap
      /\ TokensIn(flushed.buffer) \subseteq 1..reach
  BY <1>1, FlushCovers
<1> DEFINE Fits(b, n) == \/ TotalTokens(b) + n <= target
                         \/ TotalTokens(b) + n <= target + overlap /\ Len(b) <= overlap
<1>3. CASE TokensOf(piece) > target
  <2>1. new = [chunks |-> flushed.chunks \o slices, buffer |-> flushed.buffer]
    BY <1>3 DEF Take
  <2> HIDE DEF flushed
  <2>2. SlicesOK(slices, target) /\ Covers(slices, reach, piece[2])
    <3>1. piece[1] - 1 = reach
      BY <1>1
    <3> QED
      BY <1>1, <3>1, SlicesCoverPiece
  <2>3. ChunksOK(slices, target, overlap)
    BY <1>1, <2>2, SliceIsChunk DEF SlicesOK, ChunksOK
  <2> HIDE DEF slices
  <2>4. Covers(flushed.chunks \o slices, 0, piece[2])
    BY <1>2, <2>2, CoversConcat
  <2>5. ChunksOK(flushed.chunks \o slices, target, overlap)
    BY <1>2, <2>2, <2>3, ChunksConcat DEF Covers
  <2>6. new.chunks = flushed.chunks \o slices /\ new.buffer = flushed.buffer
    BY <2>1
  <2>7. 1..piece[2] \cup TokensIn(flushed.buffer) = 1..piece[2]
    BY <1>1, <1>2
  <2>8. BufferOK(flushed.buffer, target, overlap) /\ piece[2] \in 0..piece[2]
    BY <1>1, <1>2, TotalAtLeastLen DEF BufferOK
  <2> HIDE DEF new
  <2>9. ChunkInv(new, piece[2], target, overlap)
    BY <1>2, <2>4, <2>5, <2>6, <2>7, <2>8 DEF ChunkInv
  <2> QED
    BY <2>9 DEF new
<1>4. CASE ~(TokensOf(piece) > target)
  <2>1. new.chunks = room.chunks /\ new.buffer = Append(room.buffer, piece)
    BY <1>4 DEF Take
  <2>2. /\ ChunksOK(room.chunks, target, overlap) /\ Extracts(room.buffer)
        /\ Fits(room.buffer, TokensOf(piece))
        /\ \E r \in 0..reach :
             Covers(room.chunks, 0, r) /\ 1..r \cup TokensIn(room.buffer) = 1..reach
    <3>1. CASE TotalTokens(st.buffer) + TokensOf(piece) > target
      <4>1. room = flushed
        BY <3>1
      <4> HIDE DEF room, flushed
      <4>2. Fits(flushed.buffer, TokensOf(piece))
        <5>1. /\ TotalTokens(flushed.buffer) \in Int /\ Len(flushed.buffer) \in Nat
              /\ TotalTokens(flushed.buffer) >= Len(flushed.buffer)
          BY <1>2, TotalAtLeastLen DEF Extracts
        <5> QED
          BY <1>1, <1>2, <1>4, <5>1
      <4>3. 1..reach \cup TokensIn(flushed.buffer) = 1..reach /\ reach \in 0..reach
        BY <1>2
      <4> HIDE DEF Fits
      <4> QED
        BY <1>2, <4>1, <4>2, <4>3
    <3>2. CASE ~(TotalTokens(st.buffer) + TokensOf(piece) > target)
      <4>1. room = st
        BY <3>2
      <4> HIDE DEF room
      <4>2. Fits(st.buffer, TokensOf(piece))
        BY <1>1, <3>2, TotalAtLeastLen DEF ChunkInv, BufferOK
      <4> HIDE DEF Fits
      <4> QED
        BY <4>1, <4>2 DEF ChunkInv, BufferOK
    <3> QED
      BY <3>1, <3>2, Zenon
  <2> HIDE DEF room, new
  <2>3. PICK r \in 0..reach :
          Covers(room.chunks, 0, r) /\ 1..r \cup TokensIn(room.buffer) = 1..reach
    BY <2>2
  <2>4. room.buffer \in Seq(Extract)
    BY <2>2 DEF Extracts
  <2>5. \A k \in DOMAIN room.buffer : room.buffer[k][2] < piece[1]
    <3> SUFFICES ASSUME NEW k \in DOMAIN room.buffer PROVE room.buffer[k][2] < piece[1]
      OBVIOUS
    <3>1. room.buffer[k] \in Extract /\ room.buffer[k][1] <= room.buffer[k][2]
      BY <2>2, <2>4 DEF Extracts
    <3>2. room.buffer[k][2] \in room.buffer[k][1]..room.buffer[k][2]
      BY <3>1 DEF Extract
    <3>3. room.buffer[k][2] \in TokensIn(room.buffer)
      BY <3>2, TokensInExtracts
    <3>4. room.buffer[k][2] \in 1..reach
      BY <2>3, <3>3
    <3> QED
      BY <3>4
  <2>6. /\ Extracts(Append(room.buffer, piece))
        /\ TotalTokens(Append(room.buffer, piece))
             = TotalTokens(room.buffer) + piece[2] - piece[1] + 1
    BY <1>1, <2>2, <2>5, AppendExtract
  <2>7. BufferOK(Append(room.buffer, piece), target, overlap)
    <3>1. Len(Append(room.buffer, piece)) = Len(room.buffer) + 1 /\ Len(room.buffer) \in Nat
      BY <2>4
    <3>2. TotalTokens(room.buffer) \in Int
      BY <2>2, TotalAtLeastLen
    <3>3. piece[1] \in Nat /\ TotalTokens(Append(room.buffer, piece))
                               = TotalTokens(room.buffer) + TokensOf(piece)
      BY <1>1, <2>6, <3>2 DEF Extract, TokensOf
    <3> QED
      BY <1>1, <2>2, <2>6, <3>1, <3>2, <3>3 DEF BufferOK
  <2>8. 1..r \cup TokensIn(Append(room.buffer, piece)) = 1..piece[2]
    <3>1. TokensIn(Append(room.buffer, piece)) = TokensIn(room.buffer) \cup (reach + 1)..piece[2]
      BY <2>4, TokensInAppend
    <3>2. 1..reach \cup (reach + 1)..piece[2] = 1..piece[2]
      BY <1>1
    <3> QED
      BY <2>3, <3>1, <3>2
  <2>9. r \in 0..piece[2]
    BY <1>1
  <2>10. ChunkInv(new, piece[2], target, overlap)
    BY <2>1, <2>2, <2>3, <2>7, <2>8, <2>9 DEF ChunkInv
  <2> QED
    BY <2>10 DEF new
<1> QED
  BY <1>3, <1>4, Zenon

LEMMA TakenDefined ==
  ASSUME NEW pieces \in Seq(Extract), NEW target \in Nat, NEW overlap \in Nat, overlap < target,
         \A n \in DOMAIN pieces : 1 <= pieces[n][1] /\ pieces[n][1] <= pieces[n][2]
  PROVE  LET c == Taken(pieces, target, overlap)
         IN  /\ c[0] = [chunks |-> <<>>, buffer |-> <<>>]
             /\ \A n \in 1..Len(pieces) : c[n] = Take(c[n - 1], pieces[n], target, overlap)
<1> DEFINE N == Len(pieces)
           S == [chunks : Seq(Chunk), buffer : Seq(Extract)]
           x == [chunks |-> <<>>, buffer |-> <<>>]
           P(st, n) == Take(st, pieces[n], target, overlap)
           G == [n \in 1..N |-> [st \in S |-> P(st, n)]]
           F(f) == [n \in 0..N |-> IF n = 0 THEN x ELSE P(f[n - 1], n)]
           c == Taken(pieces, target, overlap)
<1>1. N \in Nat /\ DOMAIN pieces = 1..N /\ x \in S
  OBVIOUS
<1>2. ASSUME NEW n \in 1..N, NEW st \in S PROVE P(st, n) \in S
  <2> DEFINE piece == pieces[n]
             flushed == Flush(st, overlap)
             slices == FixedSplit(piece, target, overlap)
             room == IF TotalTokens(st.buffer) + TokensOf(piece) > target
                     THEN flushed ELSE st
  <2>1. piece \in Extract /\ 1 <= piece[1] /\ piece[1] <= piece[2]
    BY <1>1
  <2>2. slices \in Seq(Chunk)
    <3> HIDE DEF piece
    <3>1. Covers(slices, piece[1] - 1, piece[2])
      BY <2>1, SlicesCoverPiece
    <3> QED
      BY <3>1 DEF Covers
  <2>3. flushed \in S
    <3>1. PICK k \in 1..(Len(st.buffer) + 1) :
            ApplyOverlap(st.buffer, overlap) = SubSeq(st.buffer, k, Len(st.buffer))
      BY OverlapIsSubSeq
    <3>2. SubSeq(st.buffer, k, Len(st.buffer)) \in Seq(Extract)
      OBVIOUS
    <3>3. Append(st.chunks, Joined(st.buffer)) \in Seq(Chunk)
      BY CountOfJoined
    <3> QED
      BY <3>1, <3>2, <3>3 DEF Flush
  <2> HIDE DEF flushed, slices, piece
  <2>4. room \in S
    BY <2>3
  <2>5. P(st, n) = IF TokensOf(piece) > target
                   THEN [chunks |-> flushed.chunks \o slices, buffer |-> flushed.buffer]
                   ELSE [chunks |-> room.chunks, buffer |-> Append(room.buffer, piece)]
    BY DEF Take, flushed, slices, piece
  <2> HIDE DEF room, P
  <2> QED
    BY <2>1, <2>2, <2>3, <2>4, <2>5
<1>3. /\ Within(S, G, N)
      /\ \A n \in 1..N, st \in S : G[n][st] = P(st, n)
  <2> HIDE DEF S, P, N
  <2> QED
    BY <1>2 DEF Within
<1>4. \E f : f = F(f)
  <2> HIDE DEF S, P, N, x, G
  <2>1. PICK f : IsLoop(f, x, S, G, N)
    BY <1>1, <1>3, LoopDefined
  <2>2. ASSUME NEW n \in 0..N PROVE f[n] = IF n = 0 THEN x ELSE P(f[n - 1], n)
    <3>1. CASE n = 0
      BY <2>1, <3>1 DEF IsLoop
    <3>2. CASE n \in 1..N
      <4>1. n - 1 \in 0..N
        BY <1>1, <3>2
      <4>2. f[n - 1] \in S /\ f[n] = G[n][f[n - 1]]
        BY <2>1, <3>2, <4>1 DEF IsLoop
      <4> QED
        BY <1>3, <3>2, <4>2
    <3> QED
      BY <1>1, <3>1, <3>2
  <2>3. f = F(f)
    BY <2>1, <2>2 DEF IsLoop
  <2> QED
    BY <2>3
<1>5. c = CHOOSE f : f = F(f)
  BY DEF Taken
<1>6. c = F(c)
  <2> HIDE DEF F
  <2> QED
    BY <1>4, <1>5
<1> QED
  <2> HIDE DEF P, x, N
  <2>1. \A n \in 0..N : c[n] = IF n = 0 THEN x ELSE P(c[n - 1], n)
    <3> HIDE DEF c
    <3> QED
      BY <1>6
  <2> HIDE DEF c
  <2>2. c[0] = x /\ \A n \in 1..N : c[n] = P(c[n - 1], n)
    BY <1>1, <2>1
  <2> QED
    BY <2>2 DEF P, x, N, c

\* What chunk_text returns: chunks that are not too long and cover the document.
LEMMA ChunksOfText ==
  ASSUME NEW t, TextOK(t), NEW target \in Nat, NEW overlap \in Nat, overlap < target
  PROVE  LET chunks == ChunkText(t, target, overlap)
         IN  ChunksOK(chunks, target, overlap) /\ Covers(chunks, 0, Before(t, Len(t)))
<1> DEFINE pieces == Pieces(t, target)
           N == Len(pieces)
           total == Before(t, Len(t))
           c == Taken(pieces, target, overlap)
           Reach(n) == IF n = 0 THEN 0 ELSE pieces[n][2]
           T == {n \in 0..N : ChunkInv(c[n], Reach(n), target, overlap)}
<1>1. Tiles(pieces, 0, total)
  BY PiecesTile
<1>2. pieces \in Seq(Extract) /\ total \in Nat /\ N \in Nat /\ DOMAIN pieces = 1..N
  BY <1>1 DEF Tiles
<1>3. \A n \in 1..N : pieces[n] \in Extract /\ pieces[n][1] \in Nat /\ pieces[n][2] \in Nat
  BY <1>2 DEF Extract
<1>4. /\ total = Reach(N)
      /\ \A n \in 1..N : pieces[n][1] = Reach(n - 1) + 1 /\ pieces[n][1] <= pieces[n][2]
  <2> HIDE DEF pieces
  <2>1. N = 0 <=> pieces = <<>>
    BY <1>2, EmptySeq
  <2>2. \A n \in 1..N : n = 1 <=> n - 1 = 0
    OBVIOUS
  <2> QED
    BY <1>1, <1>2, <2>1, <2>2 DEF Tiles
<1>5. \A n \in 0..N : Reach(n) \in Nat
  BY <1>3
<1>6. \A n \in 1..N : 1 <= pieces[n][1] /\ pieces[n][1] <= pieces[n][2]
  <2> SUFFICES ASSUME NEW n \in 1..N PROVE 1 <= pieces[n][1] /\ pieces[n][1] <= pieces[n][2]
    OBVIOUS
  <2>1. n - 1 \in 0..N
    BY <1>2
  <2> HIDE DEF Reach, pieces
  <2> QED
    BY <1>4, <1>5, <2>1
<1> HIDE DEF pieces
<1>7. /\ c[0] = [chunks |-> <<>>, buffer |-> <<>>]
      /\ \A n \in 1..N : c[n] = Take(c[n - 1], pieces[n], target, overlap)
  BY <1>2, <1>6, TakenDefined
<1> HIDE DEF c, N, total
<1>8. 0 \in T
  <2>1. c[0].chunks = <<>> /\ c[0].buffer = <<>> /\ DOMAIN <<>> = {} /\ Reach(0) = 0
    BY <1>7
  <2>2. ChunksOK(c[0].chunks, target, overlap)
    BY <2>1 DEF ChunksOK
  <2>3. Covers(c[0].chunks, 0, 0)
    BY <2>1, CoversNothing
  <2>4. Extracts(c[0].buffer) /\ TotalTokens(c[0].buffer) = 0 /\ TokensIn(c[0].buffer) = {}
    <3>1. c[0].buffer = <<>>
      BY <2>1
    <3>2. Extracts(c[0].buffer)
      BY <3>1, NoExtracts
    <3>3. TotalTokens(c[0].buffer) = TotalTokens(<<>>) /\ TokensIn(c[0].buffer) = TokensIn(<<>>)
      BY <3>1, Zenon
    <3> QED
      BY <3>2, <3>3, NoExtracts
  <2>5. 0 \in 0..0 /\ 1..0 \cup TokensIn(c[0].buffer) = 1..0
    BY <2>4
  <2>6. BufferOK(c[0].buffer, target, overlap)
    BY <2>4 DEF BufferOK
  <2>7. ChunkInv(c[0], 0, target, overlap)
    BY <2>2, <2>3, <2>4, <2>5, <2>6 DEF ChunkInv
  <2> QED
    BY <1>2, <2>1, <2>7
<1>9. ASSUME NEW n \in 0..(N - 1), n \in T PROVE n + 1 \in T
  <2>1. n + 1 \in 1..N /\ n + 1 \in 0..N /\ (n + 1) - 1 = n /\ Reach(n + 1) = pieces[n + 1][2]
    BY <1>2
  <2>2. c[n + 1] = Take(c[n], pieces[n + 1], target, overlap)
    BY <1>7, <2>1
  <2>3. /\ pieces[n + 1] \in Extract /\ pieces[n + 1][1] = Reach(n) + 1
        /\ pieces[n + 1][1] <= pieces[n + 1][2]
    <3> HIDE DEF Reach
    <3> QED
      BY <1>3, <1>4, <2>1
  <2>4. Reach(n) \in Nat /\ ChunkInv(c[n], Reach(n), target, overlap)
    BY <1>5, <1>9
  <2> HIDE DEF Reach
  <2>5. ChunkInv(c[n + 1], pieces[n + 1][2], target, overlap)
    <3>1. ChunkInv(Take(c[n], pieces[n + 1], target, overlap), pieces[n + 1][2], target, overlap)
      BY <2>3, <2>4, TakeKeepsInv
    <3> QED
      BY <2>2, <3>1
  <2> QED
    BY <2>1, <2>5
<1>10. 0..N \subseteq T
  <2> HIDE DEF T
  <2> QED
    BY <1>2, <1>8, <1>9, Counting
<1>11. ChunkInv(c[N], total, target, overlap)
  BY <1>2, <1>4, <1>10
<1>12. LET new == Flush(c[N], overlap)
       IN  ChunksOK(new.chunks, target, overlap) /\ Covers(new.chunks, 0, total)
  BY <1>2, <1>11, FlushCovers
<1>13. ChunkText(t, target, overlap) = Flush(c[N], overlap).chunks
  <2>1. ChunkText(t, target, overlap)
          = IF c[N].buffer = <<>> THEN c[N].chunks ELSE Append(c[N].chunks, Joined(c[N].buffer))
    BY DEF ChunkText, c, N, pieces
  <2> QED
    BY <2>1 DEF Flush
<1> QED
  BY <1>12, <1>13 DEF total

\* The number of the last token is the number of tokens.
LEMMA TokensCounted ==
  ASSUME NEW t, TextOK(t)
  PROVE  Tokens(t) = Before(t, Len(t)) /\ Tokens(t) \in Nat
<1>1. t \in Seq(Seq(Extract)) /\ Len(t) \in Nat /\ DOMAIN t = 1..Len(t)
  BY DEF TextOK
<1>2. CASE t = <<>>
  BY <1>2 DEF Tokens, Before
<1>3. CASE t # <<>>
  <2>1. Len(t) \in 1..Len(t)
    BY <1>1, <1>3, EmptySeq
  <2>2. Tiles(t[Len(t)], Before(t, Len(t) - 1), Before(t, Len(t)))
    BY <1>1, <2>1 DEF TextOK
  <2>3. Before(t, Len(t)) \in Nat
    BY <2>2 DEF Tiles
  <2> QED
    BY <1>3, <2>1, <2>3 DEF Tokens, Before, End
<1> QED
  BY <1>2, <1>3

LEMMA ChunksCover ==
  ASSUME TextOK(text)
  PROVE  ChunksCoverText
<1>1. Covers(Chunks, 0, Tokens(text))
  BY AlgorithmsAssumption, ChunksOfText, TokensCounted DEF Chunks
<1>2. \A n : TokensUpTo(n) = TokensOfFirst(Chunks, n)
  BY DEF TokensUpTo, TokensOfFirst
<1>3. \A n : 1..0 \cup TokensOfFirst(Chunks, n) = TokensOfFirst(Chunks, n)
  OBVIOUS
<1> QED
  BY <1>1, <1>2, <1>3 DEF Covers, ChunksCoverText

LEMMA ChunksBounded ==
  ASSUME TextOK(text)
  PROVE  ChunksAreBounded
<1>1. ChunksOK(Chunks, Target, Overlap)
  BY AlgorithmsAssumption, ChunksOfText DEF Chunks
<1>2. ASSUME NEW n \in DOMAIN Chunks
      PROVE  LET chunk == Chunks[n]
                 total == TotalTokens(chunk.pieces)
             IN  /\ total \in 1..(Target + Overlap)
                 /\ chunk.tokens <= IF total <= Target
                                     THEN 2 * Target - 1
                                     ELSE Target + 2 * Overlap
                 /\ \A k \in DOMAIN chunk.pieces :
                      /\ chunk.pieces[k][1] <= chunk.pieces[k][2]
                      /\ k > 1 => chunk.pieces[k - 1][2] < chunk.pieces[k][1]
  <2> DEFINE chunk == Chunks[n]
             pieces == chunk.pieces
  <2>1. ChunkOK(chunk, Target, Overlap)
    BY <1>1 DEF ChunksOK
  <2> HIDE DEF chunk
  <2>2. /\ Extracts(pieces) /\ pieces # <<>> /\ TotalTokens(pieces) <= Target + Overlap
        /\ chunk.tokens <= IF TotalTokens(pieces) <= Target
                            THEN 2 * Target - 1
                            ELSE Target + 2 * Overlap
    BY <2>1 DEF ChunkOK
  <2> HIDE DEF pieces
  <2>3. Len(pieces) \in Nat /\ Len(pieces) >= 1
    BY <2>2, EmptySeq DEF Extracts
  <2>4. TotalTokens(pieces) \in Int /\ TotalTokens(pieces) >= Len(pieces)
    BY <2>2, TotalAtLeastLen
  <2>5. TotalTokens(pieces) \in 1..(Target + Overlap)
    BY <2>2, <2>3, <2>4, AlgorithmsAssumption
  <2> QED
    BY <2>2, <2>5 DEF Extracts, pieces, chunk
<1> QED
  BY <1>2 DEF ChunksAreBounded

LEMMA LimitIsExact ==
  ASSUME arrivals \in Seq(Nat), Ordered(arrivals)
  PROVE  RefusedExactlyAtLimit
<1>1. DOMAIN arrivals = 1..Len(arrivals)
  OBVIOUS
<1> QED
  BY <1>1, AlgorithmsAssumption, AcceptedCounts DEF RefusedExactlyAtLimit

-----------------------------------------------------------------------------
(* The inputs that the steps build, of any length, are proper inputs.      *)

InputsOK ==
  /\ body \in Seq(Letters)
  /\ TextOK(text)
  /\ arrivals \in Seq(Nat) /\ Ordered(arrivals)

\* A sentence more at the end of the paragraph before token b: the tiling goes on.
LEMMA NextSentenceTiles ==
  ASSUME TextOK(text), NEW n \in 1..MaxSentence
  PROVE  /\ Tiles(<<Sentence(n)>>, Tokens(text), Tokens(text) + n)
         /\ Tokens(text) \in Nat /\ Tokens(text) + n \in Nat
<1>1. MaxSentence \in Nat /\ n \in Nat \ {0} /\ Tokens(text) \in Nat
  BY AlgorithmsAssumption, TokensCounted
<1> DEFINE e == Sentence(n)
<1>2. e \in Extract /\ e[1] = Tokens(text) + 1 /\ e[2] = Tokens(text) + n /\ e[1] <= e[2]
  BY <1>1 DEF Sentence, Extract
<1> HIDE DEF e
<1>3. Tiles(<<e>>, Tokens(text), e[2])
  BY <1>1, <1>2, TilesOne
<1> QED
  BY <1>1, <1>2, <1>3 DEF e

LEMMA InitInputs == Init => InputsOK
<1> SUFFICES ASSUME Init PROVE InputsOK
  OBVIOUS
<1>1. body = <<>> /\ text = <<>> /\ arrivals = <<>> /\ DOMAIN <<>> = {}
  BY DEF Init
<1> QED
  BY <1>1 DEF InputsOK, TextOK, Ordered

LEMMA WriteInputs == InputsOK /\ Write => InputsOK'
<1> SUFFICES ASSUME InputsOK, Write PROVE InputsOK'
  OBVIOUS
<1>1. PICK c \in Letters : body' = Append(body, c)
  BY DEF Write, Letters
<1>2. body' \in Seq(Letters)
  BY <1>1 DEF InputsOK
<1> QED
  BY <1>2 DEF InputsOK, Write, TextOK, Tiles, Before, End, Ordered

LEMMA NewParagraphInputs == InputsOK /\ NewParagraph => InputsOK'
<1> SUFFICES ASSUME InputsOK, NewParagraph PROVE InputsOK'
  OBVIOUS
<1> DEFINE N == Len(text)
<1>1. PICK n \in 1..MaxSentence : text' = Append(text, <<Sentence(n)>>)
  BY DEF NewParagraph
<1>2. TextOK(text) /\ text \in Seq(Seq(Extract)) /\ N \in Nat
  BY DEF InputsOK, TextOK
<1>3. Tiles(<<Sentence(n)>>, Tokens(text), Tokens(text) + n)
  BY <1>2, NextSentenceTiles
<1> DEFINE t == Append(text, <<Sentence(n)>>)
<1>4. /\ t \in Seq(Seq(Extract)) /\ DOMAIN text = 1..N /\ DOMAIN t = 1..(N + 1)
      /\ \A p \in 1..N : t[p] = text[p]
      /\ t[N + 1] = <<Sentence(n)>>
  <2>1. <<Sentence(n)>> \in Seq(Extract)
    BY <1>3 DEF Tiles
  <2> QED
    BY <1>2, <2>1
<1> HIDE DEF t, N
<1>5. \A p \in 0..N : Before(t, p) = Before(text, p)
  BY <1>2, <1>4 DEF Before
<1>6. Before(text, N) = Tokens(text) /\ Before(t, N + 1) = Tokens(text) + n
  <2>1. End(<<Sentence(n)>>) = Tokens(text) + n
    BY <1>3 DEF End, Tiles
  <2>2. N + 1 # 0
    BY <1>2
  <2> QED
    BY <1>2, <1>4, <2>1, <2>2, TokensCounted DEF Before, N
<1>7. ASSUME NEW p \in 1..(N + 1)
      PROVE  t[p] # <<>> /\ Tiles(t[p], Before(t, p - 1), Before(t, p))
  <2>1. CASE p \in 1..N
    <3>1. p - 1 \in 0..N /\ p \in 0..N
      BY <1>2, <2>1
    <3>2. text[p] # <<>> /\ Tiles(text[p], Before(text, p - 1), Before(text, p))
      BY <1>2, <1>4, <2>1 DEF TextOK
    <3> QED
      BY <1>4, <1>5, <2>1, <3>1, <3>2
  <2>2. CASE p = N + 1
    <3>1. p - 1 = N /\ N \in 0..N
      BY <1>2, <2>2
    <3>2. Before(t, p - 1) = Tokens(text) /\ Before(t, p) = Tokens(text) + n
      BY <1>5, <1>6, <2>2, <3>1
    <3>3. <<Sentence(n)>> # <<>>
      OBVIOUS
    <3> QED
      BY <1>3, <1>4, <2>2, <3>2, <3>3, Zenon
  <2>3. p \in 1..N \/ p = N + 1
    BY <1>2
  <2> QED
    BY <2>1, <2>2, <2>3, Zenon
<1>8. TextOK(t)
  BY <1>4, <1>7 DEF TextOK
<1>9. text' = t
  BY <1>1 DEF t
<1>10. TextOK(text)'
  <2> DEFINE OK(x) == TextOK(x)
  <2>1. TextOK(text)' <=> OK(text')
    BY DEF TextOK, Tiles, Before, End
  <2> QED
    BY <1>8, <1>9, <2>1
<1> QED
  BY <1>10 DEF InputsOK, NewParagraph, Ordered

LEMMA NewSentenceInputs == InputsOK /\ NewSentence => InputsOK'
<1> SUFFICES ASSUME InputsOK, NewSentence PROVE InputsOK'
  OBVIOUS
<1> DEFINE N == Len(text)
<1>1. PICK n \in 1..MaxSentence :
        text' = [text EXCEPT ![Len(text)] = Append(@, Sentence(n))]
  BY DEF NewSentence
<1>2. TextOK(text) /\ text \in Seq(Seq(Extract)) /\ N \in Nat /\ DOMAIN text = 1..N
  BY DEF InputsOK, TextOK
<1>3. /\ Tiles(<<Sentence(n)>>, Tokens(text), Tokens(text) + n)
      /\ Sentence(n) \in Extract
  <2>1. Tiles(<<Sentence(n)>>, Tokens(text), Tokens(text) + n)
    BY <1>2, NextSentenceTiles
  <2> QED
    BY <1>2, <2>1, TokensCounted, AlgorithmsAssumption DEF Sentence, Extract
<1>4. N \in 1..N
  BY <1>2, EmptySeq DEF NewSentence
<1>5. text[N] # <<>> /\ Tiles(text[N], Before(text, N - 1), Before(text, N))
  BY <1>2, <1>4 DEF TextOK
<1>6. Before(text, N) = Tokens(text)
  BY <1>2, TokensCounted
<1> DEFINE new == Append(text[N], Sentence(n))
           t == [text EXCEPT ![N] = new]
<1>7. new \in Seq(Extract) /\ new # <<>> /\ Tiles(new, Before(text, N - 1), Tokens(text) + n)
  <2>1. text[N] \in Seq(Extract)
    BY <1>5 DEF Tiles
  <2>2. new = text[N] \o <<Sentence(n)>>
    BY <1>3, <2>1, AppendIsConcat
  <2>3. Tiles(text[N] \o <<Sentence(n)>>, Before(text, N - 1), Tokens(text) + n)
    BY <1>3, <1>5, <1>6, TilesConcat
  <2>4. new # <<>> /\ new \in Seq(Extract)
    BY <1>3, <2>1
  <2> QED
    BY <2>2, <2>3, <2>4
<1>8. text' = t
  BY <1>1
<1> HIDE DEF new, N
<1>9. /\ t \in Seq(Seq(Extract)) /\ DOMAIN t = 1..N
      /\ \A p \in 1..(N - 1) : t[p] = text[p]
      /\ t[N] = new
  <2>1. t \in [1..N -> Seq(Extract)]
    BY <1>2, <1>7, LenProperties DEF N
  <2>2. t \in Seq(Seq(Extract))
    BY <1>2, <2>1 
  <2> QED
    BY <1>2, <1>4, <2>1, <2>2
<1> HIDE DEF t
<1>10. \A p \in 0..(N - 1) : Before(t, p) = Before(text, p)
  BY <1>2, <1>9 DEF Before
<1>11. Before(t, N) = Tokens(text) + n
  <2>1. End(new) = Tokens(text) + n
    BY <1>7 DEF End, Tiles
  <2> QED
    BY <1>4, <1>9, <2>1 DEF Before
<1>12. ASSUME NEW p \in 1..N
       PROVE  t[p] # <<>> /\ Tiles(t[p], Before(t, p - 1), Before(t, p))
  <2>1. CASE p \in 1..(N - 1)
    <3>1. p - 1 \in 0..(N - 1) /\ p \in 0..(N - 1)
      BY <1>2, <2>1
    <3>2. text[p] # <<>> /\ Tiles(text[p], Before(text, p - 1), Before(text, p))
      BY <1>2 DEF TextOK
    <3> QED
      BY <1>9, <1>10, <2>1, <3>1, <3>2
  <2>2. CASE p = N
    <3>1. N - 1 \in 0..(N - 1)
      BY <1>4
    <3> QED
      BY <1>7, <1>9, <1>10, <1>11, <2>2, <3>1
  <2>3. p \in 1..(N - 1) \/ p = N
    BY <1>2
  <2> QED
    BY <2>1, <2>2, <2>3, Zenon
<1>13. TextOK(t)
  BY <1>9, <1>12 DEF TextOK
<1>14. TextOK(text)'
  BY <1>8, <1>13 DEF TextOK, Tiles, Before, End
<1> QED
  BY <1>14 DEF InputsOK, NewSentence, Ordered

LEMMA ArriveInputs == InputsOK /\ Arrive => InputsOK'
<1> SUFFICES ASSUME InputsOK, Arrive PROVE InputsOK'
  OBVIOUS
<1> DEFINE N == Len(arrivals)
<1>1. PICK now \in 0..MaxTime :
        /\ arrivals # <<>> => now >= arrivals[Len(arrivals)]
        /\ arrivals' = Append(arrivals, now)
  BY DEF Arrive
<1>2. /\ arrivals \in Seq(Nat) /\ Ordered(arrivals) /\ now \in Nat /\ N \in Nat
      /\ DOMAIN arrivals = 1..N /\ (arrivals # <<>> => N \in 1..N)
  BY AlgorithmsAssumption, EmptySeq DEF InputsOK
<1> DEFINE a == Append(arrivals, now)
<1>3. /\ a \in Seq(Nat) /\ DOMAIN a = 1..(N + 1) /\ a[N + 1] = now
      /\ \A k \in 1..N : a[k] = arrivals[k]
  BY <1>2
<1>4. \A k \in 1..N : arrivals[k] <= now
  <2> SUFFICES ASSUME NEW k \in 1..N PROVE arrivals[k] <= now
    OBVIOUS
  <2>1. N \in 1..N /\ k <= N
    BY <1>2
  <2>2. arrivals[k] <= arrivals[N] /\ arrivals[N] <= now
    BY <1>1, <1>2, <2>1 DEF Ordered
  <2> QED
    BY <1>2, <2>1, <2>2
<1> HIDE DEF a, N
<1>5. Ordered(a)
  <2> SUFFICES ASSUME NEW j \in 1..(N + 1), NEW k \in 1..(N + 1), j <= k
               PROVE  a[j] <= a[k]
    BY <1>3 DEF Ordered
  <2>1. CASE k \in 1..N
    <3>1. j \in 1..N
      BY <1>2, <2>1
    <3> QED
      BY <1>2, <1>3, <2>1, <3>1 DEF Ordered
  <2>2. CASE k = N + 1 /\ j \in 1..N
    BY <1>3, <1>4, <2>2
  <2>3. CASE k = N + 1 /\ j = N + 1
    BY <1>2, <1>3, <2>3
  <2>4. k \in 1..N \/ (k = N + 1 /\ j \in 1..N) \/ (k = N + 1 /\ j = N + 1)
    BY <1>2
  <2> QED
    BY <2>1, <2>2, <2>3, <2>4, Zenon
<1>6. arrivals' \in Seq(Nat) /\ Ordered(arrivals)'
  BY <1>1, <1>3, <1>5 DEF a, Ordered
<1> QED
  BY <1>6 DEF InputsOK, Arrive, TextOK, Tiles, Before, End

LEMMA NextInputs == InputsOK /\ [Next]_vars => InputsOK'
<1> SUFFICES ASSUME InputsOK, [Next]_vars PROVE InputsOK'
  OBVIOUS
<1>1. CASE UNCHANGED vars
  BY <1>1 DEF vars, InputsOK, TextOK, Tiles, Before, End, Ordered
<1> QED
  BY <1>1, WriteInputs, NewParagraphInputs, NewSentenceInputs, ArriveInputs DEF Next

-----------------------------------------------------------------------------
THEOREM Inputs == Spec => []InputsOK
<1>1. Init => InputsOK
  BY InitInputs
<1>2. InputsOK /\ [Next]_vars => InputsOK'
  BY NextInputs
<1> QED
  BY <1>1, <1>2, PTL DEF Spec

\* The parts that split_message_body makes of a reply of any length are in order, fit into a
\* message each, and leave out nothing but blanks.
THEOREM NoTextIsLost == Spec => []OnlyBlanksAreLost
<1>1. InputsOK => OnlyBlanksAreLost
  BY SplitLosesBlanksOnly, AlgorithmsAssumption DEF InputsOK
<1> QED
  BY <1>1, Inputs, PTL

\* split_message_body cuts a word only where the word fills the message, or behind the blanks
\* with which a reply begins.
THEOREM NoWordIsCut == Spec => []OnlyLongWordsAreCut
<1>1. InputsOK => OnlyLongWordsAreCut
  BY SplitCutsLongWords, AlgorithmsAssumption DEF InputsOK
<1> QED
  BY <1>1, Inputs, PTL

\* The chunks that chunk_text makes of a document of any length cover it without a gap.
THEOREM NoGapInChunks == Spec => []ChunksCoverText
<1>1. InputsOK => ChunksCoverText
  BY ChunksCover DEF InputsOK
<1> QED
  BY <1>1, Inputs, PTL

\* No chunk of chunk_text is empty or repeats a token; counted with its blank lines, as it is
\* embedded and stored, it has less than twice the target, or no more than the target and twice
\* the overlap.
THEOREM NoChunkIsTooLong == Spec => []ChunksAreBounded
<1>1. InputsOK => ChunksAreBounded
  BY ChunksBounded DEF InputsOK
<1> QED
  BY <1>1, Inputs, PTL

\* check_rate_limit refuses a request exactly when the limit of accepted requests is reached
\* within the window before it, whatever it has forgotten of the older ones.
THEOREM LimitIsEnforced == Spec => []RefusedExactlyAtLimit
<1>1. InputsOK => RefusedExactlyAtLimit
  BY LimitIsExact DEF InputsOK
<1> QED
  BY <1>1, Inputs, PTL
=============================================================================
