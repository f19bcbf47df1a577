---------------------------- MODULE SequenceFacts ----------------------------
(***************************************************************************)
(* Lemmas about sequences that several proofs need.  Those about recursive *)
(* functions rest on two facts: every nonempty set of natural numbers has  *)
(* a least element, so a set of them that holds 0 and all successors is    *)
(* Nat; and so a function defined by recursion over 0 .. n exists.         *)
(***************************************************************************)
EXTENDS Filters, SequencesExt, FunctionTheorems, SequenceTheorems, WellFoundedInduction, TLAPS

Less == {p \in Nat \X Nat : p[1] < p[2]}

\* Natural numbers do not descend for ever.
LEMMA LessIsWellFounded == IsWellFoundedOn(Less, Nat)
  BY NatLessThanWellFounded DEF OpToRel, Less

\* Every nonempty set of natural numbers has a least element.
LEMMA LeastElement ==
  ASSUME NEW T, T \subseteq Nat, T # {}
  PROVE  \E n \in T : \A m \in T : n <= m
<1>1. PICK n \in T : \A m \in T : <<m, n>> \notin Less
  BY LessIsWellFounded, WFMin
<1>2. \A m \in T : m < n => <<m, n>> \in Less
  BY DEF Less
<1>3. ASSUME NEW m \in T PROVE n <= m
  <2>1. m \in Nat /\ n \in Nat
    OBVIOUS
  <2>2. ~(m < n)
    BY <1>1, <1>2
  <2> QED
    BY <2>1, <2>2
<1> QED
  BY <1>3

\* Induction over the natural numbers, for a set in place of a predicate.
LEMMA SetInduction ==
  ASSUME NEW S, S \subseteq Nat, 0 \in S, \A n \in S : n + 1 \in S
  PROVE  S = Nat
<1> SUFFICES ASSUME S # Nat PROVE FALSE
  OBVIOUS
<1>1. PICK n \in Nat \ S : \A m \in Nat \ S : n <= m
  BY LeastElement
<1>2. n # 0 /\ n - 1 \in Nat /\ n - 1 \notin Nat \ S
  BY <1>1
<1> QED
  BY <1>1, <1>2

\* Induction up to a bound.
LEMMA BoundedInduction ==
  ASSUME NEW N \in Nat, NEW S, 0 \in S,
         \A n \in 0 .. N - 1 : n \in S => n + 1 \in S
  PROVE  \A n \in 0 .. N : n \in S
<1> DEFINE T == {n \in Nat : n <= N => n \in S}
<1>1. 0 \in T
  OBVIOUS
<1>2. ASSUME NEW n \in T PROVE n + 1 \in T
  BY <1>2
<1>3. T = Nat
  <2> HIDE DEF T
  <2>1. T \subseteq Nat
    BY DEF T
  <2> QED
    BY <1>1, <1>2, <2>1, SetInduction
<1> QED
  BY <1>3

Stepping(N, S) == [(1 .. N) \X S -> S]

\* The functions that are base at 0 and go on as step says.
Recursions(N, S, base, step) ==
    {f \in [0 .. N -> S] :
        /\ f[0] = base
        /\ \A k \in 1 .. N : f[k] = step[<<k, f[k - 1]>>]}

\* A function defined by recursion over 0 .. N exists.
LEMMA RecursionExists ==
  ASSUME NEW N \in Nat, NEW S, NEW base \in S, NEW step \in Stepping(N, S)
  PROVE  Recursions(N, S, base, step) # {}
<1> USE DEF Recursions
<1> DEFINE T == {n \in 0 .. N : Recursions(n, S, base, step) # {}}
<1>1. 0 \in T
  <2>1. [k \in 0 .. 0 |-> base] \in Recursions(0, S, base, step)
    OBVIOUS
  <2> QED
    BY <2>1
<1>2. ASSUME NEW n \in 0 .. N - 1, n \in T
      PROVE  n + 1 \in T
  <2>1. PICK f \in Recursions(n, S, base, step) : TRUE
    BY <1>2
  <2>2. /\ f \in [0 .. n -> S] /\ f[0] = base
        /\ \A k \in 1 .. n : f[k] = step[<<k, f[k - 1]>>]
    BY <2>1
  <2> DEFINE g == [k \in 0 .. n + 1 |-> IF k = n + 1 THEN step[<<n + 1, f[n]>>] ELSE f[k]]
  <2>3. <<n + 1, f[n]>> \in (1 .. N) \X S
    BY <2>2
  <2>4. g \in [0 .. n + 1 -> S]
    BY <2>2, <2>3 DEF Stepping
  <2>5. g[0] = base
    BY <2>2
  <2>6. ASSUME NEW k \in 1 .. n + 1
        PROVE  g[k] = step[<<k, g[k - 1]>>]
    <3>1. CASE k = n + 1
      <4>1. k - 1 = n /\ n # n + 1 /\ n \in 0 .. n + 1
        BY <3>1
      <4>2. g[k] = step[<<k, f[n]>>] /\ g[n] = f[n]
        BY <3>1, <4>1
      <4> HIDE DEF g
      <4> QED
        BY <4>1, <4>2
    <3>2. CASE k \in 1 .. n
      BY <3>2, <2>2
    <3> QED
      BY <3>1, <3>2
  <2> HIDE DEF g
  <2>7. g \in Recursions(n + 1, S, base, step)
    BY <2>4, <2>5, <2>6
  <2> QED
    BY <2>7
<1>3. N \in T
  <2> HIDE DEF T
  <2> QED
    BY <1>1, <1>2, BoundedInduction
<1> QED
  BY <1>3


-----------------------------------------------------------------------------
(* Filters *)

\* g is what Filter computes step by step.
FilterSteps(g, s, kept) ==
    /\ Filter(s, kept) = g[Len(s)]
    /\ g[0] = <<>>
    /\ \A n \in 1 .. Len(s) :
          g[n] = IF s[n] \in kept THEN Append(g[n - 1], s[n]) ELSE g[n - 1]

\* Filter is computed by the recursion that defines it.
LEMMA FilterRecursion ==
  ASSUME NEW S, NEW s \in Seq(S), NEW kept
  PROVE  \E g : FilterSteps(g, s, kept)
<1> DEFINE N == Len(s)
           next(n, before) == IF s[n] \in kept THEN Append(before, s[n]) ELSE before
           step == [p \in (1 .. N) \X Seq(S) |-> next(p[1], p[2])]
<1>1. N \in Nat /\ \A n \in 1 .. N : s[n] \in S
  OBVIOUS
<1>2. step \in [(1 .. N) \X Seq(S) -> Seq(S)]
  BY <1>1
<1>3. PICK f : f \in Recursions(N, Seq(S), <<>>, step)
  <2>1. <<>> \in Seq(S) /\ step \in Stepping(N, Seq(S))
    BY <1>2 DEF Stepping
  <2> HIDE DEF step, N
  <2> QED
    BY <1>1, <2>1, RecursionExists
<1>4. /\ f \in [0 .. N -> Seq(S)]
      /\ f[0] = <<>>
      /\ \A n \in 1 .. N : f[n] = step[<<n, f[n - 1]>>]
  BY <1>3 DEF Recursions
<1>5. \A n \in 1 .. N : f[n] = next(n, f[n - 1])
  <2> SUFFICES ASSUME NEW n \in 1 .. N PROVE f[n] = next(n, f[n - 1])
    OBVIOUS
  <2> HIDE DEF N, next
  <2>1. n - 1 \in 0 .. N
    BY <1>1
  <2>2. <<n, f[n - 1]>> \in (1 .. N) \X Seq(S)
    BY <1>4, <2>1
  <2> QED
    BY <1>4, <2>2
<1> DEFINE isMeant(h) == h = [n \in 0 .. N |-> IF n = 0 THEN <<>> ELSE next(n, h[n - 1])]
           g == CHOOSE h : isMeant(h)
<1>6. isMeant(f)
  <2> HIDE DEF N, next
  <2> QED
    BY <1>1, <1>4, <1>5
<1>7. g = [n \in 0 .. N |-> IF n = 0 THEN <<>> ELSE next(n, g[n - 1])]
  <2>1. isMeant(g)
    <3> HIDE DEF isMeant
    <3> QED
      BY <1>6
  <2> QED
    BY <2>1
<1>8. Filter(s, kept) = g[N]
  <2>1. Among(s, kept) = g[N]
    BY DEF Among
  <2>2. Filter(s, kept) = Among(s, kept)
    BY DEF Filter
  <2> QED
    BY <2>1, <2>2
<1> HIDE DEF g
<1>9. g[0] = <<>> /\ \A n \in 1 .. N : g[n] = next(n, g[n - 1])
  <2> HIDE DEF N, next
  <2> QED
    BY <1>1, <1>7
<1>10. FilterSteps(g, s, kept)
  BY <1>8, <1>9 DEF FilterSteps
<1> QED
  BY <1>10

\* t has the elements of the first n of s that are in a set, and no others.
Keeps(t, s, n, S, kept) ==
    /\ t \in Seq(S \cap kept) /\ Len(t) <= n
    /\ \A x : (\E k \in DOMAIN t : t[k] = x) <=> (x \in kept /\ \E i \in 1 .. n : s[i] = x)

\* What is kept after n elements is what is to be kept of them.
LEMMA FilterStepKeeps ==
  ASSUME NEW S, NEW s \in Seq(S), NEW kept, NEW g, FilterSteps(g, s, kept)
  PROVE  \A n \in 0 .. Len(s) : Keeps(g[n], s, n, S, kept)
<1> USE DEF Keeps
<1> DEFINE T == {n \in 0 .. Len(s) : Keeps(g[n], s, n, S, kept)}
<1>1. /\ Len(s) \in Nat /\ \A n \in 1 .. Len(s) : s[n] \in S
      /\ g[0] = <<>>
      /\ \A n \in 1 .. Len(s) : g[n] = IF s[n] \in kept THEN Append(g[n - 1], s[n]) ELSE g[n - 1]
  BY DEF FilterSteps
<1>2. 0 \in T
  <2>1. <<>> \in Seq(S \cap kept) /\ DOMAIN <<>> = {} /\ 1 .. 0 = {} /\ 0 \in 0 .. Len(s)
    BY <1>1
  <2>2. Keeps(g[0], s, 0, S, kept)
    BY <1>1, <2>1
  <2> HIDE DEF Keeps
  <2> QED
    BY <2>1, <2>2
<1>3. ASSUME NEW n \in 0 .. Len(s) - 1, n \in T
      PROVE  n + 1 \in T
  <2>1. n + 1 \in 1 .. Len(s) /\ (n + 1) - 1 = n /\ s[n + 1] \in S
    BY <1>1
  <2>2. g[n + 1] = IF s[n + 1] \in kept THEN Append(g[n], s[n + 1]) ELSE g[n]
    <3>1. g[n + 1] = IF s[n + 1] \in kept THEN Append(g[(n + 1) - 1], s[n + 1]) ELSE g[(n + 1) - 1]
      BY <1>1, <2>1
    <3> QED
      BY <2>1, <3>1
  <2>3. Keeps(g[n], s, n, S, kept)
    BY <1>3
  <2>4. \A x : (\E i \in 1 .. n + 1 : s[i] = x) <=> (x = s[n + 1] \/ \E i \in 1 .. n : s[i] = x)
    <3> SUFFICES ASSUME NEW x
                 PROVE  (\E i \in 1 .. n + 1 : s[i] = x) <=> (x = s[n + 1] \/ \E i \in 1 .. n : s[i] = x)
      OBVIOUS
    <3>1. 1 .. n + 1 = (1 .. n) \cup {n + 1}
      BY <2>1
    <3> QED
      BY <3>1
  <2>5. CASE s[n + 1] \in kept
    <3>1. g[n + 1] = Append(g[n], s[n + 1]) /\ s[n + 1] \in S \cap kept
      BY <2>1, <2>2, <2>5
    <3>2. /\ g[n + 1] \in Seq(S \cap kept) /\ Len(g[n]) \in Nat
          /\ DOMAIN g[n] = 1 .. Len(g[n]) /\ DOMAIN g[n + 1] = 1 .. Len(g[n]) + 1
          /\ \A k \in 1 .. Len(g[n]) : g[n + 1][k] = g[n][k]
          /\ g[n + 1][Len(g[n]) + 1] = s[n + 1]
      BY <2>3, <3>1
    <3>3. \A x : (\E k \in DOMAIN g[n + 1] : g[n + 1][k] = x)
                    <=> (x = s[n + 1] \/ \E k \in DOMAIN g[n] : g[n][k] = x)
      <4>1. DOMAIN g[n + 1] = DOMAIN g[n] \cup {Len(g[n]) + 1}
        BY <3>2
      <4> QED
        BY <3>2, <4>1
    <3>4. \A x : (\E k \in DOMAIN g[n + 1] : g[n + 1][k] = x)
                    <=> (x \in kept /\ \E i \in 1 .. n + 1 : s[i] = x)
      BY <2>3, <2>4, <2>5, <3>3
    <3>5. Len(g[n + 1]) <= n + 1
      BY <2>1, <2>3, <3>2
    <3>6. Keeps(g[n + 1], s, n + 1, S, kept)
      BY <3>2, <3>4, <3>5
    <3> HIDE DEF Keeps
    <3> QED
      BY <2>1, <3>6
  <2>6. CASE s[n + 1] \notin kept
    <3>1. g[n + 1] = g[n]
      BY <2>2, <2>6
    <3>2. g[n + 1] \in Seq(S \cap kept)
      BY <2>3, <3>1
    <3>3. Len(g[n + 1]) <= n + 1
      <4>1. Len(g[n]) <= n /\ Len(g[n]) \in Nat /\ n \in Nat
        BY <2>3
      <4> QED
        BY <3>1, <4>1
    <3>4. \A x : (\E k \in DOMAIN g[n + 1] : g[n + 1][k] = x)
                    <=> (x \in kept /\ \E i \in 1 .. n + 1 : s[i] = x)
      BY <2>3, <2>4, <2>6, <3>1
    <3>5. Keeps(g[n + 1], s, n + 1, S, kept)
      BY <3>2, <3>3, <3>4
    <3> HIDE DEF Keeps
    <3> QED
      BY <2>1, <3>5
  <2> QED
    BY <2>5, <2>6
<1>4. \A n \in 0 .. Len(s) : n \in T
  <2> HIDE DEF T
  <2> QED
    BY <1>1, <1>2, <1>3, BoundedInduction
<1> QED
  BY <1>4

\* A filter keeps what is in the set, and nothing else.
LEMMA FilterElements ==
  ASSUME NEW S, NEW s \in Seq(S), NEW kept
  PROVE  /\ Filter(s, kept) \in Seq(S \cap kept)
         /\ Len(Filter(s, kept)) <= Len(s)
         /\ Range(Filter(s, kept)) = Range(s) \cap kept
<1> DEFINE f == Filter(s, kept)
<1>1. /\ f \in Seq(S \cap kept) /\ Len(f) <= Len(s)
      /\ \A x : (\E k \in DOMAIN f : f[k] = x) <=> (x \in kept /\ \E i \in 1 .. Len(s) : s[i] = x)
  <2>1. Len(s) \in 0 .. Len(s)
    OBVIOUS
  <2>2. Keeps(f, s, Len(s), S, kept)
    <3>1. PICK g : FilterSteps(g, s, kept)
      BY FilterRecursion
    <3>2. Keeps(g[Len(s)], s, Len(s), S, kept)
      BY <2>1, <3>1, FilterStepKeeps
    <3>3. f = g[Len(s)]
      BY <3>1 DEF FilterSteps
    <3> QED
      BY <3>2, <3>3
  <2> QED
    BY <2>2 DEF Keeps
<1> HIDE DEF f
<1>2. DOMAIN s = 1 .. Len(s)
  OBVIOUS
<1>3. Range(f) = Range(s) \cap kept
  BY <1>1, <1>2 DEF Range
<1> QED
  BY <1>1, <1>3 DEF f

\* t starts with the first n elements of s.
StartsWith(t, s, n) == n <= Len(t) /\ \A k \in 1 .. n : t[k] = s[k]

\* A filter begins with what comes before the first element left out.
LEMMA FilterBegins ==
  ASSUME NEW S, NEW s \in Seq(S), NEW kept, NEW L \in 0 .. Len(s), \A k \in 1 .. L : s[k] \in kept
  PROVE  StartsWith(Filter(s, kept), s, L)
<1>1. PICK g : FilterSteps(g, s, kept)
  BY FilterRecursion
<1> DEFINE Good(n) == IF n <= L THEN Len(g[n]) = n /\ StartsWith(g[n], s, n)
                      ELSE StartsWith(g[n], s, L)
           T == {n \in 0 .. Len(s) : Good(n)}
<1>2. /\ Len(s) \in Nat /\ L \in Nat /\ \A n \in 1 .. Len(s) : s[n] \in S
      /\ g[0] = <<>>
      /\ \A n \in 1 .. Len(s) : g[n] = IF s[n] \in kept THEN Append(g[n - 1], s[n]) ELSE g[n - 1]
      /\ Filter(s, kept) = g[Len(s)]
  BY <1>1 DEF FilterSteps
<1>3. \A n \in 0 .. Len(s) : g[n] \in Seq(S)
  <2>1. \A n \in 0 .. Len(s) : Keeps(g[n], s, n, S, kept)
    BY <1>1, FilterStepKeeps
  <2> QED
    BY <2>1 DEF Keeps
<1>4. 0 \in T
  <2>1. Len(g[0]) = 0
    BY <1>2
  <2> QED
    BY <1>2, <2>1 DEF StartsWith
<1>5. ASSUME NEW n \in 0 .. Len(s) - 1, n \in T
      PROVE  n + 1 \in T
  <2>1. n + 1 \in 1 .. Len(s) /\ n + 1 \in 0 .. Len(s) /\ (n + 1) - 1 = n /\ n \in Nat
    BY <1>2
  <2>2. g[n + 1] = IF s[n + 1] \in kept THEN Append(g[n], s[n + 1]) ELSE g[n]
    <3>1. g[n + 1] = IF s[n + 1] \in kept THEN Append(g[(n + 1) - 1], s[n + 1]) ELSE g[(n + 1) - 1]
      BY <1>2, <2>1
    <3> QED
      BY <2>1, <3>1
  <2>3. Good(n)
    BY <1>5
  <2>4. /\ g[n] \in Seq(S) /\ s[n + 1] \in S
    BY <1>2, <1>3, <2>1
  <2>5. /\ Len(g[n]) \in Nat
        /\ Len(Append(g[n], s[n + 1])) = Len(g[n]) + 1
        /\ \A k \in 1 .. Len(g[n]) : Append(g[n], s[n + 1])[k] = g[n][k]
        /\ Append(g[n], s[n + 1])[Len(g[n]) + 1] = s[n + 1]
    BY <2>4
  <2>6. CASE n + 1 <= L
    <3>1. Len(g[n]) = n /\ \A k \in 1 .. n : g[n][k] = s[k]
      BY <1>2, <2>1, <2>3, <2>6 DEF StartsWith
    <3>2. s[n + 1] \in kept
      BY <1>2, <2>1, <2>6
    <3>3. g[n + 1] = Append(g[n], s[n + 1])
      BY <2>2, <3>2
    <3>4. Len(g[n + 1]) = n + 1 /\ \A k \in 1 .. n + 1 : g[n + 1][k] = s[k]
      BY <2>1, <2>5, <3>1, <3>3
    <3> QED
      BY <2>1, <2>6, <3>4 DEF StartsWith
  <2>7. CASE ~(n + 1 <= L)
    <3>1. L <= Len(g[n]) /\ \A k \in 1 .. L : g[n][k] = s[k]
      BY <1>2, <2>1, <2>3, <2>7 DEF StartsWith
    <3>2. StartsWith(g[n + 1], s, L)
      <4>1. CASE g[n + 1] = g[n]
        BY <3>1, <4>1 DEF StartsWith
      <4>2. CASE g[n + 1] = Append(g[n], s[n + 1])
        BY <1>2, <2>5, <3>1, <4>2 DEF StartsWith
      <4> QED
        BY <2>2, <4>1, <4>2
    <3> QED
      BY <2>1, <2>7, <3>2
  <2> QED
    BY <2>6, <2>7
<1>6. \A n \in 0 .. Len(s) : n \in T
  <2> HIDE DEF T
  <2> QED
    BY <1>2, <1>4, <1>5, BoundedInduction
<1>7. Good(Len(s))
  <2>1. Len(s) \in 0 .. Len(s)
    BY <1>2
  <2> QED
    BY <1>6, <2>1
<1>8. StartsWith(g[Len(s)], s, L)
  <2>1. CASE Len(s) <= L
    <3>1. Len(s) = L
      BY <1>2, <2>1
    <3> QED
      BY <1>7, <2>1, <3>1
  <2> QED
    BY <1>7, <2>1
<1> QED
  BY <1>2, <1>8

\* A filter that leaves nothing out leaves the sequence as it is.
LEMMA FilterOfKept ==
  ASSUME NEW S, NEW s \in Seq(S), NEW kept, \A k \in DOMAIN s : s[k] \in kept
  PROVE  Filter(s, kept) = s
<1> DEFINE f == Filter(s, kept)
<1>1. Len(s) \in Nat /\ DOMAIN s = 1 .. Len(s) /\ Len(s) \in 0 .. Len(s)
  OBVIOUS
<1>2. StartsWith(f, s, Len(s))
  BY <1>1, FilterBegins
<1>3. f \in Seq(S \cap kept) /\ Len(f) <= Len(s)
  BY FilterElements
<1> HIDE DEF f
<1>4. Len(f) \in Nat /\ f \in Seq(S)
  BY <1>3
<1>5. Len(f) = Len(s) /\ \A k \in 1 .. Len(s) : f[k] = s[k]
  BY <1>1, <1>2, <1>3, <1>4 DEF StartsWith
<1>6. f = s
  BY <1>1, <1>4, <1>5
<1> QED
  BY <1>6 DEF f

\* A filter keeps the order.
LEMMA FilterOrder ==
  ASSUME NEW s \in Seq(Nat), NEW kept,
         \A i, j \in DOMAIN s : i < j => s[i] < s[j]
  PROVE  \A i, j \in DOMAIN Filter(s, kept) : i < j => Filter(s, kept)[i] < Filter(s, kept)[j]
<1>1. PICK g : FilterSteps(g, s, kept)
  BY FilterRecursion
<1> DEFINE Ordered(n) == \A i, j \in DOMAIN g[n] : i < j => g[n][i] < g[n][j]
           T == {n \in 0 .. Len(s) : Ordered(n)}
<1>2. /\ Len(s) \in Nat /\ DOMAIN s = 1 .. Len(s) /\ \A n \in 1 .. Len(s) : s[n] \in Nat
      /\ g[0] = <<>>
      /\ \A n \in 1 .. Len(s) : g[n] = IF s[n] \in kept THEN Append(g[n - 1], s[n]) ELSE g[n - 1]
      /\ Filter(s, kept) = g[Len(s)]
  BY <1>1 DEF FilterSteps
<1>3. \A n \in 0 .. Len(s) : Keeps(g[n], s, n, Nat, kept)
  BY <1>1, FilterStepKeeps
<1>4. 0 \in T
  BY <1>2
<1>5. ASSUME NEW n \in 0 .. Len(s) - 1, n \in T
      PROVE  n + 1 \in T
  <2>1. n + 1 \in 1 .. Len(s) /\ (n + 1) - 1 = n /\ s[n + 1] \in Nat /\ n \in 0 .. Len(s)
    BY <1>2
  <2>2. g[n + 1] = IF s[n + 1] \in kept THEN Append(g[n], s[n + 1]) ELSE g[n]
    <3>1. g[n + 1] = IF s[n + 1] \in kept THEN Append(g[(n + 1) - 1], s[n + 1]) ELSE g[(n + 1) - 1]
      BY <1>2, <2>1
    <3> QED
      BY <2>1, <3>1
  <2>3. Ordered(n)
    BY <1>5
  <2>4. \A k \in DOMAIN g[n] : g[n][k] < s[n + 1]
    <3> SUFFICES ASSUME NEW k \in DOMAIN g[n] PROVE g[n][k] < s[n + 1]
      OBVIOUS
    <3>1. PICK i \in 1 .. n : s[i] = g[n][k]
      BY <1>3, <2>1, Zenon DEF Keeps
    <3>2. i \in DOMAIN s /\ n + 1 \in DOMAIN s /\ i < n + 1
      BY <1>2, <2>1
    <3> QED
      BY <3>1, <3>2
  <2>5. CASE s[n + 1] \in kept
    <3>1. /\ g[n] \in Seq(Nat) /\ Len(g[n]) \in Nat
          /\ DOMAIN g[n] = 1 .. Len(g[n]) /\ DOMAIN g[n + 1] = 1 .. Len(g[n]) + 1
          /\ \A k \in 1 .. Len(g[n]) : g[n + 1][k] = g[n][k]
          /\ g[n + 1][Len(g[n]) + 1] = s[n + 1]
      <4>1. g[n] \in Seq(Nat)
        BY <1>3, <2>1 DEF Keeps
      <4> QED
        BY <2>1, <2>2, <2>5, <4>1
    <3>2. ASSUME NEW i \in DOMAIN g[n + 1], NEW j \in DOMAIN g[n + 1], i < j
          PROVE  g[n + 1][i] < g[n + 1][j]
      <4>1. i \in 1 .. Len(g[n]) /\ j \in 1 .. Len(g[n]) + 1
        BY <3>1, <3>2
      <4>2. CASE j = Len(g[n]) + 1
        BY <2>4, <3>1, <4>1, <4>2
      <4>3. CASE j \in 1 .. Len(g[n])
        BY <2>3, <3>1, <3>2, <4>1, <4>3
      <4> QED
        BY <4>1, <4>2, <4>3
    <3> QED
      BY <2>1, <3>2
  <2>6. CASE s[n + 1] \notin kept
    BY <2>1, <2>2, <2>3, <2>6
  <2> QED
    BY <2>5, <2>6
<1>6. \A n \in 0 .. Len(s) : n \in T
  <2> HIDE DEF T
  <2> QED
    BY <1>2, <1>4, <1>5, BoundedInduction
<1>7. Len(s) \in 0 .. Len(s)
  BY <1>2
<1> QED
  BY <1>2, <1>6, <1>7

-----------------------------------------------------------------------------
(* Flattening *)

\* A sequence of sequences flattens to a sequence of their elements.
LEMMA FlattenSeqType ==
  ASSUME NEW S, NEW seqs \in Seq(Seq(S))
  PROVE  FlattenSeq(seqs) \in Seq(S)
<1> DEFINE N == Len(seqs)
           next(n, before) == IF n = 1 THEN seqs[n] ELSE before \o seqs[n]
           step == [p \in (1 .. N) \X Seq(S) |-> next(p[1], p[2])]
<1>1. N \in Nat /\ \A n \in 1 .. N : seqs[n] \in Seq(S)
  OBVIOUS
<1>2. CASE N = 0
  <2>1. seqs = <<>> /\ FlattenSeq(seqs) = seqs
    BY <1>2 DEF FlattenSeq
  <2>2. <<>> \in Seq(S)
    OBVIOUS
  <2>3. FlattenSeq(seqs) = <<>>
    BY <2>1, Zenon
  <2> QED
    BY <2>2, <2>3, Zenon
<1>3. CASE N # 0
  <2>1. step \in [(1 .. N) \X Seq(S) -> Seq(S)]
    BY <1>1
  <2>2. PICK f : f \in Recursions(N, Seq(S), <<>>, step)
    <3>1. <<>> \in Seq(S) /\ step \in Stepping(N, Seq(S))
      BY <2>1 DEF Stepping
    <3> HIDE DEF step, N
    <3> QED
      BY <1>1, <3>1, RecursionExists
  <2>3. /\ f \in [0 .. N -> Seq(S)]
        /\ \A n \in 1 .. N : f[n] = step[<<n, f[n - 1]>>]
    BY <2>2 DEF Recursions
  <2>4. \A n \in 1 .. N : f[n] = next(n, f[n - 1])
    <3> SUFFICES ASSUME NEW n \in 1 .. N PROVE f[n] = next(n, f[n - 1])
      OBVIOUS
    <3> HIDE DEF N, next
    <3>1. n - 1 \in 0 .. N
      BY <1>1
    <3>2. <<n, f[n - 1]>> \in (1 .. N) \X Seq(S)
      BY <2>3, <3>1
    <3> QED
      BY <2>3, <3>2
  <2> DEFINE e == [n \in 1 .. N |-> f[n]]
             isMeant(h) == h = [n \in 1 .. N |-> IF n = 1 THEN seqs[n] ELSE h[n - 1] \o seqs[n]]
             g == CHOOSE h : isMeant(h)
  <2>5. isMeant(e)
    <3>1. ASSUME NEW n \in 1 .. N
          PROVE  f[n] = IF n = 1 THEN seqs[n] ELSE e[n - 1] \o seqs[n]
      <4>1. CASE n = 1
        BY <2>4, <4>1
      <4>2. CASE n # 1
        <5>1. n - 1 \in 1 .. N
          BY <1>1, <4>2
        <5>2. e[n - 1] = f[n - 1]
          BY <5>1
        <5> HIDE DEF e, N
        <5> QED
          BY <2>4, <4>2, <5>2
      <4> QED
        BY <4>1, <4>2
    <3> QED
      BY <3>1
  <2>6. isMeant(g)
    <3> HIDE DEF isMeant
    <3> QED
      BY <2>5
  <2>7. FlattenSeq(seqs) = g[N]
    BY <1>3 DEF FlattenSeq
  <2> HIDE DEF g
  <2> DEFINE T == {n \in 0 .. N : n = 0 \/ g[n] \in Seq(S)}
  <2>8. 0 \in T
    BY <1>1
  <2>9. ASSUME NEW n \in 0 .. N - 1, n \in T
        PROVE  n + 1 \in T
    <3>1. n + 1 \in 1 .. N /\ (n + 1) - 1 = n /\ seqs[n + 1] \in Seq(S)
      BY <1>1
    <3>2. g[n + 1] = IF n + 1 = 1 THEN seqs[n + 1] ELSE g[(n + 1) - 1] \o seqs[n + 1]
      BY <2>6, <3>1
    <3>3. n + 1 = 1 \/ g[n] \in Seq(S)
      BY <2>9, <3>1
    <3>4. g[n + 1] \in Seq(S)
      <4>1. CASE n + 1 = 1
        BY <3>1, <3>2, <4>1
      <4>2. CASE n + 1 # 1
        BY <3>1, <3>2, <3>3, <4>2
      <4> QED
        BY <4>1, <4>2
    <3> QED
      BY <3>1, <3>4
  <2>10. \A n \in 0 .. N : n \in T
    <3> HIDE DEF T, N
    <3> QED
      BY <1>1, <2>8, <2>9, BoundedInduction
  <2>11. N \in 0 .. N
    BY <1>1
  <2> QED
    BY <1>3, <2>7, <2>10, <2>11
<1> QED
  BY <1>2, <1>3

\* What is left of a list after n elements, its head and its tail.
RestOf(f, N, n) == [k \in 1 .. N - n |-> f[n + k]]

\* The head of a rest, and the next rest.
LEMMA RestOfList ==
  ASSUME NEW N \in Nat, NEW S, NEW f \in [1 .. N -> S], NEW n \in 0 .. N, n < N
  PROVE  /\ RestOf(f, N, n) # <<>>
         /\ Head(RestOf(f, N, n)) = f[n + 1]
         /\ Tail(RestOf(f, N, n)) = RestOf(f, N, n + 1)
<1> DEFINE rest == RestOf(f, N, n)
<1>1. \A k \in 1 .. N - n : n + k \in 1 .. N
  OBVIOUS
<1>2. rest \in Seq(S) /\ Len(rest) = N - n /\ \A k \in 1 .. N - n : rest[k] = f[n + k]
  BY <1>1 DEF RestOf
<1> HIDE DEF rest
<1>3. rest # <<>> /\ Head(rest) = f[n + 1]
  <2>1. 1 \in 1 .. N - n /\ Len(rest) > 0
    BY <1>2
  <2>2. rest # <<>> /\ Head(rest) = rest[1]
    BY <1>2, <2>1
  <2> QED
    BY <1>2, <2>1, <2>2
<1>4. /\ Tail(rest) \in Seq(S) /\ Len(Tail(rest)) = Len(rest) - 1
      /\ \A k \in 1 .. Len(Tail(rest)) : Tail(rest)[k] = rest[k + 1]
  BY <1>2, <1>3, HeadTailProperties
<1> DEFINE tail == Tail(rest)
           M == N - (n + 1)
<1>5. /\ M \in Nat /\ tail \in Seq(S) /\ Len(tail) = M
      /\ \A k \in 1 .. M : tail[k] = rest[k + 1]
  BY <1>2, <1>4
<1>6. \A k \in 1 .. M : rest[k + 1] = f[(n + 1) + k]
  <2>1. \A k \in 1 .. M : k + 1 \in 1 .. N - n /\ n + (k + 1) = (n + 1) + k
    OBVIOUS
  <2> QED
    BY <1>2, <2>1
<1>7. RestOf(f, N, n + 1) = [k \in 1 .. M |-> f[(n + 1) + k]]
  BY DEF RestOf
<1> HIDE DEF tail, M
<1>8. tail = [k \in 1 .. M |-> tail[k]]
  BY <1>5
<1>9. \A k \in 1 .. M : tail[k] = f[(n + 1) + k]
  BY <1>5, <1>6
<1>10. tail = RestOf(f, N, n + 1)
  BY <1>7, <1>8, <1>9
<1> QED
  BY <1>3, <1>10 DEF rest, tail

-----------------------------------------------------------------------------
(* Sorting *)

\* Any two elements of S are in order one way or the other.
OrdersAll(R, S) ==
    /\ \A x, y \in S : <<x, y>> \in R \/ <<y, x>> \in R
    /\ \A x, y, z \in S : <<x, y>> \in R /\ <<y, z>> \in R => <<x, z>> \in R

\* Whatever can be compared can be put in order.
LEMMA OrderedArrangement ==
  ASSUME NEW S, NEW list \in Seq(S), NEW R, OrdersAll(R, S)
  PROVE  \E place \in Bijection(1 .. Len(list), 1 .. Len(list)) :
            \A j, k \in 1 .. Len(list) : j < k => <<list[place[j]], list[place[k]]>> \in R
<1> DEFINE N == Len(list)
           leq(j, k) == <<list[j], list[k]>> \in R
           InOrder(n, p) ==
              /\ p \in [1 .. n -> 1 .. n]
              /\ \A j, k \in 1 .. n : p[j] = p[k] => j = k
              /\ \A m \in 1 .. n : \E k \in 1 .. n : p[k] = m
              /\ \A j, k \in 1 .. n : j < k => leq(p[j], p[k])
           T == {n \in 0 .. N : \E p : InOrder(n, p)}
<1>1. N \in Nat /\ \A k \in 1 .. N : list[k] \in S
  OBVIOUS
<1>2. /\ \A j, k \in 1 .. N : leq(j, k) \/ leq(k, j)
      /\ \A j, k, m \in 1 .. N : leq(j, k) /\ leq(k, m) => leq(j, m)
  <2> HIDE DEF N
  <2> QED
    BY <1>1 DEF OrdersAll
<1> HIDE DEF N, leq
<1>3. 0 \in T
  <2>1. InOrder(0, [k \in 1 .. 0 |-> k])
    OBVIOUS
  <2> HIDE DEF InOrder
  <2> QED
    BY <1>1, <2>1
<1>4. ASSUME NEW n \in 0 .. N - 1, n \in T PROVE n + 1 \in T
  <2>1. PICK p : InOrder(n, p)
    BY <1>4
  <2> DEFINE after == {i \in 1 .. n : leq(n + 1, p[i])} \cup {n + 1}
  <2>2. n \in Nat /\ n + 1 \in 1 .. N /\ \A k \in 1 .. n : k \in 1 .. N
    BY <1>1
  <2>3. /\ p \in [1 .. n -> 1 .. n]
        /\ \A j, k \in 1 .. n : p[j] = p[k] => j = k
        /\ \A m \in 1 .. n : \E k \in 1 .. n : p[k] = m
        /\ \A j, k \in 1 .. n : j < k => leq(p[j], p[k])
    BY <2>1
  <2> HIDE DEF T, InOrder
  <2>4. PICK c \in after : \A i \in after : c <= i
    <3>1. after \subseteq Nat /\ after # {}
      BY <2>2
    <3> HIDE DEF after
    <3> QED
      BY <3>1, LeastElement
  <2>5. c \in 1 .. n + 1
    BY <2>2
  <2>6. \A i \in 1 .. n : i < c => leq(p[i], n + 1)
    <3> SUFFICES ASSUME NEW i \in 1 .. n, i < c PROVE leq(p[i], n + 1)
      OBVIOUS
    <3>1. i \notin after
      BY <2>2, <2>4, <2>5
    <3>2. p[i] \in 1 .. N
      BY <2>2, <2>3
    <3> QED
      BY <1>2, <2>2, <3>1, <3>2
  <2>7. \A i \in 1 .. n : i >= c => leq(n + 1, p[i])
    <3> SUFFICES ASSUME NEW i \in 1 .. n, i >= c PROVE leq(n + 1, p[i])
      OBVIOUS
    <3>1. c \in 1 .. n /\ leq(n + 1, p[c])
      BY <2>2, <2>4, <2>5
    <3> HIDE DEF after
    <3>2. CASE i = c
      BY <3>1, <3>2
    <3>3. CASE i > c
      <4>1. leq(p[c], p[i])
        BY <2>3, <3>1, <3>3
      <4>2. p[c] \in 1 .. N /\ p[i] \in 1 .. N
        BY <2>2, <2>3, <3>1
      <4> QED
        BY <1>2, <2>2, <3>1, <4>1, <4>2
    <3> QED
      BY <2>2, <2>5, <3>2, <3>3
  <2> HIDE DEF after
  <2> DEFINE q == [i \in 1 .. n + 1 |->
                     IF i < c THEN p[i] ELSE IF i = c THEN n + 1 ELSE p[i - 1]]
  <2>8. /\ \A i \in 1 .. n + 1 : i < c => i \in 1 .. n /\ q[i] = p[i] /\ p[i] \in 1 .. n
        /\ q[c] = n + 1
        /\ \A i \in 1 .. n + 1 :
              i > c => i - 1 \in 1 .. n /\ q[i] = p[i - 1] /\ p[i - 1] \in 1 .. n
        /\ DOMAIN q = 1 .. n + 1
        /\ q = [i \in DOMAIN q |-> q[i]]
    <3>1. \A i \in 1 .. n + 1 : i < c => i \in 1 .. n
      BY <2>2, <2>5
    <3>2. \A i \in 1 .. n + 1 : i > c => i - 1 \in 1 .. n /\ ~(i < c) /\ i # c
      BY <2>2, <2>5
    <3>3. ~(c < c)
      BY <2>5
    <3>4. \A i \in 1 .. n : p[i] \in 1 .. n
      BY <2>3
    <3>5. /\ \A i \in 1 .. n + 1 : i < c => q[i] = p[i]
          /\ q[c] = n + 1
          /\ \A i \in 1 .. n + 1 : i > c => q[i] = p[i - 1]
          /\ DOMAIN q = 1 .. n + 1
          /\ q = [i \in DOMAIN q |-> q[i]]
      BY <2>5, <3>2, <3>3, Zenon
    <3> HIDE DEF q
    <3> QED
      BY <3>1, <3>2, <3>4, <3>5
  <2> HIDE DEF q
  <2>9. \A i \in 1 .. n + 1 : i < c \/ i = c \/ i > c
    BY <2>2, <2>5
  <2>10. q \in [1 .. n + 1 -> 1 .. n + 1]
    <3>1. \A i \in 1 .. n + 1 : q[i] \in 1 .. n + 1
      BY <2>2, <2>8, <2>9
    <3> QED
      BY <2>8, <3>1
  <2>11. ASSUME NEW j \in 1 .. n + 1, NEW k \in 1 .. n + 1, q[j] = q[k]
         PROVE  j = k
    <3>1. n + 1 \notin 1 .. n
      BY <2>2
    <3>2. CASE j = c \/ k = c
      <4>1. \A i \in 1 .. n + 1 : i # c => q[i] # n + 1
        BY <2>8, <2>9, <3>1
      <4>2. q[c] = n + 1
        BY <2>8
      <4> QED
        BY <2>11, <3>2, <4>1, <4>2
    <3>3. CASE j < c /\ k < c
      BY <2>3, <2>8, <2>11, <3>3
    <3>4. CASE j > c /\ k > c
      <4>1. j - 1 = k - 1
        BY <2>3, <2>8, <2>11, <3>4
      <4> QED
        BY <2>2, <4>1
    <3>5. CASE j < c /\ k > c
      <4>1. j = k - 1
        BY <2>3, <2>8, <2>11, <3>5
      <4> QED
        BY <2>2, <2>5, <3>5, <4>1
    <3>6. CASE j > c /\ k < c
      <4>1. k = j - 1
        BY <2>3, <2>8, <2>11, <3>6
      <4> QED
        BY <2>2, <2>5, <3>6, <4>1
    <3> QED
      BY <2>9, <3>2, <3>3, <3>4, <3>5, <3>6
  <2>12. ASSUME NEW m \in 1 .. n + 1 PROVE \E k \in 1 .. n + 1 : q[k] = m
    <3>1. CASE m = n + 1
      BY <2>5, <2>8, <3>1
    <3>2. CASE m # n + 1
      <4>1. m \in 1 .. n
        BY <2>2, <3>2
      <4>2. PICK k \in 1 .. n : p[k] = m
        BY <2>3, <4>1
      <4>3. CASE k < c
        <5>1. k \in 1 .. n + 1
          BY <2>2
        <5> QED
          BY <2>8, <4>2, <4>3, <5>1
      <4>4. CASE k >= c
        <5>1. k + 1 \in 1 .. n + 1 /\ k + 1 > c /\ (k + 1) - 1 = k
          BY <2>2, <2>5, <4>4
        <5> QED
          BY <2>8, <4>2, <5>1
      <4> QED
        BY <2>2, <2>5, <4>3, <4>4
    <3> QED
      BY <3>1, <3>2
  <2>13. ASSUME NEW j \in 1 .. n + 1, NEW k \in 1 .. n + 1, j < k
         PROVE  leq(q[j], q[k])
    <3>1. CASE k < c
      <4>1. j < c
        BY <2>2, <2>5, <2>13, <3>1
      <4> QED
        BY <2>3, <2>8, <2>13, <3>1, <4>1
    <3>2. CASE k = c
      <4>1. j < c
        BY <2>13, <3>2
      <4> QED
        BY <2>6, <2>8, <3>2, <4>1
    <3>3. CASE j = c
      <4>1. k > c /\ k - 1 >= c
        BY <2>2, <2>5, <2>13, <3>3
      <4> QED
        BY <2>7, <2>8, <3>3, <4>1
    <3>4. CASE j < c /\ k > c
      <4>1. j < k - 1
        BY <2>2, <2>5, <3>4
      <4> QED
        BY <2>3, <2>8, <3>4, <4>1
    <3>5. CASE j > c
      <4>1. k > c /\ j - 1 < k - 1
        BY <2>2, <2>5, <2>13, <3>5
      <4> QED
        BY <2>3, <2>8, <3>5, <4>1
    <3> QED
      BY <2>9, <3>1, <3>2, <3>3, <3>4, <3>5
  <2>14. InOrder(n + 1, q)
    BY <2>10, <2>11, <2>12, <2>13 DEF InOrder
  <2> QED
    BY <1>1, <2>2, <2>14 DEF T
<1>5. N \in T
  <2> HIDE DEF T
  <2>1. \A n \in 0 .. N : n \in T
    BY <1>1, <1>3, <1>4, BoundedInduction
  <2> QED
    BY <1>1, <2>1
<1>6. PICK p : InOrder(N, p)
  BY <1>5
<1>7. p \in Bijection(1 .. N, 1 .. N)
  <2>1. p \in Injection(1 .. N, 1 .. N)
    BY <1>6 DEF Injection, IsInjective
  <2>2. p \in Surjection(1 .. N, 1 .. N)
    BY <1>6 DEF Surjection
  <2> QED
    BY <2>1, <2>2 DEF Bijection
<1>8. \A j, k \in 1 .. N : j < k => <<list[p[j]], list[p[k]]>> \in R
  BY <1>6 DEF leq
<1> QED
  BY <1>7, <1>8 DEF N

=============================================================================
