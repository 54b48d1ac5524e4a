-------------------------- MODULE Operation_proofs --------------------------
(***************************************************************************)
(* What is sent and counted of an operation, for every schema, every set   *)
(* of requests and selections of any depth.                                *)
(***************************************************************************)
EXTENDS Operation, WellFoundedInduction, NaturalsInduction, FiniteSetTheorems,
        SequenceTheorems, TLAPS

-----------------------------------------------------------------------------
(* Induction and recursion over selections                                 *)

\* A set of numbers has a least one.
LEMMA LeastNumber ==
  ASSUME NEW T \in SUBSET Nat, T # {}
  PROVE  \E n \in T : \A m \in T : n <= m
<1>1. IsWellFoundedOn(OpToRel(<, Nat), Nat)
  BY NatLessThanWellFounded
<1>2. PICK n \in T : \A m \in T : <<m, n>> \notin OpToRel(<, Nat)
  BY <1>1, WFMin
<1>3. \A m \in T : ~ (m < n)
  BY <1>2 DEF OpToRel
<1>4. n \in Nat /\ \A m \in T : m \in Nat
  OBVIOUS
<1>5. QED
  BY <1>3, <1>4

\* What holds of 0 and, with a number, of the next holds of all numbers.
LEMMA Counting ==
  ASSUME NEW T \in SUBSET Nat, 0 \in T, \A n \in T : n + 1 \in T
  PROVE  T = Nat
<1> SUFFICES ASSUME Nat \ T # {} PROVE FALSE
  OBVIOUS
<1>1. PICK n \in Nat \ T : \A m \in Nat \ T : n <= m
  BY LeastNumber
<1>2. n # 0 /\ n - 1 \in Nat
  BY <1>1
<1>3. n - 1 \in T
  BY <1>1, <1>2
<1>4. QED
  BY <1>1, <1>2, <1>3

\* The elements of a sequence are those at its places.
LEMMA SeqElements ==
  ASSUME NEW S, NEW q \in Seq(S)
  PROVE  /\ Range(q) \subseteq S
         /\ \A i \in 1..Len(q) : q[i] \in Range(q)
         /\ \A x \in Range(q) : \E i \in 1..Len(q) : x = q[i]
         /\ DOMAIN q = 1..Len(q) /\ Len(q) \in Nat
<1>1. DOMAIN q = 1..Len(q) /\ Len(q) \in Nat /\ \A i \in 1..Len(q) : q[i] \in S
  OBVIOUS
<1>2. Range(q) = {q[i] : i \in 1..Len(q)}
  BY <1>1 DEF Range
<1>3. QED
  BY <1>1, <1>2

\* Selections are records whose children are selections, and lower.
LEMMA Children ==
  ASSUME NEW s \in Selections
  PROVE  /\ Height[s] \in Nat
         /\ s.below \in Seq(Selections)
         /\ \A c \in Range(s.below) : c \in Selections /\ Height[c] < Height[s]
<1>1. Height[s] \in Nat /\ s.below \in Seq(Selections)
  BY SelectionAssumption DEF SelectionAssumption
<1>2. \A c \in Range(s.below) : Height[c] < Height[s]
  BY SelectionAssumption DEF SelectionAssumption
<1>3. QED
  BY <1>1, <1>2, SeqElements

\* What holds of a selection if it holds of those below it holds of all selections.
LEMMA TreeInduction ==
  ASSUME NEW T \in SUBSET Selections,
         \A s \in Selections : (\A c \in Range(s.below) : c \in T) => s \in T
  PROVE  T = Selections
<1> SUFFICES ASSUME Selections \ T # {} PROVE FALSE
  OBVIOUS
<1> DEFINE Heights == {Height[s] : s \in Selections \ T}
<1>1. Heights \in SUBSET Nat /\ Heights # {}
  BY SelectionAssumption DEF SelectionAssumption
<1>2. PICK n \in Heights : \A m \in Heights : n <= m
  BY <1>1, LeastNumber
<1>3. PICK s \in Selections \ T : Height[s] = n
  OBVIOUS
<1>4. PICK c \in Range(s.below) : c \notin T
  OBVIOUS
<1>5. c \in Selections /\ Height[c] < Height[s]
  BY Children
<1>6. Height[c] \in Nat /\ Height[s] \in Nat /\ Height[c] \in Heights
  BY <1>4, <1>5, Children
<1>7. QED
  BY <1>2, <1>3, <1>5, <1>6

\* A function on selections that is defined by what it is of those below exists: G gives
\* its value at a selection from its values at the children.
UpTo(n) == {s \in Selections : Height[s] < n}
Fits(G, f, s) == f[s] = G[s, [c \in Range(s.below) |-> f[c]]]
Approximates(V, G, f, n) == f \in [UpTo(n) -> V] /\ \A s \in UpTo(n) : Fits(G, f, s)
Recursive(V, G) == \A s \in Selections : \A h \in [Range(s.below) -> V] : G[s, h] \in V

LEMMA UpToHeights ==
  /\ UpTo(0) = {}
  /\ \A s \in Selections : s \in UpTo(Height[s] + 1)
  /\ \A n \in Nat : \A s \in UpTo(n) : s \in UpTo(n + 1) /\ s \in Selections
  /\ \A n \in Nat : \A s \in UpTo(n + 1) : \A c \in Range(s.below) : c \in UpTo(n)
<1>1. ASSUME NEW s \in Selections
      PROVE  /\ Height[s] \in Nat
             /\ \A c \in Range(s.below) : /\ c \in Selections
                                          /\ Height[c] < Height[s] /\ Height[c] \in Nat
  BY Children
<1>2. UpTo(0) = {}
  BY <1>1 DEF UpTo
<1>3. \A s \in Selections : s \in UpTo(Height[s] + 1)
  BY <1>1 DEF UpTo
<1>4. \A n \in Nat : \A s \in UpTo(n) : s \in UpTo(n + 1) /\ s \in Selections
  BY <1>1 DEF UpTo
<1>5. ASSUME NEW n \in Nat, NEW s \in UpTo(n + 1), NEW c \in Range(s.below)
      PROVE  c \in UpTo(n)
  <2>1. s \in Selections /\ Height[s] < n + 1
    BY DEF UpTo
  <2>2. c \in Selections /\ Height[c] < Height[s] /\ Height[c] \in Nat /\ Height[s] \in Nat
    BY <1>1, <2>1
  <2>3. Height[c] < n
    BY <2>1, <2>2
  <2>4. QED
    BY <2>2, <2>3 DEF UpTo
<1>6. QED
  BY <1>2, <1>3, <1>4, <1>5

\* Two approximations agree where both are defined.
LEMMA ApproximationsAgree ==
  ASSUME NEW V, NEW G, NEW m \in Nat, NEW n \in Nat, NEW f, NEW g,
         Approximates(V, G, f, m), Approximates(V, G, g, n)
  PROVE  \A s \in UpTo(m) \cap UpTo(n) : f[s] = g[s]
<1> DEFINE T == {s \in Selections : s \in UpTo(m) \cap UpTo(n) => f[s] = g[s]}
<1>1. ASSUME NEW s \in Selections, \A c \in Range(s.below) : c \in T,
             s \in UpTo(m) \cap UpTo(n)
      PROVE  f[s] = g[s]
  <2>1. \A c \in Range(s.below) : c \in UpTo(m) \cap UpTo(n)
    <3> SUFFICES ASSUME NEW c \in Range(s.below)
                 PROVE  c \in UpTo(m) \cap UpTo(n)
      OBVIOUS
    <3>1. /\ c \in Selections /\ Height[c] < Height[s]
          /\ Height[c] \in Nat /\ Height[s] \in Nat
      BY <1>1, Children
    <3>2. Height[s] < m /\ Height[s] < n
      BY <1>1 DEF UpTo
    <3>3. Height[c] < m /\ Height[c] < n
      BY <3>1, <3>2
    <3>4. QED
      BY <3>1, <3>3 DEF UpTo
  <2>2. \A c \in Range(s.below) : f[c] = g[c]
    BY <1>1, <2>1
  <2>3. [c \in Range(s.below) |-> f[c]] = [c \in Range(s.below) |-> g[c]]
    BY <2>2
  <2>4. Fits(G, f, s) /\ Fits(G, g, s)
    BY <1>1 DEF Approximates
  <2>5. QED
    BY <2>3, <2>4 DEF Fits
<1>2. T \in SUBSET Selections
  OBVIOUS
<1>3. \A s \in Selections : (\A c \in Range(s.below) : c \in T) => s \in T
  BY <1>1
<1>4. T = Selections
  <2> HIDE DEF T
  <2> QED
    BY <1>2, <1>3, TreeInduction
<1>5. QED
  BY <1>4, UpToHeights

\* There are approximations up to every height.
LEMMA Approximations ==
  ASSUME NEW V, NEW G, Recursive(V, G), NEW n \in Nat
  PROVE  \E f : Approximates(V, G, f, n)
<1> DEFINE Reached == {k \in Nat : \E f : Approximates(V, G, f, k)}
<1>1. 0 \in Reached
  <2>1. Approximates(V, G, [s \in {} |-> 0], 0)
    BY UpToHeights DEF Approximates
  <2>2. QED
    BY <2>1
<1>2. ASSUME NEW k \in Reached
      PROVE  k + 1 \in Reached
  <2>1. PICK f : Approximates(V, G, f, k)
    OBVIOUS
  <2> DEFINE g == [s \in UpTo(k + 1) |->
                     IF s \in UpTo(k) THEN f[s] ELSE G[s, [c \in Range(s.below) |-> f[c]]]]
  <2>2. \A s \in UpTo(k) : g[s] = f[s]
    BY UpToHeights
  <2>3. ASSUME NEW s \in UpTo(k + 1)
        PROVE  g[s] = G[s, [c \in Range(s.below) |-> f[c]]]
    <3>1. CASE s \in UpTo(k)
      BY <2>1, <2>2, <3>1 DEF Approximates, Fits
    <3>2. CASE s \notin UpTo(k)
      BY <3>2
    <3>3. QED
      BY <3>1, <3>2
  <2>4. g = [s \in UpTo(k + 1) |-> g[s]]
    OBVIOUS
  <2> HIDE DEF g
  <2>5. ASSUME NEW s \in UpTo(k + 1)
        PROVE  g[s] \in V /\ Fits(G, g, s)
    <3>1. \A c \in Range(s.below) : c \in UpTo(k)
      BY UpToHeights
    <3>2. \A c \in Range(s.below) : f[c] \in V /\ f[c] = g[c]
      BY <2>1, <2>2, <3>1 DEF Approximates
    <3>3. /\ [c \in Range(s.below) |-> f[c]] \in [Range(s.below) -> V]
          /\ [c \in Range(s.below) |-> f[c]] = [c \in Range(s.below) |-> g[c]]
      BY <3>2
    <3>4. s \in Selections
      BY DEF UpTo
    <3>5. QED
      BY <2>3, <3>3, <3>4 DEF Recursive, Fits
  <2>6. g \in [UpTo(k + 1) -> V]
    BY <2>4, <2>5
  <2>7. Approximates(V, G, g, k + 1)
    BY <2>5, <2>6 DEF Approximates
  <2>8. QED
    BY <2>7
<1>3. Reached \in SUBSET Nat
  OBVIOUS
<1>4. Reached = Nat
  <2> HIDE DEF Reached
  <2> QED
    BY <1>1, <1>2, <1>3, Counting
<1>5. QED
  BY <1>4

LEMMA TreeRecursion ==
  ASSUME NEW V, NEW G, Recursive(V, G)
  PROVE  \E f \in [Selections -> V] : \A s \in Selections : Fits(G, f, s)
<1> DEFINE A == [n \in Nat |-> CHOOSE f : Approximates(V, G, f, n)]
           F == [s \in Selections |-> A[Height[s] + 1][s]]
<1>1. \A n \in Nat : Approximates(V, G, A[n], n)
  <2> SUFFICES ASSUME NEW n \in Nat
               PROVE  Approximates(V, G, CHOOSE f : Approximates(V, G, f, n), n)
    OBVIOUS
  <2> QED
    BY Approximations
<1> HIDE DEF A
<1>2. ASSUME NEW s \in Selections
      PROVE  F[s] \in V /\ Fits(G, F, s)
  <2> DEFINE n == Height[s] + 1
  <2>1. n \in Nat /\ s \in UpTo(n) /\ F[s] = A[n][s]
    BY Children, UpToHeights
  <2>2. A[n][s] \in V /\ Fits(G, A[n], s)
    BY <1>1, <2>1 DEF Approximates
  <2>3. ASSUME NEW c \in Range(s.below)
        PROVE  F[c] = A[n][c]
    <3> DEFINE m == Height[c] + 1
    <3>1. c \in Selections /\ m \in Nat /\ Height[s] \in Nat /\ F[c] = A[m][c]
      BY Children
    <3>2. c \in UpTo(m) /\ c \in UpTo(n)
      BY <2>1, <3>1, UpToHeights
    <3> HIDE DEF m, n, F
    <3>3. A[m][c] = A[n][c]
      BY <1>1, <2>1, <3>1, <3>2, ApproximationsAgree
    <3>4. QED
      BY <3>1, <3>3
  <2> HIDE DEF F, n
  <2>4. [c \in Range(s.below) |-> F[c]] = [c \in Range(s.below) |-> A[n][c]]
    BY <2>3
  <2>5. QED
    BY <2>1, <2>2, <2>4 DEF Fits
<1>3. \A s \in Selections : F[s] \in V /\ Fits(G, F, s)
  <2> HIDE DEF F
  <2> QED
    BY <1>2
<1>4. F \in [Selections -> V]
  BY <1>3
<1>5. QED
  <2> HIDE DEF F
  <2> QED
    BY <1>3, <1>4

-----------------------------------------------------------------------------
(* Concatenation                                                           *)

\* The concatenations of the first sequences of q, up to k of them.
ConcatenatedTo(V, q, p, k) ==
  /\ p \in [0..k -> Seq(V)]
  /\ p[0] = <<>>
  /\ \A i \in 1..k : p[i] = p[i - 1] \o q[i]
Concatenated(V, q, p) == ConcatenatedTo(V, q, p, Len(q))

LEMMA PrefixesExist ==
  ASSUME NEW V, NEW q \in Seq(Seq(V))
  PROVE  \E p : Concatenated(V, q, p)
<1> DEFINE T == {k \in Nat : k <= Len(q) => \E p : ConcatenatedTo(V, q, p, k)}
<1>1. 0 \in T
  <2>1. ConcatenatedTo(V, q, [i \in 0..0 |-> <<>>], 0)
    BY DEF ConcatenatedTo
  <2>2. QED
    BY <2>1
<1>2. ASSUME NEW k \in T
      PROVE  k + 1 \in T
  <2>1. ASSUME k + 1 <= Len(q)
        PROVE  \E p : ConcatenatedTo(V, q, p, k + 1)
    <3>1. k \in Nat /\ k <= Len(q) /\ k + 1 \in 1..Len(q)
      BY <2>1, LenProperties
    <3>2. PICK p : ConcatenatedTo(V, q, p, k)
      BY <3>1
    <3> DEFINE r == [i \in 0..(k + 1) |-> IF i <= k THEN p[i] ELSE p[k] \o q[k + 1]]
    <3>3. p[k] \o q[k + 1] \in Seq(V) /\ \A i \in 0..k : p[i] \in Seq(V)
      BY <3>1, <3>2, ElementOfSeq, ConcatProperties DEF ConcatenatedTo
    <3>4. r \in [0..(k + 1) -> Seq(V)]
      BY <3>1, <3>3
    <3>5. r[k + 1] = p[k] \o q[k + 1] /\ \A i \in 0..k : r[i] = p[i]
      <4>1. k + 1 \in 0..(k + 1) /\ ~ (k + 1 <= k)
        BY <3>1
      <4>2. \A i \in 0..k : i \in 0..(k + 1) /\ i <= k
        BY <3>1
      <4>3. r[k + 1] = p[k] \o q[k + 1]
        BY <4>1
      <4>4. \A i \in 0..k : r[i] = p[i]
        BY <4>2
      <4>5. QED
        BY <4>3, <4>4
    <3> HIDE DEF r
    <3>6. \A i \in 1..k : r[i] = r[i - 1] \o q[i]
      <4>1. \A i \in 1..k : i \in 0..k /\ i - 1 \in 0..k
        BY <3>1
      <4>2. QED
        BY <3>2, <3>5, <4>1 DEF ConcatenatedTo
    <3>7. r[k + 1] = r[(k + 1) - 1] \o q[k + 1]
      <4>1. k \in 0..k /\ (k + 1) - 1 = k
        BY <3>1
      <4>2. r[k] = p[k]
        BY <3>5, <4>1
      <4>3. QED
        BY <3>5, <4>1, <4>2
    <3>8. \A i \in 1..(k + 1) : i \in 1..k \/ i = k + 1
      BY <3>1
    <3>9. r[0] = <<>>
      BY <3>1, <3>2, <3>5 DEF ConcatenatedTo
    <3>10. ConcatenatedTo(V, q, r, k + 1)
      BY <3>4, <3>6, <3>7, <3>8, <3>9 DEF ConcatenatedTo
    <3>11. QED
      BY <3>10
  <2>2. QED
    BY <2>1
<1>3. T = Nat
  <2>1. T \in SUBSET Nat
    OBVIOUS
  <2> HIDE DEF T
  <2>2. QED
    BY <1>1, <1>2, <2>1, Counting
<1>4. Len(q) \in Nat
  BY LenProperties
<1>5. QED
  BY <1>3, <1>4 DEF Concatenated

\* FlattenSeq is the last of them.
LEMMA FlattenIsPrefix ==
  ASSUME NEW V, NEW q \in Seq(Seq(V)), NEW p, Concatenated(V, q, p)
  PROVE  FlattenSeq(q) = p[Len(q)]
<1> DEFINE n == Len(q)
           Flattens(f) == f = [i \in 1..n |-> IF i = 1 THEN q[i] ELSE f[i - 1] \o q[i]]
           g == CHOOSE f : Flattens(f)
<1>1. n \in Nat
  BY LenProperties
<1>2. CASE n = 0
  <2>1. q = <<>> /\ p[0] = <<>>
    BY <1>2, EmptySeq DEF Concatenated, ConcatenatedTo
  <2>2. QED
    BY <1>2, <2>1 DEF FlattenSeq
<1>3. CASE n # 0
  <2>1. \A i \in 1..n : p[i] = IF i = 1 THEN q[i] ELSE p[i - 1] \o q[i]
    <3>1. ASSUME 1 \in 1..n
          PROVE  p[1] = q[1]
      <4>1. q[1] \in Seq(V) /\ p[1] = <<>> \o q[1]
        BY <1>1, <3>1, ElementOfSeq DEF Concatenated, ConcatenatedTo
      <4>2. QED
        BY <4>1, ConcatEmptySeq
    <3>2. QED
      BY <1>1, <3>1 DEF Concatenated, ConcatenatedTo
  <2> DEFINE f0 == [i \in 1..n |-> p[i]]
  <2>2. Flattens(f0)
    <3>1. \A i \in 1..n : i = 1 \/ i - 1 \in 1..n
      BY <1>1
    <3>2. \A i \in 1..n : f0[i] = IF i = 1 THEN q[i] ELSE f0[i - 1] \o q[i]
      BY <2>1, <3>1
    <3>3. QED
      BY <3>2
  <2>3. Flattens(g)
    <3> HIDE DEF Flattens, f0
    <3> QED
      BY <2>2
  <2> HIDE DEF g
  <2> DEFINE T == {k \in Nat : k \in 1..n => g[k] = p[k]}
  <2>4. 0 \in T
    BY <1>1
  <2>5. ASSUME NEW k \in T
        PROVE  k + 1 \in T
    <3> SUFFICES ASSUME k + 1 \in 1..n
                 PROVE  g[k + 1] = p[k + 1]
      OBVIOUS
    <3>1. g[k + 1] = IF k + 1 = 1 THEN q[k + 1] ELSE g[(k + 1) - 1] \o q[k + 1]
      BY <2>3
    <3>2. p[k + 1] = IF k + 1 = 1 THEN q[k + 1] ELSE p[(k + 1) - 1] \o q[k + 1]
      BY <2>1
    <3>3. k + 1 # 1 => (k + 1) - 1 = k /\ k \in 1..n
      BY <1>1
    <3>4. QED
      BY <3>1, <3>2, <3>3
  <2>6. T = Nat
    <3>1. T \in SUBSET Nat
      OBVIOUS
    <3> HIDE DEF T
    <3>2. QED
      BY <2>4, <2>5, <3>1, Counting
  <2>7. g[n] = p[n]
    BY <1>1, <1>3, <2>6
  <2>8. FlattenSeq(q) = g[n]
    BY <1>3 DEF FlattenSeq, g
  <2>9. QED
    BY <2>7, <2>8
<1>4. QED
  BY <1>2, <1>3

\* Texts that may be put together stay in a set that concatenation does not leave.
LEMMA FlattenClosed ==
  ASSUME NEW V, NEW T \in SUBSET Seq(V), <<>> \in T, \A x, y \in T : x \o y \in T,
         NEW q \in Seq(T)
  PROVE  FlattenSeq(q) \in T
<1>1. q \in Seq(Seq(V)) /\ Len(q) \in Nat /\ \A i \in 1..Len(q) : q[i] \in T
  BY SeqMonotonic, LenProperties, ElementOfSeq
<1>2. PICK p : Concatenated(V, q, p)
  BY <1>1, PrefixesExist
<1> DEFINE K == {k \in Nat : k <= Len(q) => p[k] \in T}
<1>3. 0 \in K
  BY <1>2 DEF Concatenated, ConcatenatedTo
<1>4. ASSUME NEW k \in K
      PROVE  k + 1 \in K
  <2> SUFFICES ASSUME k + 1 <= Len(q)
               PROVE  p[k + 1] \in T
    OBVIOUS
  <2>1. k + 1 \in 1..Len(q) /\ (k + 1) - 1 = k /\ k <= Len(q)
    BY <1>1
  <2>2. p[k + 1] = p[k] \o q[k + 1]
    BY <1>2, <2>1 DEF Concatenated, ConcatenatedTo
  <2>3. QED
    BY <1>1, <2>1, <2>2
<1>5. K = Nat
  <2>1. K \in SUBSET Nat
    OBVIOUS
  <2> HIDE DEF K
  <2>2. QED
    BY <1>3, <1>4, <2>1, Counting
<1>6. QED
  BY <1>1, <1>2, <1>5, FlattenIsPrefix

\* A concatenation has the elements of its parts.
LEMMA FlattenElements ==
  ASSUME NEW V, NEW q \in Seq(Seq(V))
  PROVE  /\ FlattenSeq(q) \in Seq(V)
         /\ Range(FlattenSeq(q)) = UNION {Range(q[i]) : i \in 1..Len(q)}
<1>1. Len(q) \in Nat /\ \A i \in 1..Len(q) : q[i] \in Seq(V)
  BY LenProperties, ElementOfSeq
<1>2. PICK p : Concatenated(V, q, p)
  BY PrefixesExist
<1>3. \A k \in 0..Len(q) : p[k] \in Seq(V)
  BY <1>2 DEF Concatenated, ConcatenatedTo
<1> DEFINE Parts(k) == UNION {Range(q[i]) : i \in 1..k}
           K == {k \in Nat : k <= Len(q) => Range(p[k]) = Parts(k)}
<1>4. 0 \in K
  <2>1. p[0] = <<>> /\ Range(<<>>) = {}
    BY <1>2 DEF Concatenated, ConcatenatedTo, Range
  <2>2. Parts(0) = {}
    OBVIOUS
  <2>3. QED
    BY <2>1, <2>2
<1>5. ASSUME NEW k \in K
      PROVE  k + 1 \in K
  <2> SUFFICES ASSUME k + 1 <= Len(q)
               PROVE  Range(p[k + 1]) = Parts(k + 1)
    OBVIOUS
  <2>1. k + 1 \in 1..Len(q) /\ (k + 1) - 1 = k /\ k <= Len(q) /\ k \in 0..Len(q)
    <3>1. k \in Nat
      OBVIOUS
    <3> HIDE DEF K
    <3>2. QED
      BY <1>1, <3>1
  <2>2. p[k + 1] = p[k] \o q[k + 1]
    BY <1>2, <2>1 DEF Concatenated, ConcatenatedTo
  <2>3. Range(p[k + 1]) = Range(p[k]) \cup Range(q[k + 1])
    BY <1>1, <1>3, <2>1, <2>2, RangeConcatenation
  <2>4. 1..(k + 1) = (1..k) \cup {k + 1}
    OBVIOUS
  <2>5. Parts(k + 1) = Parts(k) \cup Range(q[k + 1])
    BY <2>4
  <2>6. Range(p[k]) = Parts(k)
    BY <2>1
  <2>7. QED
    BY <2>3, <2>5, <2>6
<1>6. K = Nat
  <2>1. K \in SUBSET Nat
    OBVIOUS
  <2> HIDE DEF K
  <2>2. QED
    BY <1>4, <1>5, <2>1, Counting
<1>7. FlattenSeq(q) = p[Len(q)]
  BY <1>2, FlattenIsPrefix
<1>8. Range(p[Len(q)]) = Parts(Len(q))
  <2>1. Len(q) <= Len(q)
    BY <1>1
  <2>2. Len(q) \in K
    <3> HIDE DEF K
    <3> QED
      BY <1>1, <1>6
  <2> HIDE DEF Parts
  <2>3. QED
    BY <2>1, <2>2
<1>9. p[Len(q)] \in Seq(V)
  BY <1>1, <1>3
<1>10. QED
  BY <1>7, <1>8, <1>9

-----------------------------------------------------------------------------
(* The texts of selections                                                 *)

\* What is in front of the braces of an inline fragment.
Condition(s) == IF s.name = Dots THEN <<>> ELSE <<s.name>>

Tokens ==
  {Open, Close} \cup Names \cup Types \cup Variables
    \cup {s.name : s \in Selections} \cup UNION {Range(ArgumentText(s)) : s \in Selections}

\* A function applied to the selections of a selection set, one after the other.
LEMMA Mapped ==
  ASSUME NEW V, NEW sels \in Seq(Selections), NEW f, \A c \in Range(sels) : f[c] \in V
  PROVE  LET q == [i \in DOMAIN sels |-> f[sels[i]]]
         IN /\ q \in Seq(V)
            /\ Len(q) = Len(sels)
            /\ \A i \in 1..Len(sels) : q[i] = f[sels[i]]
<1>1. /\ DOMAIN sels = 1..Len(sels) /\ Len(sels) \in Nat
      /\ \A i \in 1..Len(sels) : sels[i] \in Range(sels)
  BY SeqElements
<1> DEFINE q == [i \in DOMAIN sels |-> f[sels[i]]]
<1>2. q = [i \in 1..Len(sels) |-> f[sels[i]]]
  BY <1>1
<1>3. q \in [1..Len(sels) -> V]
  BY <1>1, <1>2
<1>4. q \in Seq(V)
  BY <1>1, <1>3
<1>5. Len(q) = Len(sels)
  BY <1>1, <1>2
<1>6. QED
  BY <1>2, <1>4, <1>5

LEMMA TwoBraces == Open # Close
BY DEF Open, Close

LEMMA OneToken ==
  ASSUME NEW V, NEW x \in V
  PROVE  <<x>> \in Seq(V) /\ Len(<<x>>) = 1 /\ <<x>>[1] = x /\ Range(<<x>>) = {x}
<1>1. <<x>> \in Seq(V) /\ Len(<<x>>) = 1 /\ <<x>>[1] = x
  OBVIOUS
<1>2. Range(<<x>>) = {<<x>>[i] : i \in 1..1}
  BY <1>1, RangeEquality
<1>3. 1..1 = {1}
  OBVIOUS
<1>4. QED
  BY <1>1, <1>2, <1>3

\* The arguments as they are written: only strings are changed, and to no variable.
LEMMA ArgumentTexts ==
  ASSUME NEW s \in Selections
  PROVE  /\ ArgumentText(s) \in Seq(Range(ArgumentText(s)))
         /\ s.args \in Seq(Range(s.args)) /\ DOMAIN ArgumentText(s) = DOMAIN s.args
         /\ s.kind # "field" => Range(ArgumentText(s)) = {}
         /\ Range(ArgumentText(s)) \subseteq Range(s.args) \cup Range(Misquoted)
         /\ Range(ArgumentText(s)) \cap Variables = ArgumentVariables(s)
         /\ Range(s.args) \cap DOMAIN Misquoted = {} => ArgumentText(s) = s.args
<1> DEFINE a == ArgumentText(s)
<1>1. s.args \in Seq(Range(s.args)) /\ (s.kind # "field" => s.args = <<>>)
  BY SelectionAssumption DEF SelectionAssumption
<1>2. /\ DOMAIN s.args = 1..Len(s.args) /\ Len(s.args) \in Nat
      /\ Range(s.args) = {s.args[i] : i \in DOMAIN s.args}
  BY <1>1, LenProperties DEF Range
<1>3. a = [i \in 1..Len(s.args) |-> Quoted(s.args[i])]
  BY <1>2 DEF ArgumentText
<1>4. Range(a) = {Quoted(s.args[i]) : i \in DOMAIN s.args}
  BY <1>2, <1>3 DEF Range
<1>5. a \in Seq(Range(a))
  <2>1. \A i \in 1..Len(s.args) : Quoted(s.args[i]) \in Range(a)
    BY <1>2, <1>4
  <2>2. a \in [1..Len(s.args) -> Range(a)]
    <3> DEFINE R == Range(a)
    <3>1. \A i \in 1..Len(s.args) : Quoted(s.args[i]) \in R
      BY <2>1
    <3> HIDE DEF R
    <3>2. [i \in 1..Len(s.args) |-> Quoted(s.args[i])] \in [1..Len(s.args) -> R]
      BY <3>1
    <3>3. QED
      BY <1>3, <3>2 DEF R
  <2>3. QED
    BY <1>2, <2>2
<1>6. \A u : Quoted(u) = u \/ (u \in DOMAIN Misquoted /\ Quoted(u) \in Range(Misquoted))
  BY DEF Quoted, Range
<1>7. Range(a) \subseteq Range(s.args) \cup Range(Misquoted)
  BY <1>2, <1>4, <1>6
<1>8. (DOMAIN Misquoted \cup Range(Misquoted)) \cap Variables = {}
  BY OperationAssumption DEF OperationAssumption
<1>9. Range(a) \cap Variables = Range(s.args) \cap Variables
  <2>1. ASSUME NEW v \in Range(a), v \in Variables
        PROVE  v \in Range(s.args)
    BY <1>7, <1>8, <2>1
  <2>2. ASSUME NEW v \in Range(s.args), v \in Variables
        PROVE  v \in Range(a)
    <3>1. PICK i \in DOMAIN s.args : v = s.args[i]
      BY <1>2
    <3>2. Quoted(v) = v
      BY <1>6, <1>8, <2>2
    <3>3. QED
      BY <1>4, <3>1, <3>2
  <2>3. QED
    BY <2>1, <2>2
<1>10. ASSUME Range(s.args) \cap DOMAIN Misquoted = {}
       PROVE  a = s.args
  <2>1. \A i \in 1..Len(s.args) : Quoted(s.args[i]) = s.args[i]
    BY <1>2, <1>6, <1>10
  <2>2. a = [i \in 1..Len(s.args) |-> s.args[i]]
    BY <1>3, <2>1
  <2>3. QED
    BY <1>1, <2>2
<1>11. s.kind # "field" => Range(a) = {}
  BY <1>1, <1>4
<1>12. DOMAIN a = DOMAIN s.args
  BY DEF ArgumentText
<1>13. QED
  BY <1>1, <1>5, <1>7, <1>9, <1>10, <1>11, <1>12 DEF ArgumentVariables

LEMMA Joined ==
  ASSUME NEW V, NEW a \in Seq(V), NEW b \in Seq(V)
  PROVE  a \o b \in Seq(V) /\ Range(a \o b) = Range(a) \cup Range(b)
<1>1. a \o b \in Seq(V)
  BY ConcatProperties
<1>2. QED
  BY <1>1, RangeConcatenation

LEMMA BracedText ==
  ASSUME NEW V, {Open, Close} \subseteq V, NEW b \in Seq(V)
  PROVE  /\ <<Open>> \in Seq(V) /\ <<Close>> \in Seq(V)
         /\ <<Open>> \o b \in Seq(V)
         /\ Braced(b) \in Seq(V)
         /\ Range(Braced(b)) = {Open, Close} \cup Range(b)
<1> DEFINE l == <<Open>>
           r == <<Close>>
<1>1. Open \in V /\ Close \in V
  OBVIOUS
<1>2. l \in Seq(V) /\ r \in Seq(V)
  BY <1>1, OneToken
<1>3. Range(l) = {Open} /\ Range(r) = {Close}
  BY <1>1, OneToken
<1>4. Braced(b) = (l \o b) \o r
  BY DEF Braced
<1> HIDE DEF l, r
<1>5. l \o b \in Seq(V) /\ Range(l \o b) = Range(l) \cup Range(b)
  BY <1>2, Joined
<1>6. (l \o b) \o r \in Seq(V) /\ Range((l \o b) \o r) = Range(l \o b) \cup Range(r)
  <2> DEFINE m == l \o b
  <2>1. m \in Seq(V)
    BY <1>5
  <2> HIDE DEF m
  <2>2. m \o r \in Seq(V) /\ Range(m \o r) = Range(m) \cup Range(r)
    BY <1>2, <2>1, Joined
  <2>3. QED
    BY <2>2 DEF m
<1>7. Range((l \o b) \o r) = {Open, Close} \cup Range(b)
  BY <1>3, <1>5, <1>6
<1>8. QED
  BY <1>2, <1>4, <1>5, <1>6, <1>7 DEF l, r

\* What a selection is rendered to: its own tokens, and those of what is below it.
LEMMA Rendered ==
  ASSUME NEW s \in Selections, NEW b \in Seq(Tokens)
  PROVE  /\ Render(s, b) \in Seq(Tokens)
         /\ s.kind \in {"field", "inline", "spread"}
         /\ ArgumentText(s) \in Seq(Tokens) /\ <<s.name>> \in Seq(Tokens)
         /\ <<s.name>> \o ArgumentText(s) \in Seq(Tokens)
         /\ s.kind = "field" /\ s.below = <<>> => Render(s, b) = <<s.name>> \o ArgumentText(s)
         /\ s.kind = "field" /\ s.below # <<>> =>
              Render(s, b) = (<<s.name>> \o ArgumentText(s)) \o Braced(b)
         /\ Condition(s) \in Seq(Tokens)
         /\ s.kind = "inline" => Render(s, b) = Condition(s) \o Braced(b)
         /\ s.kind = "spread" => Render(s, b) = <<s.name>>
<1>1. s.kind \in {"field", "inline", "spread"} /\ ArgumentText(s) \in Seq(Range(ArgumentText(s)))
  BY ArgumentTexts, SelectionAssumption DEF SelectionAssumption
<1>2. Range(ArgumentText(s)) \subseteq Tokens /\ s.name \in Tokens /\ {Open, Close} \subseteq Tokens
  BY DEF Tokens
<1>3. ArgumentText(s) \in Seq(Tokens) /\ <<s.name>> \in Seq(Tokens)
  BY <1>1, <1>2, SeqMonotonic, OneToken
<1>4. <<s.name>> \o ArgumentText(s) \in Seq(Tokens)
  BY <1>3, ConcatProperties
<1>5. Braced(b) \in Seq(Tokens)
  BY <1>2, BracedText
<1>6. s.kind = "field" /\ s.below = <<>> => Render(s, b) = <<s.name>> \o ArgumentText(s)
  BY <1>4, ConcatEmptySeq DEF Render
<1>7. /\ s.kind = "field" /\ s.below # <<>> =>
           Render(s, b) = (<<s.name>> \o ArgumentText(s)) \o Braced(b)
      /\ s.kind = "inline" => Render(s, b) = Condition(s) \o Braced(b)
      /\ s.kind = "spread" => Render(s, b) = <<s.name>>
  BY DEF Render, Condition
<1>8. (<<s.name>> \o ArgumentText(s)) \o Braced(b) \in Seq(Tokens)
  BY <1>4, <1>5, ConcatProperties
<1>9. Condition(s) \in Seq(Tokens)
  BY <1>3, EmptySeq DEF Condition
<1>10. Condition(s) \o Braced(b) \in Seq(Tokens)
  BY <1>5, <1>9, ConcatProperties
<1>11. Render(s, b) \in Seq(Tokens)
  BY <1>1, <1>3, <1>4, <1>6, <1>7, <1>8, <1>10
<1>12. QED
  BY <1>1, <1>3, <1>4, <1>6, <1>7, <1>9, <1>11

\* Every selection has a text, which is that of the definition.
LEMMA Texts ==
  \A s \in Selections : /\ Text[s] \in Seq(Tokens)
                        /\ Text[s] = Render(s, RenderAll(s.below))
<1> DEFINE V == Seq(Tokens)
           Below(s, h) == FlattenSeq([i \in DOMAIN s.below |-> h[s.below[i]]])
           P == UNION {{s} \X [Range(s.below) -> V] : s \in Selections}
           G == [d \in P |-> Render(d[1], Below(d[1], d[2]))]
<1>1. ASSUME NEW s \in Selections, NEW h, \A c \in Range(s.below) : h[c] \in V
      PROVE  Render(s, Below(s, h)) \in V
  <2>1. s.below \in Seq(Selections)
    BY Children
  <2>2. [i \in DOMAIN s.below |-> h[s.below[i]]] \in Seq(V)
    BY <1>1, <2>1, Mapped
  <2>3. QED
    BY <2>2, FlattenElements, Rendered
<1>2. ASSUME NEW s \in Selections, NEW h \in [Range(s.below) -> V]
      PROVE  G[s, h] = Render(s, Below(s, h))
  <2>1. <<s, h>> \in P
    OBVIOUS
  <2> HIDE DEF P
  <2>2. QED
    BY <2>1
<1> HIDE DEF G, V
<1>3. Recursive(V, G)
  <2> USE DEF V
  <2> QED
    BY <1>1, <1>2 DEF Recursive
<1>4. PICK f \in [Selections -> V] : \A s \in Selections : Fits(G, f, s)
  BY <1>3, TreeRecursion
<1>5. ASSUME NEW s \in Selections
      PROVE  f[s] = Render(s, Below(s, f))
  <2>1. /\ s.below \in Seq(Selections) /\ \A c \in Range(s.below) : c \in Selections
        /\ \A i \in DOMAIN s.below : s.below[i] \in Range(s.below)
    BY Children, SeqElements
  <2> DEFINE h == [c \in Range(s.below) |-> f[c]]
  <2>2. h \in [Range(s.below) -> V] /\ \A c \in Range(s.below) : h[c] = f[c]
    BY <1>4, <2>1
  <2> HIDE DEF h
  <2>3. f[s] = Render(s, Below(s, h))
    BY <1>2, <1>4, <2>2 DEF Fits, h
  <2>4. [i \in DOMAIN s.below |-> h[s.below[i]]] = [i \in DOMAIN s.below |-> f[s.below[i]]]
    BY <2>1, <2>2
  <2>5. QED
    BY <2>3, <2>4
<1>6. f = [s \in Selections |-> Render(s, Below(s, f))]
  BY <1>4, <1>5
<1>7. Text = [s \in Selections |-> Render(s, Below(s, Text))]
  BY <1>6 DEF Text
<1>8. \A s \in Selections : Text[s] = Render(s, Below(s, Text))
  BY <1>7
<1> DEFINE T == {s \in Selections : Text[s] \in V}
<1>9. ASSUME NEW s \in Selections, \A c \in Range(s.below) : c \in T
      PROVE  s \in T
  <2>1. Text[s] \in V
    BY <1>1, <1>8, <1>9
  <2>2. QED
    BY <2>1
<1>10. T = Selections
  <2>1. T \in SUBSET Selections
    OBVIOUS
  <2> HIDE DEF T
  <2>2. QED
    BY <1>9, <2>1, TreeInduction
<1>11. QED
  BY <1>8, <1>10 DEF V, RenderAll

-----------------------------------------------------------------------------
(* What is below a selection, and how deep it is                           *)

LEMMA Withins ==
  \A s \in Selections : Within[s] \subseteq Selections /\ Within[s] = {s} \cup Inside(s.below)
<1> DEFINE V == SUBSET Selections
           Of(s, h) == {s} \cup UNION {h[c] : c \in Range(s.below)}
           P == UNION {{s} \X [Range(s.below) -> V] : s \in Selections}
           G == [d \in P |-> Of(d[1], d[2])]
<1>1. ASSUME NEW s \in Selections, NEW h \in [Range(s.below) -> V]
      PROVE  G[s, h] = Of(s, h) /\ Of(s, h) \in V
  <2>1. <<s, h>> \in P
    OBVIOUS
  <2>2. G[s, h] = Of(s, h)
    <3> HIDE DEF P
    <3> QED
      BY <2>1
  <2>3. Of(s, h) \in V
    OBVIOUS
  <2>4. QED
    BY <2>2, <2>3
<1> HIDE DEF G
<1>2. Recursive(V, G)
  BY <1>1 DEF Recursive
<1>3. PICK f \in [Selections -> V] : \A s \in Selections : Fits(G, f, s)
  BY <1>2, TreeRecursion
<1>4. ASSUME NEW s \in Selections
      PROVE  f[s] = Of(s, f)
  <2> DEFINE h == [c \in Range(s.below) |-> f[c]]
  <2>1. \A c \in Range(s.below) : c \in Selections
    BY Children
  <2>2. h \in [Range(s.below) -> V] /\ \A c \in Range(s.below) : h[c] = f[c]
    BY <1>3, <2>1
  <2>3. f[s] = G[s, h]
    BY <1>3 DEF Fits
  <2> HIDE DEF h
  <2>4. f[s] = Of(s, h)
    BY <1>1, <2>2, <2>3
  <2>5. {h[c] : c \in Range(s.below)} = {f[c] : c \in Range(s.below)}
    BY <2>2
  <2>6. QED
    BY <2>4, <2>5
<1>5. f = [s \in Selections |-> Of(s, f)]
  BY <1>3, <1>4
<1>6. Within = [s \in Selections |-> Of(s, Within)]
  BY <1>5 DEF Within
<1>7. \A s \in Selections : Within[s] = Of(s, Within)
  BY <1>6
<1> DEFINE T == {s \in Selections : Within[s] \in V}
<1>8. ASSUME NEW s \in Selections, \A c \in Range(s.below) : c \in T
      PROVE  s \in T
  <2>1. \A c \in Range(s.below) : Within[c] \subseteq Selections
    BY <1>8
  <2>2. Of(s, Within) \subseteq Selections
    BY <2>1
  <2>3. QED
    BY <1>7, <2>2
<1>9. T = Selections
  <2>1. T \in SUBSET Selections
    OBVIOUS
  <2> HIDE DEF T
  <2>2. QED
    BY <1>8, <2>1, TreeInduction
<1>10. QED
  BY <1>7, <1>9 DEF Inside

\* A selection set contains its selections and what is within each of them.
LEMMA InsideOf ==
  ASSUME NEW sels \in Seq(Selections)
  PROVE  /\ Inside(sels) \subseteq Selections
         /\ \A s \in Range(sels) : s \in Selections /\ s \in Inside(sels)
         /\ \A s \in Range(sels) : Inside(s.below) \subseteq Inside(sels)
         /\ \A s \in Range(sels) : Within[s] \subseteq Inside(sels)
<1>1. \A s \in Range(sels) : s \in Selections
  BY SeqElements
<1>2. QED
  BY <1>1, Withins DEF Inside

LEMMA OneInside ==
  ASSUME NEW s \in Selections
  PROVE  <<s>> \in Seq(Selections) /\ Inside(<<s>>) = Within[s]
<1>1. <<s>> \in Seq(Selections) /\ Range(<<s>>) = {s}
  BY OneToken
<1>2. QED
  BY <1>1 DEF Inside

\* A set of numbers below a bound has a greatest one.
LEMMA Greatest ==
  ASSUME NEW S \in SUBSET Nat, S # {}, NEW n \in Nat, \A m \in S : m <= n
  PROVE  Max(S) \in S /\ \A m \in S : m <= Max(S)
<1> DEFINE Bounds == {b \in Nat : \A m \in S : m <= b}
<1>1. PICK b \in Bounds : \A c \in Bounds : b <= c
  <2>1. Bounds \in SUBSET Nat /\ Bounds # {}
    OBVIOUS
  <2> HIDE DEF Bounds
  <2>2. QED
    BY <2>1, LeastNumber
<1>2. b \in S
  <2> SUFFICES ASSUME b \notin S
               PROVE  FALSE
    OBVIOUS
  <2>1. \A m \in S : m < b
    OBVIOUS
  <2>2. b - 1 \in Nat /\ \A m \in S : m <= b - 1
    <3>1. b \in Nat /\ \A m \in S : m \in Nat
      OBVIOUS
    <3>2. PICK m \in S : m < b
      BY <2>1
    <3> HIDE DEF Bounds
    <3>3. QED
      BY <2>1, <3>1, <3>2
  <2>3. b - 1 \in Bounds
    BY <2>2
  <2>4. b \in Nat /\ ~ (b <= b - 1)
    OBVIOUS
  <2>5. QED
    BY <1>1, <2>3, <2>4
<1>3. \A m \in S : b >= m
  OBVIOUS
<1>4. Max(S) \in S /\ \A m \in S : Max(S) >= m
  BY <1>2, <1>3 DEF Max
<1>5. QED
  BY <1>4

\* The numbers at the places of a sequence have a bound.
LEMMA BoundedElements ==
  ASSUME NEW q \in Seq(Nat)
  PROVE  \E n \in Nat : \A i \in 1..Len(q) : q[i] <= n
<1>1. Len(q) \in Nat /\ \A i \in 1..Len(q) : q[i] \in Nat
  OBVIOUS
<1> DEFINE K == {k \in Nat : k <= Len(q) => \E n \in Nat : \A i \in 1..k : q[i] <= n}
<1>2. 0 \in K
  OBVIOUS
<1>3. ASSUME NEW k \in K
      PROVE  k + 1 \in K
  <2> SUFFICES ASSUME k + 1 <= Len(q)
               PROVE  \E n \in Nat : \A i \in 1..(k + 1) : q[i] <= n
    OBVIOUS
  <2>1. k \in Nat /\ k <= Len(q) /\ k + 1 \in 1..Len(q)
    BY <1>1
  <2>2. PICK n \in Nat : \A i \in 1..k : q[i] <= n
    BY <2>1
  <2>3. q[k + 1] \in Nat
    BY <1>1, <2>1
  <2>4. \A i \in 1..(k + 1) : i \in 1..k \/ i = k + 1
    BY <2>1
  <2>5. \A i \in 1..k : q[i] \in Nat
    BY <1>1, <2>1
  <2>6. \A i \in 1..(k + 1) : q[i] <= n + q[k + 1]
    BY <2>2, <2>3, <2>4, <2>5
  <2>7. n + q[k + 1] \in Nat
    BY <2>3
  <2>8. QED
    BY <2>6, <2>7
<1>4. K = Nat
  <2>1. K \in SUBSET Nat
    OBVIOUS
  <2> HIDE DEF K
  <2>2. QED
    BY <1>2, <1>3, <2>1, Counting
<1>5. QED
  <2>1. Len(q) \in K
    <3> HIDE DEF K
    <3> QED
      BY <1>1, <1>4
  <2>2. Len(q) <= Len(q)
    BY <1>1
  <2>3. QED
    BY <2>1, <2>2

LEMMA DeepestOfAll ==
  ASSUME NEW sels \in Seq(Selections), NEW f, \A c \in Range(sels) : f[c] \in Nat
  PROVE  LET d == Deepest({f[c] : c \in Range(sels)})
         IN d \in Nat /\ \A c \in Range(sels) : f[c] <= d
<1> DEFINE q == [i \in DOMAIN sels |-> f[sels[i]]]
           S == {0} \cup {f[c] : c \in Range(sels)}
<1>1. q \in Seq(Nat) /\ Len(q) = Len(sels) /\ \A i \in 1..Len(sels) : q[i] = f[sels[i]]
  BY Mapped
<1> HIDE DEF q
<1>2. PICK n \in Nat : \A i \in 1..Len(q) : q[i] <= n
  BY <1>1, BoundedElements
<1>3. \A c \in Range(sels) : \E i \in 1..Len(sels) : c = sels[i]
  BY SeqElements
<1>4. \A c \in Range(sels) : f[c] <= n
  BY <1>1, <1>2, <1>3
<1>5. S \in SUBSET Nat /\ S # {} /\ \A m \in S : m <= n
  BY <1>2, <1>4
<1>6. \A c \in Range(sels) : f[c] \in S
  OBVIOUS
<1> HIDE DEF S
<1>7. Max(S) \in S /\ \A m \in S : m <= Max(S)
  BY <1>5, Greatest
<1>8. Max(S) \in Nat /\ \A c \in Range(sels) : f[c] <= Max(S)
  BY <1>5, <1>6, <1>7
<1>9. QED
  BY <1>8 DEF Deepest, S

LEMMA Depths ==
  \A s \in Selections : Depth[s] \in Nat /\ Depth[s] = SelectionDepth(s, DepthOf(s.below))
<1> DEFINE V == Nat
           Of(s, h) == SelectionDepth(s, Deepest({h[c] : c \in Range(s.below)}))
           P == UNION {{s} \X [Range(s.below) -> V] : s \in Selections}
           G == [d \in P |-> Of(d[1], d[2])]
<1>1. ASSUME NEW s \in Selections, NEW h, \A c \in Range(s.below) : h[c] \in V
      PROVE  Of(s, h) \in V
  <2>1. s.below \in Seq(Selections)
    BY Children
  <2>2. Deepest({h[c] : c \in Range(s.below)}) \in Nat
    BY <1>1, <2>1, DeepestOfAll
  <2>3. QED
    BY <2>2 DEF SelectionDepth
<1>2. ASSUME NEW s \in Selections, NEW h \in [Range(s.below) -> V]
      PROVE  G[s, h] = Of(s, h)
  <2>1. <<s, h>> \in P
    OBVIOUS
  <2> HIDE DEF P
  <2>2. QED
    BY <2>1
<1> HIDE DEF G
<1>3. Recursive(V, G)
  <2>1. ASSUME NEW s \in Selections, NEW h \in [Range(s.below) -> V]
        PROVE  G[s, h] \in V
    <3>1. Of(s, h) \in V
      BY <1>1
    <3>2. QED
      BY <1>2, <3>1
  <2>2. QED
    BY <2>1 DEF Recursive
<1>4. PICK f \in [Selections -> V] : \A s \in Selections : Fits(G, f, s)
  BY <1>3, TreeRecursion
<1>5. ASSUME NEW s \in Selections
      PROVE  f[s] = Of(s, f)
  <2> DEFINE h == [c \in Range(s.below) |-> f[c]]
  <2>1. \A c \in Range(s.below) : c \in Selections
    BY Children
  <2>2. h \in [Range(s.below) -> V] /\ \A c \in Range(s.below) : h[c] = f[c]
    BY <1>4, <2>1
  <2>3. f[s] = G[s, h]
    BY <1>4 DEF Fits
  <2> HIDE DEF h
  <2>4. f[s] = Of(s, h)
    BY <1>2, <2>2, <2>3
  <2>5. {h[c] : c \in Range(s.below)} = {f[c] : c \in Range(s.below)}
    BY <2>2
  <2>6. QED
    BY <2>4, <2>5
<1>6. f = [s \in Selections |-> Of(s, f)]
  BY <1>4, <1>5
<1>7. Depth = [s \in Selections |-> Of(s, Depth)]
  BY <1>6 DEF Depth
<1>8. \A s \in Selections : Depth[s] = Of(s, Depth)
  BY <1>7
<1> DEFINE T == {s \in Selections : Depth[s] \in V}
<1>9. ASSUME NEW s \in Selections, \A c \in Range(s.below) : c \in T
      PROVE  s \in T
  <2>1. Depth[s] \in V
    BY <1>1, <1>8, <1>9
  <2>2. QED
    BY <2>1
<1>10. T = Selections
  <2>1. T \in SUBSET Selections
    OBVIOUS
  <2> HIDE DEF T
  <2>2. QED
    BY <1>9, <2>1, TreeInduction
<1>11. QED
  BY <1>8, <1>10 DEF DepthOf

\* A field is one level deeper than what is below it; so is an inline fragment, if
\* there is a field in it.
LEMMA DeeperThanBelow ==
  ASSUME NEW s \in Selections, NEW c \in Range(s.below)
  PROVE  /\ Depth[c] \in Nat /\ Depth[s] \in Nat
         /\ s.kind = "field" => Depth[c] + 1 <= Depth[s]
         /\ s.kind = "inline" => Depth[c] = 0 \/ Depth[c] + 1 <= Depth[s]
<1>1. /\ s.below \in Seq(Selections) /\ c \in Selections
      /\ \A x \in Range(s.below) : Depth[x] \in Nat
  BY Children, Depths
<1>2. DepthOf(s.below) \in Nat /\ Depth[c] <= DepthOf(s.below)
  BY <1>1, DeepestOfAll DEF DepthOf
<1>3. Depth[s] = SelectionDepth(s, DepthOf(s.below)) /\ Depth[c] \in Nat /\ Depth[s] \in Nat
  BY <1>1, Depths
<1>4. QED
  BY <1>2, <1>3 DEF SelectionDepth

LEMMA FieldIsALevel ==
  ASSUME NEW s \in Selections, s.kind = "field"
  PROVE  Depth[s] \in Nat /\ Depth[s] >= 1
<1>1. s.below \in Seq(Selections) /\ \A c \in Range(s.below) : Depth[c] \in Nat
  BY Children, Depths
<1>2. DepthOf(s.below) \in Nat
  BY <1>1, DeepestOfAll DEF DepthOf
<1>3. QED
  BY <1>2, Depths DEF SelectionDepth

-----------------------------------------------------------------------------
(* Braces                                                                  *)

\* The braces before a place are counted one by one.
LEMMA BracesCount ==
  ASSUME NEW V, NEW x \in Seq(V), NEW b
  PROVE  /\ Len(x) \in Nat /\ DOMAIN x = 1..Len(x)
         /\ Braces(x, b, 1) = 0
         /\ \A i \in 1..(Len(x) + 1) : Braces(x, b, i) \in Nat
         /\ \A i \in 1..Len(x) :
              Braces(x, b, i + 1) = Braces(x, b, i) + (IF x[i] = b THEN 1 ELSE 0)
<1>1. Len(x) \in Nat /\ DOMAIN x = 1..Len(x)
  BY LenProperties
<1> DEFINE At(i) == {j \in 1..(i - 1) : x[j] = b}
<1>2. \A i \in Nat : IsFiniteSet(At(i))
  <2> SUFFICES ASSUME NEW i \in Nat
               PROVE  IsFiniteSet(At(i))
    OBVIOUS
  <2>1. IsFiniteSet(1..(i - 1))
    BY FS_Interval
  <2>2. At(i) \in SUBSET (1..(i - 1))
    OBVIOUS
  <2> HIDE DEF At
  <2>3. QED
    BY <2>1, <2>2, FS_Subset
<1>3. At(1) = {}
  OBVIOUS
<1>4. ASSUME NEW i \in 1..Len(x)
      PROVE  /\ i \notin At(i) /\ i \in Nat
             /\ At(i + 1) = At(i) \cup (IF x[i] = b THEN {i} ELSE {})
  <2>1. i \in Nat /\ i >= 1
    BY <1>1
  <2>2. 1..((i + 1) - 1) = 1..(i - 1) \cup {i} /\ i \notin 1..(i - 1)
    BY <2>1
  <2>3. QED
    BY <2>1, <2>2
<1> HIDE DEF At
<1>5. Braces(x, b, 1) = 0
  BY <1>3, FS_EmptySet DEF Braces, At
<1>6. \A i \in 1..(Len(x) + 1) : i \in Nat
  BY <1>1
<1>7. \A i \in 1..(Len(x) + 1) : Cardinality(At(i)) \in Nat
  BY <1>2, <1>6, FS_CardinalityType
<1>8. ASSUME NEW i \in 1..Len(x)
      PROVE  Cardinality(At(i + 1)) = Cardinality(At(i)) + (IF x[i] = b THEN 1 ELSE 0)
  <2>1. i \in 1..(Len(x) + 1) /\ IsFiniteSet(At(i)) /\ Cardinality(At(i)) \in Nat
    BY <1>1, <1>2, <1>4, <1>7
  <2>2. CASE x[i] = b
    <3>1. At(i + 1) = At(i) \cup {i}
      BY <1>4, <2>2
    <3>2. Cardinality(At(i) \cup {i}) = Cardinality(At(i)) + 1
      BY <1>4, <2>1, FS_AddElement
    <3>3. QED
      BY <2>2, <3>1, <3>2
  <2>3. CASE x[i] # b
    <3>1. At(i + 1) = At(i)
      BY <1>4, <2>3
    <3>2. QED
      BY <2>1, <2>3, <3>1
  <2>4. QED
    BY <2>2, <2>3
<1>9. \A i : Braces(x, b, i) = Cardinality(At(i))
  BY DEF Braces, At
<1>10. QED
  BY <1>1, <1>5, <1>7, <1>8, <1>9

\* z is what x and y are together, and has the braces of both.
IsJoined(V, z, x, y) ==
  /\ z \in Seq(V) /\ Len(z) = Len(x) + Len(y)
  /\ \A i \in 1..Len(x) : z[i] = x[i]
  /\ \A i \in 1..Len(y) : z[Len(x) + i] = y[i]
AddsBraces(z, x, y, b) ==
  /\ \A i \in 1..(Len(x) + 1) : Braces(z, b, i) = Braces(x, b, i)
  /\ \A i \in 1..(Len(y) + 1) :
       Braces(z, b, Len(x) + i) = Braces(x, b, Len(x) + 1) + Braces(y, b, i)

LEMMA BracesJoined ==
  ASSUME NEW V, NEW x \in Seq(V), NEW y \in Seq(V), NEW b
  PROVE  IsJoined(V, x \o y, x, y) /\ AddsBraces(x \o y, x, y, b)
<1> DEFINE z == x \o y
           m == Len(x)
           n == Len(y)
<1>1. m \in Nat /\ n \in Nat
  BY LenProperties
<1>2. /\ z \in Seq(V) /\ Len(z) = m + n
      /\ \A i \in 1..m : z[i] = x[i]
      /\ \A i \in 1..n : z[m + i] = y[i]
  <2>1. /\ z \in Seq(V) /\ Len(z) = m + n
        /\ \A i \in 1..(m + n) : z[i] = IF i <= m THEN x[i] ELSE y[i - m]
    BY ConcatProperties
  <2> HIDE DEF z, m, n
  <2>2. \A i \in 1..m : i \in 1..(m + n) /\ i <= m
    BY <1>1
  <2>3. \A i \in 1..n : m + i \in 1..(m + n) /\ ~ (m + i <= m) /\ (m + i) - m = i
    BY <1>1
  <2>4. \A i \in 1..n : z[m + i] = y[(m + i) - m]
    BY <2>1, <2>3
  <2>5. QED
    BY <2>1, <2>2, <2>3, <2>4
<1> HIDE DEF z
<1>3. /\ Braces(z, b, 1) = 0
      /\ \A i \in 1..(m + n) : Braces(z, b, i + 1) = Braces(z, b, i) + (IF z[i] = b THEN 1 ELSE 0)
      /\ \A i \in 1..(m + n + 1) : Braces(z, b, i) \in Nat
  <2>1. /\ Braces(z, b, 1) = 0
        /\ \A i \in 1..Len(z) : Braces(z, b, i + 1) = Braces(z, b, i) + (IF z[i] = b THEN 1 ELSE 0)
        /\ \A i \in 1..(Len(z) + 1) : Braces(z, b, i) \in Nat
    <3>1. z \in Seq(V)
      BY <1>2
    <3>2. QED
      BY <3>1, BracesCount
  <2>2. QED
    BY <1>2, <2>1
<1>4. /\ Braces(x, b, 1) = 0
      /\ \A i \in 1..m : Braces(x, b, i + 1) = Braces(x, b, i) + (IF x[i] = b THEN 1 ELSE 0)
      /\ \A i \in 1..(m + 1) : Braces(x, b, i) \in Nat
  BY BracesCount
<1>5. /\ Braces(y, b, 1) = 0
      /\ \A i \in 1..n : Braces(y, b, i + 1) = Braces(y, b, i) + (IF y[i] = b THEN 1 ELSE 0)
      /\ \A i \in 1..(n + 1) : Braces(y, b, i) \in Nat
  BY BracesCount
<1> HIDE DEF m, n
<1>6. \A k \in Nat : k + 1 \in 1..(m + 1) => Braces(z, b, k + 1) = Braces(x, b, k + 1)
  <2> DEFINE K == {k \in Nat : k + 1 \in 1..(m + 1) => Braces(z, b, k + 1) = Braces(x, b, k + 1)}
  <2>1. 0 \in K
    BY <1>3, <1>4
  <2>2. ASSUME NEW k \in K
        PROVE  k + 1 \in K
    <3> SUFFICES ASSUME (k + 1) + 1 \in 1..(m + 1)
                 PROVE  Braces(z, b, (k + 1) + 1) = Braces(x, b, (k + 1) + 1)
      OBVIOUS
    <3>1. k + 1 \in 1..m /\ k + 1 \in 1..(m + n) /\ k + 1 \in 1..(m + 1)
      BY <1>1
    <3>2. Braces(z, b, k + 1) = Braces(x, b, k + 1)
      BY <3>1
    <3>3. z[k + 1] = x[k + 1]
      BY <1>2, <3>1
    <3>4. QED
      BY <1>3, <1>4, <3>1, <3>2, <3>3
  <2>3. K = Nat
    <3>1. K \in SUBSET Nat
      OBVIOUS
    <3> HIDE DEF K
    <3>2. QED
      BY <2>1, <2>2, <3>1, Counting
  <2>4. QED
    BY <2>3
<1>7. \A i \in 1..(m + 1) : Braces(z, b, i) = Braces(x, b, i)
  <2>1. \A i \in 1..(m + 1) : i - 1 \in Nat /\ (i - 1) + 1 = i
    BY <1>1
  <2>2. QED
    BY <1>6, <2>1
<1>8. \A k \in Nat : k + 1 \in 1..(n + 1) =>
        Braces(z, b, m + (k + 1)) = Braces(x, b, m + 1) + Braces(y, b, k + 1)
  <2> DEFINE K == {k \in Nat : k + 1 \in 1..(n + 1) =>
                     Braces(z, b, m + (k + 1)) = Braces(x, b, m + 1) + Braces(y, b, k + 1)}
  <2>1. 0 \in K
    <3>1. m + 1 \in 1..(m + 1)
      BY <1>1
    <3>2. Braces(z, b, m + 1) = Braces(x, b, m + 1) /\ Braces(x, b, m + 1) \in Nat
      BY <1>4, <1>7, <3>1
    <3>3. QED
      BY <1>5, <3>2
  <2>2. ASSUME NEW k \in K
        PROVE  k + 1 \in K
    <3> SUFFICES ASSUME (k + 1) + 1 \in 1..(n + 1)
                 PROVE  Braces(z, b, m + ((k + 1) + 1))
                          = Braces(x, b, m + 1) + Braces(y, b, (k + 1) + 1)
      OBVIOUS
    <3>1. /\ k + 1 \in 1..n /\ k + 1 \in 1..(n + 1) /\ m + (k + 1) \in 1..(m + n)
          /\ m + ((k + 1) + 1) = (m + (k + 1)) + 1 /\ m + 1 \in 1..(m + 1)
      BY <1>1
    <3>2. Braces(z, b, m + (k + 1)) = Braces(x, b, m + 1) + Braces(y, b, k + 1)
      BY <3>1
    <3>3. z[m + (k + 1)] = y[k + 1]
      BY <1>2, <3>1
    <3>4. Braces(z, b, (m + (k + 1)) + 1) =
            Braces(z, b, m + (k + 1)) + (IF z[m + (k + 1)] = b THEN 1 ELSE 0)
      BY <1>3, <3>1
    <3>5. Braces(y, b, (k + 1) + 1) = Braces(y, b, k + 1) + (IF y[k + 1] = b THEN 1 ELSE 0)
      BY <1>5, <3>1
    <3>6. Braces(x, b, m + 1) \in Nat /\ Braces(y, b, k + 1) \in Nat
      BY <1>4, <1>5, <3>1
    <3> HIDE DEF K
    <3>7. QED
      BY <3>1, <3>2, <3>3, <3>4, <3>5, <3>6
  <2>3. K = Nat
    <3>1. K \in SUBSET Nat
      OBVIOUS
    <3> HIDE DEF K
    <3>2. QED
      BY <2>1, <2>2, <3>1, Counting
  <2>4. QED
    BY <2>3
<1>9. \A i \in 1..(n + 1) : Braces(z, b, m + i) = Braces(x, b, m + 1) + Braces(y, b, i)
  <2>1. \A i \in 1..(n + 1) : i - 1 \in Nat /\ (i - 1) + 1 = i
    BY <1>1
  <2>2. QED
    BY <1>8, <2>1
<1>10. QED
  BY <1>2, <1>7, <1>9 DEF z, m, n, IsJoined, AddsBraces

\* A brace alone.
LEMMA OneBrace ==
  ASSUME NEW V, NEW c \in V, NEW b
  PROVE  /\ <<c>> \in Seq(V) /\ Len(<<c>>) = 1 /\ <<c>>[1] = c
         /\ Braces(<<c>>, b, 1) = 0
         /\ Braces(<<c>>, b, 2) = (IF c = b THEN 1 ELSE 0)
<1> DEFINE x == <<c>>
<1>1. x \in Seq(V) /\ Len(x) = 1 /\ x[1] = c
  BY OneToken
<1> HIDE DEF x
<1>2. /\ Braces(x, b, 1) = 0
      /\ \A i \in 1..1 : Braces(x, b, i + 1) = Braces(x, b, i) + (IF x[i] = b THEN 1 ELSE 0)
  BY <1>1, BracesCount
<1>3. 1 \in 1..1 /\ 1 + 1 = 2
  OBVIOUS
<1>4. Braces(x, b, 2) = 0 + (IF c = b THEN 1 ELSE 0)
  BY <1>1, <1>2, <1>3
<1>5. QED
  BY <1>1, <1>2, <1>4 DEF x

\* The braces of a text in braces.
LEMMA BracesBraced ==
  ASSUME NEW V, {Open, Close} \subseteq V, NEW x \in Seq(V)
  PROVE  LET z == Braced(x)
             n == Len(x)
         IN /\ z \in Seq(V) /\ Len(z) = n + 2
            /\ z[1] = Open /\ z[n + 2] = Close /\ \A i \in 1..n : z[i + 1] = x[i]
            /\ \A b \in {Open, Close} : Braces(z, b, 1) = 0
            /\ \A i \in 1..(n + 1) : /\ Braces(z, Open, i + 1) = Braces(x, Open, i) + 1
                                     /\ Braces(z, Close, i + 1) = Braces(x, Close, i)
            /\ Braces(z, Open, n + 3) = Braces(x, Open, n + 1) + 1
            /\ Braces(z, Close, n + 3) = Braces(x, Close, n + 1) + 1
<1> DEFINE l == <<Open>>
           r == <<Close>>
           m == l \o x
           z == m \o r
           n == Len(x)
<1>1. /\ l \in Seq(V) /\ Len(l) = 1 /\ l[1] = Open /\ Braces(l, Open, 1) = 0 /\ Braces(l, Open, 2) = 1
      /\ Braces(l, Close, 1) = 0 /\ Braces(l, Close, 2) = 0
  <2>1. Open \in V /\ Open # Close
    BY TwoBraces
  <2>2. QED
    BY <2>1, OneBrace
<1>2. /\ r \in Seq(V) /\ Len(r) = 1 /\ r[1] = Close /\ Braces(r, Open, 1) = 0 /\ Braces(r, Open, 2) = 0
      /\ Braces(r, Close, 1) = 0 /\ Braces(r, Close, 2) = 1
  <2>1. Close \in V /\ Open # Close
    BY TwoBraces
  <2>2. QED
    BY <2>1, OneBrace
<1>3. n \in Nat /\ \A b \in {Open, Close} : \A i \in 1..(n + 1) : Braces(x, b, i) \in Nat
  BY BracesCount
<1>4. Braced(x) = z
  BY DEF Braced
<1> HIDE DEF l, r
<1>5. /\ m \in Seq(V) /\ Len(m) = n + 1 /\ m[1] = Open /\ \A i \in 1..n : m[i + 1] = x[i]
      /\ \A b \in {Open, Close} : Braces(m, b, 1) = 0
      /\ \A i \in 1..(n + 1) : /\ Braces(m, Open, i + 1) = Braces(x, Open, i) + 1
                               /\ Braces(m, Close, i + 1) = Braces(x, Close, i)
  <2>1. ASSUME NEW b
        PROVE  /\ m \in Seq(V) /\ Len(m) = Len(l) + n
               /\ \A i \in 1..Len(l) : m[i] = l[i]
               /\ \A i \in 1..n : m[Len(l) + i] = x[i]
               /\ \A i \in 1..(Len(l) + 1) : Braces(m, b, i) = Braces(l, b, i)
               /\ \A i \in 1..(n + 1) :
                    Braces(m, b, Len(l) + i) = Braces(l, b, Len(l) + 1) + Braces(x, b, i)
    <3>1. l \in Seq(V)
      BY <1>1
    <3>2. IsJoined(V, m, l, x) /\ AddsBraces(m, l, x, b)
      BY <3>1, BracesJoined
    <3>3. QED
      BY <3>2 DEF IsJoined, AddsBraces
  <2> HIDE DEF m, n
  <2>2. 1 \in 1..1 /\ 1 \in 1..(1 + 1) /\ 1 + 1 = 2 /\ \A i \in 1..(n + 1) : 1 + i = i + 1
    BY <1>3
  <2>3. m \in Seq(V) /\ Len(m) = n + 1 /\ m[1] = Open
    BY <1>1, <1>3, <2>1, <2>2
  <2>4. \A i \in 1..n : m[i + 1] = x[i]
    <3>1. \A i \in 1..n : 1 + i = i + 1
      BY <1>3
    <3>2. QED
      BY <1>1, <2>1, <3>1
  <2>5. \A b \in {Open, Close} : Braces(m, b, 1) = 0
    BY <1>1, <2>1, <2>2
  <2>6. ASSUME NEW i \in 1..(n + 1)
        PROVE  /\ Braces(m, Open, i + 1) = Braces(x, Open, i) + 1
               /\ Braces(m, Close, i + 1) = Braces(x, Close, i)
    <3>1. Braces(m, Open, 1 + i) = 1 + Braces(x, Open, i)
      BY <1>1, <2>1, <2>2
    <3>2. Braces(m, Close, 1 + i) = 0 + Braces(x, Close, i)
      BY <1>1, <2>1, <2>2
    <3>3. Braces(x, Open, i) \in Nat /\ Braces(x, Close, i) \in Nat
      BY <1>3
    <3>4. QED
      BY <2>2, <3>1, <3>2, <3>3
  <2>7. QED
    BY <2>3, <2>4, <2>5, <2>6
<1>6. ASSUME NEW b
      PROVE  /\ z \in Seq(V) /\ Len(z) = Len(m) + Len(r)
             /\ \A i \in 1..Len(m) : z[i] = m[i]
             /\ \A i \in 1..Len(r) : z[Len(m) + i] = r[i]
             /\ \A i \in 1..(Len(m) + 1) : Braces(z, b, i) = Braces(m, b, i)
             /\ \A i \in 1..(Len(r) + 1) :
                  Braces(z, b, Len(m) + i) = Braces(m, b, Len(m) + 1) + Braces(r, b, i)
  <2>1. m \in Seq(V)
    BY <1>5
  <2>2. r \in Seq(V)
    BY <1>2
  <2> HIDE DEF m
  <2>3. IsJoined(V, z, m, r) /\ AddsBraces(z, m, r, b)
    BY <2>1, <2>2, BracesJoined
  <2>4. QED
    BY <2>3 DEF IsJoined, AddsBraces
<1> HIDE DEF m, z, n
<1>7. z \in Seq(V) /\ Len(z) = n + 2 /\ z[1] = Open /\ z[n + 2] = Close
  <2>1. Len(z) = (n + 1) + 1 /\ (n + 1) + 1 = n + 2 /\ 1 \in 1..(n + 1) /\ 1 \in 1..1
    BY <1>2, <1>3, <1>5, <1>6
  <2>2. z[1] = m[1] /\ z[(n + 1) + 1] = r[1]
    BY <1>2, <1>5, <1>6, <2>1
  <2>3. QED
    BY <1>2, <1>5, <1>6, <2>1, <2>2
<1>8. \A i \in 1..n : z[i + 1] = x[i]
  <2>1. \A i \in 1..n : i + 1 \in 1..(n + 1)
    BY <1>3
  <2>2. QED
    BY <1>5, <1>6, <2>1
<1>9. \A b \in {Open, Close} : Braces(z, b, 1) = 0
  <2>1. 1 \in 1..((n + 1) + 1)
    BY <1>3
  <2>2. QED
    BY <1>5, <1>6, <2>1
<1>10. \A i \in 1..(n + 1) : /\ Braces(z, Open, i + 1) = Braces(x, Open, i) + 1
                             /\ Braces(z, Close, i + 1) = Braces(x, Close, i)
  <2>1. \A i \in 1..(n + 1) : i + 1 \in 1..((n + 1) + 1)
    BY <1>3
  <2>2. \A i \in 1..(n + 1) : /\ Braces(z, Open, i + 1) = Braces(m, Open, i + 1)
                              /\ Braces(z, Close, i + 1) = Braces(m, Close, i + 1)
    BY <1>5, <1>6, <2>1
  <2>3. QED
    BY <1>5, <2>2
<1>11. /\ Braces(z, Open, n + 3) = Braces(x, Open, n + 1) + 1
       /\ Braces(z, Close, n + 3) = Braces(x, Close, n + 1) + 1
  <2>1. /\ 2 \in 1..(1 + 1) /\ (n + 1) + 2 = n + 3 /\ n + 1 \in 1..(n + 1)
    BY <1>3
  <2>2. /\ Braces(z, Open, (n + 1) + 2) = Braces(m, Open, (n + 1) + 1) + Braces(r, Open, 2)
        /\ Braces(z, Close, (n + 1) + 2) = Braces(m, Close, (n + 1) + 1) + Braces(r, Close, 2)
    BY <1>2, <1>5, <1>6, <2>1
  <2>3. /\ Braces(m, Open, (n + 1) + 1) = Braces(x, Open, n + 1) + 1
        /\ Braces(m, Close, (n + 1) + 1) = Braces(x, Close, n + 1)
    BY <1>5, <2>1
  <2>4. Braces(x, Open, n + 1) \in Nat /\ Braces(x, Close, n + 1) \in Nat
    BY <1>3, <2>1
  <2>5. QED
    BY <1>2, <2>1, <2>2, <2>3, <2>4
<1>12. QED
  BY <1>4, <1>7, <1>8, <1>9, <1>10, <1>11 DEF n

\* No name in a text is deeper than d.
Shallow(x, d) == \A i \in 1..Len(x) : x[i] \in Names => Nesting(x, i) <= d

LEMMA NestingType ==
  ASSUME NEW V, NEW x \in Seq(V), NEW i \in 1..(Len(x) + 1)
  PROVE  Braces(x, Open, i) \in Nat /\ Braces(x, Close, i) \in Nat /\ Nesting(x, i) \in Int
<1>1. Braces(x, Open, i) \in Nat /\ Braces(x, Close, i) \in Nat
  BY BracesCount
<1>2. QED
  BY <1>1 DEF Nesting

LEMMA DeeperIsShallower ==
  ASSUME NEW V, NEW x \in Seq(V), NEW d \in Nat, NEW e \in Nat, d <= e, Shallow(x, d)
  PROVE  Shallow(x, e)
<1> SUFFICES ASSUME NEW i \in 1..Len(x), x[i] \in Names
             PROVE  Nesting(x, i) <= e
  BY DEF Shallow
<1>1. Len(x) \in Nat
  BY LenProperties
<1>2. i \in 1..(Len(x) + 1)
  BY <1>1
<1>3. Nesting(x, i) \in Int
  BY <1>2, NestingType
<1>4. Nesting(x, i) <= d
  BY DEF Shallow
<1>5. QED
  BY <1>3, <1>4

\* Texts without braces.
LEMMA WithoutBraces ==
  ASSUME NEW V, NEW x \in Seq(V), Open \notin Range(x), Close \notin Range(x)
  PROVE  /\ \A b \in {Open, Close} : \A i \in 1..(Len(x) + 1) : Braces(x, b, i) = 0
         /\ Balanced(x) /\ Shallow(x, 1)
<1>1. /\ Len(x) \in Nat /\ DOMAIN x = 1..Len(x)
      /\ \A i \in 1..Len(x) : x[i] \in Range(x)
  BY SeqElements
<1>2. \A i \in 1..Len(x) : x[i] # Open /\ x[i] # Close
  BY <1>1
<1>3. ASSUME NEW b \in {Open, Close}, NEW i \in 1..(Len(x) + 1)
      PROVE  Braces(x, b, i) = 0
  <2>1. {j \in 1..(i - 1) : x[j] = b} = {}
    <3>1. \A j \in 1..(i - 1) : j \in 1..Len(x)
      BY <1>1
    <3>2. QED
      BY <1>2, <3>1
  <2>2. QED
    BY <2>1, FS_EmptySet DEF Braces
<1>4. Len(x) + 1 \in 1..(Len(x) + 1) /\ \A i \in 1..Len(x) : i \in 1..(Len(x) + 1)
  BY <1>1
<1>5. Balanced(x)
  BY <1>1, <1>2, <1>3, <1>4 DEF Balanced
<1>6. \A i \in 1..Len(x) : Nesting(x, i) = 1
  <2>1. \A i \in 1..Len(x) : Braces(x, Open, i) = 0 /\ Braces(x, Close, i) = 0
    BY <1>3, <1>4
  <2>2. QED
    BY <2>1 DEF Nesting
<1>7. Shallow(x, 1)
  BY <1>6 DEF Shallow
<1>8. QED
  BY <1>3, <1>5, <1>7

\* What two balanced texts are together.
LEMMA NestedJoined ==
  ASSUME NEW V, NEW x \in Seq(V), NEW y \in Seq(V), Balanced(x)
  PROVE  /\ Balanced(y) => Balanced(x \o y)
         /\ \A d \in Nat : Shallow(x, d) /\ Shallow(y, d) => Shallow(x \o y, d)
<1> DEFINE z == x \o y
           m == Len(x)
           n == Len(y)
           total == Braces(x, Open, m + 1)
<1>1. /\ m \in Nat /\ n \in Nat /\ DOMAIN x = 1..m /\ DOMAIN y = 1..n
      /\ total \in Nat /\ Braces(x, Close, m + 1) = total
  <2>1. m \in Nat /\ n \in Nat /\ DOMAIN x = 1..m /\ DOMAIN y = 1..n
    BY LenProperties
  <2>2. m + 1 \in 1..(m + 1)
    BY <2>1
  <2>3. QED
    BY <2>1, <2>2, NestingType DEF Balanced
<1>2. ASSUME NEW b
      PROVE  IsJoined(V, z, x, y) /\ AddsBraces(z, x, y, b)
  BY BracesJoined
<1> HIDE DEF z, m, n, total
<1>3. z \in Seq(V) /\ Len(z) = m + n /\ DOMAIN z = 1..(m + n)
  <2>1. z \in Seq(V) /\ Len(z) = m + n
    BY <1>2 DEF IsJoined, m, n
  <2>2. QED
    BY <2>1, LenProperties
\* A place of z is one of x or one of y.
<1>4. ASSUME NEW i \in 1..m
      PROVE  /\ z[i] = x[i]
             /\ Braces(z, Open, i) = Braces(x, Open, i)
             /\ Braces(z, Close, i) = Braces(x, Close, i)
  <2>1. i \in 1..(m + 1)
    BY <1>1
  <2>2. QED
    BY <1>2, <2>1 DEF IsJoined, AddsBraces, m
<1>5. ASSUME NEW j \in 1..(n + 1)
      PROVE  /\ Braces(z, Open, m + j) = total + Braces(y, Open, j)
             /\ Braces(z, Close, m + j) = total + Braces(y, Close, j)
  BY <1>1, <1>2 DEF AddsBraces, m, n, total
<1>6. \A j \in 1..n : z[m + j] = y[j] /\ j \in 1..(n + 1)
  <2>1. \A j \in 1..n : z[m + j] = y[j]
    BY <1>2 DEF IsJoined, m, n
  <2>2. QED
    BY <1>1, <2>1
<1>7. \A i \in 1..(m + n) : i \in 1..m \/ \E j \in 1..n : i = m + j
  <2>1. \A i \in 1..(m + n) : i \in 1..m \/ (i - m \in 1..n /\ i = m + (i - m))
    BY <1>1
  <2>2. QED
    BY <2>1
<1>8. \A j \in 1..(n + 1) : Braces(y, Open, j) \in Nat /\ Braces(y, Close, j) \in Nat
  BY NestingType DEF n
<1>9. ASSUME Balanced(y)
      PROVE  Balanced(z)
  <2>1. ASSUME NEW i \in 1..(m + n), z[i] = Close
        PROVE  Braces(z, Open, i) > Braces(z, Close, i)
    <3>1. CASE i \in 1..m
      BY <1>1, <1>4, <2>1, <3>1 DEF Balanced
    <3>2. CASE \E j \in 1..n : i = m + j
      <4>1. PICK j \in 1..n : i = m + j
        BY <3>2
      <4>2. y[j] = Close /\ j \in 1..(n + 1)
        BY <1>6, <2>1, <4>1
      <4>3. Braces(y, Open, j) > Braces(y, Close, j)
        BY <1>1, <1>9, <4>2 DEF Balanced
      <4>4. QED
        BY <1>1, <1>5, <1>8, <4>1, <4>2, <4>3
    <3>3. QED
      BY <1>7, <3>1, <3>2
  <2>2. Braces(z, Open, m + n + 1) = Braces(z, Close, m + n + 1)
    <3>1. n + 1 \in 1..(n + 1) /\ m + (n + 1) = m + n + 1
      BY <1>1
    <3>2. Braces(y, Open, n + 1) = Braces(y, Close, n + 1)
      BY <1>9 DEF Balanced, n
    <3>3. QED
      BY <1>5, <3>1, <3>2
  <2>3. QED
    BY <1>3, <2>1, <2>2 DEF Balanced
<1>10. ASSUME NEW d \in Nat, Shallow(x, d), Shallow(y, d)
       PROVE  Shallow(z, d)
  <2>1. ASSUME NEW i \in 1..(m + n), z[i] \in Names
        PROVE  Nesting(z, i) <= d
    <3>1. CASE i \in 1..m
      <4>1. Nesting(x, i) <= d
        BY <1>4, <1>10, <2>1, <3>1 DEF Shallow, m
      <4>2. QED
        BY <1>4, <3>1, <4>1 DEF Nesting
    <3>2. CASE \E j \in 1..n : i = m + j
      <4>1. PICK j \in 1..n : i = m + j
        BY <3>2
      <4>2. y[j] \in Names /\ j \in 1..(n + 1)
        BY <1>6, <2>1, <4>1
      <4>3. 1 + Braces(y, Open, j) - Braces(y, Close, j) <= d
        BY <1>10, <4>1, <4>2 DEF Shallow, Nesting, n
      <4>4. 1 + Braces(z, Open, i) - Braces(z, Close, i) <= d
        BY <1>1, <1>5, <1>8, <4>1, <4>2, <4>3
      <4>5. QED
        BY <4>4 DEF Nesting
    <3>3. QED
      BY <1>7, <3>1, <3>2
  <2>2. QED
    BY <1>3, <2>1 DEF Shallow
<1>11. QED
  BY <1>9, <1>10 DEF z

\* What is in braces is balanced, and one level deeper.
LEMMA NestedBraced ==
  ASSUME NEW V, {Open, Close} \subseteq V, NEW x \in Seq(V), Balanced(x)
  PROVE  /\ Balanced(Braced(x))
         /\ \A d \in Nat : Shallow(x, d) => Shallow(Braced(x), d + 1)
<1> DEFINE z == Braced(x)
           n == Len(x)
<1>1. /\ z \in Seq(V) /\ Len(z) = n + 2
      /\ z[1] = Open /\ z[n + 2] = Close /\ \A i \in 1..n : z[i + 1] = x[i]
      /\ \A b \in {Open, Close} : Braces(z, b, 1) = 0
      /\ \A i \in 1..(n + 1) : /\ Braces(z, Open, i + 1) = Braces(x, Open, i) + 1
                               /\ Braces(z, Close, i + 1) = Braces(x, Close, i)
      /\ Braces(z, Open, n + 3) = Braces(x, Open, n + 1) + 1
      /\ Braces(z, Close, n + 3) = Braces(x, Close, n + 1) + 1
  BY BracesBraced
<1>2. /\ n \in Nat /\ DOMAIN x = 1..n
      /\ \A i \in 1..(n + 1) : Braces(x, Open, i) \in Nat /\ Braces(x, Close, i) \in Nat
      /\ Braces(x, Open, n + 1) = Braces(x, Close, n + 1)
  BY LenProperties, NestingType DEF Balanced
<1> HIDE DEF z, n
<1>3. DOMAIN z = 1..(n + 2)
  BY <1>1, LenProperties
<1>4. /\ \A i \in 1..(n + 2) : i = 1 \/ i = n + 2 \/ \E j \in 1..n : i = j + 1
      /\ n + 1 \in 1..(n + 1) /\ (n + 1) + 1 = n + 2 /\ \A j \in 1..n : j \in 1..(n + 1)
  <2>1. \A i \in 1..(n + 2) : i = 1 \/ i = n + 2 \/ (i - 1 \in 1..n /\ i = (i - 1) + 1)
    BY <1>2
  <2>2. n + 1 \in 1..(n + 1) /\ (n + 1) + 1 = n + 2 /\ \A j \in 1..n : j \in 1..(n + 1)
    BY <1>2
  <2>3. QED
    BY <2>1, <2>2
<1>5. Open # Close /\ Open \notin Names /\ Close \notin Names
  BY TwoBraces, TokenAssumption DEF TokenAssumption
<1>6. ASSUME NEW i \in 1..(n + 2), z[i] = Close
      PROVE  Braces(z, Open, i) > Braces(z, Close, i)
  <2>1. CASE i = 1
    BY <1>1, <1>5, <1>6, <2>1
  <2>2. CASE i = n + 2
    <3>1. /\ Braces(z, Open, n + 2) = Braces(x, Open, n + 1) + 1
          /\ Braces(z, Close, n + 2) = Braces(x, Close, n + 1)
      BY <1>1, <1>4
    <3>2. Braces(x, Open, n + 1) \in Nat /\ Braces(x, Open, n + 1) = Braces(x, Close, n + 1)
      BY <1>2, <1>4
    <3>3. QED
      BY <2>2, <3>1, <3>2
  <2>3. CASE \E j \in 1..n : i = j + 1
    <3>1. PICK j \in 1..n : i = j + 1
      BY <2>3
    <3>2. x[j] = Close /\ j \in 1..(n + 1)
      BY <1>1, <1>4, <1>6, <3>1
    <3>3. Braces(x, Open, j) > Braces(x, Close, j)
      BY <1>2, <3>2 DEF Balanced
    <3>4. Braces(x, Open, j) \in Nat /\ Braces(x, Close, j) \in Nat
      BY <1>2, <3>2
    <3>5. Braces(z, Open, i) = Braces(x, Open, j) + 1 /\ Braces(z, Close, i) = Braces(x, Close, j)
      BY <1>1, <3>1, <3>2
    <3>6. QED
      BY <3>3, <3>4, <3>5
  <2>4. QED
    BY <1>4, <2>1, <2>2, <2>3
<1>7. Balanced(z)
  <2>1. Len(z) + 1 = n + 3
    BY <1>1, <1>2
  <2>2. Braces(z, Open, n + 3) = Braces(z, Close, n + 3)
    BY <1>1, <1>2
  <2>3. QED
    BY <1>3, <1>6, <2>1, <2>2 DEF Balanced
<1>8. ASSUME NEW d \in Nat, Shallow(x, d), NEW i \in 1..(n + 2), z[i] \in Names
      PROVE  Nesting(z, i) <= d + 1
  <2>1. PICK j \in 1..n : i = j + 1
    BY <1>1, <1>4, <1>5, <1>8
  <2>2. x[j] \in Names /\ j \in 1..(n + 1)
    BY <1>1, <1>4, <1>8, <2>1
  <2>3. 1 + Braces(x, Open, j) - Braces(x, Close, j) <= d
    BY <1>8, <2>2 DEF Shallow, Nesting, n
  <2>4. Braces(z, Open, i) = Braces(x, Open, j) + 1 /\ Braces(z, Close, i) = Braces(x, Close, j)
    BY <1>1, <2>1, <2>2
  <2>5. Braces(x, Open, j) \in Nat /\ Braces(x, Close, j) \in Nat
    BY <1>2, <2>2
  <2>6. 1 + Braces(z, Open, i) - Braces(z, Close, i) <= d + 1
    BY <2>3, <2>4, <2>5
  <2>7. QED
    BY <2>6 DEF Nesting
<1>9. \A d \in Nat : Shallow(x, d) => Shallow(z, d + 1)
  BY <1>1, <1>8 DEF Shallow
<1>10. QED
  BY <1>7, <1>9 DEF z

-----------------------------------------------------------------------------
(* What a scan of the bytes of a text sees                                 *)

Byte(t) == IF t \in DOMAIN Misread THEN Misread[t] ELSE t
Scanned == {Byte(t) : t \in Tokens}

LEMMA BytesOf ==
  ASSUME NEW x \in Seq(Tokens)
  PROVE  /\ Bytes(x) \in Seq(Scanned) /\ Len(Bytes(x)) = Len(x)
         /\ \A i \in 1..Len(x) : Bytes(x)[i] = Byte(x[i])
         /\ Range(Bytes(x)) = {Byte(t) : t \in Range(x)}
<1>1. /\ Len(x) \in Nat /\ DOMAIN x = 1..Len(x) /\ \A i \in 1..Len(x) : x[i] \in Tokens
      /\ Range(x) = {x[i] : i \in 1..Len(x)}
  <2>1. Len(x) \in Nat /\ DOMAIN x = 1..Len(x) /\ \A i \in 1..Len(x) : x[i] \in Tokens
    BY LenProperties, ElementOfSeq
  <2>2. QED
    BY <2>1, RangeEquality
<1>2. Bytes(x) = [i \in 1..Len(x) |-> Byte(x[i])]
  BY <1>1 DEF Bytes, Byte
<1>3. \A i \in 1..Len(x) : Byte(x[i]) \in Scanned
  BY <1>1 DEF Scanned
<1> DEFINE y == Bytes(x)
<1>4. y \in [1..Len(x) -> Scanned] /\ \A i \in 1..Len(x) : y[i] = Byte(x[i])
  BY <1>2, <1>3
<1> HIDE DEF y
<1>5. y \in Seq(Scanned) /\ Len(y) = Len(x)
  BY <1>1, <1>4
<1>6. Range(y) = {y[i] : i \in 1..Len(x)}
  BY <1>5, RangeEquality
<1>7. Range(y) = {Byte(t) : t \in Range(x)}
  BY <1>1, <1>4, <1>6
<1>8. QED
  BY <1>4, <1>5, <1>7 DEF y

LEMMA BytesJoined ==
  ASSUME NEW x \in Seq(Tokens), NEW y \in Seq(Tokens)
  PROVE  /\ Bytes(x \o y) = Bytes(x) \o Bytes(y)
         /\ VariableNames(x \o y) = VariableNames(x) \cup VariableNames(y)
<1> DEFINE z == x \o y
           u == Bytes(x)
           v == Bytes(y)
           w == Bytes(z)
           m == Len(x)
           n == Len(y)
<1>1. /\ z \in Seq(Tokens) /\ Len(z) = m + n /\ m \in Nat /\ n \in Nat
      /\ \A i \in 1..(m + n) : z[i] = IF i <= m THEN x[i] ELSE y[i - m]
  BY ConcatProperties, LenProperties
<1> HIDE DEF z
<1>2. /\ u \in Seq(Scanned) /\ Len(u) = m /\ \A i \in 1..m : u[i] = Byte(x[i])
      /\ v \in Seq(Scanned) /\ Len(v) = n /\ \A i \in 1..n : v[i] = Byte(y[i])
      /\ w \in Seq(Scanned) /\ Len(w) = Len(z) /\ \A i \in 1..Len(z) : w[i] = Byte(z[i])
  BY <1>1, BytesOf
<1> HIDE DEF u, v, w, m, n
<1>3. u \in Seq(Scanned) /\ v \in Seq(Scanned)
  BY <1>2
<1>4. /\ u \o v \in Seq(Scanned) /\ Len(u \o v) = Len(u) + Len(v)
      /\ \A i \in 1..(Len(u) + Len(v)) : (u \o v)[i] = IF i <= Len(u) THEN u[i] ELSE v[i - Len(u)]
  BY <1>3, ConcatProperties
<1> DEFINE t == u \o v
<1>5. \A i \in 1..(m + n) : (i <= m /\ i \in 1..m) \/ (~ (i <= m) /\ i - m \in 1..n)
  BY <1>1
<1>6. \A i \in 1..(m + n) : t[i] = w[i]
  <2>1. ASSUME NEW i \in 1..(m + n)
        PROVE  t[i] = w[i]
    <3>1. CASE i <= m /\ i \in 1..m
      BY <1>1, <1>2, <1>4, <3>1
    <3>2. CASE ~ (i <= m) /\ i - m \in 1..n
      BY <1>1, <1>2, <1>4, <3>2
    <3>3. QED
      BY <1>5, <3>1, <3>2
  <2>2. QED
    BY <2>1
<1>7. t \in Seq(Scanned) /\ Len(t) = m + n /\ w \in Seq(Scanned) /\ Len(w) = m + n
  BY <1>1, <1>2, <1>4
<1> HIDE DEF t
<1>8. w = t
  BY <1>6, <1>7, SeqEqual
<1>9. Range(t) = Range(u) \cup Range(v)
  BY <1>3, Joined DEF t
<1>10. QED
  BY <1>8, <1>9 DEF t, u, v, w, z, VariableNames

LEMMA PlainBytes ==
  /\ \A t \in {Open, Close} \cup Names \cup Types : Byte(t) = t /\ t \notin Variables
  /\ \A t \in Variables : Byte(t) = t
  /\ Open # Close /\ Open \notin Names /\ Close \notin Names
  /\ Open \notin Types /\ Close \notin Types /\ Names \cap Types = {}
BY TwoBraces, TokenAssumption, OperationAssumption DEF TokenAssumption, OperationAssumption, Byte

LEMMA BytesOne ==
  ASSUME NEW t \in Tokens
  PROVE  <<t>> \in Seq(Tokens) /\ Range(<<t>>) = {t} /\ Bytes(<<t>>) = <<Byte(t)>>
<1> DEFINE x == <<t>>
<1>1. x \in Seq(Tokens) /\ Len(x) = 1 /\ x[1] = t /\ Range(x) = {t}
  BY OneToken
<1> HIDE DEF x
<1>2. Bytes(x) \in Seq(Scanned) /\ Len(Bytes(x)) = 1 /\ Bytes(x)[1] = Byte(t)
  <2>1. 1 \in 1..1
    OBVIOUS
  <2>2. QED
    BY <1>1, <2>1, BytesOf
<1>3. Bytes(x) = <<Byte(t)>>
  BY <1>2
<1>4. QED
  BY <1>1, <1>3 DEF x

LEMMA BytesBraced ==
  ASSUME NEW x \in Seq(Tokens)
  PROVE  /\ Braced(x) \in Seq(Tokens) /\ Range(Braced(x)) = {Open, Close} \cup Range(x)
         /\ Bytes(Braced(x)) = Braced(Bytes(x))
         /\ VariableNames(Braced(x)) = VariableNames(x)
<1> DEFINE l == <<Open>>
           r == <<Close>>
<1>1. Open \in Tokens /\ Close \in Tokens
  BY DEF Tokens
<1>2. l \in Seq(Tokens) /\ r \in Seq(Tokens)
  BY <1>1, OneToken
<1>3. Bytes(l) = l /\ Bytes(r) = r
  BY <1>1, BytesOne, PlainBytes
<1>4. Braced(x) = (l \o x) \o r /\ Braced(Bytes(x)) = (l \o Bytes(x)) \o r
  BY DEF Braced
<1>5. Range(l) = {Open} /\ Range(r) = {Close}
  BY <1>1, OneToken
<1> HIDE DEF l, r
<1>6. l \o x \in Seq(Tokens)
  BY <1>2, Joined
<1>7. Bytes((l \o x) \o r) = (Bytes(l) \o Bytes(x)) \o Bytes(r)
  BY <1>2, <1>6, BytesJoined
<1>8. VariableNames(l) = {} /\ VariableNames(r) = {}
  BY <1>3, <1>5, PlainBytes DEF VariableNames
<1>9. VariableNames((l \o x) \o r) = VariableNames(x)
  <2> DEFINE h == l \o x
  <2>1. VariableNames(h) = VariableNames(l) \cup VariableNames(x)
    BY <1>2, BytesJoined
  <2>2. h \in Seq(Tokens)
    BY <1>6
  <2> HIDE DEF h
  <2>3. VariableNames(h \o r) = VariableNames(h) \cup VariableNames(r)
    BY <1>2, <2>2, BytesJoined
  <2>4. QED
    BY <1>8, <2>1, <2>3 DEF h
<1>10. Braced(x) \in Seq(Tokens) /\ Range(Braced(x)) = {Open, Close} \cup Range(x)
  BY <1>1, BracedText
<1>11. QED
  BY <1>3, <1>4, <1>7, <1>9, <1>10

-----------------------------------------------------------------------------
(* What is in the text of a selection                                      *)

\* The tokens of a selection itself.
Own(s) ==
  CASE s.kind = "field" ->
         {s.name} \cup Range(ArgumentText(s)) \cup (IF s.below = <<>> THEN {} ELSE {Open, Close})
    [] s.kind = "inline" -> {Open, Close} \cup Range(Condition(s))
    [] s.kind = "spread" -> {s.name}

\* The condition of an inline fragment is a type, if there is one.
LEMMA Conditions ==
  ASSUME NEW s \in Selections, s.kind = "inline"
  PROVE  Condition(s) \in Seq(Tokens) /\ Range(Condition(s)) \subseteq Types
<1>1. s.name \in {Dots} \cup Types /\ s.name \in Tokens
  BY TokenAssumption DEF TokenAssumption, Tokens
<1>2. CASE s.name = Dots
  <2>1. Condition(s) = <<>> /\ Range(<<>>) = {}
    BY <1>2 DEF Condition, Range
  <2>2. QED
    BY <2>1, EmptySeq
<1>3. CASE s.name # Dots
  <2>1. Condition(s) = <<s.name>>
    BY <1>3 DEF Condition
  <2>2. QED
    BY <1>1, <1>3, <2>1, OneToken
<1>4. QED
  BY <1>2, <1>3

\* The texts of a selection set, one after the other.
LEMMA RenderedAll ==
  ASSUME NEW sels \in Seq(Selections)
  PROVE  /\ RenderAll(sels) \in Seq(Tokens)
         /\ Range(RenderAll(sels)) = UNION {Range(Text[c]) : c \in Range(sels)}
         /\ \A T \in SUBSET Seq(Tokens) :
              /\ <<>> \in T /\ \A x, y \in T : x \o y \in T
              /\ \A c \in Range(sels) : Text[c] \in T
              => RenderAll(sels) \in T
<1> DEFINE q == [i \in DOMAIN sels |-> Text[sels[i]]]
<1>1. \A c \in Range(sels) : c \in Selections /\ Text[c] \in Seq(Tokens)
  BY SeqElements, Texts
<1>2. q \in Seq(Seq(Tokens)) /\ Len(q) = Len(sels) /\ \A i \in 1..Len(sels) : q[i] = Text[sels[i]]
  BY <1>1, Mapped
<1>3. /\ \A i \in 1..Len(sels) : sels[i] \in Range(sels)
      /\ \A c \in Range(sels) : \E i \in 1..Len(sels) : c = sels[i]
  BY SeqElements
<1>4. ASSUME NEW T \in SUBSET Seq(Tokens), <<>> \in T, \A x, y \in T : x \o y \in T,
             \A c \in Range(sels) : Text[c] \in T
      PROVE  FlattenSeq(q) \in T
  <2>1. q \in Seq(T)
    BY <1>4, Mapped
  <2> HIDE DEF q
  <2>2. QED
    BY <1>4, <2>1, FlattenClosed
<1> HIDE DEF q
<1>5. /\ FlattenSeq(q) \in Seq(Tokens)
      /\ Range(FlattenSeq(q)) = UNION {Range(q[i]) : i \in 1..Len(q)}
  BY <1>2, FlattenElements
<1>6. UNION {Range(q[i]) : i \in 1..Len(q)} = UNION {Range(Text[c]) : c \in Range(sels)}
  <2> DEFINE A == {Range(q[i]) : i \in 1..Len(q)}
             B == {Range(Text[c]) : c \in Range(sels)}
  <2>1. \A x \in A : x \in B
    BY <1>2, <1>3
  <2>2. \A x \in B : x \in A
    BY <1>2, <1>3
  <2>3. A = B
    BY <2>1, <2>2
  <2>4. QED
    BY <2>3
<1>7. RenderAll(sels) = FlattenSeq(q)
  BY DEF RenderAll, q
<1>8. QED
  BY <1>4, <1>5, <1>6, <1>7

LEMMA TextRange ==
  \A s \in Selections : Range(Text[s]) = UNION {Own(c) : c \in Within[s]}
<1> DEFINE T == {s \in Selections : Range(Text[s]) = UNION {Own(c) : c \in Within[s]}}
<1>1. ASSUME NEW s \in Selections, \A c \in Range(s.below) : c \in T
      PROVE  Range(Text[s]) = UNION {Own(c) : c \in Within[s]}
  <2> DEFINE b == RenderAll(s.below)
             Inner == UNION {Own(c) : c \in Inside(s.below)}
  <2>1. s.below \in Seq(Selections)
    BY Children
  <2>2. b \in Seq(Tokens) /\ Range(b) = UNION {Range(Text[c]) : c \in Range(s.below)}
    BY <2>1, RenderedAll
  <2>3. \A c \in Range(s.below) : Range(Text[c]) = UNION {Own(d) : d \in Within[c]}
    BY <1>1
  <2>4. Range(b) = Inner
    BY <2>2, <2>3 DEF Inside
  <2>5. UNION {Own(c) : c \in Within[s]} = Own(s) \cup Inner
    BY Withins
  <2>6. Text[s] = Render(s, b)
    BY Texts
  <2> HIDE DEF b, Inner
  <2>7. CASE s.kind = "field"
    <3>1. /\ <<s.name>> \o ArgumentText(s) \in Seq(Tokens)
          /\ Range(<<s.name>> \o ArgumentText(s)) = {s.name} \cup Range(ArgumentText(s))
      <4>1. s.name \in Tokens
        BY DEF Tokens
      <4>2. Range(<<s.name>>) = {s.name}
        BY <4>1, OneToken
      <4>3. ArgumentText(s) \in Seq(Tokens) /\ <<s.name>> \in Seq(Tokens)
        BY <2>2, Rendered
      <4>4. Range(<<s.name>> \o ArgumentText(s)) = Range(<<s.name>>) \cup Range(ArgumentText(s))
        BY <4>3, Joined
      <4>5. QED
        BY <2>2, <4>2, <4>4, Rendered
    <3>2. CASE s.below = <<>>
      <4>1. Text[s] = <<s.name>> \o ArgumentText(s)
        BY <2>2, <2>6, <2>7, <3>2, Rendered
      <4>2. Inner = {}
        <5>1. Range(s.below) = {}
          BY <3>2 DEF Range
        <5>2. QED
          BY <5>1 DEF Inner, Inside
      <4>3. Own(s) = {s.name} \cup Range(ArgumentText(s))
        BY <2>7, <3>2 DEF Own
      <4>4. QED
        BY <2>5, <3>1, <4>1, <4>2, <4>3
    <3>3. CASE s.below # <<>>
      <4>1. Text[s] = (<<s.name>> \o ArgumentText(s)) \o Braced(b)
        BY <2>2, <2>6, <2>7, <3>3, Rendered
      <4>2. Braced(b) \in Seq(Tokens) /\ Range(Braced(b)) = {Open, Close} \cup Range(b)
        BY <2>2, BytesBraced
      <4> DEFINE a == <<s.name>> \o ArgumentText(s)
      <4>3. a \in Seq(Tokens)
        BY <3>1
      <4> HIDE DEF a
      <4>4. Range(a \o Braced(b)) = Range(a) \cup Range(Braced(b))
        BY <4>2, <4>3, Joined
      <4>5. Own(s) = {s.name} \cup Range(ArgumentText(s)) \cup {Open, Close}
        BY <2>7, <3>3 DEF Own
      <4>6. QED
        BY <2>4, <2>5, <3>1, <4>1, <4>2, <4>4, <4>5 DEF a
    <3>4. QED
      BY <3>2, <3>3
  <2>8. CASE s.kind = "inline"
    <3>1. Text[s] = Condition(s) \o Braced(b)
      BY <2>2, <2>6, <2>8, Rendered
    <3>2. Braced(b) \in Seq(Tokens) /\ Range(Braced(b)) = {Open, Close} \cup Range(b)
      BY <2>2, BytesBraced
    <3>3. Own(s) = {Open, Close} \cup Range(Condition(s))
      BY <2>8 DEF Own
    <3>4. Range(Condition(s) \o Braced(b)) = Range(Condition(s)) \cup Range(Braced(b))
      BY <2>8, <3>2, Conditions, Joined
    <3>5. QED
      BY <2>4, <2>5, <3>1, <3>2, <3>3, <3>4
  <2>9. CASE s.kind = "spread"
    <3>1. Text[s] = <<s.name>>
      BY <2>2, <2>6, <2>9, Rendered
    <3>2. Range(<<s.name>>) = {s.name}
      <4>1. s.name \in Tokens
        BY DEF Tokens
      <4>2. QED
        BY <4>1, OneToken
    <3>3. Own(s) = {s.name}
      BY <2>9 DEF Own
    <3>4. Inner = {}
      <4>1. s.below = <<>>
        BY <2>9, SelectionAssumption DEF SelectionAssumption
      <4>2. Range(s.below) = {}
        BY <4>1 DEF Range
      <4>3. QED
        BY <4>2 DEF Inner, Inside
    <3>5. QED
      BY <2>5, <3>1, <3>2, <3>3, <3>4
  <2>10. QED
    BY <2>2, <2>7, <2>8, <2>9, Rendered
<1>2. T = Selections
  <2>1. T \in SUBSET Selections
    OBVIOUS
  <2>2. \A s \in Selections : (\A c \in Range(s.below) : c \in T) => s \in T
    BY <1>1
  <2> HIDE DEF T
  <2>3. QED
    BY <2>1, <2>2, TreeInduction
<1>3. QED
  BY <1>2

\* What is within something within a selection is within the selection.
LEMMA WithinNested ==
  \A s \in Selections : \A c \in Within[s] : Within[c] \subseteq Within[s]
<1> DEFINE T == {s \in Selections : \A c \in Within[s] : Within[c] \subseteq Within[s]}
<1>1. ASSUME NEW s \in Selections, \A d \in Range(s.below) : d \in T, NEW c \in Within[s]
      PROVE  Within[c] \subseteq Within[s]
  <2>1. CASE c = s
    BY <2>1
  <2>2. CASE c # s
    <3>1. PICK d \in Range(s.below) : c \in Within[d]
      BY <2>2, Withins DEF Inside
    <3>2. Within[c] \subseteq Within[d]
      BY <1>1, <3>1
    <3>3. Within[d] \subseteq Within[s]
      BY Withins DEF Inside
    <3>4. QED
      BY <3>2, <3>3
  <2>3. QED
    BY <2>1, <2>2
<1>2. T = Selections
  <2>1. T \in SUBSET Selections
    OBVIOUS
  <2>2. \A s \in Selections : (\A c \in Range(s.below) : c \in T) => s \in T
    BY <1>1
  <2> HIDE DEF T
  <2>3. QED
    BY <2>1, <2>2, TreeInduction
<1>3. QED
  BY <1>2

\* A token of a text is a brace, a name, a spread, or in the arguments of a field.
LEMMA OwnTokens ==
  ASSUME NEW s \in Selections
  PROVE  /\ Own(s) \cap Variables = ArgumentVariables(s)
         /\ Own(s) \subseteq {Open, Close} \cup Names \cup Types \cup Range(ArgumentText(s)) \cup SpreadsIn(<<s>>)
         /\ {Byte(t) : t \in Own(s)} \cap Variables = VariableNames(ArgumentText(s))
<1> DEFINE Named == {Byte(t) : t \in Range(ArgumentText(s))} \cap Variables
<1>1. VariableNames(ArgumentText(s)) = Named
  BY Rendered, BytesOf, EmptySeq DEF VariableNames
<1>2. /\ s.kind \in {"field", "inline", "spread"}
      /\ s.kind # "field" => Range(ArgumentText(s)) = {}
      /\ ArgumentVariables(s) = Range(ArgumentText(s)) \cap Variables
  BY ArgumentTexts, SelectionAssumption DEF SelectionAssumption
<1>3. /\ s.kind = "field" => s.name \in Names
      /\ s.kind = "spread" => s.name \notin Names \cup Variables /\ Byte(s.name) = s.name
  BY TokenAssumption DEF TokenAssumption, Byte
<1>4. s.kind = "spread" => s.name \in SpreadsIn(<<s>>)
  <2>1. s \in Inside(<<s>>)
    BY OneInside, Withins
  <2>2. QED
    BY <2>1 DEF SpreadsIn
<1>5. CASE s.kind = "field"
  <2> DEFINE own == {s.name} \cup Range(ArgumentText(s))
             braces == IF s.below = <<>> THEN {} ELSE {Open, Close}
  <2>1. Own(s) = own \cup braces /\ braces \subseteq {Open, Close}
    BY <1>5 DEF Own
  <2>2. \A t \in braces \cup {s.name} : t \notin Variables /\ Byte(t) \notin Variables
    BY <1>3, <1>5, <2>1, PlainBytes
  <2> HIDE DEF braces
  <2>3. Own(s) \cap Variables = Range(ArgumentText(s)) \cap Variables
    BY <2>1, <2>2
  <2>4. {Byte(t) : t \in Own(s)} \cap Variables = Named
    BY <2>1, <2>2
  <2>5. QED
    BY <1>1, <1>2, <1>3, <1>5, <2>1, <2>3, <2>4
<1>6. CASE s.kind = "inline"
  <2>1. Own(s) \subseteq {Open, Close} \cup Types
    BY <1>6, Conditions DEF Own
  <2>2. \A t \in Own(s) : t \notin Variables /\ Byte(t) \notin Variables
    BY <2>1, PlainBytes
  <2>3. QED
    BY <1>1, <1>2, <1>6, <2>1, <2>2
<1>7. CASE s.kind = "spread"
  <2>1. Own(s) = {s.name}
    BY <1>7 DEF Own
  <2>2. \A t \in Own(s) : t \notin Variables /\ Byte(t) \notin Variables
    BY <1>3, <1>7, <2>1
  <2>3. QED
    BY <1>1, <1>2, <1>4, <1>7, <2>1, <2>2
<1>8. QED
  BY <1>2, <1>5, <1>6, <1>7

\* The variables of a text are those its selection uses; the scan finds the same ones
\* if it finds them in the arguments.
LEMMA TextVariables ==
  ASSUME NEW s \in Selections
  PROVE  /\ Range(Text[s]) \cap Variables = VariableUses(<<s>>)
         /\ (\A c \in Within[s] : VariableNames(ArgumentText(c)) = ArgumentVariables(c))
              => VariableNames(Text[s]) = VariableUses(<<s>>)
         /\ Range(Text[s]) \subseteq
              {Open, Close} \cup Names \cup Types \cup SpreadsIn(<<s>>)
                \cup UNION {Range(ArgumentText(c)) : c \in Within[s]}
<1>1. /\ Range(Text[s]) = UNION {Own(c) : c \in Within[s]}
      /\ Within[s] \subseteq Selections /\ Inside(<<s>>) = Within[s]
      /\ Text[s] \in Seq(Tokens)
  BY TextRange, Withins, OneInside, Texts
<1>2. \A c \in Within[s] : Own(c) \cap Variables = ArgumentVariables(c)
  BY <1>1, OwnTokens
<1>3. VariableUses(<<s>>) = UNION {ArgumentVariables(c) : c \in Within[s]}
  BY <1>1 DEF VariableUses
<1>4. Range(Text[s]) \cap Variables = VariableUses(<<s>>)
  BY <1>1, <1>2, <1>3
<1>5. ASSUME \A c \in Within[s] : VariableNames(ArgumentText(c)) = ArgumentVariables(c)
      PROVE  VariableNames(Text[s]) = VariableUses(<<s>>)
  <2>1. VariableNames(Text[s]) = {Byte(t) : t \in Range(Text[s])} \cap Variables
    BY <1>1, BytesOf DEF VariableNames
  <2>2. \A c \in Within[s] : {Byte(t) : t \in Own(c)} \cap Variables = ArgumentVariables(c)
    BY <1>1, <1>5, OwnTokens
  <2>3. {Byte(t) : t \in Range(Text[s])} = UNION {{Byte(t) : t \in Own(c)} : c \in Within[s]}
    BY <1>1
  <2>4. QED
    BY <1>3, <2>1, <2>2, <2>3
<1>6. \A c \in Within[s] : SpreadsIn(<<c>>) \subseteq SpreadsIn(<<s>>)
  <2>1. \A c \in Within[s] : Within[c] \subseteq Within[s]
    BY WithinNested
  <2>2. \A c \in Within[s] : Inside(<<c>>) = Within[c]
    BY <1>1, OneInside
  <2>3. QED
    BY <1>1, <2>1, <2>2 DEF SpreadsIn
<1>7. \A c \in Within[s] :
        Own(c) \subseteq {Open, Close} \cup Names \cup Types \cup Range(ArgumentText(c)) \cup SpreadsIn(<<s>>)
  BY <1>1, <1>6, OwnTokens
<1>8. Range(Text[s]) \subseteq
        {Open, Close} \cup Names \cup Types \cup SpreadsIn(<<s>>)
          \cup UNION {Range(ArgumentText(c)) : c \in Within[s]}
  BY <1>1, <1>7
<1>9. QED
  BY <1>4, <1>5, <1>8

-----------------------------------------------------------------------------
(* How deep the names of a text are                                        *)

LEMMA EmptyText == /\ <<>> \in Seq(Tokens) /\ Balanced(<<>>) /\ Range(<<>>) = {}
                   /\ \A d \in Nat : Shallow(<<>>, d)
<1>1. <<>> \in Seq(Tokens) /\ Len(<<>>) = 0
  BY EmptySeq
<1>2. Range(<<>>) = {}
  BY DEF Range
<1>3. Balanced(<<>>)
  BY <1>1, <1>2, WithoutBraces
<1>4. \A d \in Nat : Shallow(<<>>, d)
  BY <1>1 DEF Shallow
<1>5. QED
  BY <1>1, <1>2, <1>3, <1>4

\* The texts that are balanced, with no name deeper than d; those without names.
Nested(d) == {x \in Seq(Tokens) : Balanced(x) /\ Shallow(x, d)}
Nameless == {x \in Seq(Tokens) : Balanced(x) /\ Range(x) \cap Names = {}}

LEMMA NestedClosed ==
  ASSUME NEW d \in Nat
  PROVE  /\ Nested(d) \in SUBSET Seq(Tokens) /\ <<>> \in Nested(d)
         /\ \A x, y \in Nested(d) : x \o y \in Nested(d)
         /\ \A x \in Nested(d) : Braced(x) \in Nested(d + 1)
         /\ \A e \in Nat : d <= e => Nested(d) \subseteq Nested(e)
<1>1. <<>> \in Nested(d)
  BY EmptyText DEF Nested
<1>2. ASSUME NEW x \in Nested(d), NEW y \in Nested(d)
      PROVE  x \o y \in Nested(d)
  <2>1. x \in Seq(Tokens) /\ y \in Seq(Tokens)
    BY DEF Nested
  <2>2. Balanced(x) /\ Balanced(y) /\ Shallow(x, d) /\ Shallow(y, d)
    BY DEF Nested
  <2>3. x \o y \in Seq(Tokens)
    BY <2>1, Joined
  <2>4. Balanced(x \o y) /\ Shallow(x \o y, d)
    BY <2>1, <2>2, NestedJoined
  <2>5. QED
    BY <2>3, <2>4 DEF Nested
<1>3. ASSUME NEW x \in Nested(d)
      PROVE  Braced(x) \in Nested(d + 1)
  <2>1. x \in Seq(Tokens) /\ Balanced(x) /\ Shallow(x, d)
    BY DEF Nested
  <2>2. {Open, Close} \subseteq Tokens
    BY DEF Tokens
  <2>3. Balanced(Braced(x)) /\ Shallow(Braced(x), d + 1)
    BY <2>1, <2>2, NestedBraced
  <2>4. QED
    BY <2>1, <2>3, BytesBraced DEF Nested
<1>4. ASSUME NEW e \in Nat, d <= e, NEW x \in Nested(d)
      PROVE  x \in Nested(e)
  BY <1>4, DeeperIsShallower DEF Nested
<1>5. QED
  BY <1>1, <1>2, <1>3, <1>4 DEF Nested

LEMMA NamelessClosed ==
  /\ Nameless \in SUBSET Seq(Tokens) /\ <<>> \in Nameless
  /\ \A x, y \in Nameless : x \o y \in Nameless
  /\ \A x \in Nameless : Braced(x) \in Nameless
  /\ \A d \in Nat : Nameless \subseteq Nested(d)
<1>1. <<>> \in Nameless
  BY EmptyText DEF Nameless
<1>2. ASSUME NEW x \in Nameless, NEW y \in Nameless
      PROVE  x \o y \in Nameless
  <2>1. x \in Seq(Tokens) /\ y \in Seq(Tokens)
    BY DEF Nameless
  <2>2. Balanced(x) /\ Balanced(y) /\ Range(x) \cap Names = {} /\ Range(y) \cap Names = {}
    BY DEF Nameless
  <2>3. x \o y \in Seq(Tokens) /\ Range(x \o y) = Range(x) \cup Range(y)
    BY <2>1, Joined
  <2>4. Balanced(x \o y)
    BY <2>1, <2>2, NestedJoined
  <2>5. QED
    BY <2>2, <2>3, <2>4 DEF Nameless
<1>3. ASSUME NEW x \in Nameless
      PROVE  Braced(x) \in Nameless
  <2>1. x \in Seq(Tokens) /\ Balanced(x) /\ Range(x) \cap Names = {}
    BY DEF Nameless
  <2>2. {Open, Close} \subseteq Tokens
    BY DEF Tokens
  <2>3. Balanced(Braced(x))
    BY <2>1, <2>2, NestedBraced
  <2>4. Braced(x) \in Seq(Tokens) /\ Range(Braced(x)) \cap Names = {}
    BY <2>1, BytesBraced, PlainBytes
  <2>5. QED
    BY <2>3, <2>4 DEF Nameless
<1>4. ASSUME NEW d \in Nat, NEW x \in Nameless
      PROVE  x \in Nested(d)
  <2>1. x \in Seq(Tokens) /\ Balanced(x) /\ Range(x) \cap Names = {}
    BY DEF Nameless
  <2>2. \A i \in 1..Len(x) : x[i] \notin Names
    BY <2>1, SeqElements
  <2>3. QED
    BY <2>1, <2>2 DEF Nested, Shallow
<1>5. QED
  BY <1>1, <1>2, <1>3, <1>4 DEF Nameless

\* The name and the arguments of a field are at the first level.
LEMMA FieldHead ==
  ASSUME NEW s \in Selections, s.kind = "field"
  PROVE  /\ <<s.name>> \o ArgumentText(s) \in Nested(1)
         /\ Range(<<s.name>> \o ArgumentText(s)) = {s.name} \cup Range(ArgumentText(s))
         /\ Open \notin Range(<<s.name>> \o ArgumentText(s)) /\ Close \notin Range(<<s.name>> \o ArgumentText(s))
<1> DEFINE n == <<s.name>>
           x == n \o ArgumentText(s)
<1>1. ArgumentText(s) \in Seq(Tokens) /\ n \in Seq(Tokens)
  BY EmptyText, Rendered
<1>2. s.name \in Tokens
  BY DEF Tokens
<1>3. Range(n) = {s.name}
  BY <1>2, OneToken
<1> HIDE DEF n
<1>4. x \in Seq(Tokens) /\ Range(x) = Range(n) \cup Range(ArgumentText(s))
  BY <1>1, Joined
<1>5. s.name \in Names /\ Range(ArgumentText(s)) \cap {Open, Close} = {}
  BY ArgumentTexts, TokenAssumption DEF TokenAssumption
<1>6. Open \notin Range(x) /\ Close \notin Range(x)
  BY <1>3, <1>4, <1>5, PlainBytes
<1> HIDE DEF x
<1>7. x \in Nested(1)
  BY <1>4, <1>6, WithoutBraces DEF Nested
<1>8. QED
  BY <1>3, <1>4, <1>6, <1>7 DEF x, n

\* The condition of an inline fragment holds no name.
LEMMA ConditionNested ==
  ASSUME NEW s \in Selections, s.kind = "inline"
  PROVE  Condition(s) \in Nameless
<1>1. Condition(s) \in Seq(Tokens) /\ Range(Condition(s)) \subseteq Types
  BY Conditions
<1>2. /\ Open \notin Range(Condition(s)) /\ Close \notin Range(Condition(s))
      /\ Range(Condition(s)) \cap Names = {}
  BY <1>1, PlainBytes
<1>3. Balanced(Condition(s))
  BY <1>1, <1>2, WithoutBraces
<1>4. QED
  BY <1>1, <1>2, <1>3 DEF Nameless

\* The text of a selection is as deep as the selection is.
LEMMA TextNested ==
  \A s \in Selections : /\ Text[s] \in Nested(Depth[s])
                        /\ Depth[s] = 0 => Text[s] \in Nameless
<1> DEFINE T == {s \in Selections : /\ Text[s] \in Nested(Depth[s])
                                    /\ Depth[s] = 0 => Text[s] \in Nameless}
<1>1. ASSUME NEW s \in Selections, \A c \in Range(s.below) : c \in T
      PROVE  /\ Text[s] \in Nested(Depth[s])
             /\ Depth[s] = 0 => Text[s] \in Nameless
  <2> DEFINE b == RenderAll(s.below)
  <2>1. /\ s.below \in Seq(Selections) /\ Depth[s] \in Nat
        /\ \A c \in Range(s.below) : c \in Selections /\ Depth[c] \in Nat
    BY Children, Depths
  <2>2. b \in Seq(Tokens)
    BY <2>1, RenderedAll
  <2>3. Text[s] = Render(s, b)
    BY Texts
  \* What is below fits in what is one level up.
  <2>4. ASSUME Depth[s] >= 1, s.kind # "spread"
        PROVE  b \in Nested(Depth[s] - 1)
    <3>1. Depth[s] - 1 \in Nat
      BY <2>1, <2>4
    <3>2. ASSUME NEW c \in Range(s.below)
          PROVE  Text[c] \in Nested(Depth[s] - 1)
      <4>1. Depth[c] = 0 \/ Depth[c] + 1 <= Depth[s]
        BY <2>2, <2>4, DeeperThanBelow, Rendered
      <4>2. Depth[c] <= Depth[s] - 1
        BY <2>1, <2>4, <4>1
      <4>3. QED
        BY <1>1, <2>1, <3>1, <4>2, NestedClosed
    <3>3. QED
      BY <2>1, <3>1, <3>2, NestedClosed, RenderedAll
  <2>5. ASSUME Depth[s] = 0, s.kind = "inline"
        PROVE  b \in Nameless
    <3>1. ASSUME NEW c \in Range(s.below)
          PROVE  Text[c] \in Nameless
      <4>1. Depth[c] = 0
        BY <2>1, <2>5, DeeperThanBelow
      <4>2. QED
        BY <1>1, <4>1
    <3>2. QED
      BY <2>1, <3>1, NamelessClosed, RenderedAll
  <2> HIDE DEF b
  <2>6. CASE s.kind = "field"
    <3> DEFINE x == <<s.name>> \o ArgumentText(s)
    <3>1. Depth[s] >= 1
      BY <2>6, FieldIsALevel
    <3>2. x \in Nested(Depth[s])
      <4>1. x \in Nested(1)
        BY <2>6, FieldHead
      <4>2. 1 \in Nat /\ 1 <= Depth[s]
        BY <2>1, <3>1
      <4>3. QED
        BY <2>1, <4>1, <4>2, NestedClosed
    <3>3. Braced(b) \in Nested(Depth[s])
      <4>1. b \in Nested(Depth[s] - 1) /\ Depth[s] - 1 \in Nat /\ (Depth[s] - 1) + 1 = Depth[s]
        BY <2>1, <2>4, <2>6, <3>1
      <4>2. QED
        BY <4>1, NestedClosed
    <3>4. Text[s] = x \/ Text[s] = x \o Braced(b)
      BY <2>2, <2>3, <2>6, Rendered
    <3> HIDE DEF x
    <3>5. x \o Braced(b) \in Nested(Depth[s])
      BY <2>1, <3>2, <3>3, NestedClosed
    <3>6. Text[s] \in Nested(Depth[s])
      BY <3>2, <3>4, <3>5
    <3>7. Depth[s] # 0
      BY <2>1, <3>1
    <3>8. QED
      BY <3>6, <3>7
  <2>7. CASE s.kind = "inline"
    <3>1. Text[s] = Condition(s) \o Braced(b) /\ Condition(s) \in Nameless
      BY <2>2, <2>3, <2>7, ConditionNested, Rendered
    <3>2. CASE Depth[s] = 0
      <4>1. Condition(s) \o Braced(b) \in Nameless
        BY <2>5, <2>7, <3>1, <3>2, NamelessClosed
      <4>2. QED
        BY <2>1, <3>1, <4>1, NamelessClosed
    <3>3. CASE Depth[s] >= 1
      <4>1. b \in Nested(Depth[s] - 1) /\ Depth[s] - 1 \in Nat /\ (Depth[s] - 1) + 1 = Depth[s]
        BY <2>1, <2>4, <2>7, <3>3
      <4>2. Braced(b) \in Nested(Depth[s])
        BY <4>1, NestedClosed
      <4>3. Condition(s) \in Nested(Depth[s])
        BY <2>1, <3>1, NamelessClosed
      <4>4. Condition(s) \o Braced(b) \in Nested(Depth[s])
        BY <2>1, <4>2, <4>3, NestedClosed
      <4>5. QED
        BY <2>1, <3>1, <3>3, <4>4
    <3>4. QED
      BY <2>1, <3>2, <3>3
  <2>8. CASE s.kind = "spread"
    <3>1. Text[s] = <<s.name>> /\ s.name \in Tokens
      BY <2>2, <2>3, <2>8, Rendered DEF Tokens
    <3>2. s.name \notin Names /\ s.name \notin {Open, Close}
      BY <2>8, TokenAssumption DEF TokenAssumption
    <3>3. Text[s] \in Seq(Tokens) /\ Range(Text[s]) = {s.name}
      BY <3>1, OneToken
    <3>4. Text[s] \in Nameless
      <4>1. Open \notin Range(Text[s]) /\ Close \notin Range(Text[s])
        BY <3>2, <3>3
      <4>2. Balanced(Text[s])
        BY <3>3, <4>1, WithoutBraces
      <4>3. QED
        BY <3>2, <3>3, <4>2 DEF Nameless
    <3>5. QED
      BY <2>1, <3>4, NamelessClosed
  <2>9. QED
    BY <2>2, <2>6, <2>7, <2>8, Rendered
<1>2. T = Selections
  <2>1. T \in SUBSET Selections
    OBVIOUS
  <2>2. \A s \in Selections : (\A c \in Range(s.below) : c \in T) => s \in T
    BY <1>1
  <2> HIDE DEF T
  <2>3. QED
    BY <2>1, <2>2, TreeInduction
<1>3. QED
  BY <1>2

-----------------------------------------------------------------------------
(* The cut in front of a selection set                                     *)

\* The texts whose braces a scan of the bytes finds balanced.
Legibles == {x \in Seq(Tokens) : Balanced(Bytes(x))}

LEMMA LegiblesClosed ==
  /\ Legibles \in SUBSET Seq(Tokens) /\ <<>> \in Legibles
  /\ \A x, y \in Legibles : x \o y \in Legibles
  /\ \A x \in Legibles : Braced(x) \in Legibles
<1>1. <<>> \in Legibles
  <2>1. Bytes(<<>>) = <<>>
    <3>1. Bytes(<<>>) \in Seq(Scanned) /\ Len(Bytes(<<>>)) = 0
      BY EmptyText, BytesOf
    <3>2. QED
      BY <3>1, EmptySeq
  <2>2. QED
    BY <2>1, EmptyText DEF Legibles
<1>2. ASSUME NEW x \in Legibles, NEW y \in Legibles
      PROVE  x \o y \in Legibles
  <2>1. x \in Seq(Tokens) /\ y \in Seq(Tokens)
    BY DEF Legibles
  <2>2. Balanced(Bytes(x)) /\ Balanced(Bytes(y))
    BY DEF Legibles
  <2>3. Bytes(x) \in Seq(Scanned) /\ Bytes(y) \in Seq(Scanned)
    BY <2>1, BytesOf
  <2>4. x \o y \in Seq(Tokens) /\ Bytes(x \o y) = Bytes(x) \o Bytes(y)
    BY <2>1, Joined, BytesJoined
  <2>5. Balanced(Bytes(x) \o Bytes(y))
    BY <2>2, <2>3, NestedJoined
  <2>6. QED
    BY <2>4, <2>5 DEF Legibles
<1>3. ASSUME NEW x \in Legibles
      PROVE  Braced(x) \in Legibles
  <2>1. x \in Seq(Tokens) /\ Balanced(Bytes(x)) /\ Bytes(x) \in Seq(Scanned)
    BY BytesOf DEF Legibles
  <2>2. {Open, Close} \subseteq Scanned
    BY PlainBytes DEF Scanned, Tokens
  <2>3. Balanced(Braced(Bytes(x)))
    BY <2>1, <2>2, NestedBraced
  <2>4. QED
    BY <2>1, <2>3, BytesBraced DEF Legibles
<1>4. QED
  BY <1>1, <1>2, <1>3 DEF Legibles

\* A token that is no brace to the scan.
LEMMA OneLegible ==
  ASSUME NEW t \in Tokens, Byte(t) \notin {Open, Close}
  PROVE  <<t>> \in Legibles
<1> DEFINE x == <<t>>
<1>1. x \in Seq(Tokens) /\ Range(x) = {t}
  BY BytesOne
<1> HIDE DEF x
<1>2. Bytes(x) \in Seq(Scanned) /\ Range(Bytes(x)) = {Byte(t)}
  BY <1>1, BytesOf
<1>3. Balanced(Bytes(x))
  BY <1>2, WithoutBraces
<1>4. QED
  BY <1>1, <1>3 DEF Legibles, x

LEMMA HeadLegible ==
  ASSUME NEW s \in Selections, s.kind = "field", Balanced(Bytes(ArgumentText(s)))
  PROVE  <<s.name>> \o ArgumentText(s) \in Legibles
<1> DEFINE n == <<s.name>>
<1>1. s.name \in Tokens /\ s.name \in Names
  BY TokenAssumption DEF TokenAssumption, Tokens
<1>2. n \in Legibles
  BY <1>1, OneLegible, PlainBytes
<1>3. ArgumentText(s) \in Legibles
  BY EmptyText, Rendered DEF Legibles
<1> HIDE DEF n
<1>4. n \o ArgumentText(s) \in Legibles
  BY <1>2, <1>3, LegiblesClosed
<1>5. QED
  BY <1>4 DEF n

LEMMA ConditionLegible ==
  ASSUME NEW s \in Selections, s.kind = "inline"
  PROVE  Condition(s) \in Legibles
<1>1. Condition(s) \in Seq(Tokens) /\ Range(Condition(s)) \subseteq Types
  BY Conditions
<1>2. Bytes(Condition(s)) \in Seq(Scanned)
      /\ Range(Bytes(Condition(s))) = {Byte(t) : t \in Range(Condition(s))}
  BY <1>1, BytesOf
<1>3. Open \notin Range(Bytes(Condition(s))) /\ Close \notin Range(Bytes(Condition(s)))
  BY <1>1, <1>2, PlainBytes
<1>4. Balanced(Bytes(Condition(s)))
  BY <1>2, <1>3, WithoutBraces
<1>5. QED
  BY <1>1, <1>4 DEF Legibles

LEMMA TextLegible ==
  \A s \in Selections : (\A c \in Within[s] : Balanced(Bytes(ArgumentText(c)))) => Text[s] \in Legibles
<1> DEFINE T == {s \in Selections :
                   (\A c \in Within[s] : Balanced(Bytes(ArgumentText(c)))) => Text[s] \in Legibles}
<1>1. ASSUME NEW s \in Selections, \A c \in Range(s.below) : c \in T,
             \A c \in Within[s] : Balanced(Bytes(ArgumentText(c)))
      PROVE  Text[s] \in Legibles
  <2> DEFINE b == RenderAll(s.below)
             h == <<s.name>> \o ArgumentText(s)
  <2>1. s.below \in Seq(Selections)
    BY Children
  <2>2. s \in Within[s] /\ \A c \in Range(s.below) : Within[c] \subseteq Within[s]
    BY Withins DEF Inside
  <2>3. \A c \in Range(s.below) : Text[c] \in Legibles
    BY <1>1, <2>2
  <2>4. b \in Legibles
    BY <2>1, <2>3, LegiblesClosed, RenderedAll
  <2>5. b \in Seq(Tokens) /\ Text[s] = Render(s, b)
    BY <2>4, Texts DEF Legibles
  <2>6. Braced(b) \in Legibles
    BY <2>4, LegiblesClosed
  <2> HIDE DEF b
  <2>7. CASE s.kind = "field"
    <3>1. h \in Legibles
      BY <1>1, <2>2, <2>7, HeadLegible
    <3>2. Text[s] = h \/ Text[s] = h \o Braced(b)
      BY <2>5, <2>7, Rendered
    <3> HIDE DEF h
    <3>3. h \o Braced(b) \in Legibles
      BY <2>6, <3>1, LegiblesClosed
    <3>4. QED
      BY <3>1, <3>2, <3>3
  <2>8. CASE s.kind = "inline"
    <3>1. Text[s] = Condition(s) \o Braced(b) /\ Condition(s) \in Legibles
      BY <2>5, <2>8, ConditionLegible, Rendered
    <3>2. QED
      BY <2>6, <3>1, LegiblesClosed
  <2>9. CASE s.kind = "spread"
    <3>1. Text[s] = <<s.name>> /\ s.name \in Tokens
      BY <2>5, <2>9, Rendered DEF Tokens
    <3>2. Byte(s.name) \notin {Open, Close}
      BY <2>9, TokenAssumption DEF TokenAssumption, Byte
    <3>3. QED
      BY <3>1, <3>2, OneLegible
  <2>10. QED
    BY <2>5, <2>7, <2>8, <2>9, Rendered
<1>2. T = Selections
  <2>1. T \in SUBSET Selections
    OBVIOUS
  <2>2. \A s \in Selections : (\A c \in Range(s.below) : c \in T) => s \in T
    BY <1>1
  <2> HIDE DEF T
  <2>3. QED
    BY <2>1, <2>2, TreeInduction
<1>3. QED
  BY <1>2

\* Nowhere in a balanced text have more braces been closed than opened.
LEMMA NeverBelow ==
  ASSUME NEW V, NEW x \in Seq(V), Balanced(x)
  PROVE  \A i \in 1..(Len(x) + 1) : Braces(x, Open, i) >= Braces(x, Close, i)
<1>1. /\ Len(x) \in Nat /\ DOMAIN x = 1..Len(x)
      /\ \A b : /\ Braces(x, b, 1) = 0
                /\ \A i \in 1..(Len(x) + 1) : Braces(x, b, i) \in Nat
                /\ \A i \in 1..Len(x) :
                     Braces(x, b, i + 1) = Braces(x, b, i) + (IF x[i] = b THEN 1 ELSE 0)
  BY BracesCount
<1> DEFINE K == {k \in Nat : k + 1 \in 1..(Len(x) + 1) =>
                               Braces(x, Open, k + 1) >= Braces(x, Close, k + 1)}
<1>2. 0 \in K
  BY <1>1
<1>3. ASSUME NEW k \in K
      PROVE  k + 1 \in K
  <2> SUFFICES ASSUME (k + 1) + 1 \in 1..(Len(x) + 1)
               PROVE  Braces(x, Open, (k + 1) + 1) >= Braces(x, Close, (k + 1) + 1)
    OBVIOUS
  <2> DEFINE i == k + 1
             o == Braces(x, Open, i)
             c == Braces(x, Close, i)
  <2>1. i \in 1..Len(x) /\ i \in 1..(Len(x) + 1)
    BY <1>1
  <2>2. o >= c
    BY <2>1
  <2>3. o \in Nat /\ c \in Nat
    BY <1>1, <2>1
  <2>4. /\ Braces(x, Open, i + 1) = o + (IF x[i] = Open THEN 1 ELSE 0)
        /\ Braces(x, Close, i + 1) = c + (IF x[i] = Close THEN 1 ELSE 0)
    BY <1>1, <2>1
  <2>5. x[i] = Close => o > c
    BY <1>1, <2>1 DEF Balanced
  <2> HIDE DEF K, i, o, c
  <2>6. Braces(x, Open, i + 1) >= Braces(x, Close, i + 1)
    BY <2>2, <2>3, <2>4, <2>5
  <2>7. QED
    BY <2>6 DEF i
<1>4. K = Nat
  <2>1. K \in SUBSET Nat
    OBVIOUS
  <2> HIDE DEF K
  <2>2. QED
    BY <1>2, <1>3, <2>1, Counting
<1>5. ASSUME NEW i \in 1..(Len(x) + 1)
      PROVE  Braces(x, Open, i) >= Braces(x, Close, i)
  <2>1. i - 1 \in Nat /\ (i - 1) + 1 = i
    BY <1>1
  <2>2. i - 1 \in K
    <3> HIDE DEF K
    <3> QED
      BY <1>4, <2>1
  <2>3. QED
    BY <2>1, <2>2
<1>6. QED
  BY <1>5

\* The last brace that opens at depth 0 is that of the selection set.
LEMMA LastOutermost ==
  ASSUME NEW V, {Open, Close} \subseteq V, NEW x \in Seq(V), NEW y \in Seq(V),
         Balanced(x), Balanced(y)
  PROVE  LET z == x \o Braced(y)
         IN Outermost(z) # {} /\ Max(Outermost(z)) = Len(x) + 1
<1> DEFINE w == Braced(y)
           z == x \o w
           m == Len(x)
           n == Len(y)
           S == Outermost(z)
<1>1. /\ w \in Seq(V) /\ Len(w) = n + 2 /\ w[1] = Open
      /\ \A b \in {Open, Close} : Braces(w, b, 1) = 0
      /\ \A i \in 1..(n + 1) : /\ Braces(w, Open, i + 1) = Braces(y, Open, i) + 1
                               /\ Braces(w, Close, i + 1) = Braces(y, Close, i)
      /\ w[n + 2] = Close
  BY BracesBraced
<1>2. /\ n \in Nat /\ \A i \in 1..(n + 1) : Braces(y, Open, i) >= Braces(y, Close, i)
      /\ \A i \in 1..(n + 1) : Braces(y, Open, i) \in Nat /\ Braces(y, Close, i) \in Nat
  BY LenProperties, NeverBelow, NestingType
<1>3. /\ m \in Nat /\ m + 1 \in 1..(m + 1)
      /\ Braces(x, Open, m + 1) \in Nat /\ Braces(x, Open, m + 1) = Braces(x, Close, m + 1)
  <2>1. m \in Nat /\ m + 1 \in 1..(m + 1)
    BY LenProperties
  <2>2. QED
    BY <2>1, NestingType DEF Balanced
<1> HIDE DEF w
<1>4. ASSUME NEW b
      PROVE  IsJoined(V, z, x, w) /\ AddsBraces(z, x, w, b)
  <2>1. w \in Seq(V)
    BY <1>1
  <2>2. QED
    BY <2>1, BracesJoined
<1> HIDE DEF z, m, n
<1>5. z \in Seq(V) /\ Len(z) = m + (n + 2) /\ DOMAIN z = 1..(m + (n + 2))
  <2>1. z \in Seq(V) /\ Len(z) = m + (n + 2)
    BY <1>1, <1>4 DEF IsJoined, m
  <2>2. QED
    BY <2>1, LenProperties
<1>6. \A j \in 1..(n + 2) : z[m + j] = w[j]
  BY <1>1, <1>4 DEF IsJoined, m
<1>7. ASSUME NEW j \in 1..(n + 3)
      PROVE  /\ Braces(z, Open, m + j) = Braces(x, Open, m + 1) + Braces(w, Open, j)
             /\ Braces(z, Close, m + j) = Braces(x, Open, m + 1) + Braces(w, Close, j)
  <2>1. j \in 1..(Len(w) + 1)
    BY <1>1, <1>2
  <2>2. QED
    BY <1>3, <1>4, <2>1 DEF AddsBraces, m
<1>8. m + 1 \in S
  <2>1. 1 \in 1..(n + 2) /\ 1 \in 1..(n + 3) /\ m + 1 \in 1..(m + (n + 2))
    BY <1>2, <1>3
  <2>2. z[m + 1] = Open
    BY <1>1, <1>6, <2>1
  <2>3. Braces(z, Open, m + 1) = Braces(z, Close, m + 1)
    BY <1>1, <1>7, <2>1
  <2>4. QED
    BY <1>5, <2>1, <2>2, <2>3 DEF Outermost
<1>9. ASSUME NEW i \in S
      PROVE  i \in Nat /\ i <= m + 1
  <2>1. i \in 1..(m + (n + 2)) /\ z[i] = Open /\ Braces(z, Open, i) = Braces(z, Close, i)
    BY <1>5 DEF Outermost
  <2>2. ASSUME i > m + 1
        PROVE  FALSE
    <3> DEFINE j == i - m - 1
    <3>1. j \in Nat /\ j \in 1..(n + 1) /\ j + 1 \in 1..(n + 3) /\ m + (j + 1) = i
      BY <1>2, <1>3, <2>1, <2>2
    <3> HIDE DEF j
    <3>2. /\ Braces(w, Open, j + 1) = Braces(y, Open, j) + 1
          /\ Braces(w, Close, j + 1) = Braces(y, Close, j)
      BY <1>1, <3>1
    <3>3. /\ Braces(z, Open, i) = Braces(x, Open, m + 1) + Braces(w, Open, j + 1)
          /\ Braces(z, Close, i) = Braces(x, Open, m + 1) + Braces(w, Close, j + 1)
      BY <1>7, <3>1
    <3>4. /\ Braces(y, Open, j) \in Nat /\ Braces(y, Close, j) \in Nat
          /\ Braces(y, Open, j) >= Braces(y, Close, j)
      BY <1>2, <3>1
    <3> DEFINE t == Braces(x, Open, m + 1)
               p == Braces(y, Open, j)
               q == Braces(y, Close, j)
    <3>5. t \in Nat /\ p \in Nat /\ q \in Nat /\ p >= q
      BY <1>3, <3>4
    <3>6. Braces(z, Open, i) = t + (p + 1) /\ Braces(z, Close, i) = t + q
      BY <3>2, <3>3
    <3>7. t + (p + 1) = t + q
      BY <2>1, <3>6
    <3> HIDE DEF t, p, q
    <3>8. QED
      BY <3>5, <3>7
  <2>3. QED
    BY <1>3, <2>1, <2>2
<1> HIDE DEF S
<1>10. Max(S) \in S /\ \A i \in S : i <= Max(S)
  <2>1. S \in SUBSET Nat /\ S # {} /\ m + 1 \in Nat
    BY <1>3, <1>8, <1>9
  <2>2. QED
    BY <1>9, <2>1, Greatest
<1>11. Max(S) = m + 1
  BY <1>3, <1>8, <1>9, <1>10
<1>12. QED
  BY <1>8, <1>11 DEF S, z, w, m

\* Of a root field whose arguments the scan does not misread, the name and the
\* arguments remain.
LEMMA Stripped ==
  ASSUME NEW s \in Selections, s.kind = "field",
         \A c \in Within[s] : Balanced(Bytes(ArgumentText(c))),
         s.below = <<>> => Open \notin Range(Bytes(ArgumentText(s)))
  PROVE  StripSelectionSet(Text[s]) = <<s.name>> \o ArgumentText(s)
<1> DEFINE h == <<s.name>> \o ArgumentText(s)
           b == RenderAll(s.below)
<1>1. s.below \in Seq(Selections) /\ s \in Within[s] /\ s.name \in Names
  BY Children, Withins, TokenAssumption DEF TokenAssumption
<1>2. h \in Legibles
  BY <1>1, HeadLegible
<1>3. b \in Legibles
  <2>1. \A c \in Range(s.below) : Within[c] \subseteq Within[s] /\ c \in Selections
    BY <1>1, Withins, Children DEF Inside
  <2>2. \A c \in Range(s.below) : Text[c] \in Legibles
    BY <2>1, TextLegible
  <2>3. QED
    BY <1>1, <2>2, LegiblesClosed, RenderedAll
<1>4. b \in Seq(Tokens) /\ h \in Seq(Tokens) /\ Text[s] = Render(s, b)
  BY <1>2, <1>3, Texts DEF Legibles
<1>5. Range(h) = {s.name} \cup Range(ArgumentText(s))
  BY FieldHead
<1>6. /\ s.below = <<>> => Text[s] = h
      /\ s.below # <<>> => Text[s] = h \o Braced(b)
  BY <1>4, Rendered
<1>7. Bytes(h) \in Seq(Scanned) /\ Balanced(Bytes(h)) /\ Len(Bytes(h)) = Len(h)
  BY <1>2, <1>4, BytesOf DEF Legibles
<1> HIDE DEF b
<1>8. CASE s.below = <<>>
  <2>1. Range(Bytes(h)) = {Byte(t) : t \in {s.name} \cup Range(ArgumentText(s))}
    BY <1>4, <1>5, BytesOf
  <2>2. ArgumentText(s) \in Seq(Tokens)
    BY <1>4, Rendered
  <2>3. Range(Bytes(ArgumentText(s))) = {Byte(t) : t \in Range(ArgumentText(s))}
    BY <2>2, BytesOf
  <2>4. Open \notin Range(Bytes(h))
    BY <1>1, <1>8, <2>1, <2>3, PlainBytes
  <2>5. \A i \in DOMAIN Bytes(h) : Bytes(h)[i] # Open
    BY <1>7, <2>4, SeqElements
  <2>6. Outermost(Bytes(h)) = {}
    BY <2>5 DEF Outermost
  <2>7. QED
    BY <1>6, <1>8, <2>6 DEF StripSelectionSet
<1>9. CASE s.below # <<>>
  <2> DEFINE y == Bytes(b)
             x == Bytes(h)
             z == x \o Braced(y)
  <2>1. y \in Seq(Scanned) /\ Balanced(y)
    BY <1>3, <1>4, BytesOf DEF Legibles
  <2>2. Braced(b) \in Seq(Tokens) /\ Bytes(Braced(b)) = Braced(y)
    BY <1>4, BytesBraced
  <2> HIDE DEF h
  <2>3. Bytes(Text[s]) = z
    BY <1>4, <1>6, <1>9, <2>2, BytesJoined
  <2>4. {Open, Close} \subseteq Scanned
    BY PlainBytes DEF Scanned, Tokens
  <2>5. x \in Seq(Scanned) /\ Balanced(x) /\ Len(x) = Len(h)
    BY <1>7
  <2> HIDE DEF x, y
  <2>6. Outermost(z) # {} /\ Max(Outermost(z)) = Len(x) + 1
    BY <2>1, <2>4, <2>5, LastOutermost
  <2>7. Len(h) \in Nat /\ Len(h) # 0
    <3>1. Len(h) \in Nat
      BY <1>4, LenProperties
    <3>2. s.name \in Range(h)
      BY <1>5 DEF h
    <3>3. \E i \in 1..Len(h) : s.name = h[i]
      BY <1>4, <3>2, SeqElements
    <3>4. QED
      BY <3>1, <3>3
  <2>8. StripSelectionSet(Text[s]) = SubSeq(h \o Braced(b), 1, Len(h))
    <3>1. (Len(h) + 1) - 1 = Len(h)
      BY <2>7
    <3>2. StripSelectionSet(Text[s]) = SubSeq(Text[s], 1, (Len(h) + 1) - 1)
      BY <2>3, <2>5, <2>6 DEF StripSelectionSet
    <3>3. QED
      BY <1>6, <1>9, <3>1, <3>2
  <2>9. SubSeq(h \o Braced(b), 1, Len(h)) = SubSeq(h, 1, Len(h))
    <3>1. 1 \in 1..Len(h) /\ Len(h) \in 1..Len(h)
      BY <2>7
    <3>2. QED
      BY <1>4, <2>2, <3>1, SubSeqOfConcat1
  <2>10. SubSeq(h, 1, Len(h)) = h
    BY <1>4, SubSeqFull
  <2>11. QED
    BY <2>8, <2>9, <2>10 DEF h
<1>10. QED
  BY <1>8, <1>9

-----------------------------------------------------------------------------
(* The parts of a plan                                                     *)

\* The selections that are in the part of subgraph e.
Chosen(t, sels, owner, e) ==
  {s \in Range(sels) : /\ s.kind = "field"
                       /\ s.name \notin {Typename, Id}
                       /\ OwnerOf(t, s.name, owner) = e}

LEMMA RenderedPart ==
  ASSUME NEW t, NEW sels \in Seq(Selections), NEW owner, NEW e
  PROVE  /\ RenderPart(t, sels, owner, e) \in Seq(Tokens)
         /\ Range(RenderPart(t, sels, owner, e))
              = UNION {Range(Text[c]) : c \in Chosen(t, sels, owner, e)}
         /\ \A T \in SUBSET Seq(Tokens) :
              /\ <<>> \in T /\ \A x, y \in T : x \o y \in T
              /\ \A c \in Chosen(t, sels, owner, e) : Text[c] \in T
              => RenderPart(t, sels, owner, e) \in T
<1> DEFINE C == Chosen(t, sels, owner, e)
           f == [c \in Range(sels) |-> IF c \in C THEN Text[c] ELSE <<>>]
           q == [i \in DOMAIN sels |-> f[sels[i]]]
           part == RenderPart(t, sels, owner, e)
<1>1. /\ DOMAIN sels = 1..Len(sels) /\ C \subseteq Range(sels)
      /\ \A i \in 1..Len(sels) : sels[i] \in Range(sels)
      /\ \A c \in Range(sels) : \E i \in 1..Len(sels) : c = sels[i]
  BY SeqElements DEF Chosen
<1>2. \A c \in Range(sels) : c \in Selections /\ Text[c] \in Seq(Tokens)
  BY SeqElements, Texts
<1>3. part = FlattenSeq(q)
  <2>1. \A i \in DOMAIN sels :
          f[sels[i]] = IF /\ sels[i].kind = "field"
                          /\ sels[i].name \notin {Typename, Id}
                          /\ OwnerOf(t, sels[i].name, owner) = e
                       THEN Text[sels[i]] ELSE <<>>
    BY <1>1 DEF Chosen
  <2> HIDE DEF f
  <2>2. QED
    BY <2>1 DEF RenderPart
<1>4. \A c \in Range(sels) : f[c] = IF c \in C THEN Text[c] ELSE <<>>
  OBVIOUS
<1> HIDE DEF C, f, part
<1>5. \A c \in Range(sels) : f[c] \in Seq(Tokens)
  BY <1>2, <1>4, EmptyText
<1>6. q \in Seq(Seq(Tokens)) /\ Len(q) = Len(sels) /\ \A i \in 1..Len(sels) : q[i] = f[sels[i]]
  <2>1. Len(sels) \in Nat
    BY LenProperties
  <2>2. q = [i \in 1..Len(sels) |-> f[sels[i]]]
    BY <1>1
  <2>3. q \in [1..Len(sels) -> Seq(Tokens)] /\ \A i \in 1..Len(sels) : q[i] = f[sels[i]]
    BY <1>1, <1>5, <2>2
  <2> HIDE DEF q
  <2>4. Len(q) = Len(sels) /\ q \in Seq(Seq(Tokens))
    BY <2>1, <2>3
  <2>5. QED
    BY <2>3, <2>4
<1>7. ASSUME NEW T \in SUBSET Seq(Tokens), <<>> \in T, \A x, y \in T : x \o y \in T,
             \A c \in C : Text[c] \in T
      PROVE  part \in T
  <2>1. \A c \in Range(sels) : f[c] \in T
    BY <1>4, <1>7
  <2>2. q \in Seq(T)
    BY <2>1, Mapped
  <2> HIDE DEF q
  <2>3. QED
    BY <1>3, <1>7, <2>2, FlattenClosed
<1> HIDE DEF q
<1>8. /\ FlattenSeq(q) \in Seq(Tokens)
      /\ Range(FlattenSeq(q)) = UNION {Range(q[i]) : i \in 1..Len(q)}
  BY <1>6, FlattenElements
<1>9. UNION {Range(q[i]) : i \in 1..Len(q)} = UNION {Range(Text[c]) : c \in C}
  <2> DEFINE A == UNION {Range(q[i]) : i \in 1..Len(q)}
             B == UNION {Range(Text[c]) : c \in C}
  <2>1. ASSUME NEW x \in A
        PROVE  x \in B
    <3>1. PICK i \in 1..Len(sels) : x \in Range(f[sels[i]])
      BY <1>6
    <3>2. sels[i] \in C
      BY <1>1, <1>4, <3>1, EmptyText
    <3>3. QED
      BY <1>1, <1>4, <3>1, <3>2
  <2>2. ASSUME NEW x \in B
        PROVE  x \in A
    <3>1. PICK c \in C : x \in Range(Text[c])
      OBVIOUS
    <3>2. PICK i \in 1..Len(sels) : c = sels[i]
      BY <1>1
    <3>3. q[i] = Text[c] /\ i \in 1..Len(q)
      BY <1>1, <1>4, <1>6, <3>2
    <3>4. QED
      BY <3>1, <3>3
  <2>3. QED
    BY <2>1, <2>2
<1>10. QED
  BY <1>3, <1>7, <1>8, <1>9 DEF part, C

\* The key fields that are injected.
LEMMA Bookkeeping ==
  /\ <<Typename, Id>> \in Seq(Tokens) /\ Range(<<Typename, Id>>) = {Typename, Id}
  /\ <<Typename, Id>> \in Nested(1) /\ <<Typename, Id>> \in Legibles
  /\ VariableNames(<<Typename, Id>>) = {} /\ {Typename, Id} \subseteq Names
<1> DEFINE x == <<Typename, Id>>
<1>1. {Typename, Id} \subseteq Names /\ Typename \in Tokens /\ Id \in Tokens
  BY CatalogAssumption DEF CatalogAssumption, Tokens
<1>2. x \in Seq(Tokens) /\ Len(x) = 2 /\ x[1] = Typename /\ x[2] = Id
  BY <1>1
<1> HIDE DEF x
<1>3. Range(x) = {Typename, Id}
  <2>1. Range(x) = {x[i] : i \in 1..Len(x)}
    BY <1>2, RangeEquality
  <2>2. 1..2 = {1, 2}
    OBVIOUS
  <2>3. QED
    BY <1>2, <2>1, <2>2
<1>4. Open \notin Range(x) /\ Close \notin Range(x)
  BY <1>1, <1>3, PlainBytes
<1>5. x \in Nested(1)
  BY <1>2, <1>4, WithoutBraces DEF Nested
<1>6. Bytes(x) \in Seq(Scanned) /\ Range(Bytes(x)) = {Byte(t) : t \in Range(x)}
  BY <1>2, BytesOf
<1>7. Range(Bytes(x)) = Range(x)
  <2>1. \A t \in Range(x) : Byte(t) = t
    BY <1>1, <1>3, PlainBytes
  <2>2. QED
    BY <1>6, <2>1
<1>8. Balanced(Bytes(x))
  BY <1>4, <1>6, <1>7, WithoutBraces
<1>9. VariableNames(x) = {}
  BY <1>1, <1>3, <1>7, PlainBytes DEF VariableNames
<1>10. QED
  BY <1>1, <1>2, <1>3, <1>5, <1>8, <1>9 DEF x, Legibles

LEMMA StripTyped ==
  ASSUME NEW x \in Seq(Tokens)
  PROVE  StripSelectionSet(x) \in Seq(Tokens)
<1> DEFINE S == Outermost(Bytes(x))
<1>1. CASE S = {}
  BY <1>1 DEF StripSelectionSet
<1>2. CASE S # {}
  <2>1. Len(x) \in Nat /\ \A i \in 1..Len(x) : x[i] \in Tokens
    BY LenProperties, ElementOfSeq
  <2>2. S \subseteq 1..Len(x)
    <3>1. DOMAIN Bytes(x) = 1..Len(x)
      BY BytesOf, LenProperties
    <3>2. QED
      BY <3>1 DEF Outermost
  <2>3. S \in SUBSET Nat /\ \A i \in S : i <= Len(x)
    BY <2>1, <2>2
  <2> HIDE DEF S
  <2>4. Max(S) \in S
    BY <1>2, <2>1, <2>3, Greatest
  <2>5. Max(S) - 1 \in Int /\ \A i \in 1..(Max(S) - 1) : i \in 1..Len(x)
    <3> DEFINE m == Max(S)
    <3>1. m \in 1..Len(x)
      BY <2>2, <2>4
    <3> HIDE DEF m
    <3>2. m - 1 \in Int /\ \A i \in 1..(m - 1) : i \in 1..Len(x)
      BY <2>1, <3>1
    <3>3. QED
      BY <3>2 DEF m
  <2>6. SubSeq(x, 1, Max(S) - 1) \in Seq(Tokens)
    BY <2>1, <2>5, SubSeqProperties
  <2>7. QED
    BY <1>2, <2>6 DEF StripSelectionSet, S
<1>3. QED
  BY <1>1, <1>2

\* The variables of a text that is made of fixed tokens and the texts of selections.
LEMMA VariablesOf ==
  ASSUME NEW x \in Seq(Tokens), NEW P \in SUBSET Selections, NEW Fixed \in SUBSET ({Open, Close} \cup Names \cup Types),
         Range(x) = Fixed \cup (UNION {Range(Text[c]) : c \in P})
  PROVE  /\ Range(x) \cap Variables = UNION {VariableUses(<<c>>) : c \in P}
         /\ (\A c \in P : \A d \in Within[c] : VariableNames(ArgumentText(d)) = ArgumentVariables(d))
              => VariableNames(x) = UNION {VariableUses(<<c>>) : c \in P}
         /\ Range(x) \subseteq
              {Open, Close} \cup Names \cup Types
                \cup (UNION {SpreadsIn(<<c>>) : c \in P})
                \cup (UNION {UNION {Range(ArgumentText(d)) : d \in Within[c]} : c \in P})
<1>1. \A u \in Fixed : u \notin Variables /\ Byte(u) \notin Variables
  BY PlainBytes
<1>2. \A c \in P : /\ Text[c] \in Seq(Tokens)
                   /\ Range(Text[c]) \cap Variables = VariableUses(<<c>>)
                   /\ VariableNames(Text[c]) = {Byte(u) : u \in Range(Text[c])} \cap Variables
  BY Texts, TextVariables, BytesOf DEF VariableNames
<1>3. Range(x) \cap Variables = UNION {VariableUses(<<c>>) : c \in P}
  <2>1. ASSUME NEW v \in Range(x), v \in Variables
        PROVE  v \in UNION {VariableUses(<<c>>) : c \in P}
    <3>1. PICK c \in P : v \in Range(Text[c])
      BY <1>1, <2>1
    <3>2. v \in VariableUses(<<c>>)
      BY <1>2, <2>1, <3>1
    <3>3. QED
      BY <3>1, <3>2
  <2>2. ASSUME NEW c \in P, NEW v \in VariableUses(<<c>>)
        PROVE  v \in Range(x) /\ v \in Variables
    <3>1. v \in Range(Text[c]) /\ v \in Variables
      BY <1>2
    <3>2. QED
      BY <3>1
  <2>3. QED
    BY <2>1, <2>2
<1>4. ASSUME \A c \in P : \A d \in Within[c] : VariableNames(ArgumentText(d)) = ArgumentVariables(d)
      PROVE  VariableNames(x) = UNION {VariableUses(<<c>>) : c \in P}
  <2>1. \A c \in P : VariableNames(Text[c]) = VariableUses(<<c>>)
    BY <1>4, TextVariables
  <2>2. VariableNames(x) = {Byte(u) : u \in Range(x)} \cap Variables
    BY BytesOf DEF VariableNames
  <2>3. ASSUME NEW v \in VariableNames(x)
        PROVE  v \in UNION {VariableUses(<<c>>) : c \in P}
    <3>1. PICK u \in Range(x) : v = Byte(u) /\ v \in Variables
      BY <2>2
    <3>2. PICK c \in P : u \in Range(Text[c])
      BY <1>1, <3>1
    <3>3. v \in VariableNames(Text[c])
      BY <1>2, <3>1, <3>2
    <3>4. QED
      BY <2>1, <3>2, <3>3
  <2>4. ASSUME NEW c \in P, NEW v \in VariableUses(<<c>>)
        PROVE  v \in VariableNames(x)
    <3>1. PICK u \in Range(Text[c]) : v = Byte(u) /\ v \in Variables
      BY <1>2, <2>1
    <3>2. u \in Range(x)
      OBVIOUS
    <3>3. QED
      BY <2>2, <3>1, <3>2
  <2>5. QED
    BY <2>3, <2>4
<1>5. \A c \in P : Range(Text[c]) \subseteq
                     {Open, Close} \cup Names \cup Types \cup SpreadsIn(<<c>>)
                       \cup UNION {Range(ArgumentText(d)) : d \in Within[c]}
  BY TextVariables
<1>6. Range(x) \subseteq
        {Open, Close} \cup Names \cup Types
          \cup (UNION {SpreadsIn(<<c>>) : c \in P})
          \cup (UNION {UNION {Range(ArgumentText(d)) : d \in Within[c]} : c \in P})
  <2> SUFFICES ASSUME NEW u \in Range(x)
               PROVE  u \in {Open, Close} \cup Names \cup Types
                        \cup (UNION {SpreadsIn(<<c>>) : c \in P})
                        \cup (UNION {UNION {Range(ArgumentText(d)) : d \in Within[c]} : c \in P})
    OBVIOUS
  <2>1. CASE u \in Fixed
    BY <2>1
  <2>2. CASE u \notin Fixed
    <3>1. PICK c \in P : u \in Range(Text[c])
      BY <2>2
    <3>2. u \in {Open, Close} \cup Names \cup Types \cup SpreadsIn(<<c>>)
                  \cup UNION {Range(ArgumentText(d)) : d \in Within[c]}
      BY <1>5, <3>1
    <3>3. QED
      BY <3>1, <3>2
  <2>3. QED
    BY <2>1, <2>2
<1>7. QED
  BY <1>3, <1>4, <1>6

\* A guess is a type that the planner knows and one of the fields below is of, or none.
LEMMA Guessed ==
  ASSUME NEW sub, NEW t \in Guesses(sub)
  PROVE  /\ t \in Tagged \cup {None} /\ (t # None => t \in Tagged)
         /\ t # None => \E s \in Visible(sub) : s.name \in FieldsOf(t)
<1> DEFINE best == {u \in Tagged : /\ Score(u, sub) > 0
                                   /\ \A v \in Tagged : Score(v, sub) <= Score(u, sub)}
<1>1. t \in IF best = {} THEN {None} ELSE best
  BY DEF Guesses
<1>2. ASSUME t # None
      PROVE  t \in Tagged /\ Score(t, sub) > 0
  BY <1>1, <1>2
<1>3. ASSUME t # None
      PROVE  \E s \in Visible(sub) : s.name \in FieldsOf(t)
  <2> SUFFICES ASSUME \A s \in Visible(sub) : s.name \notin FieldsOf(t)
               PROVE  FALSE
    OBVIOUS
  <2>1. {s \in Visible(sub) : s.name \in FieldsOf(t)} = {}
    OBVIOUS
  <2>2. Score(t, sub) = 0
    BY <2>1, FS_EmptySet DEF Score
  <2>3. QED
    BY <1>2, <1>3, <2>2
<1>4. QED
  BY <1>1, <1>2, <1>3

\* A visible field of the flat selection set is a field below.
LEMMA Flattened ==
  ASSUME NEW sels \in Seq(Selections), NEW x \in Visible(Flat(sels))
  PROVE  \E c \in Range(sels) : c.kind = "field" /\ c.name = x.name /\ c.key = x.key
<1>1. x \in Flat(sels) /\ ~ x.inline
  BY DEF Visible
<1>2. PICK c \in Range(sels) :
        x = [key |-> c.key, name |-> c.name, below |-> NamesOf(c.below), inline |-> c.kind # "field"]
  BY <1>1 DEF Flat
<1>3. QED
  BY <1>1, <1>2

\* What is below a field that returns an entity or has a selection set, in its texts.
LEMMA BelowNested ==
  ASSUME NEW f \in Selections, f.kind = "field"
  PROVE  /\ f.below \in Seq(Selections) /\ Range(f.below) \subseteq Selections
         /\ Depth[f] \in Nat /\ Depth[f] >= 1 /\ Depth[f] - 1 \in Nat
         /\ (Depth[f] - 1) + 1 = Depth[f]
         /\ \A c \in Range(f.below) : Text[c] \in Nested(Depth[f] - 1)
         /\ \A c \in Range(f.below) : c.kind = "field" => Depth[f] - 1 >= 1
<1>1. f.below \in Seq(Selections) /\ Range(f.below) \subseteq Selections
  BY Children
<1>2. Depth[f] \in Nat /\ Depth[f] >= 1
  BY FieldIsALevel
<1>3. Depth[f] - 1 \in Nat /\ (Depth[f] - 1) + 1 = Depth[f]
  BY <1>2
<1>4. ASSUME NEW c \in Range(f.below)
      PROVE  /\ Text[c] \in Nested(Depth[f] - 1)
             /\ c.kind = "field" => Depth[f] - 1 >= 1
  <2>1. c \in Selections /\ Depth[c] \in Nat /\ Depth[c] + 1 <= Depth[f]
    BY <1>1, DeeperThanBelow
  <2>2. Depth[c] <= Depth[f] - 1
    BY <1>2, <2>1
  <2>3. Text[c] \in Nested(Depth[c])
    BY <2>1, TextNested
  <2>4. Text[c] \in Nested(Depth[f] - 1)
    BY <1>3, <2>1, <2>2, <2>3, NestedClosed
  <2>5. c.kind = "field" => Depth[c] >= 1
    BY <2>1, FieldIsALevel
  <2>6. c.kind = "field" => Depth[f] - 1 >= 1
    BY <1>2, <2>1, <2>2, <2>5
  <2>7. QED
    BY <2>4, <2>6
<1>5. QED
  BY <1>1, <1>2, <1>3, <1>4

\* The selections below a root field that its own fetch asks for.
Fetched(t, sels, owner) == IF t = None THEN Range(sels) ELSE Chosen(t, sels, owner, owner)

\* The selection set of the initial fetch: with key fields and without.
LEMMA InitialText ==
  ASSUME NEW f \in Selections, f.kind = "field", NEW t \in Guesses(Flat(f.below)), NEW owner
  PROVE  LET x == InitialSelectionText(t, f.below, owner)
         IN /\ x \in Nested(Depth[f])
            /\ \E fixed \in SUBSET ({Open, Close} \cup Names \cup Types) :
                 Range(x) = fixed \cup (UNION {Range(Text[c]) : c \in Fetched(t, f.below, owner)})
            /\ t # None => /\ {Typename, Id} \subseteq Range(x)
                           /\ Range(RenderPart(t, f.below, owner, owner)) \subseteq Range(x)
<1> DEFINE x == InitialSelectionText(t, f.below, owner)
           part == RenderPart(t, f.below, owner, owner)
           below == RenderAll(f.below)
           key == <<Typename, Id>>
           d == Depth[f] - 1
           P == Fetched(t, f.below, owner)
<1>1. /\ f.below \in Seq(Selections) /\ d \in Nat /\ d + 1 = Depth[f] /\ Depth[f] \in Nat
      /\ \A c \in Range(f.below) : Text[c] \in Nested(d) /\ (c.kind = "field" => d >= 1)
  BY BelowNested
<1>2. /\ Nested(d) \in SUBSET Seq(Tokens) /\ <<>> \in Nested(d)
      /\ \A a, b \in Nested(d) : a \o b \in Nested(d)
      /\ \A a \in Nested(d) : Braced(a) \in Nested(Depth[f])
      /\ <<>> \in Nested(Depth[f])
  BY <1>1, NestedClosed
<1>3. Chosen(t, f.below, owner, owner) \subseteq Range(f.below)
  BY DEF Chosen
<1>4. part \in Nested(d) /\ Range(part) = UNION {Range(Text[c]) : c \in Chosen(t, f.below, owner, owner)}
  <2>1. \A c \in Chosen(t, f.below, owner, owner) : Text[c] \in Nested(d)
    BY <1>1, <1>3
  <2> HIDE DEF d
  <2>2. QED
    BY <1>1, <1>2, <2>1, RenderedPart
<1>5. below \in Nested(d) /\ Range(below) = UNION {Range(Text[c]) : c \in Range(f.below)}
  BY <1>1, <1>2, RenderedAll
<1>6. /\ key \in Seq(Tokens) /\ Range(key) = {Typename, Id} /\ key \in Nested(1)
      /\ {Typename, Id} \subseteq Names
  BY Bookkeeping
<1> HIDE DEF part, below, key
<1>7. CASE t # None
  <2>1. x = Braced(key \o part)
    BY <1>7 DEF InitialSelectionText, part, key
  <2>2. d >= 1
    <3>1. PICK v \in Visible(Flat(f.below)) : v.name \in FieldsOf(t)
      BY <1>7, Guessed
    <3>2. PICK c \in Range(f.below) : c.kind = "field"
      BY <1>1, <3>1, Flattened
    <3>3. QED
      BY <1>1, <3>2
  <2>3. key \in Nested(d)
    <3> HIDE DEF d
    <3>1. QED
      BY <1>1, <1>6, <2>2, NestedClosed
  <2>4. key \o part \in Nested(d)
    BY <1>2, <1>4, <2>3
  <2>5. x \in Nested(Depth[f])
    BY <1>2, <2>1, <2>4
  <2>6. key \o part \in Seq(Tokens) /\ Range(key \o part) = {Typename, Id} \cup Range(part)
    BY <1>2, <1>4, <1>6, Joined
  <2>7. Range(x) = {Open, Close} \cup ({Typename, Id} \cup Range(part))
    BY <2>1, <2>6, BytesBraced
  <2>8. P = Chosen(t, f.below, owner, owner)
    BY <1>7 DEF Fetched
  <2>9. Range(x) = ({Open, Close} \cup {Typename, Id}) \cup (UNION {Range(Text[c]) : c \in P})
    BY <1>4, <2>7, <2>8
  <2>10. ({Open, Close} \cup {Typename, Id}) \in SUBSET ({Open, Close} \cup Names \cup Types)
    BY <1>6
  <2> HIDE DEF x, P
  <2>11. QED
    BY <2>5, <2>7, <2>9, <2>10 DEF x, P, part
<1>8. CASE t = None /\ f.below = <<>>
  <2>1. x = <<>>
    BY <1>8 DEF InitialSelectionText
  <2>2. P = {}
    <3>1. P = Range(f.below)
      BY <1>8 DEF Fetched
    <3>2. QED
      BY <1>8, <3>1, EmptyText
  <2>3. Range(x) = {} \cup (UNION {Range(Text[c]) : c \in P})
    BY <2>1, <2>2, EmptyText
  <2> HIDE DEF x, P
  <2>4. QED
    BY <1>2, <1>8, <2>1, <2>3 DEF x, P
<1>9. CASE t = None /\ f.below # <<>>
  <2>1. x = Braced(below)
    BY <1>9 DEF InitialSelectionText, below
  <2>2. x \in Nested(Depth[f])
    BY <1>2, <1>5, <2>1
  <2>3. Range(x) = {Open, Close} \cup Range(below)
    BY <1>2, <1>5, <2>1, BytesBraced
  <2>4. P = Range(f.below)
    BY <1>9 DEF Fetched
  <2>5. Range(x) = {Open, Close} \cup (UNION {Range(Text[c]) : c \in P})
    BY <1>5, <2>3, <2>4
  <2> HIDE DEF x, P
  <2>6. QED
    BY <1>9, <2>2, <2>5 DEF x, P
<1>10. QED
  BY <1>7, <1>8, <1>9

\* A root field that the planner's scan of the bytes does not misread.
Clear(f) ==
  /\ \A c \in Within[f] : /\ Balanced(Bytes(ArgumentText(c)))
                          /\ VariableNames(ArgumentText(c)) = ArgumentVariables(c)
  /\ f.below = <<>> => Open \notin Range(Bytes(ArgumentText(f)))

\* The variables of a fetch: those of the root field's arguments and of what it asks for.
FetchVariables(t, f, owner) ==
  ArgumentVariables(f) \cup (UNION {VariableUses(<<c>>) : c \in Fetched(t, f.below, owner)})

LEMMA FetchTyped ==
  ASSUME NEW f \in Selections, f.kind = "field", NEW t \in Guesses(Flat(f.below)), NEW owner
  PROVE  LET x == RootOperationText(t, f, owner)
         IN /\ x \in Seq(Tokens)
            /\ t # None => /\ {Typename, Id} \subseteq Range(x)
                           /\ Range(RenderPart(t, f.below, owner, owner)) \subseteq Range(x)
<1> DEFINE x == InitialSelectionText(t, f.below, owner)
           head == StripSelectionSet(Text[f])
<1>1. x \in Nested(Depth[f])
      /\ (t # None => /\ {Typename, Id} \subseteq Range(x)
                      /\ Range(RenderPart(t, f.below, owner, owner)) \subseteq Range(x))
  BY InitialText
<1>2. x \in Seq(Tokens)
  BY <1>1 DEF Nested
<1>3. head \in Seq(Tokens)
  BY Texts, StripTyped
<1> HIDE DEF x, head
<1>4. head \o x \in Seq(Tokens) /\ Range(head \o x) = Range(head) \cup Range(x)
  BY <1>2, <1>3, Joined
<1>5. RootOperationText(t, f, owner) = head \o x
  BY DEF RootOperationText, head, x
<1>6. QED
  BY <1>1, <1>4, <1>5

\* What is below a field is within it, and its variables and spreads are.
LEMMA PartOfField ==
  ASSUME NEW f \in Selections, NEW c \in Range(f.below)
  PROVE  /\ c \in Selections /\ Within[c] \subseteq Within[f]
         /\ VariableUses(<<c>>) \subseteq VariableUses(<<f>>)
         /\ SpreadsIn(<<c>>) \subseteq SpreadsIn(f.below)
<1>1. f.below \in Seq(Selections) /\ c \in Selections
  BY Children
<1>2. Within[c] \subseteq Inside(f.below) /\ Within[f] = {f} \cup Inside(f.below)
  BY <1>1, InsideOf, Withins
<1>3. Inside(<<c>>) = Within[c] /\ Inside(<<f>>) = Within[f]
  BY <1>1, OneInside
<1>4. VariableUses(<<c>>) \subseteq VariableUses(<<f>>)
  BY <1>2, <1>3 DEF VariableUses
<1>5. SpreadsIn(<<c>>) \subseteq SpreadsIn(f.below)
  BY <1>2, <1>3 DEF SpreadsIn
<1>6. QED
  BY <1>1, <1>2, <1>4, <1>5

\* The text of an initial fetch of a field that is not misread: it is no deeper than
\* the field, and it has the variables, spreads and arguments of what it asks for.
LEMMA FetchText ==
  ASSUME NEW f \in Selections, f.kind = "field", Clear(f),
         NEW t \in Guesses(Flat(f.below)), NEW owner
  PROVE  LET x == RootOperationText(t, f, owner)
         IN /\ x \in Nested(Depth[f])
            /\ Range(x) \cap Variables = FetchVariables(t, f, owner)
            /\ VariableNames(x) = FetchVariables(t, f, owner)
            /\ FetchVariables(t, f, owner) \subseteq VariableUses(<<f>>)
            /\ Range(x) \subseteq {Open, Close} \cup Names \cup Types \cup SpreadsIn(f.below)
                                    \cup UNION {Range(ArgumentText(c)) : c \in Within[f]}
<1> DEFINE x == InitialSelectionText(t, f.below, owner)
           head == <<f.name>> \o ArgumentText(f)
           P == Fetched(t, f.below, owner)
           U == UNION {VariableUses(<<c>>) : c \in P}
           A == UNION {Range(ArgumentText(c)) : c \in Within[f]}
<1>1. RootOperationText(t, f, owner) = head \o x
  BY Stripped DEF RootOperationText, Clear
<1>2. P \subseteq Range(f.below)
  BY DEF Fetched, Chosen
<1>3. \A c \in P : /\ c \in Selections /\ Within[c] \subseteq Within[f]
                   /\ VariableUses(<<c>>) \subseteq VariableUses(<<f>>)
                   /\ SpreadsIn(<<c>>) \subseteq SpreadsIn(f.below)
  BY <1>2, PartOfField
<1>4. /\ x \in Nested(Depth[f]) /\ x \in Seq(Tokens)
      /\ \E fixed \in SUBSET ({Open, Close} \cup Names \cup Types) :
           Range(x) = fixed \cup (UNION {Range(Text[c]) : c \in P})
  BY InitialText DEF Nested
<1> HIDE DEF x, P
<1>5. /\ Range(x) \cap Variables = U
      /\ VariableNames(x) = U
      /\ Range(x) \subseteq {Open, Close} \cup Names \cup Types \cup SpreadsIn(f.below) \cup A
  <2>1. PICK fixed \in SUBSET ({Open, Close} \cup Names \cup Types) :
          Range(x) = fixed \cup (UNION {Range(Text[c]) : c \in P})
    BY <1>4
  <2>2. P \in SUBSET Selections
    BY <1>3
  <2>3. \A c \in P : \A d \in Within[c] : VariableNames(ArgumentText(d)) = ArgumentVariables(d)
    BY <1>3 DEF Clear
  <2>4. /\ Range(x) \cap Variables = U
        /\ VariableNames(x) = U
        /\ Range(x) \subseteq
             {Open, Close} \cup Names \cup Types
               \cup (UNION {SpreadsIn(<<c>>) : c \in P})
               \cup (UNION {UNION {Range(ArgumentText(d)) : d \in Within[c]} : c \in P})
    BY <1>4, <2>1, <2>2, <2>3, VariablesOf
  <2>5. (UNION {SpreadsIn(<<c>>) : c \in P}) \subseteq SpreadsIn(f.below)
    BY <1>3
  <2>6. (UNION {UNION {Range(ArgumentText(d)) : d \in Within[c]} : c \in P}) \subseteq A
    <3>1. \A c \in P : UNION {Range(ArgumentText(d)) : d \in Within[c]} \subseteq A
      BY <1>3
    <3> HIDE DEF A
    <3>2. QED
      BY <3>1
  <2> HIDE DEF A
  <2>7. QED
    BY <2>4, <2>5, <2>6
<1>6. /\ head \in Nested(1) /\ head \in Seq(Tokens)
      /\ Range(head) = {f.name} \cup Range(ArgumentText(f))
  BY FieldHead DEF Nested
<1>7. Depth[f] \in Nat /\ 1 <= Depth[f]
  BY FieldIsALevel
<1>8. f \in Within[f] /\ f.name \in Names
  BY Withins, TokenAssumption DEF TokenAssumption
<1>9. VariableNames(head) = ArgumentVariables(f) /\ Range(head) \cap Variables = ArgumentVariables(f)
  <2>1. f.name \notin Variables /\ Byte(f.name) = f.name /\ f.name \in Tokens
    BY <1>8, PlainBytes DEF Tokens
  <2>2. Range(head) \cap Variables = ArgumentVariables(f)
    BY <1>6, <2>1, ArgumentTexts
  <2>3. ArgumentText(f) \in Seq(Tokens) /\ <<f.name>> \in Seq(Tokens)
    <3>1. RenderAll(f.below) \in Seq(Tokens)
      BY Children, RenderedAll
    <3>2. QED
      BY <3>1, Rendered
  <2>4. VariableNames(head) = VariableNames(<<f.name>>) \cup VariableNames(ArgumentText(f))
    <3> DEFINE n == <<f.name>>
    <3> HIDE DEF n
    <3>1. n \in Seq(Tokens) /\ head = n \o ArgumentText(f)
      BY <2>3 DEF n
    <3>2. VariableNames(n \o ArgumentText(f)) = VariableNames(n) \cup VariableNames(ArgumentText(f))
      BY <2>3, <3>1, BytesJoined
    <3>3. QED
      BY <3>1, <3>2 DEF n
  <2>5. VariableNames(<<f.name>>) = {}
    BY <2>1, BytesOne DEF VariableNames
  <2>6. VariableNames(ArgumentText(f)) = ArgumentVariables(f)
    BY <1>8 DEF Clear
  <2>7. QED
    BY <2>2, <2>4, <2>5, <2>6
<1> HIDE DEF head
<1>10. /\ head \o x \in Nested(Depth[f])
       /\ Range(head \o x) = Range(head) \cup Range(x)
       /\ VariableNames(head \o x) = VariableNames(head) \cup VariableNames(x)
  <2>1. head \in Nested(Depth[f])
    BY <1>6, <1>7, NestedClosed
  <2>2. head \o x \in Nested(Depth[f])
    BY <1>4, <1>7, <2>1, NestedClosed
  <2>3. QED
    BY <1>4, <1>6, <2>2, Joined, BytesJoined
<1>11. FetchVariables(t, f, owner) = ArgumentVariables(f) \cup U
  BY DEF FetchVariables, P
<1>12. ArgumentVariables(f) \subseteq VariableUses(<<f>>)
  BY <1>8, OneInside DEF VariableUses
<1>13. U \subseteq VariableUses(<<f>>)
  BY <1>3
<1>14. Range(ArgumentText(f)) \subseteq A
  BY <1>8
<1> HIDE DEF U, A
<1>15. Range(head \o x) \cap Variables = ArgumentVariables(f) \cup U
  BY <1>5, <1>9, <1>10
<1>16. VariableNames(head \o x) = ArgumentVariables(f) \cup U
  BY <1>5, <1>9, <1>10
<1>17. Range(head \o x) \subseteq {Open, Close} \cup Names \cup Types \cup SpreadsIn(f.below) \cup A
  BY <1>5, <1>6, <1>8, <1>10, <1>14
<1>18. QED
  BY <1>1, <1>10, <1>11, <1>12, <1>13, <1>15, <1>16, <1>17 DEF A

\* What execute_field sends around a body.
Around(t, body) == <<Representations>> \o Braced(<<t>> \o Braced(body))

\* The text of an entity fetch and that of its body.
LEMMA BodyText ==
  ASSUME NEW f \in Selections, f.kind = "field", NEW t \in Types, NEW owner, NEW e
  PROVE  LET b == RenderPart(t, f.below, owner, e)
             x == Around(t, b)
             P == Chosen(t, f.below, owner, e)
         IN /\ x \in Nested(Depth[f] + 1)
            /\ Range(x) = {Representations, Open, Close, t} \cup Range(b)
            /\ Range(b) \cap Variables = UNION {VariableUses(<<c>>) : c \in P}
            /\ Range(b) \subseteq {Open, Close} \cup Names \cup Types \cup SpreadsIn(f.below)
                                    \cup UNION {Range(ArgumentText(c)) : c \in Within[f]}
<1> DEFINE b == RenderPart(t, f.below, owner, e)
           P == Chosen(t, f.below, owner, e)
           d == Depth[f] - 1
           A == UNION {Range(ArgumentText(c)) : c \in Within[f]}
<1>1. /\ f.below \in Seq(Selections) /\ d \in Nat /\ d + 1 = Depth[f] /\ Depth[f] \in Nat
      /\ Depth[f] >= 1
      /\ \A c \in Range(f.below) : Text[c] \in Nested(d)
  BY BelowNested
<1>2. P \subseteq Range(f.below)
  BY DEF Chosen
<1>3. \A c \in P : /\ c \in Selections /\ Within[c] \subseteq Within[f]
                   /\ SpreadsIn(<<c>>) \subseteq SpreadsIn(f.below)
                   /\ Text[c] \in Nested(d)
  BY <1>1, <1>2, PartOfField
<1>4. /\ b \in Seq(Tokens) /\ b \in Nested(d)
      /\ Range(b) = UNION {Range(Text[c]) : c \in P}
  <2>1. /\ Nested(d) \in SUBSET Seq(Tokens) /\ <<>> \in Nested(d)
        /\ \A y, z \in Nested(d) : y \o z \in Nested(d)
    BY <1>1, NestedClosed
  <2> HIDE DEF d
  <2>2. QED
    BY <1>1, <1>3, <2>1, RenderedPart
<1> HIDE DEF b, P
<1>5. /\ Range(b) \cap Variables = UNION {VariableUses(<<c>>) : c \in P}
      /\ Range(b) \subseteq {Open, Close} \cup Names \cup Types \cup SpreadsIn(f.below) \cup A
  <2>1. Range(b) = {} \cup (UNION {Range(Text[c]) : c \in P})
    BY <1>4
  <2>2. P \in SUBSET Selections
    BY <1>3
  <2>3. {} \in SUBSET ({Open, Close} \cup Names \cup Types)
    OBVIOUS
  <2>4. /\ Range(b) \cap Variables = UNION {VariableUses(<<c>>) : c \in P}
        /\ Range(b) \subseteq
             {Open, Close} \cup Names \cup Types
               \cup (UNION {SpreadsIn(<<c>>) : c \in P})
               \cup (UNION {UNION {Range(ArgumentText(a)) : a \in Within[c]} : c \in P})
    BY <1>4, <2>1, <2>2, <2>3, VariablesOf
  <2>5. (UNION {SpreadsIn(<<c>>) : c \in P}) \subseteq SpreadsIn(f.below)
    BY <1>3
  <2>6. (UNION {UNION {Range(ArgumentText(a)) : a \in Within[c]} : c \in P}) \subseteq A
    BY <1>3
  <2> HIDE DEF A
  <2>7. QED
    BY <2>4, <2>5, <2>6
<1> DEFINE c == <<t>>
           bb == c \o Braced(b)
<1>6. /\ Braced(bb) \in Nested(Depth[f] + 1)
      /\ Range(Braced(bb)) = {Open, Close, t} \cup Range(b)
  <2>1. Braced(b) \in Nested(d + 1)
    <3> HIDE DEF d
    <3>1. QED
      BY <1>1, <1>4, NestedClosed
  <2>2. Braced(b) \in Nested(Depth[f])
    BY <1>1, <2>1
  <2>3. c \in Seq(Tokens) /\ Range(c) = {t}
    <3>1. t \in Tokens
      BY DEF Tokens
    <3>2. QED
      BY <3>1, OneToken
  <2> HIDE DEF c
  <2>4. Open \notin Range(c) /\ Close \notin Range(c)
    BY <2>3, PlainBytes
  <2>5. c \in Nested(1)
    BY <2>3, <2>4, WithoutBraces DEF Nested
  <2>6. c \in Nested(Depth[f])
    BY <1>1, <2>5, NestedClosed
  <2>7. bb \in Nested(Depth[f])
    BY <1>1, <2>2, <2>6, NestedClosed
  <2>8. Braced(b) \in Seq(Tokens) /\ Range(Braced(b)) = {Open, Close} \cup Range(b)
    BY <1>4, BytesBraced
  <2>9. bb \in Seq(Tokens) /\ Range(bb) = Range(c) \cup Range(Braced(b))
    BY <2>3, <2>8, Joined
  <2> HIDE DEF bb
  <2>10. Braced(bb) \in Nested(Depth[f] + 1)
    BY <1>1, <2>7, NestedClosed
  <2>11. Range(Braced(bb)) = {Open, Close} \cup Range(bb)
    BY <2>9, BytesBraced
  <2>12. QED
    BY <2>3, <2>8, <2>9, <2>10, <2>11
<1>7. <<Representations>> \in Nested(Depth[f] + 1) /\ Range(<<Representations>>) = {Representations}
  <2> DEFINE r == <<Representations>>
  <2>1. Representations \in Tokens /\ Representations \in Variables
    BY OperationAssumption DEF OperationAssumption, Tokens
  <2>2. r \in Seq(Tokens) /\ Range(r) = {Representations}
    BY <2>1, BytesOne
  <2> HIDE DEF r
  <2>3. Open \notin Range(r) /\ Close \notin Range(r)
    BY <2>1, <2>2, PlainBytes
  <2>4. r \in Nested(1)
    BY <2>2, <2>3, WithoutBraces DEF Nested
  <2>5. r \in Nested(Depth[f] + 1)
    <3>1. Depth[f] + 1 \in Nat /\ 1 <= Depth[f] + 1 /\ 1 \in Nat
      BY <1>1
    <3>2. QED
      BY <2>4, <3>1, NestedClosed
  <2>6. QED
    BY <2>2, <2>5 DEF r
<1> DEFINE r == <<Representations>>
           z == Braced(bb)
<1> HIDE DEF r, z
<1>8. r \o z \in Nested(Depth[f] + 1) /\ Range(r \o z) = Range(r) \cup Range(z)
  <2>1. Depth[f] + 1 \in Nat
    BY <1>1
  <2>2. r \in Nested(Depth[f] + 1) /\ z \in Nested(Depth[f] + 1)
    BY <1>6, <1>7 DEF r, z
  <2>3. r \o z \in Nested(Depth[f] + 1)
    BY <2>1, <2>2, NestedClosed
  <2>4. r \in Seq(Tokens) /\ z \in Seq(Tokens)
    BY <2>2 DEF Nested
  <2>5. QED
    BY <2>3, <2>4, Joined
<1>9. Range(r \o z) = {Representations, Open, Close, t} \cup Range(b)
  BY <1>6, <1>7, <1>8 DEF r, z
<1>10. QED
  BY <1>5, <1>8, <1>9 DEF r, z, bb, c, b, P, A, Around

-----------------------------------------------------------------------------
(* Selections as they were written                                         *)

\* Every token of a document.
Everything ==
  Tokens \cup (UNION {Range(s.args) : s \in Selections})
    \cup (UNION {Range(s.directives) : s \in Selections})

\* A selection as it was written, from what was written below it.
WrittenWith(s, b) == Headed(s) \o (IF s.below = <<>> THEN <<>> ELSE Braced(b))

LEMMA HeadTyped ==
  ASSUME NEW s \in Selections
  PROVE  Headed(s) \in Seq(Everything)
<1>1. s.args \in Seq(Range(s.args)) /\ s.directives \in Seq(Range(s.directives))
  BY SelectionAssumption DEF SelectionAssumption
<1>2. /\ Range(s.args) \subseteq Everything /\ Range(s.directives) \subseteq Everything
      /\ s.name \in Everything
  BY DEF Everything, Tokens
<1>3. /\ s.args \in Seq(Everything) /\ s.directives \in Seq(Everything)
      /\ <<s.name>> \in Seq(Everything)
  BY <1>1, <1>2, SeqMonotonic, OneToken
<1> DEFINE n == <<s.name>>
<1> HIDE DEF n
<1>4. n \o s.args \in Seq(Everything)
  BY <1>3, ConcatProperties DEF n
<1>5. (n \o s.args) \o s.directives \in Seq(Everything)
  BY <1>3, <1>4, ConcatProperties
<1>6. QED
  BY <1>5 DEF Headed, n

LEMMA WithTyped ==
  ASSUME NEW s \in Selections, NEW b \in Seq(Everything)
  PROVE  WrittenWith(s, b) \in Seq(Everything)
<1>1. {Open, Close} \subseteq Everything
  BY DEF Everything, Tokens
<1>2. Braced(b) \in Seq(Everything) /\ <<>> \in Seq(Everything)
  BY <1>1, BracedText, EmptySeq
<1> DEFINE x == IF s.below = <<>> THEN <<>> ELSE Braced(b)
<1>3. x \in Seq(Everything)
  BY <1>2
<1> HIDE DEF x
<1>4. Headed(s) \o x \in Seq(Everything)
  BY <1>3, HeadTyped, ConcatProperties
<1>5. QED
  BY <1>4 DEF WrittenWith, x

\* Every selection was written in some way, which is that of the definition.
LEMMA WrittenTexts ==
  \A s \in Selections :
    Written[s] = WrittenWith(s, FlattenSeq([i \in DOMAIN s.below |-> Written[s.below[i]]]))
<1> DEFINE V == Seq(Everything)
           Below(s, h) == FlattenSeq([i \in DOMAIN s.below |-> h[s.below[i]]])
           P == UNION {{s} \X [Range(s.below) -> V] : s \in Selections}
           G == [d \in P |-> WrittenWith(d[1], Below(d[1], d[2]))]
<1>1. ASSUME NEW s \in Selections, NEW h, \A c \in Range(s.below) : h[c] \in V
      PROVE  WrittenWith(s, Below(s, h)) \in V
  <2>1. s.below \in Seq(Selections)
    BY Children
  <2>2. [i \in DOMAIN s.below |-> h[s.below[i]]] \in Seq(V)
    BY <1>1, <2>1, Mapped
  <2>3. QED
    BY <2>2, FlattenElements, WithTyped
<1>2. ASSUME NEW s \in Selections, NEW h \in [Range(s.below) -> V]
      PROVE  G[s, h] = WrittenWith(s, Below(s, h))
  <2>1. <<s, h>> \in P
    OBVIOUS
  <2> HIDE DEF P
  <2>2. QED
    BY <2>1
<1> HIDE DEF G, V
<1>3. Recursive(V, G)
  <2> USE DEF V
  <2> QED
    BY <1>1, <1>2 DEF Recursive
<1>4. PICK f \in [Selections -> V] : \A s \in Selections : Fits(G, f, s)
  BY <1>3, TreeRecursion
<1>5. ASSUME NEW s \in Selections
      PROVE  f[s] = WrittenWith(s, Below(s, f))
  <2>1. /\ s.below \in Seq(Selections) /\ \A c \in Range(s.below) : c \in Selections
        /\ \A i \in DOMAIN s.below : s.below[i] \in Range(s.below)
    BY Children, SeqElements
  <2> DEFINE h == [c \in Range(s.below) |-> f[c]]
  <2>2. h \in [Range(s.below) -> V] /\ \A c \in Range(s.below) : h[c] = f[c]
    BY <1>4, <2>1
  <2> HIDE DEF h
  <2>3. f[s] = WrittenWith(s, Below(s, h))
    BY <1>2, <1>4, <2>2 DEF Fits, h
  <2>4. [i \in DOMAIN s.below |-> h[s.below[i]]] = [i \in DOMAIN s.below |-> f[s.below[i]]]
    BY <2>1, <2>2
  <2>5. QED
    BY <2>3, <2>4
<1>6. f = [s \in Selections |-> WrittenWith(s, Below(s, f))]
  BY <1>4, <1>5
<1>7. Written = [s \in Selections |-> WrittenWith(s, Below(s, Written))]
  BY <1>6 DEF Written, WrittenWith
<1>8. QED
  BY <1>7

\* What is rendered of a selection itself is what was written.
LEMMA HeadWritten ==
  ASSUME NEW s \in Selections, Writable(s)
  PROVE  /\ Headed(s) = <<s.name>> \o ArgumentText(s)
         /\ s.kind # "field" => Headed(s) = <<s.name>>
         /\ <<s.name>> \o ArgumentText(s) \in Seq(Tokens)
<1>1. s.directives = <<>> /\ ArgumentText(s) = s.args
  BY ArgumentTexts DEF Writable
<1>2. <<s.name>> \o ArgumentText(s) \in Seq(Tokens) /\ <<s.name>> \in Seq(Tokens)
  BY EmptyText, Rendered
<1>3. Headed(s) = <<s.name>> \o ArgumentText(s)
  <2> DEFINE x == <<s.name>> \o ArgumentText(s)
  <2>1. Headed(s) = x \o <<>>
    BY <1>1 DEF Headed
  <2>2. x \in Seq(Tokens)
    BY <1>2
  <2> HIDE DEF x
  <2>3. Headed(s) = x
    BY <2>1, <2>2, ConcatEmptySeq
  <2>4. QED
    BY <2>3 DEF x
<1>4. ASSUME s.kind # "field"
      PROVE  Headed(s) = <<s.name>>
  <2>1. ArgumentText(s) = <<>>
    BY <1>1, <1>4, SelectionAssumption DEF SelectionAssumption
  <2>2. QED
    BY <1>2, <1>3, <2>1, ConcatEmptySeq
<1>5. QED
  BY <1>2, <1>3, <1>4

\* Trees that are written as they were: what is rendered of them is what was written.
LEMMA RenderedAsWritten ==
  \A s \in Selections : (\A c \in Within[s] : Writable(c)) => Text[s] = Written[s]
<1> DEFINE T == {s \in Selections : (\A c \in Within[s] : Writable(c)) => Text[s] = Written[s]}
<1>1. ASSUME NEW s \in Selections, \A c \in Range(s.below) : c \in T,
             \A c \in Within[s] : Writable(c)
      PROVE  Text[s] = Written[s]
  <2> DEFINE b == RenderAll(s.below)
  <2>1. /\ s.below \in Seq(Selections)
        /\ \A i \in DOMAIN s.below : s.below[i] \in Range(s.below)
    BY Children, SeqElements
  <2>2. s \in Within[s] /\ \A c \in Range(s.below) : Within[c] \subseteq Within[s]
    BY Withins DEF Inside
  <2>3. \A c \in Range(s.below) : Text[c] = Written[c]
    BY <1>1, <2>2
  <2>4. [i \in DOMAIN s.below |-> Text[s.below[i]]] = [i \in DOMAIN s.below |-> Written[s.below[i]]]
    BY <2>1, <2>3
  <2>5. Written[s] = WrittenWith(s, b)
    BY <2>4, WrittenTexts DEF RenderAll
  <2>6. b \in Seq(Tokens) /\ Text[s] = Render(s, b)
    BY <2>1, RenderedAll, Texts
  <2> HIDE DEF b
  <2>7. /\ Headed(s) = <<s.name>> \o ArgumentText(s)
        /\ s.kind # "field" => Headed(s) = <<s.name>>
        /\ <<s.name>> \o ArgumentText(s) \in Seq(Tokens) /\ <<s.name>> \in Seq(Tokens)
        /\ s.kind \in {"field", "inline", "spread"}
    BY <1>1, <2>2, <2>6, HeadWritten, Rendered
  <2>8. CASE s.below = <<>>
    <3>1. Written[s] = Headed(s) \o <<>>
      BY <2>5, <2>8 DEF WrittenWith
    <3>2. Headed(s) \in Seq(Tokens)
      BY <2>7
    <3>3. Written[s] = Headed(s)
      BY <3>1, <3>2, ConcatEmptySeq
    <3>4. s.kind # "inline"
      BY <2>8, SelectionAssumption DEF SelectionAssumption
    <3>5. Text[s] = Headed(s)
      BY <2>6, <2>7, <2>8, <3>4, Rendered
    <3>6. QED
      BY <3>3, <3>5
  <2>9. CASE s.below # <<>>
    <3>1. Written[s] = Headed(s) \o Braced(b)
      BY <2>5, <2>9 DEF WrittenWith
    <3>2. s.kind # "spread"
      BY <2>9, SelectionAssumption DEF SelectionAssumption
    <3>3. s.kind = "inline" => Condition(s) = <<s.name>>
      BY <1>1, <2>2 DEF Writable, Condition
    <3>4. CASE s.kind = "field"
      <4>1. Render(s, b) = (<<s.name>> \o ArgumentText(s)) \o Braced(b)
        BY <2>6, <2>9, <3>4, Rendered
      <4>2. QED
        BY <2>6, <2>7, <3>1, <4>1
    <3>5. CASE s.kind = "inline"
      <4>1. Render(s, b) = Condition(s) \o Braced(b)
        BY <2>6, <3>5, Rendered
      <4>2. Headed(s) = Condition(s)
        BY <2>7, <3>3, <3>5
      <4>3. QED
        BY <2>6, <3>1, <4>1, <4>2
    <3>6. QED
      BY <2>7, <3>2, <3>4, <3>5
  <2>10. QED
    BY <2>8, <2>9
<1>2. T = Selections
  <2>1. T \in SUBSET Selections
    OBVIOUS
  <2>2. \A s \in Selections : (\A c \in Range(s.below) : c \in T) => s \in T
    BY <1>1
  <2> HIDE DEF T
  <2>3. QED
    BY <2>1, <2>2, TreeInduction
<1>3. QED
  BY <1>2

\* A part holds some of the selections as they were written.
LEMMA PartAsWritten ==
  ASSUME NEW f \in Selections, \A c \in Within[f] : Writable(c), NEW t, NEW owner, NEW e
  PROVE  \E kept \in SUBSET DOMAIN f.below :
           RenderPart(t, f.below, owner, e) = WrittenOf(f.below, kept)
<1> DEFINE kept == {i \in DOMAIN f.below : /\ f.below[i].kind = "field"
                                           /\ f.below[i].name \notin {Typename, Id}
                                           /\ OwnerOf(t, f.below[i].name, owner) = e}
<1>1. /\ f.below \in Seq(Selections)
      /\ \A i \in DOMAIN f.below : f.below[i] \in Range(f.below)
  BY Children, SeqElements
<1>2. \A c \in Range(f.below) : c \in Selections /\ Within[c] \subseteq Within[f]
  BY PartOfField
<1>3. \A i \in DOMAIN f.below : Text[f.below[i]] = Written[f.below[i]]
  BY <1>1, <1>2, RenderedAsWritten
<1>4. \A i \in DOMAIN f.below :
        (IF /\ f.below[i].kind = "field"
            /\ f.below[i].name \notin {Typename, Id}
            /\ OwnerOf(t, f.below[i].name, owner) = e
         THEN Text[f.below[i]] ELSE <<>>)
          = IF i \in kept THEN Written[f.below[i]] ELSE <<>>
  BY <1>3
<1> HIDE DEF kept
<1>5. RenderPart(t, f.below, owner, e) = WrittenOf(f.below, kept)
  BY <1>4 DEF RenderPart, WrittenOf
<1>6. kept \in SUBSET DOMAIN f.below
  BY DEF kept
<1>7. QED
  BY <1>5, <1>6

\* The text of an initial fetch is the root field as it was written, or has key fields
\* and some of the selections below it.
LEMMA FetchAsWritten ==
  ASSUME NEW f \in Selections, f.kind = "field", Clear(f), \A c \in Within[f] : Writable(c),
         NEW t, NEW owner
  PROVE  \E kept \in SUBSET DOMAIN f.below :
           RootOperationText(t, f, owner) \in
             {Written[f], Headed(f) \o Braced(<<Typename, Id>> \o WrittenOf(f.below, kept))}
<1> DEFINE x == RootOperationText(t, f, owner)
<1>1. f \in Within[f] /\ f.below \in Seq(Selections)
  BY Withins, Children
<1>2. StripSelectionSet(Text[f]) = Headed(f)
  BY <1>1, Stripped, HeadWritten DEF Clear
<1>3. Headed(f) \in Seq(Tokens)
  BY <1>1, HeadWritten
<1>4. PICK kept \in SUBSET DOMAIN f.below :
        RenderPart(t, f.below, owner, owner) = WrittenOf(f.below, kept)
  BY PartAsWritten
<1>5. CASE t # None
  <2>1. x = Headed(f) \o Braced(<<Typename, Id>> \o WrittenOf(f.below, kept))
    BY <1>2, <1>4, <1>5 DEF RootOperationText, InitialSelectionText
  <2> HIDE DEF x
  <2>2. QED
    BY <2>1 DEF x
<1>6. CASE t = None
  <2>1. Text[f] = Written[f]
    BY RenderedAsWritten
  <2>2. RenderAll(f.below) \in Seq(Tokens) /\ Text[f] = Render(f, RenderAll(f.below))
    BY <1>1, RenderedAll, Texts
  <2>3. CASE f.below = <<>>
    <3>1. x = Headed(f) \o <<>>
      BY <1>2, <1>6, <2>3 DEF RootOperationText, InitialSelectionText
    <3>2. x = Headed(f)
      BY <1>3, <3>1, ConcatEmptySeq
    <3>3. Text[f] = Headed(f)
      BY <1>1, <2>2, <2>3, HeadWritten, Rendered
    <3> HIDE DEF x
    <3>4. QED
      BY <2>1, <3>2, <3>3 DEF x
  <2>4. CASE f.below # <<>>
    <3>1. x = Headed(f) \o Braced(RenderAll(f.below))
      BY <1>2, <1>6, <2>4 DEF RootOperationText, InitialSelectionText
    <3>2. Text[f] = Headed(f) \o Braced(RenderAll(f.below))
      BY <1>1, <2>2, <2>4, HeadWritten, Rendered
    <3> HIDE DEF x
    <3>3. QED
      BY <2>1, <3>1, <3>2 DEF x
  <2>5. QED
    BY <2>3, <2>4
<1>7. QED
  BY <1>5, <1>6

-----------------------------------------------------------------------------
(* Operations and their plans                                              *)

\* An operation's root fields and the selections below them.
LEMMA RootsOfOperation ==
  ASSUME NEW req \in Requests, NEW op \in Range(req.ops)
  PROVE  /\ op.roots \in Seq(Selections) /\ DOMAIN op.roots = 1..Len(op.roots)
         /\ \A i \in DOMAIN op.roots :
              /\ op.roots[i] \in Selections /\ op.roots[i] \in Range(op.roots)
              /\ Within[op.roots[i]] \subseteq Inside(op.roots)
              /\ VariableUses(<<op.roots[i]>>) \subseteq VariableUses(op.roots)
              /\ Depth[op.roots[i]] \in Nat /\ DepthOf(op.roots) \in Nat
              /\ Depth[op.roots[i]] <= DepthOf(op.roots)
<1>1. op.roots \in Seq(Selections)
  BY RequestAssumption DEF RequestAssumption
<1>2. DOMAIN op.roots = 1..Len(op.roots) /\ \A i \in 1..Len(op.roots) : op.roots[i] \in Range(op.roots)
  BY <1>1, SeqElements
<1>3. \A s \in Range(op.roots) : s \in Selections /\ Within[s] \subseteq Inside(op.roots)
  BY <1>1, InsideOf
<1>4. ASSUME NEW s \in Range(op.roots)
      PROVE  VariableUses(<<s>>) \subseteq VariableUses(op.roots)
  <2>1. Inside(<<s>>) \subseteq Inside(op.roots)
    BY <1>3, OneInside
  <2>2. QED
    BY <2>1 DEF VariableUses
<1>5. \A s \in Range(op.roots) : Depth[s] \in Nat
  BY <1>3, Depths
<1>6. DepthOf(op.roots) \in Nat /\ \A s \in Range(op.roots) : Depth[s] <= DepthOf(op.roots)
  BY <1>1, <1>5, DeepestOfAll DEF DepthOf
<1>7. QED
  BY <1>1, <1>2, <1>3, <1>4, <1>5, <1>6

\* Of a document that can stand alone one operation is planned: the one whose limits
\* are checked.
LEMMA OneOperation ==
  ASSUME NEW req \in Requests, Standalone(req), NEW op \in PlannedOperation(req)
  PROVE  /\ op \in Range(req.ops)
         /\ PlannedOperation(req) = {op} /\ CostedOperation(req) = {op}
         /\ {o \in Range(req.ops) : op.name # None => o.name = op.name} = {op}
<1>1. CostedOperation(req) = PlannedOperation(req)
  BY DEF CostedOperation, PlannedOperation
<1>2. req.ops \in Seq(Range(req.ops))
  BY RequestAssumption DEF RequestAssumption
<1>3. /\ DOMAIN req.ops = 1..Len(req.ops)
      /\ \A o \in Range(req.ops) : \E i \in 1..Len(req.ops) : o = req.ops[i]
  BY <1>2, SeqElements
<1>4. \A o \in Range(req.ops) : o.name = op.name => o = op
  BY <1>3 DEF Standalone, PlannedOperation
<1>5. op \in Range(req.ops)
  BY DEF PlannedOperation
<1>6. Len(req.ops) = 1 => Range(req.ops) = {op}
  BY <1>3, <1>5
<1>7. CASE req.asked = None
  <2>1. Len(req.ops) = 1
    BY <1>7 DEF PlannedOperation
  <2>2. QED
    BY <1>1, <1>6, <2>1, <1>7 DEF PlannedOperation
<1>8. CASE req.asked # None
  BY <1>1, <1>4, <1>5, <1>8 DEF PlannedOperation
<1>9. QED
  BY <1>7, <1>8

\* A plan has a fetch of every root field, of a type that is guessed for it.
LEMMA Planned ==
  ASSUME NEW req \in Requests, NEW op \in Range(req.ops), NEW p \in Plans(op)
  PROVE  /\ DOMAIN p = RootFields(op) /\ RootFields(op) \subseteq DOMAIN op.roots
         /\ \A i \in DOMAIN p :
              /\ op.roots[i] \in Selections /\ op.roots[i].kind = "field"
              /\ op.roots[i].name \in Roots
              /\ RootOwner(op.roots[i].name) \in Subgraphs
              /\ \E t \in Guesses(Flat(op.roots[i].below)) : p[i] = FieldFetch(op, op.roots[i], t)
<1> DEFINE fields == RootFields(op)
           guesses == {g \in [fields -> Types \cup {None}] :
                         \A i \in fields : g[i] \in Guesses(Flat(op.roots[i].below))}
<1>1. /\ \A i \in fields : /\ op.roots[i].name \in RootsOf(op.kind)
                           /\ RootOwner(op.roots[i].name) \in Subgraphs
      /\ \E g \in guesses : p = [i \in fields |-> FieldFetch(op, op.roots[i], g[i])]
  BY DEF Plans
<1>2. \A i \in fields : op.roots[i] \in Selections /\ op.roots[i].kind = "field" /\ i \in DOMAIN op.roots
  BY RootsOfOperation DEF RootFields
<1>3. MutationRoots \subseteq Roots /\ RootsOf(op.kind) \subseteq Roots
  BY OperationAssumption DEF OperationAssumption, RootsOf
<1>4. PICK g \in guesses : p = [i \in fields |-> FieldFetch(op, op.roots[i], g[i])]
  BY <1>1
<1>5. \A i \in fields : g[i] \in Guesses(Flat(op.roots[i].below)) /\ p[i] = FieldFetch(op, op.roots[i], g[i])
  BY <1>4
<1>6. DOMAIN p = fields
  BY <1>4
<1> HIDE DEF fields, guesses
<1>7. fields = RootFields(op)
  BY DEF fields
<1>8. QED
  BY <1>1, <1>2, <1>3, <1>5, <1>6, <1>7

\* The fields of a fetch.
LEMMA FetchFields ==
  ASSUME NEW op, NEW f, NEW t
  PROVE  LET x == FieldFetch(op, f, t)
             owner == RootOwner(f.name)
         IN /\ x.key = f.key /\ x.subgraph = owner /\ x.type = t
            /\ x.text = RootOperationText(t, f, owner)
            /\ x.variables = VariableNames(x.text)
            /\ x.declared = op.declared \cap VariableNames(x.text)
            /\ DOMAIN x.bodies = Extenders(t, Flat(f.below), owner)
            /\ \A e \in DOMAIN x.bodies : x.bodies[e] = RenderPart(t, f.below, owner, e)
BY DEF FieldFetch

\* The bodies of a fetch are of other subgraphs, and none is empty.
LEMMA Extended ==
  ASSUME NEW f \in Selections, NEW t, NEW owner, NEW e \in Extenders(t, Flat(f.below), owner)
  PROVE  /\ e \in Subgraphs /\ e # owner /\ t # None
         /\ \E c \in Chosen(t, f.below, owner, e) : c.name \in FieldsOf(t) /\ FieldOwner(t, c.name) = e
<1>1. t # None /\ e \in Subgraphs /\ e # owner /\ Share(t, Flat(f.below), owner, e) # {}
  BY DEF Extenders
<1>2. PICK x \in Visible(Flat(f.below)) :
        x.name \notin {Typename, Id} /\ OwnerOf(t, x.name, owner) = e
  BY <1>1 DEF Share, Partitioned
<1>3. f.below \in Seq(Selections)
  BY Children
<1>4. PICK c \in Range(f.below) : c.kind = "field" /\ c.name = x.name
  BY <1>3, Flattened
<1>5. c \in Chosen(t, f.below, owner, e)
  BY <1>2, <1>4 DEF Chosen
<1>6. c.name \in FieldsOf(t) /\ FieldOwner(t, c.name) = e
  BY <1>1, <1>2, <1>4 DEF OwnerOf
<1>7. QED
  BY <1>1, <1>5, <1>6

-----------------------------------------------------------------------------
(* The inductive invariant                                                 *)

\* What the subgraphs can be asked of a fetch.
RequestsOf(fetch) ==
  {InitialRequest(fetch)} \cup {EntityRequest(fetch, e) : e \in DOMAIN fetch.bodies}

AnsweredWithoutErrors ==
  stage = "answered" /\ \A i \in DOMAIN plan : "failed" \notin Range(outcome[i])

\* A request gets no further than the checks of its stage let it; there is a plan from
\* the stage at which one is made, of an operation that is asked for; only parts of the
\* plan are sent, and its usage is counted when all of them are answered.
IInv ==
  /\ request \in Requests
  /\ stage \in {"received", "valid", "limited", "executing", "answered", "refused"}
  /\ stage \in {"valid", "limited", "executing", "answered"} => Valid(request)
  /\ stage \in {"limited", "executing", "answered"} => WithinLimits(request)
  /\ IF stage \in {"executing", "answered"}
     THEN \E op \in PlannedOperation(request) : plan \in Plans(op)
     ELSE plan = <<>> /\ outcome = <<>> /\ sent = {}
  /\ DOMAIN outcome = DOMAIN plan
  /\ \A r \in sent : \E i \in DOMAIN plan : r \in RequestsOf(plan[i])
  /\ IsFiniteSet(sent)
  /\ usage = IF AnsweredWithoutErrors THEN UsageEvents ELSE {}

LEMMA InitIInv == Init => IInv
<1> SUFFICES ASSUME Init
             PROVE  IInv
  OBVIOUS
<1>1. DOMAIN outcome = DOMAIN plan
  BY DEF Init
<1>2. ~ AnsweredWithoutErrors
  BY DEF Init, AnsweredWithoutErrors
<1>3. IsFiniteSet(sent)
  BY FS_EmptySet DEF Init
<1>4. QED
  BY <1>1, <1>2, <1>3 DEF Init, IInv

\* While a request is on its way nothing is counted.
LEMMA NotAnswered ==
  ASSUME IInv, stage # "answered"
  PROVE  usage = {}
BY DEF IInv, AnsweredWithoutErrors

\* A step that sends or gets an answer.
LEMMA CallStep ==
  ASSUME IInv, stage = "executing",
         UNCHANGED <<request, stage, plan, usage>>,
         DOMAIN outcome' = DOMAIN outcome,
         \A r \in sent' : r \in sent \/ \E i \in DOMAIN plan : r \in RequestsOf(plan[i]),
         IsFiniteSet(sent) => IsFiniteSet(sent')
  PROVE  IInv'
<1>1. /\ request' \in Requests /\ Valid(request') /\ WithinLimits(request')
      /\ \E op \in PlannedOperation(request') : plan' \in Plans(op)
  BY DEF IInv
<1>2. \A r \in sent' : \E i \in DOMAIN plan : r \in RequestsOf(plan[i])
  BY DEF IInv
<1>3. \A i \in DOMAIN plan : RequestsOf(plan[i])' = RequestsOf(plan[i])
  BY DEF RequestsOf, InitialRequest, EntityRequest
<1>4. \A r \in sent' : \E i \in DOMAIN plan' : r \in RequestsOf(plan[i])'
  BY <1>2, <1>3
<1>5. usage' = {} /\ ~ AnsweredWithoutErrors'
  BY NotAnswered DEF AnsweredWithoutErrors
<1>6. DOMAIN outcome' = DOMAIN plan'
  BY DEF IInv
<1>7. IsFiniteSet(sent')
  BY DEF IInv
<1>8. QED
  BY <1>1, <1>4, <1>5, <1>6, <1>7 DEF IInv

LEMMA NextIInv == IInv /\ [Next]_vars => IInv'
<1> SUFFICES ASSUME IInv, [Next]_vars
             PROVE  IInv'
  OBVIOUS
<1>1. CASE UNCHANGED vars
  <2>1. UNCHANGED <<request, stage, plan, outcome, sent, usage>>
    BY <1>1 DEF vars
  <2>2. UsageEvents' = UsageEvents /\ AnsweredWithoutErrors' = AnsweredWithoutErrors
    BY <2>1 DEF UsageEvents, CountedOperations, TypeUnder, AnsweredWithoutErrors
  <2>3. \A i \in DOMAIN plan : RequestsOf(plan[i])' = RequestsOf(plan[i])
    BY <2>1 DEF RequestsOf, InitialRequest, EntityRequest
  <2>4. \A r \in sent' : \E i \in DOMAIN plan' : r \in RequestsOf(plan[i])'
    BY <2>1, <2>3 DEF IInv
  <2>5. QED
    BY <2>1, <2>2, <2>4 DEF IInv
<1>2. CASE Validate
  <2>1. /\ stage = "received" /\ UNCHANGED <<request, plan, outcome, sent, usage>>
        /\ stage' = IF Valid(request) THEN "valid" ELSE "refused"
    BY <1>2 DEF Validate
  <2>2. plan = <<>> /\ outcome = <<>> /\ sent = {} /\ usage = {}
    BY <2>1, NotAnswered DEF IInv
  <2>3. ~ AnsweredWithoutErrors'
    BY <2>1 DEF AnsweredWithoutErrors
  <2>4. QED
    BY <2>1, <2>2, <2>3 DEF IInv
<1>3. CASE Limit
  <2>1. /\ stage = "valid" /\ UNCHANGED <<request, plan, outcome, sent, usage>>
        /\ stage' = IF WithinLimits(request) THEN "limited" ELSE "refused"
    BY <1>3 DEF Limit
  <2>2. plan = <<>> /\ outcome = <<>> /\ sent = {} /\ usage = {} /\ Valid(request)
    BY <2>1, NotAnswered DEF IInv
  <2>3. ~ AnsweredWithoutErrors'
    BY <2>1 DEF AnsweredWithoutErrors
  <2>4. QED
    BY <2>1, <2>2, <2>3 DEF IInv
<1>4. CASE Plan
  <2>1. /\ stage = "limited" /\ UNCHANGED <<request, sent, usage>>
        /\ \E op \in PlannedOperation(request) :
             \/ Plans(op) = {} /\ stage' = "refused" /\ UNCHANGED <<plan, outcome>>
             \/ stage' = "executing" /\ plan' \in Plans(op) /\ DOMAIN outcome' = DOMAIN plan'
    BY <1>4 DEF Plan
  <2>2. plan = <<>> /\ outcome = <<>> /\ sent = {} /\ usage = {} /\ Valid(request) /\ WithinLimits(request)
    BY <2>1, NotAnswered DEF IInv
  <2>3. ~ AnsweredWithoutErrors'
    BY <2>1 DEF AnsweredWithoutErrors
  <2>4. PICK op \in PlannedOperation(request) :
          \/ stage' = "refused" /\ UNCHANGED <<plan, outcome>>
          \/ stage' = "executing" /\ plan' \in Plans(op) /\ DOMAIN outcome' = DOMAIN plan'
    BY <2>1
  <2>5. CASE stage' = "refused" /\ UNCHANGED <<plan, outcome>>
    BY <2>1, <2>2, <2>3, <2>5 DEF IInv
  <2>6. CASE stage' = "executing" /\ plan' \in Plans(op) /\ DOMAIN outcome' = DOMAIN plan'
    BY <2>1, <2>2, <2>3, <2>6 DEF IInv
  <2>7. QED
    BY <2>4, <2>5, <2>6
<1>5. CASE Answer
  <2>1. /\ stage = "executing" /\ stage' = "answered" /\ UNCHANGED <<request, plan, outcome, sent>>
        /\ usage' = IF \E i \in DOMAIN plan : "failed" \in Range(outcome[i]) THEN {} ELSE UsageEvents
    BY <1>5 DEF Answer
  <2>2. UsageEvents' = UsageEvents
    BY <2>1 DEF UsageEvents, CountedOperations, TypeUnder
  <2>3. AnsweredWithoutErrors' <=> ~ \E i \in DOMAIN plan : "failed" \in Range(outcome[i])
    BY <2>1 DEF AnsweredWithoutErrors
  <2>4. \A i \in DOMAIN plan : RequestsOf(plan[i])' = RequestsOf(plan[i])
    BY <2>1 DEF RequestsOf, InitialRequest, EntityRequest
  <2>5. \A r \in sent' : \E i \in DOMAIN plan' : r \in RequestsOf(plan[i])'
    BY <2>1, <2>4 DEF IInv
  <2>6. usage' = IF AnsweredWithoutErrors' THEN UsageEvents' ELSE {}
    BY <2>1, <2>2, <2>3
  <2>7. QED
    BY <2>1, <2>5, <2>6 DEF IInv
<1>6. CASE Done
  BY <1>1, <1>6 DEF Done
<1>7. ASSUME NEW i \in DOMAIN plan, SendInitial(i)
      PROVE  IInv'
  <2>1. /\ stage = "executing" /\ UNCHANGED <<request, stage, plan, usage>>
        /\ DOMAIN outcome' = DOMAIN outcome /\ sent' = sent \cup {InitialRequest(plan[i])}
    BY <1>7 DEF SendInitial
  <2>2. InitialRequest(plan[i]) \in RequestsOf(plan[i])
    BY DEF RequestsOf
  <2>3. IsFiniteSet(sent) => IsFiniteSet(sent')
    BY <2>1, FS_AddElement
  <2>4. QED
    BY <2>1, <2>2, <2>3, CallStep
<1>8. ASSUME NEW i \in DOMAIN plan, InitialReply(i)
      PROVE  IInv'
  <2>1. /\ stage = "executing" /\ UNCHANGED <<request, stage, plan, usage>>
        /\ DOMAIN outcome' = DOMAIN outcome /\ sent' = sent
    BY <1>8 DEF InitialReply
  <2>2. QED
    BY <2>1, CallStep
<1>9. ASSUME NEW i \in DOMAIN plan, NEW e \in DOMAIN plan[i].bodies, SendEntity(i, e)
      PROVE  IInv'
  <2>1. /\ stage = "executing" /\ UNCHANGED <<request, stage, plan, usage>>
        /\ DOMAIN outcome' = DOMAIN outcome /\ sent' = sent \cup {EntityRequest(plan[i], e)}
    BY <1>9 DEF SendEntity
  <2>2. EntityRequest(plan[i], e) \in RequestsOf(plan[i])
    BY DEF RequestsOf
  <2>3. IsFiniteSet(sent) => IsFiniteSet(sent')
    BY <2>1, FS_AddElement
  <2>4. QED
    BY <2>1, <2>2, <2>3, CallStep
<1>10. ASSUME NEW i \in DOMAIN plan, NEW e \in DOMAIN plan[i].bodies, EntityReply(i, e)
       PROVE  IInv'
  <2>1. /\ stage = "executing" /\ UNCHANGED <<request, stage, plan, usage>>
        /\ DOMAIN outcome' = DOMAIN outcome /\ sent' = sent
    BY <1>10 DEF EntityReply
  <2>2. QED
    BY <2>1, CallStep
<1>11. QED
  BY <1>1, <1>2, <1>3, <1>4, <1>5, <1>6, <1>7, <1>8, <1>9, <1>10 DEF Next

LEMMA Invariance == Spec => []IInv
<1>1. QED
  BY InitIInv, NextIInv, PTL DEF Spec

-----------------------------------------------------------------------------
(* The properties                                                          *)

\* A fetch of the plan is of a root field of the operation whose limits were checked.
LEMMA OfOperation ==
  ASSUME IInv, NEW i \in DOMAIN plan
  PROVE  \E op \in Range(request.ops) :
           /\ Valid(request) /\ DepthOf(op.roots) <= MaxDepth /\ OperationCost(op) <= MaxCost
           /\ PlannedOperation(request) = {op}
           /\ {o \in Range(request.ops) : op.name # None => o.name = op.name} = {op}
           /\ plan \in Plans(op) /\ i \in RootFields(op) /\ i \in DOMAIN op.roots
           /\ op.roots[i] \in Selections /\ op.roots[i].kind = "field"
           /\ op.roots[i].name \in Roots
           /\ RootOwner(op.roots[i].name) \in Subgraphs
           /\ \E t \in Guesses(Flat(op.roots[i].below)) : plan[i] = FieldFetch(op, op.roots[i], t)
<1>1. stage \in {"executing", "answered"}
  <2>1. DOMAIN <<>> = {}
    OBVIOUS
  <2>2. QED
    BY <2>1 DEF IInv
<1>2. request \in Requests /\ Valid(request) /\ WithinLimits(request)
  BY <1>1 DEF IInv
<1>3. PICK op \in PlannedOperation(request) : plan \in Plans(op)
  BY <1>1 DEF IInv
<1>4. /\ op \in Range(request.ops)
      /\ PlannedOperation(request) = {op} /\ CostedOperation(request) = {op}
      /\ {o \in Range(request.ops) : op.name # None => o.name = op.name} = {op}
  BY <1>2, <1>3, OneOperation DEF Valid
<1>5. DepthOf(op.roots) <= MaxDepth /\ OperationCost(op) <= MaxCost
  BY <1>2, <1>4 DEF WithinLimits
<1>6. /\ i \in RootFields(op) /\ i \in DOMAIN op.roots
      /\ op.roots[i] \in Selections /\ op.roots[i].kind = "field"
      /\ op.roots[i].name \in Roots
      /\ RootOwner(op.roots[i].name) \in Subgraphs
      /\ \E t \in Guesses(Flat(op.roots[i].below)) : plan[i] = FieldFetch(op, op.roots[i], t)
  BY <1>2, <1>3, <1>4, Planned
<1>7. QED
  BY <1>2, <1>3, <1>4, <1>5, <1>6

\* Types of what is sent and counted.
LEMMA TypeOKHolds == IInv => TypeOK
<1> SUFFICES ASSUME IInv
             PROVE  TypeOK
  OBVIOUS
<1>1. ASSUME NEW i \in DOMAIN plan
      PROVE  /\ plan[i].subgraph \in Subgraphs
             /\ plan[i].type \in Tagged \cup {None}
             /\ plan[i].declared \subseteq plan[i].variables
             /\ plan[i].variables \subseteq Variables
             /\ DOMAIN plan[i].bodies \subseteq Subgraphs
  <2>1. PICK op \in Range(request.ops) :
          /\ op.roots[i] \in Selections /\ RootOwner(op.roots[i].name) \in Subgraphs
          /\ \E t \in Guesses(Flat(op.roots[i].below)) : plan[i] = FieldFetch(op, op.roots[i], t)
    BY <1>1, OfOperation
  <2>2. PICK t \in Guesses(Flat(op.roots[i].below)) : plan[i] = FieldFetch(op, op.roots[i], t)
    BY <2>1
  <2> DEFINE f == op.roots[i]
             owner == RootOwner(f.name)
  <2>3. /\ plan[i].subgraph = owner /\ plan[i].type = t
        /\ plan[i].variables = VariableNames(plan[i].text)
        /\ plan[i].declared = op.declared \cap VariableNames(plan[i].text)
        /\ DOMAIN plan[i].bodies = Extenders(t, Flat(f.below), owner)
    BY <2>2, FetchFields
  <2>4. t \in Tagged \cup {None}
    BY Guessed
  <2>5. Extenders(t, Flat(f.below), owner) \subseteq Subgraphs
    BY DEF Extenders
  <2>6. VariableNames(plan[i].text) \subseteq Variables
    BY DEF VariableNames
  <2>7. QED
    BY <2>1, <2>3, <2>4, <2>5, <2>6
<1>2. \A f \in Range(plan) : /\ f.subgraph \in Subgraphs
                             /\ f.type \in Tagged \cup {None}
                             /\ f.declared \subseteq f.variables
                             /\ f.variables \subseteq Variables
  BY <1>1 DEF Range
<1>3. ASSUME NEW r \in sent
      PROVE  r.to \in Subgraphs /\ r.values \subseteq Variables
  <2>1. PICK i \in DOMAIN plan : r \in RequestsOf(plan[i])
    BY DEF IInv
  <2>2. CASE r = InitialRequest(plan[i])
    BY <1>1, <2>2 DEF InitialRequest
  <2>3. ASSUME NEW e \in DOMAIN plan[i].bodies, r = EntityRequest(plan[i], e)
        PROVE  r.to \in Subgraphs /\ r.values \subseteq Variables
    <3>1. r.to = e /\ r.values = {Representations}
      BY <2>3 DEF EntityRequest
    <3>2. Representations \in Variables
      BY OperationAssumption DEF OperationAssumption
    <3>3. QED
      BY <1>1, <3>1, <3>2
  <2>4. QED
    BY <2>1, <2>2, <2>3 DEF RequestsOf
<1>4. ASSUME NEW ev \in usage
      PROVE  ev.field \in FieldsOf(ev.type)
  <2>1. ev \in UsageEvents
    BY DEF IInv
  <2>2. PICK f : ev \in FieldEvents(TypeUnder(f.key), f)
    BY <2>1 DEF UsageEvents
  <2>3. QED
    BY <2>2 DEF FieldEvents
<1>5. /\ request \in Requests /\ DOMAIN outcome = DOMAIN plan
      /\ stage \in {"received", "valid", "limited", "executing", "answered", "refused"}
  BY DEF IInv
<1>6. QED
  BY <1>2, <1>3, <1>4, <1>5 DEF TypeOK

\* A fetch names subgraphs and types of the catalog and the variables of its text; what
\* is sent goes to subgraphs of the catalog (planner.rs, execute.rs).
THEOREM TypeCorrectness == Spec => []TypeOK
<1>1. QED
  BY Invariance, TypeOKHolds, PTL

\* The field of a text that is no deeper than d.
LEMMA NestedNames ==
  ASSUME NEW d \in Nat, NEW x \in Nested(d), NEW i \in DOMAIN x, x[i] \in Names
  PROVE  Nesting(x, i) <= d
<1>1. x \in Seq(Tokens) /\ Shallow(x, d)
  BY DEF Nested
<1>2. i \in 1..Len(x)
  BY <1>1, SeqElements
<1>3. QED
  BY <1>1, <1>2 DEF Shallow

\* A legible request's root fields are clear.
LEMMA ClearFields ==
  ASSUME IInv, Legible(request), NEW op \in Range(request.ops), NEW i \in DOMAIN op.roots
  PROVE  Clear(op.roots[i])
<1>1. Within[op.roots[i]] \subseteq Inside(op.roots) /\ op.roots[i] \in Range(op.roots)
  BY RootsOfOperation DEF IInv
<1>2. QED
  BY <1>1 DEF Legible, LegibleArguments, Clear

LEMMA WithinDepth == IInv => SentWithinDepth
<1> SUFFICES ASSUME IInv, Legible(request), NEW r \in sent, NEW j \in DOMAIN r.text, r.text[j] \in Names
             PROVE  Nesting(r.text, j) <= MaxDepth + (IF r.entity THEN 1 ELSE 0)
  BY DEF SentWithinDepth
<1>1. PICK i \in DOMAIN plan : r \in RequestsOf(plan[i])
  BY DEF IInv
<1>2. PICK op \in Range(request.ops) :
        /\ i \in DOMAIN op.roots /\ DepthOf(op.roots) <= MaxDepth
        /\ op.roots[i] \in Selections /\ op.roots[i].kind = "field"
        /\ \E t \in Guesses(Flat(op.roots[i].below)) : plan[i] = FieldFetch(op, op.roots[i], t)
  BY OfOperation
<1> DEFINE f == op.roots[i]
           owner == RootOwner(f.name)
<1>3. PICK t \in Guesses(Flat(f.below)) : plan[i] = FieldFetch(op, f, t)
  BY <1>2
<1>4. Clear(f)
  BY <1>2, ClearFields
<1>5. /\ plan[i].text = RootOperationText(t, f, owner) /\ plan[i].type = t
      /\ DOMAIN plan[i].bodies = Extenders(t, Flat(f.below), owner)
      /\ \A e \in DOMAIN plan[i].bodies : plan[i].bodies[e] = RenderPart(t, f.below, owner, e)
  BY <1>3, FetchFields
<1>6. Depth[f] \in Nat /\ DepthOf(op.roots) \in Nat /\ Depth[f] <= DepthOf(op.roots) /\ MaxDepth \in Nat
  BY <1>2, RootsOfOperation, OperationAssumption DEF IInv, OperationAssumption
<1>7. f \in Selections /\ f.kind = "field"
  BY <1>2
<1> DEFINE d == MaxDepth
<1> HIDE DEF f, owner
<1>8. CASE r = InitialRequest(plan[i])
  <2>1. r.text = RootOperationText(t, f, owner) /\ r.entity = FALSE
    BY <1>5, <1>8 DEF InitialRequest
  <2>2. r.text \in Nested(Depth[f])
    BY <1>4, <1>7, <2>1, FetchText
  <2>3. Nesting(r.text, j) <= Depth[f]
    BY <1>6, <2>2, NestedNames
  <2>4. Nesting(r.text, j) \in Int
    <3>1. r.text \in Seq(Tokens)
      BY <2>2 DEF Nested
    <3>2. j \in 1..(Len(r.text) + 1)
      BY <3>1, SeqElements
    <3>3. QED
      BY <3>1, <3>2, NestingType
  <2>5. QED
    BY <1>2, <1>6, <2>1, <2>3, <2>4
<1>9. ASSUME NEW e \in DOMAIN plan[i].bodies, r = EntityRequest(plan[i], e)
      PROVE  Nesting(r.text, j) <= MaxDepth + (IF r.entity THEN 1 ELSE 0)
  <2>1. r.text = Around(t, RenderPart(t, f.below, owner, e)) /\ r.entity = TRUE
    BY <1>5, <1>9 DEF EntityRequest, Around
  <2>2. r.text \in Nested(Depth[f] + 1)
    <3>1. t \in Types
      <4>1. e \in Extenders(t, Flat(f.below), owner)
        BY <1>5, <1>9
      <4>2. t # None
        BY <1>7, <4>1, Extended
      <4>3. t \in Tagged
        BY <1>3, <4>2, Guessed
      <4>4. QED
        BY <4>3 DEF Tagged
    <3>2. Around(t, RenderPart(t, f.below, owner, e)) \in Nested(Depth[f] + 1)
      BY <1>7, <3>1, BodyText
    <3>3. QED
      BY <2>1, <3>2
  <2>3. Nesting(r.text, j) <= Depth[f] + 1
    BY <1>6, <2>2, NestedNames
  <2>4. Nesting(r.text, j) \in Int
    <3>1. r.text \in Seq(Tokens)
      BY <2>2 DEF Nested
    <3>2. j \in 1..(Len(r.text) + 1)
      BY <3>1, SeqElements
    <3>3. QED
      BY <3>1, <3>2, NestingType
  <2>5. QED
    BY <1>2, <1>6, <2>1, <2>3, <2>4
<1>10. QED
  BY <1>1, <1>8, <1>9 DEF RequestsOf

\* No subgraph is asked for a field deeper than max_depth, one more in an entity fetch:
\* what the planner cuts off the rendered text and puts around it is no deeper than the
\* tree whose depth cost.rs has checked.
THEOREM DepthIsLimited == Spec => []SentWithinDepth
<1>1. QED
  BY Invariance, WithinDepth, PTL

\* The tokens of a text with no spreads are not the names of fragments.
LEMMA NoFragments ==
  ASSUME IInv, NEW f \in Selections, SpreadsIn(f.below) = {},
         NEW A, A \subseteq {Open, Close} \cup Names \cup Types \cup SpreadsIn(f.below)
                              \cup UNION {Range(ArgumentText(c)) : c \in Within[f]}
  PROVE  A \cap DOMAIN request.fragments = {}
<1>1. request \in Requests
  BY DEF IInv
<1>2. /\ DOMAIN request.fragments \cap (Names \cup Types \cup {Open, Close}) = {}
      /\ \A s \in Selections : Range(ArgumentText(s)) \cap DOMAIN request.fragments = {}
  BY <1>1, ArgumentTexts, TokenAssumption DEF TokenAssumption
<1>3. Within[f] \subseteq Selections
  BY Withins
<1>4. ASSUME NEW u \in A
      PROVE  u \notin DOMAIN request.fragments
  <2>1. CASE u \in {Open, Close} \cup Names \cup Types
    BY <1>2, <2>1
  <2>2. CASE u \in UNION {Range(ArgumentText(c)) : c \in Within[f]}
    <3>1. PICK c \in Within[f] : u \in Range(ArgumentText(c))
      BY <2>2
    <3>2. QED
      BY <1>2, <1>3, <3>1
  <2>3. QED
    BY <2>1, <2>2
<1>5. QED
  BY <1>4

LEMMA SelfContainment == IInv => PartsSelfContained
<1> SUFFICES ASSUME IInv, Conventional(request), NEW r \in sent
             PROVE  SelfContained(r)
  BY DEF PartsSelfContained
<1>1. PICK i \in DOMAIN plan : r \in RequestsOf(plan[i])
  BY DEF IInv
<1>2. PICK op \in Range(request.ops) :
        /\ Valid(request) /\ i \in DOMAIN op.roots /\ i \in RootFields(op)
        /\ PlannedOperation(request) = {op}
        /\ op.roots[i] \in Selections /\ op.roots[i].kind = "field"
        /\ op.roots[i].name \in Roots
        /\ \E t \in Guesses(Flat(op.roots[i].below)) : plan[i] = FieldFetch(op, op.roots[i], t)
  BY OfOperation
<1> DEFINE f == op.roots[i]
           owner == RootOwner(f.name)
<1>3. PICK t \in Guesses(Flat(f.below)) : plan[i] = FieldFetch(op, f, t)
  BY <1>2
<1>4. Clear(f)
  BY <1>2, ClearFields DEF Conventional
<1>5. SpreadsIn(f.below) = {} /\ KeepsVariables(f)
  BY <1>2 DEF Conventional
<1>6. /\ plan[i].text = RootOperationText(t, f, owner) /\ plan[i].type = t
      /\ plan[i].variables = VariableNames(plan[i].text)
      /\ plan[i].declared = op.declared \cap VariableNames(plan[i].text)
      /\ DOMAIN plan[i].bodies = Extenders(t, Flat(f.below), owner)
      /\ \A e \in DOMAIN plan[i].bodies : plan[i].bodies[e] = RenderPart(t, f.below, owner, e)
  BY <1>3, FetchFields
<1>7. VariableUses(<<f>>) \subseteq op.declared
  <2>1. VariableUses(<<f>>) \subseteq VariableUses(op.roots)
    BY <1>2, RootsOfOperation DEF IInv
  <2>2. VariableUses(op.roots) \subseteq op.declared
    BY <1>2 DEF Valid
  <2>3. QED
    BY <2>1, <2>2
<1>8. f \in Selections /\ f.kind = "field"
  BY <1>2
<1>9. owner = RootOwner(f.name)
  OBVIOUS
<1>10. Depth[f] \in Nat
  BY <1>8, Depths
<1>11. op \in PlannedOperation(request) /\ i \in RootFields(op)
  BY <1>2
<1>12. \A c \in Within[f] : Writable(c)
  BY <1>2 DEF Conventional
<1> HIDE DEF f, owner
<1>13. CASE r = InitialRequest(plan[i])
  <2> DEFINE x == RootOperationText(t, f, owner)
             U == FetchVariables(t, f, owner)
  <2>1. r.text = x /\ r.declared = op.declared \cap VariableNames(x)
        /\ r.values = request.values \cap VariableNames(x)
    BY <1>6, <1>13 DEF InitialRequest
  <2>2. /\ x \in Nested(Depth[f])
        /\ Range(x) \cap Variables = U
        /\ VariableNames(x) = U
        /\ U \subseteq VariableUses(<<f>>)
        /\ Range(x) \subseteq {Open, Close} \cup Names \cup Types \cup SpreadsIn(f.below)
                                \cup UNION {Range(ArgumentText(c)) : c \in Within[f]}
    BY <1>4, <1>8, FetchText
  <2>3. Range(x) \cap DOMAIN request.fragments = {}
    BY <1>5, <1>8, <2>2, NoFragments
  <2>4. AsWritten(r)
    <3>1. \E kept \in SUBSET DOMAIN f.below :
            x \in {Written[f], Headed(f) \o Braced(<<Typename, Id>> \o WrittenOf(f.below, kept))}
      BY <1>4, <1>8, <1>12, FetchAsWritten
    <3>2. ~r.entity
      BY <1>13 DEF InitialRequest
    <3> HIDE DEF x
    <3>3. QED
      BY <1>11, <2>1, <3>1, <3>2 DEF AsWritten, f
  <2> HIDE DEF x, U
  <2>5. r.declared = U /\ r.values = request.values \cap U
    BY <1>7, <2>1, <2>2
  <2>6. QED
    BY <2>1, <2>2, <2>3, <2>4, <2>5 DEF SelfContained
<1>14. ASSUME NEW e \in DOMAIN plan[i].bodies, r = EntityRequest(plan[i], e)
       PROVE  SelfContained(r)
  <2> DEFINE b == RenderPart(t, f.below, owner, e)
             P == Chosen(t, f.below, owner, e)
             x == Around(t, b)
  <2>1. /\ r.text = x
        /\ r.declared = {Representations} /\ r.values = {Representations}
    BY <1>6, <1>14 DEF EntityRequest, Around
  <2>2. e # owner /\ t # None /\ t \in Types
    <3>1. e \in Extenders(t, Flat(f.below), owner)
      BY <1>6, <1>14
    <3>2. e # owner /\ t # None
      BY <1>8, <3>1, Extended
    <3>3. t \in Tagged
      BY <1>3, <3>2, Guessed
    <3>4. QED
      BY <3>2, <3>3 DEF Tagged
  <2>3. /\ x \in Nested(Depth[f] + 1)
        /\ Range(x) = {Representations, Open, Close, t} \cup Range(b)
        /\ Range(b) \cap Variables = UNION {VariableUses(<<c>>) : c \in P}
        /\ Range(b) \subseteq {Open, Close} \cup Names \cup Types \cup SpreadsIn(f.below)
                                \cup UNION {Range(ArgumentText(c)) : c \in Within[f]}
    BY <1>8, <2>2, BodyText
  <2>4. \A c \in P : c \in Range(f.below) /\ OwnerOf(t, c.name, owner) = e
    BY DEF Chosen
  <2>5. \A c \in P : VariableUses(<<c>>) = {}
    BY <1>5, <1>9, <2>2, <2>4 DEF KeepsVariables
  <2>6. Range(b) \cap Variables = {}
    <3> HIDE DEF b, P
    <3>1. (UNION {VariableUses(<<c>>) : c \in P}) = {}
      BY <2>5
    <3>2. QED
      BY <2>3, <3>1
  <2>7. Range(b) \cap DOMAIN request.fragments = {}
    BY <1>5, <1>8, <2>3, NoFragments
  <2>8. AsWritten(r)
    <3>1. PICK kept \in SUBSET DOMAIN f.below : b = WrittenOf(f.below, kept)
      BY <1>8, <1>12, PartAsWritten
    <3>2. r.entity
      BY <1>14 DEF EntityRequest
    <3> HIDE DEF b
    <3>3. r.text = <<Representations>> \o Braced(<<t>> \o Braced(WrittenOf(f.below, kept)))
      BY <2>1, <3>1 DEF x, Around
    <3>4. QED
      BY <1>11, <2>2, <3>2, <3>3 DEF AsWritten, f
  <2>9. /\ Representations \in Variables
        /\ Open \notin Variables /\ Close \notin Variables /\ t \notin Variables
    BY <2>2, PlainBytes, OperationAssumption DEF OperationAssumption
  <2>10. {Representations, Open, Close, t} \cap DOMAIN request.fragments = {}
    <3>1. request \in Requests
      BY DEF IInv
    <3>2. DOMAIN request.fragments \cap (Types \cup Variables \cup {Open, Close}) = {}
      BY <3>1, TokenAssumption DEF TokenAssumption
    <3>3. QED
      BY <2>2, <2>9, <3>2
  <2> HIDE DEF b, P, x
  <2>11. Range(x) \cap Variables = {Representations}
    BY <2>3, <2>6, <2>9
  <2>12. Range(x) \cap DOMAIN request.fragments = {}
    BY <2>3, <2>7, <2>10
  <2>13. r.declared \cap request.values \subseteq r.values
    BY <2>1
  <2>14. QED
    BY <2>1, <2>8, <2>11, <2>12, <2>13 DEF SelfContained
<1>15. QED
  BY <1>1, <1>13, <1>14 DEF RequestsOf

\* Every part of a conventional operation can be run by itself: cut from the text and
\* put together again, it is what the client wrote and declares the variables it uses,
\* and no other (planner.rs).
THEOREM PartsAreSelfContained == Spec => []PartsSelfContained
<1>1. QED
  BY Invariance, SelfContainment, PTL

\* Of a counted operation the types of the fetches are found under their keys.
LEMMA CountedPlan ==
  ASSUME IInv, UsageCounted
  PROVE  \E op \in Range(request.ops) :
           /\ CountedOperations = {op}
           /\ \A i, j \in DOMAIN op.roots :
                /\ op.roots[i].kind = "field" /\ op.roots[j].kind = "field"
                /\ op.roots[i].key = op.roots[j].key
                => i = j
           /\ \A i \in DOMAIN plan :
                /\ i \in DOMAIN op.roots /\ op.roots[i] \in Selections
                /\ op.roots[i].kind = "field"
                /\ RootOwner(op.roots[i].name) \in Subgraphs
                /\ \E t \in Guesses(Flat(op.roots[i].below)) : plan[i] = FieldFetch(op, op.roots[i], t)
                /\ TypeUnder(op.roots[i].key) = plan[i].type
<1>1. /\ request \in Requests /\ Valid(request)
      /\ \E op \in PlannedOperation(request) : plan \in Plans(op)
  BY DEF IInv, UsageCounted
<1>2. PICK op \in PlannedOperation(request) : plan \in Plans(op)
  BY <1>1
<1>3. /\ op \in Range(request.ops) /\ PlannedOperation(request) = {op}
      /\ {o \in Range(request.ops) : op.name # None => o.name = op.name} = {op}
  BY <1>1, OneOperation DEF Valid
<1>4. CountedOperations = {op}
  BY <1>3 DEF CountedOperations
<1>5. \A i, j \in DOMAIN op.roots :
        /\ op.roots[i].kind = "field" /\ op.roots[j].kind = "field"
        /\ op.roots[i].key = op.roots[j].key
        => i = j
  BY <1>3 DEF UsageCounted
<1>6. /\ DOMAIN plan = RootFields(op) /\ RootFields(op) \subseteq DOMAIN op.roots
      /\ \A i \in DOMAIN plan :
           /\ op.roots[i] \in Selections /\ op.roots[i].kind = "field"
           /\ RootOwner(op.roots[i].name) \in Subgraphs
           /\ \E t \in Guesses(Flat(op.roots[i].below)) : plan[i] = FieldFetch(op, op.roots[i], t)
  BY <1>1, <1>2, <1>3, Planned
<1>7. ASSUME NEW i \in DOMAIN plan
      PROVE  plan[i].key = op.roots[i].key /\ plan[i].type \in Tagged \cup {None}
  <2>1. PICK t \in Guesses(Flat(op.roots[i].below)) : plan[i] = FieldFetch(op, op.roots[i], t)
    BY <1>6
  <2>2. plan[i].key = op.roots[i].key /\ plan[i].type = t
    BY <2>1, FetchFields
  <2>3. t \in Tagged \cup {None}
    BY Guessed
  <2>4. QED
    BY <2>2, <2>3
<1>8. ASSUME NEW i \in DOMAIN plan
      PROVE  TypeUnder(op.roots[i].key) = plan[i].type
  <2> DEFINE is == {j \in DOMAIN plan : plan[j].key = op.roots[i].key /\ plan[j].type # None}
  <2>1. \A j \in DOMAIN plan : plan[j].key = op.roots[i].key => j = i
    BY <1>5, <1>6, <1>7
  <2>2. TypeUnder(op.roots[i].key) = IF is = {} THEN None ELSE plan[Max(is)].type
    BY DEF TypeUnder
  <2>3. CASE plan[i].type = None
    <3>1. is = {}
      BY <2>1, <2>3
    <3>2. QED
      BY <2>2, <2>3, <3>1
  <2>4. CASE plan[i].type # None
    <3>1. is = {i}
      BY <1>7, <2>1, <2>4
    <3>2. i \in Nat
      BY <1>1, <1>3, <1>6, RootsOfOperation
    <3>3. Max({i}) = i
      BY <3>2 DEF Max
    <3> HIDE DEF is
    <3>4. QED
      BY <2>2, <3>1, <3>3
  <2>5. QED
    BY <2>3, <2>4
<1>9. QED
  BY <1>3, <1>4, <1>5, <1>6, <1>8

\* A field below, as the planner's tables have it.
LEMMA FlatField ==
  ASSUME NEW sels \in Seq(Selections), NEW t, NEW owner, NEW e,
         NEW c \in Chosen(t, sels, owner, e)
  PROVE  Share(t, Flat(sels), owner, e) # {}
<1> DEFINE x == [key |-> c.key, name |-> c.name, below |-> NamesOf(c.below), inline |-> c.kind # "field"]
<1>1. /\ c \in Range(sels) /\ c.kind = "field" /\ c.name \notin {Typename, Id}
      /\ OwnerOf(t, c.name, owner) = e
  BY DEF Chosen
<1>2. x \in Flat(sels)
  BY <1>1 DEF Flat
<1>3. x.name = c.name /\ ~ x.inline
  BY <1>1
<1>4. x \in Partitioned(Flat(sels))
  BY <1>1, <1>2, <1>3 DEF Partitioned, Visible
<1> HIDE DEF x
<1>5. x \in Share(t, Flat(sels), owner, e)
  BY <1>1, <1>3, <1>4 DEF Share
<1>6. QED
  BY <1>5

\* A field's name is in its text.
LEMMA NameInText ==
  ASSUME NEW c \in Selections, c.kind = "field"
  PROVE  c.name \in Range(Text[c])
<1>1. c \in Within[c]
  BY Withins
<1>2. c.name \in Own(c)
  BY DEF Own
<1>3. QED
  BY <1>1, <1>2, TextRange

\* The name of a selection that is chosen for a part is in the part.
LEMMA NameInPart ==
  ASSUME NEW sels \in Seq(Selections), NEW t, NEW owner, NEW e,
         NEW c \in Chosen(t, sels, owner, e)
  PROVE  c.name \in Range(RenderPart(t, sels, owner, e))
<1>1. Range(RenderPart(t, sels, owner, e)) = UNION {Range(Text[s]) : s \in Chosen(t, sels, owner, e)}
  BY RenderedPart
<1>2. c \in Selections /\ c.kind = "field"
  BY SeqElements DEF Chosen
<1>3. c.name \in Range(Text[c])
  BY <1>2, NameInText
<1>4. QED
  BY <1>1, <1>3

LEMMA UsageOfThePlan == IInv => UsageIsOfThePlan
<1> SUFFICES ASSUME IInv, UsageCounted
             PROVE  /\ \A ev \in usage : \E f \in Range(plan) :
                         /\ f.key = ev.under /\ f.type = ev.type
                         /\ \/ ev.service = f.subgraph /\ ev.field \in Range(f.text)
                            \/ /\ ev.service \in DOMAIN f.bodies
                               /\ ev.field \in Range(f.bodies[ev.service])
                    /\ \A f \in Range(plan) : \A e \in DOMAIN f.bodies :
                         \E ev \in usage : ev.service = e /\ ev.under = f.key
  BY DEF UsageIsOfThePlan
<1>1. usage = UsageEvents
  BY DEF IInv, UsageCounted, AnsweredWithoutErrors
<1>2. PICK op \in Range(request.ops) :
        /\ CountedOperations = {op}
        /\ \A i, j \in DOMAIN op.roots :
             /\ op.roots[i].kind = "field" /\ op.roots[j].kind = "field"
             /\ op.roots[i].key = op.roots[j].key
             => i = j
        /\ \A i \in DOMAIN plan :
             /\ i \in DOMAIN op.roots /\ op.roots[i] \in Selections
             /\ op.roots[i].kind = "field"
             /\ RootOwner(op.roots[i].name) \in Subgraphs
             /\ \E t \in Guesses(Flat(op.roots[i].below)) : plan[i] = FieldFetch(op, op.roots[i], t)
             /\ TypeUnder(op.roots[i].key) = plan[i].type
  BY CountedPlan
<1>3. \A i \in DOMAIN plan : plan[i] \in Range(plan)
  BY DEF Range
<1>4. usage = UNION {FieldEvents(TypeUnder(f.key), f) :
                       f \in {f \in Range(op.roots) : f.kind = "field" /\ TypeUnder(f.key) # None}}
  BY <1>1, <1>2 DEF UsageEvents
<1>5. ASSUME NEW ev \in usage
      PROVE  \E f \in Range(plan) :
               /\ f.key = ev.under /\ f.type = ev.type
               /\ \/ ev.service = f.subgraph /\ ev.field \in Range(f.text)
                  \/ ev.service \in DOMAIN f.bodies /\ ev.field \in Range(f.bodies[ev.service])
  <2>1. PICK root \in Range(op.roots) :
          /\ root.kind = "field" /\ TypeUnder(root.key) # None
          /\ ev \in FieldEvents(TypeUnder(root.key), root)
    BY <1>4
  <2>2. PICK k \in DOMAIN op.roots : root = op.roots[k]
    BY DEF Range
  <2>3. PICK i \in DOMAIN plan : plan[i].key = root.key
    BY <2>1 DEF TypeUnder
  <2> DEFINE f == op.roots[i]
             owner == RootOwner(f.name)
  <2>4. PICK t \in Guesses(Flat(f.below)) : plan[i] = FieldFetch(op, f, t)
    BY <1>2
  <2>5. /\ plan[i].key = f.key /\ plan[i].subgraph = owner /\ plan[i].type = t
        /\ plan[i].text = RootOperationText(t, f, owner)
        /\ DOMAIN plan[i].bodies = Extenders(t, Flat(f.below), owner)
        /\ \A e \in DOMAIN plan[i].bodies : plan[i].bodies[e] = RenderPart(t, f.below, owner, e)
    BY <2>4, FetchFields
  <2>6. root = f
    BY <1>2, <2>1, <2>2, <2>3, <2>5
  <2>7. TypeUnder(root.key) = t /\ t # None
    BY <1>2, <2>1, <2>5, <2>6
  <2>8. f \in Selections /\ f.kind = "field" /\ f.below \in Seq(Selections)
    BY <1>2, Children
  <2>9. PICK s \in Range(f.below) :
          /\ s.kind = "field" /\ s.name # Typename /\ s.name \in FieldsOf(t)
          /\ ev = [service |-> FieldOwner(t, s.name), type |-> t, field |-> s.name, under |-> f.key]
    BY <2>1, <2>6, <2>7 DEF FieldEvents
  <2>10. /\ ev.service = FieldOwner(t, s.name) /\ ev.type = t
         /\ ev.field = s.name /\ ev.under = f.key
    BY <2>9
  <2>11. /\ {Typename, Id} \subseteq Range(plan[i].text)
         /\ Range(RenderPart(t, f.below, owner, owner)) \subseteq Range(plan[i].text)
    BY <2>5, <2>7, <2>8, FetchTyped
  <2> HIDE DEF f, owner
  <2>12. CASE s.name = Id
    <3>1. FieldOwner(t, Id) = plan[i].subgraph
      BY <1>3, <2>5, <2>7, <2>9, <2>12 DEF UsageCounted
    <3>2. QED
      BY <1>3, <2>5, <2>10, <2>11, <2>12, <3>1
  <2>13. CASE s.name # Id /\ FieldOwner(t, s.name) = owner
    <3>1. s \in Chosen(t, f.below, owner, owner)
      BY <2>9, <2>13 DEF Chosen, OwnerOf
    <3>2. s.name \in Range(RenderPart(t, f.below, owner, owner))
      BY <2>8, <3>1, NameInPart
    <3>3. QED
      BY <1>3, <2>5, <2>10, <2>11, <2>13, <3>2
  <2>14. CASE s.name # Id /\ FieldOwner(t, s.name) # owner
    <3> DEFINE e == FieldOwner(t, s.name)
    <3>1. s \in Chosen(t, f.below, owner, e)
      BY <2>9, <2>14 DEF Chosen, OwnerOf
    <3>2. t \in Tagged
      BY <2>7, Guessed
    <3>3. e \in Subgraphs
      BY <2>9, <3>2, OwnersAssumption DEF OwnersAssumption
    <3>4. Share(t, Flat(f.below), owner, e) # {}
      BY <2>8, <3>1, FlatField
    <3>5. e \in DOMAIN plan[i].bodies
      BY <2>5, <2>7, <2>14, <3>3, <3>4 DEF Extenders
    <3>6. s.name \in Range(RenderPart(t, f.below, owner, e))
      BY <2>8, <3>1, NameInPart
    <3> HIDE DEF e
    <3>7. s.name \in Range(plan[i].bodies[e])
      BY <2>5, <3>5, <3>6
    <3>8. ev.service = e
      BY <2>10 DEF e
    <3>9. QED
      BY <1>3, <2>5, <2>10, <3>5, <3>7, <3>8
  <2>15. QED
    BY <2>12, <2>13, <2>14
<1>6. ASSUME NEW x \in Range(plan), NEW e \in DOMAIN x.bodies
      PROVE  \E ev \in usage : ev.service = e /\ ev.under = x.key
  <2>1. PICK i \in DOMAIN plan : x = plan[i]
    BY DEF Range
  <2> DEFINE f == op.roots[i]
             owner == RootOwner(f.name)
  <2>2. PICK t \in Guesses(Flat(f.below)) : plan[i] = FieldFetch(op, f, t)
    BY <1>2
  <2>3. /\ x.key = f.key /\ x.type = t
        /\ DOMAIN x.bodies = Extenders(t, Flat(f.below), owner)
    BY <2>1, <2>2, FetchFields
  <2>4. f \in Selections /\ f.kind = "field" /\ f \in Range(op.roots) /\ TypeUnder(f.key) = t
    BY <1>2, <2>1, <2>3 DEF Range
  <2> HIDE DEF f, owner
  <2>5. /\ t # None
        /\ \E c \in Chosen(t, f.below, owner, e) : c.name \in FieldsOf(t) /\ FieldOwner(t, c.name) = e
    BY <2>3, <2>4, Extended
  <2>6. PICK c \in Chosen(t, f.below, owner, e) : c.name \in FieldsOf(t) /\ FieldOwner(t, c.name) = e
    BY <2>5
  <2>7. c \in Range(f.below) /\ c.kind = "field" /\ c.name # Typename
    BY DEF Chosen
  <2> DEFINE ev == [service |-> FieldOwner(t, c.name), type |-> t, field |-> c.name, under |-> f.key]
  <2>8. ev \in FieldEvents(t, f)
    BY <2>6, <2>7 DEF FieldEvents
  <2>9. ev.service = e /\ ev.under = f.key
    BY <2>6
  <2> HIDE DEF ev
  <2>10. ev \in usage
    BY <1>4, <2>4, <2>5, <2>8
  <2>11. QED
    BY <2>3, <2>9, <2>10
<1>7. QED
  BY <1>5, <1>6

\* The usage that is counted of an operation is that of its plan: of the fields each
\* service is asked for, under the key the answer has, and of every service that is
\* asked for entities (usage.rs beside planner.rs, which guess and walk separately).
THEOREM UsageMatchesPlan == Spec => []UsageIsOfThePlan
<1>1. QED
  BY Invariance, UsageOfThePlan, PTL

-----------------------------------------------------------------------------
(* Sums over sequences                                                     *)

\* What holds of 0 and, up to n, with a number of the next holds of all up to n.
LEMMA CountingTo ==
  ASSUME NEW n \in Nat, NEW T, 0 \in T, \A k \in T : k \in Nat /\ k + 1 <= n => k + 1 \in T
  PROVE  \A k \in 0..n : k \in T
<1> DEFINE U == {k \in Nat : k <= n => k \in T}
<1>1. 0 \in U
  OBVIOUS
<1>2. \A k \in U : k + 1 \in U
  OBVIOUS
<1>3. U = Nat
  <2>1. U \in SUBSET Nat
    OBVIOUS
  <2> HIDE DEF U
  <2>2. QED
    BY <1>1, <1>2, <2>1, Counting
<1>4. QED
  BY <1>3

\* Made step by step, up to the k-th.
MadeTo(V, v, H, p, k) == p \in [0..k -> V] /\ p[0] = v /\ \A i \in 1..k : p[i] = H[i][p[i - 1]]

LEMMA OneStep ==
  ASSUME NEW V, NEW v \in V, NEW k \in Nat, NEW H, \A a \in V : H[k + 1][a] \in V,
         NEW p, MadeTo(V, v, H, p, k)
  PROVE  \E r : MadeTo(V, v, H, r, k + 1)
<1> DEFINE r == [i \in 0..(k + 1) |-> IF i <= k THEN p[i] ELSE H[k + 1][p[k]]]
<1>1. k \in 0..k /\ (k + 1) - 1 = k /\ 0 \in 0..k
  OBVIOUS
<1>2. \A i \in 0..k : p[i] \in V
  BY DEF MadeTo
<1>3. H[k + 1][p[k]] \in V
  BY <1>1, <1>2
<1>4. r \in [0..(k + 1) -> V]
  BY <1>2, <1>3
<1>5. r[k + 1] = H[k + 1][p[k]]
  OBVIOUS
<1>6. \A i \in 0..k : r[i] = p[i]
  OBVIOUS
<1>7. \A i \in 1..k : i \in 0..k /\ i - 1 \in 0..k
  OBVIOUS
<1> HIDE DEF r
<1>8. \A i \in 1..k : r[i] = H[i][r[i - 1]]
  BY <1>6, <1>7 DEF MadeTo
<1>9. r[k + 1] = H[k + 1][r[(k + 1) - 1]]
  BY <1>1, <1>5, <1>6
<1>10. \A i \in 1..(k + 1) : i \in 1..k \/ i = k + 1
  OBVIOUS
<1>11. r[0] = v
  BY <1>1, <1>6 DEF MadeTo
<1>12. MadeTo(V, v, H, r, k + 1)
  BY <1>4, <1>8, <1>9, <1>10, <1>11 DEF MadeTo
<1>13. QED
  BY <1>12

\* Whatever is made step by step from a value exists.
LEMMA StepByStep ==
  ASSUME NEW V, NEW v \in V, NEW n \in Nat, NEW H, \A i \in 1..n : \A a \in V : H[i][a] \in V
  PROVE  \E p : MadeTo(V, v, H, p, n)
<1> DEFINE T == {k \in Nat : \E p : MadeTo(V, v, H, p, k)}
<1>1. 0 \in T
  <2>1. MadeTo(V, v, H, [i \in 0..0 |-> v], 0)
    BY DEF MadeTo
  <2>2. QED
    BY <2>1
<1>2. ASSUME NEW k \in T, k \in Nat, k + 1 <= n
      PROVE  k + 1 \in T
  <2>1. k + 1 \in 1..n
    BY <1>2
  <2>2. PICK p : MadeTo(V, v, H, p, k)
    OBVIOUS
  <2>3. \E r : MadeTo(V, v, H, r, k + 1)
    BY <1>2, <2>1, <2>2, OneStep
  <2>4. QED
    BY <1>2, <2>3
<1>3. \A k \in 0..n : k \in T
  <2> HIDE DEF T
  <2>1. QED
    BY <1>1, <1>2, CountingTo
<1>4. n \in T
  <2> HIDE DEF T
  <2>1. QED
    BY <1>3
<1>5. QED
  BY <1>4

\* The numbers of a sequence.
LEMMA Numbers ==
  ASSUME NEW q \in Seq(Nat)
  PROVE  /\ Len(q) \in Nat /\ \A i \in 1..Len(q) : q[i] \in Nat
         /\ \A k \in Nat : k + 1 <= Len(q) =>
              /\ k + 1 \in 1..Len(q) /\ k \in 0..Len(q) /\ k + 1 \in 0..Len(q) /\ (k + 1) - 1 = k
              /\ k <= Len(q)
<1>1. Len(q) \in Nat /\ \A i \in 1..Len(q) : q[i] \in Nat
  BY LenProperties, ElementOfSeq
<1>2. QED
  BY <1>1

\* The running totals of a sequence of numbers, as walk_selection has them.
Totals(q, p) ==
  p \in [0..Len(q) -> Nat] /\ p[0] = 0 /\ \A i \in 1..Len(q) : p[i] = Plus(p[i - 1], q[i])

LEMMA RunningTotal ==
  ASSUME NEW q \in Seq(Nat)
  PROVE  \E p : Totals(q, p) /\ Total(q) = p[Len(q)]
<1> DEFINE n == Len(q)
           H == [i \in 1..n |-> [a \in Nat |-> Plus(a, q[i])]]
           Sums(f) == f = [i \in 0..n |-> IF i = 0 THEN 0 ELSE Plus(f[i - 1], q[i])]
           g == CHOOSE f : Sums(f)
<1>1. n \in Nat /\ \A i \in 1..n : q[i] \in Nat
  BY Numbers
<1>2. \A a, b \in Nat : Plus(a, b) \in Nat
  BY OperationAssumption DEF OperationAssumption, Plus
<1> HIDE DEF n
<1>3. \A i \in 1..n : \A a \in Nat : H[i][a] = Plus(a, q[i]) /\ H[i][a] \in Nat
  BY <1>1, <1>2
<1> HIDE DEF H
<1>4. 0 \in Nat /\ \A i \in 1..n : \A a \in Nat : H[i][a] \in Nat
  BY <1>3
<1>5. PICK p : MadeTo(Nat, 0, H, p, n)
  BY <1>1, <1>4, StepByStep
<1>6. \A i \in 1..n : i - 1 \in 0..n /\ i \in 0..n /\ i # 0
  BY <1>1
<1>7. p \in [0..n -> Nat] /\ p[0] = 0 /\ \A i \in 1..n : p[i] = H[i][p[i - 1]]
  BY <1>5 DEF MadeTo
<1>8. \A i \in 0..n : p[i] \in Nat
  BY <1>7
<1>9. \A i \in 1..n : p[i] = Plus(p[i - 1], q[i])
  BY <1>3, <1>6, <1>7, <1>8
<1>10. Totals(q, p)
  BY <1>7, <1>9 DEF Totals, n
<1>11. \A i \in 0..n : i = 0 \/ i \in 1..n
  BY <1>1
<1>12. Sums(p)
  <2>1. \A i \in 0..n : p[i] = IF i = 0 THEN 0 ELSE Plus(p[i - 1], q[i])
    BY <1>7, <1>9, <1>11, <1>6
  <2>2. QED
    BY <1>7, <2>1
<1>13. Sums(g)
  <2> HIDE DEF Sums
  <2> QED
    BY <1>12
<1>14. Total(q) = g[n]
  BY DEF Total, n
<1> HIDE DEF g
<1>15. g[0] = 0 /\ \A i \in 1..n : g[i] = Plus(g[i - 1], q[i])
  BY <1>1, <1>6, <1>13
<1> DEFINE T == {k \in Nat : g[k] = p[k]}
<1>16. 0 \in T
  BY <1>7, <1>15
<1>17. ASSUME NEW k \in T, k \in Nat, k + 1 <= n
       PROVE  k + 1 \in T
  <2>1. k + 1 \in 1..n /\ (k + 1) - 1 = k
    BY <1>1, <1>17
  <2>2. g[k] = p[k]
    OBVIOUS
  <2> HIDE DEF T
  <2>3. g[k + 1] = p[k + 1]
    BY <1>9, <1>15, <2>1, <2>2
  <2>4. QED
    BY <1>17, <2>3 DEF T
<1>18. \A k \in 0..n : k \in T
  <2> HIDE DEF T
  <2>1. QED
    BY <1>1, <1>16, <1>17, CountingTo
<1>19. g[n] = p[n]
  <2>1. n \in T
    <3> HIDE DEF T
    <3>1. QED
      BY <1>1, <1>18
  <2>2. QED
    BY <2>1
<1>20. QED
  BY <1>10, <1>14, <1>19 DEF n

\* The sum that does not saturate.
Adds(q, p) ==
  p \in [0..Len(q) -> Nat] /\ p[0] = 0 /\ \A i \in 1..Len(q) : p[i] = p[i - 1] + q[i]
Added(q) == (CHOOSE p : Adds(q, p))[Len(q)]

LEMMA AddsUp ==
  ASSUME NEW q \in Seq(Nat)
  PROVE  /\ Added(q) \in Nat
         /\ \E p : Adds(q, p) /\ Added(q) = p[Len(q)]
<1> DEFINE n == Len(q)
           H == [i \in 1..n |-> [a \in Nat |-> a + q[i]]]
           g == CHOOSE f : Adds(q, f)
<1>1. n \in Nat /\ \A i \in 1..n : q[i] \in Nat
  BY Numbers
<1> HIDE DEF n
<1>2. \A i \in 1..n : \A a \in Nat : H[i][a] = a + q[i]
  OBVIOUS
<1> HIDE DEF H
<1>3. \A i \in 1..n : \A a \in Nat : H[i][a] \in Nat
  <2>1. \A i \in 1..n : \A a \in Nat : a + q[i] \in Nat
    BY <1>1
  <2>2. QED
    BY <1>2, <2>1
<1>4. PICK p : MadeTo(Nat, 0, H, p, n)
  BY <1>1, <1>3, StepByStep
<1>5. p \in [0..n -> Nat] /\ p[0] = 0 /\ \A i \in 1..n : p[i] = H[i][p[i - 1]]
  BY <1>4 DEF MadeTo
<1>6. \A i \in 0..n : p[i] \in Nat
  BY <1>5
<1>7. \A i \in 1..n : i - 1 \in 0..n
  BY <1>1
<1>8. \A i \in 1..n : p[i] = p[i - 1] + q[i]
  BY <1>2, <1>5, <1>6, <1>7
<1>9. Adds(q, p)
  BY <1>5, <1>8 DEF Adds, n
<1>10. Adds(q, g)
  BY <1>9
<1>11. Added(q) = g[n]
  BY DEF Added, n
<1> HIDE DEF g
<1>12. g \in [0..n -> Nat] /\ n \in 0..n
  BY <1>1, <1>10 DEF Adds, n
<1>13. g[n] \in Nat
  BY <1>12
<1>14. QED
  BY <1>10, <1>11, <1>13 DEF n

LEMMA Sums ==
  ASSUME NEW q \in Seq(Nat), NEW p, Adds(q, p)
  PROVE  /\ p[0] = 0 /\ \A k \in 0..Len(q) : p[k] \in Nat
         /\ \A k \in Nat : k + 1 <= Len(q) => p[k + 1] = p[k] + q[k + 1]
<1>1. p \in [0..Len(q) -> Nat] /\ p[0] = 0 /\ \A i \in 1..Len(q) : p[i] = p[i - 1] + q[i]
  BY DEF Adds
<1>2. \A k \in Nat : k + 1 <= Len(q) => k + 1 \in 1..Len(q) /\ (k + 1) - 1 = k
  BY Numbers
<1>3. \A k \in 0..Len(q) : p[k] \in Nat
  BY <1>1
<1>4. QED
  BY <1>1, <1>2, <1>3

LEMMA Increase ==
  ASSUME NEW a \in Nat, NEW b \in Nat, NEW c \in Nat, NEW d \in Nat, c <= d, a <= b
  PROVE  a + c <= b + d
OBVIOUS

LEMMA IncreaseFirst ==
  ASSUME NEW a \in Nat, NEW b \in Nat, NEW c \in Nat, NEW d \in Nat, NEW w \in Nat,
         c <= d, a + w <= b
  PROVE  (a + c) + w <= b + d
OBVIOUS

LEMMA IncreaseSecond ==
  ASSUME NEW a \in Nat, NEW b \in Nat, NEW c \in Nat, NEW d \in Nat, NEW w \in Nat,
         a <= b, c + w <= d
  PROVE  (a + c) + w <= b + d
OBVIOUS

\* A sum is no greater than one of greater numbers, and smaller by what one of them is.
LEMMA AddsMore ==
  ASSUME NEW q \in Seq(Nat), NEW r \in Seq(Nat), Len(q) = Len(r),
         \A i \in 1..Len(q) : q[i] <= r[i]
  PROVE  /\ Added(q) <= Added(r)
         /\ \A k \in 1..Len(q), w \in Nat : q[k] + w <= r[k] => Added(q) + w <= Added(r)
<1> DEFINE n == Len(q)
<1>1. n \in Nat /\ \A i \in 1..n : q[i] \in Nat /\ r[i] \in Nat /\ q[i] <= r[i]
  BY Numbers
<1>2. \A k \in Nat : k + 1 <= n => k + 1 \in 1..n /\ k \in 0..n
  BY Numbers
<1>3. PICK p : Adds(q, p) /\ Added(q) = p[n]
  BY AddsUp
<1>4. PICK s : Adds(r, s) /\ Added(r) = s[n]
  BY AddsUp
<1>5. /\ p[0] = 0 /\ \A k \in 0..n : p[k] \in Nat
      /\ \A k \in Nat : k + 1 <= n => p[k + 1] = p[k] + q[k + 1]
  BY <1>3, Sums
<1>6. /\ s[0] = 0 /\ \A k \in 0..n : s[k] \in Nat
      /\ \A k \in Nat : k + 1 <= n => s[k + 1] = s[k] + r[k + 1]
  BY <1>4, Sums
<1> HIDE DEF n
<1>7. ASSUME NEW k \in Nat, k + 1 <= n
      PROVE  /\ p[k] \in Nat /\ s[k] \in Nat /\ q[k + 1] \in Nat /\ r[k + 1] \in Nat
             /\ q[k + 1] <= r[k + 1]
             /\ p[k + 1] = p[k] + q[k + 1] /\ s[k + 1] = s[k] + r[k + 1]
  BY <1>1, <1>2, <1>5, <1>6, <1>7
<1> DEFINE T == {k \in Nat : p[k] <= s[k]}
<1>8. \A k \in 0..n : k \in T
  <2>1. 0 \in T
    BY <1>5, <1>6
  <2>2. ASSUME NEW k \in T, k \in Nat, k + 1 <= n
        PROVE  k + 1 \in T
    <3>1. p[k] <= s[k]
      OBVIOUS
    <3> HIDE DEF T
    <3>2. p[k + 1] <= s[k + 1]
      BY <1>7, <2>2, <3>1, Increase
    <3>3. QED
      BY <2>2, <3>2 DEF T
  <2> HIDE DEF T
  <2>3. QED
    BY <1>1, <2>1, <2>2, CountingTo
<1>9. \A k \in 0..n : p[k] <= s[k]
  BY <1>8
<1> HIDE DEF T
<1>10. ASSUME NEW k \in 1..n, NEW w \in Nat, q[k] + w <= r[k]
       PROVE  p[n] + w <= s[n]
  <2> DEFINE U == {m \in Nat : k <= m => p[m] + w <= s[m]}
  <2>1. 0 \in U
    BY <1>1
  <2>2. ASSUME NEW m \in U, m \in Nat, m + 1 <= n
        PROVE  m + 1 \in U
    <3>1. k <= m => p[m] + w <= s[m]
      OBVIOUS
    <3>2. p[m] <= s[m]
      BY <1>2, <1>9, <2>2
    <3> HIDE DEF U
    <3>3. /\ p[m] \in Nat /\ s[m] \in Nat /\ q[m + 1] \in Nat /\ r[m + 1] \in Nat
          /\ q[m + 1] <= r[m + 1]
          /\ p[m + 1] = p[m] + q[m + 1] /\ s[m + 1] = s[m] + r[m + 1]
      BY <1>7, <2>2
    <3>4. k <= m + 1 => k <= m \/ k = m + 1
      BY <1>1, <2>2
    <3>5. ASSUME k <= m + 1
          PROVE  (p[m] + q[m + 1]) + w <= s[m] + r[m + 1]
      <4>1. CASE k = m + 1
        <5>1. q[m + 1] + w <= r[m + 1]
          BY <1>10, <4>1
        <5>2. QED
          BY <3>2, <3>3, <5>1, IncreaseSecond
      <4>2. CASE k <= m
        <5>1. p[m] + w <= s[m]
          BY <3>1, <4>2
        <5>2. QED
          BY <3>3, <5>1, IncreaseFirst
      <4>3. QED
        BY <3>4, <3>5, <4>1, <4>2
    <3>6. k <= m + 1 => p[m + 1] + w <= s[m + 1]
      BY <3>3, <3>5
    <3>7. QED
      BY <2>2, <3>6 DEF U
  <2>3. n \in U
    <3> HIDE DEF U
    <3>1. QED
      BY <1>1, <2>1, <2>2, CountingTo
  <2>4. QED
    BY <1>1, <2>3
<1>11. n \in 0..n
  BY <1>1
<1>12. QED
  BY <1>3, <1>4, <1>9, <1>10, <1>11 DEF n

\* The total saturates, and only then is it not the sum.
LEMMA Capped ==
  ASSUME NEW a \in Nat, NEW b \in Nat, NEW c \in Nat, a = IF b > MaxU32 THEN MaxU32 ELSE b
  PROVE  Plus(a, c) = IF b + c > MaxU32 THEN MaxU32 ELSE b + c
BY OperationAssumption DEF OperationAssumption, Plus

LEMMA TotalIsCapped ==
  ASSUME NEW q \in Seq(Nat)
  PROVE  /\ Total(q) \in Nat
         /\ Total(q) = IF Added(q) > MaxU32 THEN MaxU32 ELSE Added(q)
<1> DEFINE n == Len(q)
<1>1. n \in Nat /\ (\A i \in 1..n : q[i] \in Nat) /\ MaxU32 \in Nat
  BY Numbers, OperationAssumption DEF OperationAssumption
<1>2. PICK p : Totals(q, p) /\ Total(q) = p[n]
  BY RunningTotal
<1>3. PICK s : Adds(q, s) /\ Added(q) = s[n]
  BY AddsUp
<1>4. /\ s[0] = 0 /\ \A k \in 0..n : s[k] \in Nat
      /\ \A k \in Nat : k + 1 <= n => s[k + 1] = s[k] + q[k + 1]
  BY <1>3, Sums
<1>5. p[0] = 0 /\ (\A k \in 0..n : p[k] \in Nat) /\ \A i \in 1..n : p[i] = Plus(p[i - 1], q[i])
  BY <1>2 DEF Totals
<1> HIDE DEF n
<1> DEFINE Agree(k) == p[k] = IF s[k] > MaxU32 THEN MaxU32 ELSE s[k]
           T == {k \in Nat : Agree(k)}
<1>6. 0 \in T
  BY <1>1, <1>4, <1>5
<1>7. ASSUME NEW k \in T, k \in Nat, k + 1 <= n
      PROVE  k + 1 \in T
  <2>1. Agree(k)
    OBVIOUS
  <2> HIDE DEF T
  <2>2. k \in 0..n /\ k + 1 \in 1..n /\ (k + 1) - 1 = k
    BY <1>1, <1>7
  <2>3. p[k] \in Nat /\ s[k] \in Nat /\ q[k + 1] \in Nat
    BY <1>1, <1>4, <1>5, <2>2
  <2>4. Plus(p[k], q[k + 1]) = IF s[k] + q[k + 1] > MaxU32 THEN MaxU32 ELSE s[k] + q[k + 1]
    BY <2>1, <2>3, Capped
  <2>5. p[k + 1] = Plus(p[k], q[k + 1])
    BY <1>5, <2>2
  <2>6. s[k + 1] = s[k] + q[k + 1]
    BY <1>4, <1>7
  <2>7. Agree(k + 1)
    BY <2>4, <2>5, <2>6
  <2> HIDE DEF Agree
  <2>8. QED
    BY <1>7, <2>7 DEF T
<1>8. n \in T
  <2> HIDE DEF T
  <2>1. QED
    BY <1>1, <1>6, <1>7, CountingTo
<1>9. Agree(n)
  BY <1>8
<1>10. n \in 0..n
  BY <1>1
<1>11. QED
  BY <1>2, <1>3, <1>5, <1>9, <1>10 DEF n

\* An element of a sum is no greater than the sum; of no elements it is 0.
LEMMA AddedElements ==
  ASSUME NEW q \in Seq(Nat)
  PROVE  /\ \A i \in 1..Len(q) : q[i] <= Added(q)
         /\ Len(q) = 0 => Added(q) = 0
<1> DEFINE zero == [i \in 1..Len(q) |-> 0]
<1>1. Len(q) \in Nat /\ \A i \in 1..Len(q) : q[i] \in Nat
  BY Numbers
<1>2. zero \in Seq(Nat) /\ Len(zero) = Len(q) /\ \A i \in 1..Len(q) : zero[i] = 0
  BY <1>1
<1> HIDE DEF zero
<1>3. Added(zero) \in Nat /\ Added(q) \in Nat
  BY <1>2, AddsUp
<1>4. ASSUME NEW i \in 1..Len(q)
      PROVE  q[i] <= Added(q)
  <2>1. \A j \in 1..Len(zero) : zero[j] <= q[j]
    BY <1>1, <1>2
  <2>2. \A j \in 1..Len(zero), w \in Nat : zero[j] + w <= q[j] => Added(zero) + w <= Added(q)
    BY <1>2, <2>1, AddsMore
  <2>3. i \in 1..Len(zero) /\ q[i] \in Nat /\ zero[i] + q[i] <= q[i]
    BY <1>1, <1>2
  <2>4. Added(zero) + q[i] <= Added(q)
    BY <2>2, <2>3
  <2>5. QED
    BY <1>3, <2>3, <2>4
<1>5. ASSUME Len(q) = 0
      PROVE  Added(q) = 0
  <2>1. PICK p : Adds(q, p) /\ Added(q) = p[Len(q)]
    BY AddsUp
  <2>2. p[0] = 0
    BY <2>1, Sums
  <2>3. QED
    BY <1>5, <2>1, <2>2
<1>6. QED
  BY <1>4, <1>5

-----------------------------------------------------------------------------
(* Costs                                                                   *)

LEMMA FieldCosts == \A kind, n : FieldCost(kind, n) \in Nat
BY CostAssumption DEF CostAssumption, FieldCost, Overridden

LEMMA PlusNumbers ==
  ASSUME NEW a \in Nat, NEW b \in Nat
  PROVE  /\ Plus(a, b) \in Nat /\ MaxU32 \in Nat
         /\ Plus(a, b) < MaxU32 => Plus(a, b) = a + b
<1>1. MaxU32 \in Nat /\ a + b \in Nat
  BY OperationAssumption DEF OperationAssumption
<1>2. Plus(a, b) = IF a + b > MaxU32 THEN MaxU32 ELSE a + b
  BY DEF Plus
<1>3. QED
  BY <1>1, <1>2

LEMMA SelectionCosts ==
  ASSUME NEW kind, NEW s, NEW c \in Nat
  PROVE  SelectionCost(kind, s, c) \in Nat
<1>1. FieldCost(kind, s.name) \in Nat /\ 3 \in Nat /\ 5 \in Nat /\ 0 \in Nat
  BY FieldCosts
<1>2. Plus(FieldCost(kind, s.name), 3) \in Nat
  BY <1>1, PlusNumbers
<1>3. Plus(5, c) \in Nat /\ Plus(0, c) \in Nat
  BY <1>1, PlusNumbers
<1>4. Plus(Plus(FieldCost(kind, s.name), 3), Plus(IF s.name \in Plurals THEN 5 ELSE 0, c)) \in Nat
  <2>1. Plus(IF s.name \in Plurals THEN 5 ELSE 0, c) \in Nat
    BY <1>3
  <2>2. QED
    BY <1>2, <2>1, PlusNumbers
<1>5. QED
  BY <1>1, <1>4 DEF SelectionCost

\* The costs of selections, as the walk of cost.rs computes them.
CostsOf(cost, sels) == [i \in DOMAIN sels |-> cost[sels[i]]]
Prices(kind, cost) ==
  /\ cost \in [Selections -> Nat]
  /\ \A s \in Selections : cost[s] = SelectionCost(kind, s, Total(CostsOf(cost, s.below)))

LEMMA CostsTyped ==
  ASSUME NEW cost, NEW sels \in Seq(Selections), \A c \in Range(sels) : cost[c] \in Nat
  PROVE  /\ CostsOf(cost, sels) \in Seq(Nat) /\ Len(CostsOf(cost, sels)) = Len(sels)
         /\ \A i \in 1..Len(sels) : CostsOf(cost, sels)[i] = cost[sels[i]]
         /\ Total(CostsOf(cost, sels)) \in Nat
<1>1. /\ CostsOf(cost, sels) \in Seq(Nat) /\ Len(CostsOf(cost, sels)) = Len(sels)
      /\ \A i \in 1..Len(sels) : CostsOf(cost, sels)[i] = cost[sels[i]]
  BY Mapped DEF CostsOf
<1>2. QED
  BY <1>1, TotalIsCapped

LEMMA CostRecursion ==
  ASSUME NEW kind
  PROVE  \E cost : /\ Prices(kind, cost)
                   /\ \A sels : CostOf(kind, sels) = Total(CostsOf(cost, sels))
<1> DEFINE V == Nat
           Of(s, h) == SelectionCost(kind, s, Total(CostsOf(h, s.below)))
           P == UNION {{s} \X [Range(s.below) -> V] : s \in Selections}
           G == [d \in P |-> Of(d[1], d[2])]
           Defines(f) == f = [s \in Selections |->
                                SelectionCost(kind, s, Total([i \in DOMAIN s.below |-> f[s.below[i]]]))]
           cost == CHOOSE f : Defines(f)
<1>1. ASSUME NEW s \in Selections, NEW h, \A c \in Range(s.below) : h[c] \in V
      PROVE  Of(s, h) \in V
  <2>1. s.below \in Seq(Selections)
    BY Children
  <2>2. Total(CostsOf(h, s.below)) \in Nat
    BY <1>1, <2>1, CostsTyped
  <2>3. QED
    BY <2>2, SelectionCosts
<1>2. ASSUME NEW s \in Selections, NEW h \in [Range(s.below) -> V]
      PROVE  G[s, h] = Of(s, h)
  <2>1. <<s, h>> \in P
    OBVIOUS
  <2> HIDE DEF P
  <2>2. QED
    BY <2>1
<1> HIDE DEF G
<1>3. Recursive(V, G)
  <2>1. ASSUME NEW s \in Selections, NEW h \in [Range(s.below) -> V]
        PROVE  G[s, h] \in V
    <3>1. Of(s, h) \in V
      BY <1>1
    <3>2. QED
      BY <1>2, <3>1
  <2>2. QED
    BY <2>1 DEF Recursive
<1>4. PICK f \in [Selections -> V] : \A s \in Selections : Fits(G, f, s)
  BY <1>3, TreeRecursion
<1>5. ASSUME NEW s \in Selections
      PROVE  f[s] = Of(s, f)
  <2> DEFINE h == [c \in Range(s.below) |-> f[c]]
  <2>1. /\ \A c \in Range(s.below) : c \in Selections
        /\ DOMAIN s.below = 1..Len(s.below)
        /\ \A i \in 1..Len(s.below) : s.below[i] \in Range(s.below)
    BY Children, SeqElements
  <2>2. h \in [Range(s.below) -> V] /\ \A c \in Range(s.below) : h[c] = f[c]
    BY <1>4, <2>1
  <2>3. f[s] = G[s, h]
    BY <1>4 DEF Fits
  <2> HIDE DEF h
  <2>4. f[s] = Of(s, h)
    BY <1>2, <2>2, <2>3
  <2>5. CostsOf(h, s.below) = CostsOf(f, s.below)
    BY <2>1, <2>2 DEF CostsOf
  <2>6. QED
    BY <2>4, <2>5
<1>6. Defines(f)
  <2>1. f = [s \in Selections |-> Of(s, f)]
    BY <1>4, <1>5
  <2>2. QED
    BY <2>1 DEF CostsOf
<1>7. Defines(cost)
  <2> HIDE DEF Defines
  <2> QED
    BY <1>6
<1>8. \A sels : CostOf(kind, sels) = Total(CostsOf(cost, sels))
  BY DEF CostOf, CostsOf
<1> HIDE DEF cost
<1>9. cost = [s \in Selections |-> Of(s, cost)]
  BY <1>7 DEF CostsOf
<1>10. \A s \in Selections : cost[s] = Of(s, cost)
  BY <1>9
<1> DEFINE T == {s \in Selections : cost[s] \in V}
<1>11. ASSUME NEW s \in Selections, \A c \in Range(s.below) : c \in T
       PROVE  s \in T
  <2>1. cost[s] \in V
    BY <1>1, <1>10, <1>11
  <2>2. QED
    BY <2>1
<1>12. T = Selections
  <2>1. T \in SUBSET Selections
    OBVIOUS
  <2> HIDE DEF T
  <2>2. QED
    BY <1>11, <2>1, TreeInduction
<1>13. cost \in [Selections -> Nat]
  BY <1>9, <1>12
<1>14. QED
  BY <1>8, <1>10, <1>13 DEF Prices

\* A field costs its own price and that of all below it; it is not free if its price is not.
LEMMA FieldIsPaid ==
  ASSUME NEW kind, NEW cost, Prices(kind, cost), NEW s \in Selections, s.kind = "field"
  PROVE  /\ cost[s] \in Nat
         /\ cost[s] < MaxU32 => FieldCost(kind, s.name) + Added(CostsOf(cost, s.below)) <= cost[s]
         /\ FieldCost(kind, s.name) > 0 => cost[s] > 0
<1> DEFINE own == FieldCost(kind, s.name)
           below == CostsOf(cost, s.below)
           extra == IF s.name \in Plurals THEN 5 ELSE 0
<1>1. s.below \in Seq(Selections) /\ \A c \in Range(s.below) : c \in Selections
  BY Children
<1>2. below \in Seq(Nat) /\ Len(below) = Len(s.below) /\ Total(below) \in Nat
  BY <1>1, CostsTyped DEF Prices
<1>3. own \in Nat /\ 3 \in Nat /\ extra \in Nat /\ cost[s] \in Nat
  BY FieldCosts DEF Prices
<1>4. cost[s] = IF s.below = <<>> THEN own ELSE Plus(Plus(own, 3), Plus(extra, Total(below)))
  BY DEF Prices, SelectionCost
<1>5. Added(below) \in Nat /\ Total(below) = IF Added(below) > MaxU32 THEN MaxU32 ELSE Added(below)
  BY <1>2, AddsUp, TotalIsCapped
<1>6. MaxU32 \in Nat /\ MaxCost \in Nat /\ MaxCost < MaxU32
  BY OperationAssumption DEF OperationAssumption
<1> HIDE DEF own, below, extra
<1>7. ASSUME cost[s] < MaxU32
      PROVE  own + Added(below) <= cost[s]
  <2>1. CASE s.below = <<>>
    <3>1. Len(below) = 0
      BY <1>2, <2>1
    <3>2. Added(below) = 0
      BY <1>2, <3>1, AddedElements
    <3>3. QED
      BY <1>3, <1>4, <2>1, <3>2
  <2>2. CASE s.below # <<>>
    <3> DEFINE a == Plus(own, 3)
               b == Plus(extra, Total(below))
    <3>1. a \in Nat /\ b \in Nat
      BY <1>2, <1>3, PlusNumbers
    <3>2. a < MaxU32 => a = own + 3
      BY <1>3, PlusNumbers
    <3>3. b < MaxU32 => b = extra + Total(below)
      BY <1>2, <1>3, PlusNumbers
    <3>4. cost[s] = Plus(a, b)
      BY <1>4, <2>2
    <3> HIDE DEF a, b
    <3>5. cost[s] = a + b
      BY <1>7, <3>1, <3>4, PlusNumbers
    <3>6. a < MaxU32 /\ b < MaxU32
      BY <1>6, <1>7, <3>1, <3>5
    <3>7. Total(below) < MaxU32
      BY <1>2, <1>3, <1>6, <3>3, <3>6
    <3>8. Total(below) = Added(below)
      BY <1>5, <1>6, <3>7
    <3>9. QED
      BY <1>2, <1>3, <3>2, <3>3, <3>5, <3>6, <3>8
  <2>3. QED
    BY <2>1, <2>2
<1>8. ASSUME own > 0
      PROVE  cost[s] > 0
  <2>1. CASE cost[s] < MaxU32
    BY <1>3, <1>5, <1>7, <1>8, <2>1
  <2>2. CASE ~ (cost[s] < MaxU32)
    BY <1>3, <1>6, <2>2
  <2>3. QED
    BY <2>1, <2>2
<1>9. QED
  BY <1>3, <1>7, <1>8 DEF own, below

\* An operation within the limit costs the sum of its root fields: no total is saturated.
LEMMA OperationIsPaid ==
  ASSUME NEW op, op.roots \in Seq(Selections), OperationCost(op) <= MaxCost,
         NEW cost, Prices(op.kind, cost), CostOf(op.kind, op.roots) = Total(CostsOf(cost, op.roots))
  PROVE  /\ Added(CostsOf(cost, op.roots)) <= MaxCost
         /\ \A i \in 1..Len(op.roots) : cost[op.roots[i]] \in Nat /\ cost[op.roots[i]] < MaxU32
<1> DEFINE q == CostsOf(cost, op.roots)
<1>1. MaxU32 \in Nat /\ MaxCost \in Nat /\ MaxCost < MaxU32
  BY OperationAssumption DEF OperationAssumption
<1>2. \A c \in Range(op.roots) : cost[c] \in Nat
  BY SeqElements DEF Prices
<1>3. /\ q \in Seq(Nat) /\ Len(q) = Len(op.roots) /\ Total(q) \in Nat
      /\ \A i \in 1..Len(op.roots) : q[i] = cost[op.roots[i]]
  BY <1>2, CostsTyped
<1>4. OperationCost(op) = IF op.kind = "mutation" THEN Plus(Total(q), 30) ELSE Total(q)
  BY DEF OperationCost
<1> HIDE DEF q
<1>5. Added(q) \in Nat /\ Total(q) = IF Added(q) > MaxU32 THEN MaxU32 ELSE Added(q)
  BY <1>3, AddsUp, TotalIsCapped
<1>6. Total(q) <= MaxCost
  <2>1. 30 \in Nat
    OBVIOUS
  <2>2. Plus(Total(q), 30) \in Nat
        /\ (Plus(Total(q), 30) < MaxU32 => Plus(Total(q), 30) = Total(q) + 30)
    BY <1>3, <2>1, PlusNumbers
  <2>3. Plus(Total(q), 30) <= MaxCost => Total(q) <= MaxCost
    BY <1>1, <1>3, <2>2
  <2>4. QED
    BY <1>4, <2>3
<1>7. Added(q) <= MaxCost
  BY <1>1, <1>3, <1>5, <1>6
<1>8. ASSUME NEW i \in 1..Len(op.roots)
      PROVE  cost[op.roots[i]] \in Nat /\ cost[op.roots[i]] < MaxU32
  <2>1. q[i] \in Nat /\ q[i] <= Added(q)
    BY <1>3, AddedElements, Numbers
  <2>2. q[i] < MaxU32
    BY <1>1, <1>5, <1>7, <2>1
  <2>3. QED
    BY <1>3, <2>1, <2>2
<1>9. QED
  BY <1>7, <1>8 DEF q

-----------------------------------------------------------------------------
(* Sums over sets                                                          *)

\* What a request counts for in SentWithinCost.
Weight(op, r) == IF r.entity THEN 1 ELSE FieldCost(op.kind, r.text[1])
WeightOf(op, S) ==
  MapThenSumSet(LAMBDA r : IF r.entity THEN 1 ELSE FieldCost(op.kind, r.text[1]), S)

One(s) == CHOOSE x \in s : TRUE
Weighs(op, S, f) ==
  f = [s \in SUBSET S |-> IF s = {} THEN 0 ELSE Weight(op, One(s)) + f[s \ {One(s)}]]

LEMMA Weights ==
  ASSUME NEW op, NEW r
  PROVE  Weight(op, r) \in Nat
BY FieldCosts DEF Weight

\* A subset without one of its elements is smaller.
LEMMA OneLess ==
  ASSUME NEW S, IsFiniteSet(S), NEW s \in SUBSET S
  PROVE  /\ Cardinality(s) \in Nat /\ Cardinality(s) <= Cardinality(S)
         /\ Cardinality(s) = 0 <=> s = {}
         /\ s # {} => /\ One(s) \in s /\ s \ {One(s)} \in SUBSET S
                      /\ Cardinality(s \ {One(s)}) + 1 = Cardinality(s)
<1>1. IsFiniteSet(s) /\ Cardinality(s) \in Nat /\ Cardinality(s) <= Cardinality(S)
  BY FS_Subset, FS_CardinalityType
<1>2. Cardinality(s) = 0 <=> s = {}
  BY <1>1, FS_EmptySet
<1>3. ASSUME s # {}
      PROVE  /\ One(s) \in s /\ s \ {One(s)} \in SUBSET S
             /\ Cardinality(s \ {One(s)}) + 1 = Cardinality(s)
  <2>1. One(s) \in s
    BY <1>3 DEF One
  <2>2. Cardinality(s \ {One(s)}) = Cardinality(s) - 1
    BY <1>1, <2>1, FS_RemoveElement
  <2>3. QED
    BY <1>1, <2>1, <2>2
<1>4. QED
  BY <1>1, <1>2, <1>3

LEMMA WeighsExists ==
  ASSUME NEW op, NEW S, IsFiniteSet(S)
  PROVE  \E f \in [SUBSET S -> Nat] : Weighs(op, S, f)
<1> DEFINE V == [SUBSET S -> Nat]
           Of(a, s) == IF s = {} THEN 0 ELSE Weight(op, One(s)) + a[s \ {One(s)}]
           Step == [a \in V |-> [s \in SUBSET S |-> Of(a, s)]]
           m == Cardinality(S)
           H == [i \in 1..(m + 1) |-> Step]
           v == [s \in SUBSET S |-> 0]
<1>1. m \in Nat /\ m + 1 \in Nat
  BY FS_CardinalityType
<1>2. \A s \in SUBSET S : /\ Cardinality(s) \in Nat /\ Cardinality(s) <= m
                          /\ Cardinality(s) = 0 <=> s = {}
                          /\ s # {} => /\ One(s) \in s /\ s \ {One(s)} \in SUBSET S
                                       /\ Cardinality(s \ {One(s)}) + 1 = Cardinality(s)
  BY OneLess
<1> HIDE DEF m
<1>3. ASSUME NEW a \in V
      PROVE  Step[a] \in V /\ \A s \in SUBSET S : Step[a][s] = Of(a, s)
  <2>1. \A s \in SUBSET S : Of(a, s) \in Nat
    <3> SUFFICES ASSUME NEW s \in SUBSET S, s # {}
                 PROVE  Weight(op, One(s)) + a[s \ {One(s)}] \in Nat
      OBVIOUS
    <3>1. Weight(op, One(s)) \in Nat
      BY Weights
    <3>2. a[s \ {One(s)}] \in Nat
      BY <1>2
    <3>3. QED
      BY <3>1, <3>2
  <2>2. Step[a] = [s \in SUBSET S |-> Of(a, s)]
    OBVIOUS
  <2> HIDE DEF Of, Step
  <2>3. QED
    BY <2>1, <2>2
<1>4. v \in V /\ \A s \in SUBSET S : v[s] = 0
  OBVIOUS
<1>5. \A i \in 1..(m + 1) : H[i] = Step
  OBVIOUS
<1> HIDE DEF H, Step, v, Of
<1>6. \A i \in 1..(m + 1) : \A a \in V : H[i][a] \in V
  BY <1>3, <1>5
<1> HIDE DEF V
<1>7. PICK p : MadeTo(V, v, H, p, m + 1)
  BY <1>1, <1>4, <1>6, StepByStep
<1>8. /\ p[0] = v /\ \A i \in 0..(m + 1) : p[i] \in V
      /\ \A i \in 1..(m + 1) : p[i] = Step[p[i - 1]]
  BY <1>5, <1>7 DEF MadeTo
<1>9. \A k \in Nat : k <= m => k \in 0..(m + 1) /\ k + 1 \in 1..(m + 1) /\ (k + 1) - 1 = k
  BY <1>1
<1>10. ASSUME NEW k \in Nat, k <= m
       PROVE  /\ p[k] \in V /\ p[k + 1] = Step[p[k]]
              /\ \A s \in SUBSET S : p[k + 1][s] = Of(p[k], s)
  <2>1. p[k] \in V /\ p[k + 1] = Step[p[k]]
    BY <1>8, <1>9, <1>10
  <2>2. QED
    BY <1>3, <2>1
<1> DEFINE Settled(k) == \A s \in SUBSET S : Cardinality(s) <= k => p[k + 1][s] = p[k][s]
           T == {k \in Nat : Settled(k)}
<1>11. Settled(0)
  <2> SUFFICES ASSUME NEW s \in SUBSET S, Cardinality(s) <= 0
               PROVE  p[0 + 1][s] = p[0][s]
    OBVIOUS
  <2>1. s = {}
    <3>1. Cardinality(s) \in Nat /\ (Cardinality(s) = 0 => s = {})
      BY <1>2
    <3>2. QED
      BY <3>1
  <2>2. p[0 + 1][s] = Of(p[0], s)
    BY <1>1, <1>10
  <2>3. p[0][s] = 0
    BY <1>4, <1>8
  <2>4. QED
    BY <2>1, <2>2, <2>3 DEF Of
<1>12. ASSUME NEW k \in Nat, Settled(k), k + 1 <= m
       PROVE  Settled(k + 1)
  <2> SUFFICES ASSUME NEW s \in SUBSET S, Cardinality(s) <= k + 1
               PROVE  p[(k + 1) + 1][s] = p[k + 1][s]
    OBVIOUS
  <2>1. k <= m /\ k + 1 \in Nat
    BY <1>1, <1>12
  <2>2. p[(k + 1) + 1][s] = Of(p[k + 1], s)
    BY <1>10, <1>12, <2>1
  <2>3. p[k + 1][s] = Of(p[k], s)
    BY <1>10, <2>1
  <2>4. ASSUME s # {}
        PROVE  p[k + 1][s \ {One(s)}] = p[k][s \ {One(s)}]
    <3> DEFINE r == s \ {One(s)}
    <3>1. r \in SUBSET S /\ Cardinality(r) \in Nat /\ Cardinality(r) + 1 = Cardinality(s)
      BY <1>2, <2>4
    <3> HIDE DEF r
    <3>2. Cardinality(r) <= k
      BY <3>1
    <3>3. p[k + 1][r] = p[k][r]
      BY <1>12, <3>1, <3>2
    <3>4. QED
      BY <3>3 DEF r
  <2>5. QED
    BY <2>2, <2>3, <2>4 DEF Of
<1>13. m \in T
  <2>1. 0 \in T
    BY <1>11
  <2>2. ASSUME NEW k \in T, k \in Nat, k + 1 <= m
        PROVE  k + 1 \in T
    <3>1. Settled(k)
      OBVIOUS
    <3> HIDE DEF Settled
    <3>2. QED
      BY <1>12, <2>2, <3>1
  <2> HIDE DEF T
  <2>3. \A k \in 0..m : k \in T
    BY <1>1, <2>1, <2>2, CountingTo
  <2>4. QED
    BY <1>1, <2>3
<1>14. p[m] \in V /\ \A s \in SUBSET S : p[m][s] = Of(p[m], s)
  <2>1. /\ p[m] \in V /\ \A s \in SUBSET S : p[m + 1][s] = Of(p[m], s)
    BY <1>1, <1>10
  <2>2. Settled(m)
    BY <1>13
  <2>3. \A s \in SUBSET S : p[m + 1][s] = p[m][s]
    BY <1>2, <2>2
  <2>4. QED
    BY <2>1, <2>3
<1>15. Weighs(op, S, p[m])
  <2>1. p[m] = [s \in SUBSET S |-> p[m][s]]
    BY <1>14 DEF V
  <2>2. \A s \in SUBSET S :
          p[m][s] = IF s = {} THEN 0 ELSE Weight(op, One(s)) + p[m][s \ {One(s)}]
    BY <1>14 DEF Of
  <2>3. QED
    BY <2>1, <2>2 DEF Weighs
<1>16. QED
  BY <1>14, <1>15 DEF V

\* A bound that every element uses up by its weight is a bound of the sum.
LEMMA SumIsBounded ==
  ASSUME NEW op, NEW S, IsFiniteSet(S), NEW B \in [SUBSET S -> Nat],
         \A s \in SUBSET S : \A x \in s : Weight(op, x) + B[s \ {x}] <= B[s]
  PROVE  WeightOf(op, S) \in Nat /\ WeightOf(op, S) <= B[S]
<1> DEFINE g == CHOOSE f : Weighs(op, S, f)
           m == Cardinality(S)
<1>1. Weighs(op, S, g)
  BY WeighsExists
<1> HIDE DEF g
<1>2. \A s \in SUBSET S : g[s] = IF s = {} THEN 0 ELSE Weight(op, One(s)) + g[s \ {One(s)}]
  BY <1>1 DEF Weighs
<1>3. m \in Nat
  BY FS_CardinalityType
<1>4. \A s \in SUBSET S : /\ Cardinality(s) \in Nat /\ Cardinality(s) <= m
                          /\ Cardinality(s) = 0 <=> s = {}
                          /\ s # {} => /\ One(s) \in s /\ s \ {One(s)} \in SUBSET S
                                       /\ Cardinality(s \ {One(s)}) + 1 = Cardinality(s)
  BY OneLess
<1> HIDE DEF m
<1> DEFINE Bounded(k) == \A s \in SUBSET S : Cardinality(s) <= k => g[s] \in Nat /\ g[s] <= B[s]
           T == {k \in Nat : Bounded(k)}
<1>5. Bounded(0)
  <2> SUFFICES ASSUME NEW s \in SUBSET S, Cardinality(s) <= 0
               PROVE  g[s] \in Nat /\ g[s] <= B[s]
    OBVIOUS
  <2>1. s = {} /\ B[s] \in Nat
    <3>1. Cardinality(s) \in Nat /\ (Cardinality(s) = 0 => s = {})
      BY <1>4
    <3>2. QED
      BY <3>1
  <2>2. g[s] = 0
    BY <1>2, <2>1
  <2>3. QED
    BY <2>1, <2>2
<1>6. ASSUME NEW k \in Nat, Bounded(k)
      PROVE  Bounded(k + 1)
  <2> SUFFICES ASSUME NEW s \in SUBSET S, Cardinality(s) <= k + 1
               PROVE  g[s] \in Nat /\ g[s] <= B[s]
    OBVIOUS
  <2>1. CASE s = {}
    <3>1. Cardinality(s) = 0
      BY <1>4, <2>1
    <3>2. Cardinality(s) <= k
      BY <3>1
    <3>3. QED
      BY <1>6, <3>2
  <2>2. CASE s # {}
    <3> DEFINE x == One(s)
               r == s \ {x}
               w == Weight(op, x)
    <3>1. x \in s /\ r \in SUBSET S /\ Cardinality(r) \in Nat /\ Cardinality(r) + 1 = Cardinality(s)
      BY <1>4, <2>2
    <3>2. g[s] = w + g[r]
      BY <1>2, <2>2
    <3>3. w \in Nat /\ B[r] \in Nat /\ B[s] \in Nat
      BY <3>1, Weights
    <3>4. w + B[r] <= B[s]
      BY <3>1
    <3> HIDE DEF x, r, w
    <3>5. Cardinality(r) <= k
      BY <3>1
    <3>6. g[r] \in Nat /\ g[r] <= B[r]
      BY <1>6, <3>1, <3>5
    <3>7. QED
      BY <3>2, <3>3, <3>4, <3>6
  <2>3. QED
    BY <2>1, <2>2
<1>7. m \in T
  <2>1. 0 \in T
    BY <1>5
  <2>2. ASSUME NEW k \in T, k \in Nat, k + 1 <= m
        PROVE  k + 1 \in T
    <3>1. Bounded(k)
      OBVIOUS
    <3> HIDE DEF Bounded
    <3>2. QED
      BY <1>6, <2>2, <3>1
  <2> HIDE DEF T
  <2>3. \A k \in 0..m : k \in T
    BY <1>3, <2>1, <2>2, CountingTo
  <2>4. QED
    BY <1>3, <2>3
<1>8. g[S] \in Nat /\ g[S] <= B[S]
  BY <1>4, <1>7
<1>9. WeightOf(op, S) = g[S]
  BY DEF g, WeightOf, Weighs, Weight, One, MapThenSumSet, MapThenFoldSet
<1>10. QED
  BY <1>8, <1>9

-----------------------------------------------------------------------------
(* What is sent is paid for                                                *)

\* The text of a fetch begins with the name of the root field.
LEMMA FirstToken ==
  ASSUME NEW f \in Selections, f.kind = "field", NEW t \in Guesses(Flat(f.below)), NEW owner
  PROVE  RootOperationText(t, f, owner)[1] = f.name
<1> DEFINE x == Text[f]
           head == StripSelectionSet(x)
           h == <<f.name>> \o ArgumentText(f)
           y == InitialSelectionText(t, f.below, owner)
           S == Outermost(Bytes(x))
<1>1. f.name \in Names /\ f.name # Open /\ Byte(f.name) = f.name
  <2>1. f.name \in Names
    BY TokenAssumption DEF TokenAssumption
  <2>2. QED
    BY <2>1, PlainBytes
<1>2. x \in Seq(Tokens) /\ RenderAll(f.below) \in Seq(Tokens)
  BY Children, Texts, RenderedAll
<1>3. h \in Seq(Tokens) /\ h[1] = f.name /\ Len(h) \in Nat /\ Len(h) >= 1
  <2> DEFINE n == <<f.name>>
  <2>1. ArgumentText(f) \in Seq(Tokens) /\ n \in Seq(Tokens) /\ Len(n) = 1 /\ n[1] = f.name
    <3>1. ArgumentText(f) \in Seq(Tokens) /\ n \in Seq(Tokens)
      BY <1>2, Rendered
    <3>2. QED
      BY <3>1
  <2> HIDE DEF n
  <2>2. Len(ArgumentText(f)) \in Nat
    BY <2>1, LenProperties
  <2>3. n \o ArgumentText(f) \in Seq(Tokens) /\ Len(n \o ArgumentText(f)) = 1 + Len(ArgumentText(f))
    <3>1. /\ n \o ArgumentText(f) \in Seq(Tokens)
          /\ Len(n \o ArgumentText(f)) = Len(n) + Len(ArgumentText(f))
      BY <2>1, ConcatProperties
    <3>2. QED
      BY <2>1, <3>1
  <2>4. 1 \in 1..(Len(n) + Len(ArgumentText(f))) /\ 1 <= Len(n)
    BY <2>1, <2>2
  <2>5. (n \o ArgumentText(f))[1] = n[1]
    BY <2>1, <2>4, ConcatProperties
  <2>6. QED
    BY <2>1, <2>2, <2>3, <2>5 DEF n
<1>4. x[1] = f.name /\ Len(x) \in Nat /\ Len(x) >= 1
  <2> DEFINE b == Braced(RenderAll(f.below))
  <2>1. x = Render(f, RenderAll(f.below))
    BY Texts
  <2>2. x = h \/ x = h \o b
    BY <1>2, <2>1, Rendered
  <2>3. b \in Seq(Tokens)
    BY <1>2, BracedText DEF Tokens
  <2> HIDE DEF b, h
  <2>4. Len(h \o b) = Len(h) + Len(b) /\ Len(b) \in Nat /\ (h \o b)[1] = h[1]
    BY <1>3, <2>3, ConcatProperties, LenProperties
  <2>5. QED
    BY <1>3, <2>2, <2>4
<1> HIDE DEF h, x
<1>5. y \in Seq(Tokens)
  BY InitialText DEF Nested
<1>6. head \in Seq(Tokens)
  BY <1>2, StripTyped
<1>7. head[1] = f.name /\ Len(head) \in Nat /\ Len(head) >= 1
  <2>1. CASE S = {}
    BY <1>4, <2>1 DEF StripSelectionSet
  <2>2. CASE S # {}
    <3>1. S \in SUBSET Nat /\ (\A i \in S : i <= Len(x)) /\ \A i \in S : i \in 1..Len(x) /\ i # 1
      <4>1. DOMAIN Bytes(x) = 1..Len(x) /\ \A i \in 1..Len(x) : Bytes(x)[i] = Byte(x[i])
        BY <1>2, BytesOf, LenProperties
      <4>2. \A i \in S : i \in 1..Len(x) /\ Byte(x[i]) = Open
        BY <4>1 DEF Outermost
      <4>3. QED
        BY <1>1, <1>4, <4>2
    <3> HIDE DEF S
    <3> DEFINE m == Max(S)
    <3>2. m \in S
      BY <1>4, <2>2, <3>1, Greatest
    <3>3. head = SubSeq(x, 1, m - 1)
      BY <2>2 DEF StripSelectionSet, S
    <3> HIDE DEF m, head
    <3>4. m - 1 \in Nat /\ m - 1 >= 1 /\ m - 1 <= Len(x)
      <4>1. m \in 1..Len(x) /\ m # 1
        BY <3>1, <3>2
      <4>2. QED
        BY <1>4, <4>1
    <3> DEFINE k == m - 1
    <3>5. k \in Nat /\ k >= 1 /\ k <= Len(x) /\ head = SubSeq(x, 1, k)
      BY <3>3, <3>4
    <3> HIDE DEF k
    <3>6. SubSeq(x, 1, k)[1] = x[1] /\ Len(SubSeq(x, 1, k)) = k
      BY <1>2, <1>4, <3>5
    <3>7. QED
      BY <1>4, <3>5, <3>6
  <2>3. QED
    BY <2>1, <2>2
<1> HIDE DEF head, y
<1>8. (head \o y)[1] = head[1]
  BY <1>5, <1>6, <1>7, ConcatProperties
<1>9. QED
  BY <1>7, <1>8 DEF RootOperationText, head, x, y

\* The fetches of the plan of an operation, whose cost was checked.
LEMMA PaidOperation ==
  ASSUME IInv, sent # {}, NEW op \in PlannedOperation(request)
  PROVE  /\ op \in Range(request.ops) /\ OperationCost(op) <= MaxCost
         /\ op.roots \in Seq(Selections) /\ DOMAIN op.roots = 1..Len(op.roots)
         /\ \A i \in DOMAIN plan :
              /\ i \in RootFields(op) /\ i \in DOMAIN op.roots
              /\ op.roots[i] \in Selections /\ op.roots[i].kind = "field"
              /\ op.roots[i].below \in Seq(Selections)
              /\ plan[i].text[1] = op.roots[i].name
              /\ DOMAIN plan[i].bodies =
                   Extenders(plan[i].type, Flat(op.roots[i].below), plan[i].subgraph)
<1>1. PICK k \in DOMAIN plan : TRUE
  BY DEF IInv
<1>2. op \in Range(request.ops) /\ OperationCost(op) <= MaxCost
  BY <1>1, OfOperation
<1>3. op.roots \in Seq(Selections) /\ DOMAIN op.roots = 1..Len(op.roots)
  BY <1>2, RootsOfOperation DEF IInv
<1>4. ASSUME NEW i \in DOMAIN plan
      PROVE  /\ i \in RootFields(op) /\ i \in DOMAIN op.roots
             /\ op.roots[i] \in Selections /\ op.roots[i].kind = "field"
             /\ op.roots[i].below \in Seq(Selections)
             /\ plan[i].text[1] = op.roots[i].name
             /\ DOMAIN plan[i].bodies =
                  Extenders(plan[i].type, Flat(op.roots[i].below), plan[i].subgraph)
  <2> DEFINE f == op.roots[i]
             owner == RootOwner(f.name)
  <2>1. /\ i \in RootFields(op) /\ i \in DOMAIN op.roots
        /\ f \in Selections /\ f.kind = "field"
        /\ \E t \in Guesses(Flat(f.below)) : plan[i] = FieldFetch(op, f, t)
    BY OfOperation
  <2>2. PICK t \in Guesses(Flat(f.below)) : plan[i] = FieldFetch(op, f, t)
    BY <2>1
  <2>3. /\ plan[i].subgraph = owner /\ plan[i].type = t
        /\ plan[i].text = RootOperationText(t, f, owner)
        /\ DOMAIN plan[i].bodies = Extenders(t, Flat(f.below), owner)
    BY <2>2, FetchFields
  <2>4. RootOperationText(t, f, owner)[1] = f.name
    BY <2>1, FirstToken
  <2>5. f.below \in Seq(Selections)
    BY <2>1, Children
  <2>6. QED
    BY <2>1, <2>3, <2>4, <2>5
<1>5. QED
  BY <1>2, <1>3, <1>4

\* What a set of requests takes of the cost of a root field: its price for the initial
\* fetch, and one for a field below it that an entity fetch is for.
AskedFor(op, i, j, s) ==
  \E e \in DOMAIN plan[i].bodies :
    /\ EntityRequest(plan[i], e) \in s
    /\ op.roots[i].below[j] \in Chosen(plan[i].type, op.roots[i].below, plan[i].subgraph, e)
Extensions(op, i, s) ==
  [j \in DOMAIN op.roots[i].below |-> IF AskedFor(op, i, j, s) THEN 1 ELSE 0]
InitialPrice(op, i, s) ==
  IF InitialRequest(plan[i]) \in s THEN FieldCost(op.kind, op.roots[i].name) ELSE 0
Spent(op, i, s) ==
  IF i \in DOMAIN plan THEN InitialPrice(op, i, s) + Added(Extensions(op, i, s)) ELSE 0
AllSpent(op, s) == [i \in DOMAIN op.roots |-> Spent(op, i, s)]

LEMMA ExtensionsTyped ==
  ASSUME IInv, sent # {}, NEW op \in PlannedOperation(request), NEW i \in DOMAIN plan, NEW s
  PROVE  /\ Extensions(op, i, s) \in Seq(Nat)
         /\ Len(Extensions(op, i, s)) = Len(op.roots[i].below)
         /\ \A j \in 1..Len(op.roots[i].below) :
              Extensions(op, i, s)[j] = IF AskedFor(op, i, j, s) THEN 1 ELSE 0
         /\ InitialPrice(op, i, s) \in Nat /\ Added(Extensions(op, i, s)) \in Nat
         /\ Spent(op, i, s) = InitialPrice(op, i, s) + Added(Extensions(op, i, s))
         /\ Spent(op, i, s) \in Nat
<1> DEFINE below == op.roots[i].below
           n == Len(below)
           q == Extensions(op, i, s)
           Is(j) == IF AskedFor(op, i, j, s) THEN 1 ELSE 0
<1>1. below \in Seq(Selections)
  BY PaidOperation
<1>2. n \in Nat /\ DOMAIN below = 1..n
  BY <1>1, SeqElements
<1>3. q = [j \in 1..n |-> Is(j)]
  BY <1>2 DEF Extensions
<1>4. \A j \in 1..n : Is(j) \in Nat
  OBVIOUS
<1> HIDE DEF Is, q, n
<1>5. q \in Seq(Nat) /\ Len(q) = n /\ \A j \in 1..n : q[j] = Is(j)
  <2>1. q \in [1..n -> Nat]
    BY <1>3, <1>4
  <2>2. QED
    BY <1>2, <1>3, <2>1
<1>6. Added(q) \in Nat
  BY <1>5, AddsUp
<1>7. InitialPrice(op, i, s) \in Nat
  BY FieldCosts DEF InitialPrice
<1>8. Spent(op, i, s) = InitialPrice(op, i, s) + Added(Extensions(op, i, s))
  BY DEF Spent
<1>9. QED
  BY <1>5, <1>6, <1>7, <1>8 DEF q, n, Is

\* With a request less, less is spent of the root field that it is of.
LEMMA SpentLess ==
  ASSUME IInv, sent # {}, NEW op \in PlannedOperation(request), NEW i \in DOMAIN plan,
         NEW s \in SUBSET sent, NEW x \in s
  PROVE  /\ Spent(op, i, s \ {x}) <= Spent(op, i, s)
         /\ x \in RequestsOf(plan[i]) => Spent(op, i, s \ {x}) + Weight(op, x) <= Spent(op, i, s)
<1> DEFINE r == s \ {x}
           below == op.roots[i].below
           q == Extensions(op, i, r)
           p == Extensions(op, i, s)
           a == InitialPrice(op, i, r)
           b == InitialPrice(op, i, s)
<1>1. /\ q \in Seq(Nat) /\ Len(q) = Len(below) /\ a \in Nat /\ Added(q) \in Nat
      /\ \A j \in 1..Len(below) : q[j] = IF AskedFor(op, i, j, r) THEN 1 ELSE 0
      /\ Spent(op, i, r) = a + Added(q)
  BY ExtensionsTyped
<1>2. /\ p \in Seq(Nat) /\ Len(p) = Len(below) /\ b \in Nat /\ Added(p) \in Nat
      /\ \A j \in 1..Len(below) : p[j] = IF AskedFor(op, i, j, s) THEN 1 ELSE 0
      /\ Spent(op, i, s) = b + Added(p)
  BY ExtensionsTyped
<1>3. \A j : AskedFor(op, i, j, r) => AskedFor(op, i, j, s)
  BY DEF AskedFor
<1>4. a <= b
  <2>1. FieldCost(op.kind, op.roots[i].name) \in Nat
    BY FieldCosts
  <2>2. QED
    BY <2>1 DEF InitialPrice
<1>5. below \in Seq(Selections) /\ op.roots[i] \in Selections
      /\ plan[i].text[1] = op.roots[i].name
      /\ DOMAIN plan[i].bodies = Extenders(plan[i].type, Flat(below), plan[i].subgraph)
  BY PaidOperation
<1> HIDE DEF q, p
<1>6. \A j \in 1..Len(q) : q[j] <= p[j]
  <2> SUFFICES ASSUME NEW j \in 1..Len(below)
               PROVE  q[j] <= p[j]
    BY <1>1
  <2>1. q[j] = IF AskedFor(op, i, j, r) THEN 1 ELSE 0
    BY <1>1
  <2>2. p[j] = IF AskedFor(op, i, j, s) THEN 1 ELSE 0
    BY <1>2
  <2>3. CASE AskedFor(op, i, j, r)
    <3>1. AskedFor(op, i, j, s)
      BY <1>3, <2>3
    <3>2. QED
      BY <2>1, <2>2, <2>3, <3>1
  <2>4. CASE ~ AskedFor(op, i, j, r)
    <3>1. q[j] = 0 /\ p[j] \in {0, 1}
      BY <2>1, <2>2, <2>4
    <3>2. QED
      BY <3>1
  <2>5. QED
    BY <2>3, <2>4
<1>7. /\ Added(q) <= Added(p)
      /\ \A j \in 1..Len(q), w \in Nat : q[j] + w <= p[j] => Added(q) + w <= Added(p)
  BY <1>1, <1>2, <1>6, AddsMore
<1>8. CASE x = InitialRequest(plan[i])
  <2>1. x.entity = FALSE /\ x.text = plan[i].text
    BY <1>8 DEF InitialRequest
  <2>2. Weight(op, x) = FieldCost(op.kind, op.roots[i].name)
    BY <1>5, <2>1 DEF Weight
  <2>3. a = 0 /\ b = Weight(op, x) /\ Weight(op, x) \in Nat
    BY <1>8, <2>2, Weights DEF InitialPrice
  <2> HIDE DEF a, b, r
  <2>4. QED
    BY <1>1, <1>2, <1>7, <2>3 DEF r
<1>9. ASSUME NEW e \in DOMAIN plan[i].bodies, x = EntityRequest(plan[i], e)
      PROVE  Spent(op, i, r) + Weight(op, x) <= Spent(op, i, s)
  <2>1. x.entity = TRUE
    BY <1>9 DEF EntityRequest
  <2>2. Weight(op, x) = 1
    BY <2>1 DEF Weight
  <2>3. PICK c \in Chosen(plan[i].type, below, plan[i].subgraph, e) : TRUE
    BY <1>5, Extended
  <2>4. PICK j \in 1..Len(below) : c = below[j]
    BY <1>5, SeqElements DEF Chosen
  <2>5. AskedFor(op, i, j, s)
    BY <1>9, <2>3, <2>4 DEF AskedFor
  <2>6. ~ AskedFor(op, i, j, r)
    <3> SUFFICES ASSUME NEW d \in DOMAIN plan[i].bodies,
                        EntityRequest(plan[i], d) \in r,
                        below[j] \in Chosen(plan[i].type, below, plan[i].subgraph, d)
                 PROVE  FALSE
      BY DEF AskedFor
    <3>1. d = e
      BY <2>3, <2>4 DEF Chosen
    <3>2. QED
      BY <1>9, <3>1
  <2>7. q[j] = 0 /\ p[j] = 1 /\ j \in 1..Len(q)
    BY <1>1, <1>2, <2>5, <2>6
  <2>8. Added(q) + 1 <= Added(p)
    BY <1>7, <2>7
  <2> HIDE DEF a, b, r
  <2>9. QED
    BY <1>1, <1>2, <1>4, <2>2, <2>8
<1>10. Spent(op, i, r) <= Spent(op, i, s)
  <2> HIDE DEF a, b, r
  <2> QED
    BY <1>1, <1>2, <1>4, <1>7
<1>11. QED
  BY <1>8, <1>9, <1>10 DEF RequestsOf

LEMMA AllSpentTyped ==
  ASSUME IInv, sent # {}, NEW op \in PlannedOperation(request), NEW s
  PROVE  /\ AllSpent(op, s) \in Seq(Nat) /\ Len(AllSpent(op, s)) = Len(op.roots)
         /\ \A i \in 1..Len(op.roots) : AllSpent(op, s)[i] = Spent(op, i, s) /\ Spent(op, i, s) \in Nat
         /\ Added(AllSpent(op, s)) \in Nat
<1> DEFINE n == Len(op.roots)
           q == AllSpent(op, s)
<1>1. DOMAIN op.roots = 1..n /\ n \in Nat
  BY PaidOperation, LenProperties
<1>2. \A i \in 1..n : Spent(op, i, s) \in Nat
  BY ExtensionsTyped DEF Spent
<1>3. q = [i \in 1..n |-> Spent(op, i, s)]
  BY <1>1 DEF AllSpent
<1> HIDE DEF n, q
<1>4. q \in [1..n -> Nat] /\ \A i \in 1..n : q[i] = Spent(op, i, s)
  BY <1>2, <1>3
<1>5. q \in Seq(Nat) /\ Len(q) = n
  BY <1>1, <1>4
<1>6. Added(q) \in Nat
  BY <1>5, AddsUp
<1>7. QED
  BY <1>2, <1>4, <1>5, <1>6 DEF n, q

\* With a request less, less is spent by as much as it counts for.
LEMMA AllSpentLess ==
  ASSUME IInv, sent # {}, NEW op \in PlannedOperation(request), NEW s \in SUBSET sent, NEW x \in s
  PROVE  Weight(op, x) + Added(AllSpent(op, s \ {x})) <= Added(AllSpent(op, s))
<1> DEFINE r == s \ {x}
           q == AllSpent(op, r)
           p == AllSpent(op, s)
           n == Len(op.roots)
           w == Weight(op, x)
<1>1. /\ q \in Seq(Nat) /\ Len(q) = n /\ Added(q) \in Nat
      /\ \A i \in 1..n : q[i] = Spent(op, i, r) /\ Spent(op, i, r) \in Nat
  BY AllSpentTyped
<1>2. /\ p \in Seq(Nat) /\ Len(p) = n /\ Added(p) \in Nat
      /\ \A i \in 1..n : p[i] = Spent(op, i, s) /\ Spent(op, i, s) \in Nat
  BY AllSpentTyped
<1>3. \A i \in 1..n : Spent(op, i, r) <= Spent(op, i, s)
  <2>1. \A i : i \notin DOMAIN plan => Spent(op, i, r) = 0 /\ Spent(op, i, s) = 0
    BY DEF Spent
  <2>2. QED
    BY <2>1, SpentLess
<1>4. w \in Nat
  BY Weights
<1>5. PICK k \in DOMAIN plan : x \in RequestsOf(plan[k])
  BY DEF IInv
<1>6. Spent(op, k, r) + w <= Spent(op, k, s)
  BY <1>5, SpentLess
<1>7. k \in 1..n
  BY PaidOperation
<1> HIDE DEF q, p, r, w, n
<1>8. \A i \in 1..Len(q) : q[i] <= p[i]
  BY <1>1, <1>2, <1>3
<1>9. \A i \in 1..Len(q), v \in Nat : q[i] + v <= p[i] => Added(q) + v <= Added(p)
  BY <1>1, <1>2, <1>8, AddsMore
<1>10. k \in 1..Len(q) /\ q[k] + w <= p[k]
  BY <1>1, <1>2, <1>6, <1>7
<1>11. Added(q) + w <= Added(p)
  BY <1>4, <1>9, <1>10
<1>12. w + Added(q) <= Added(p)
  BY <1>1, <1>4, <1>11
<1>13. QED
  BY <1>12 DEF q, p, r, w

\* Of an operation in which no field below a root field is free, no root field is spent
\* more of than it costs, and all together are within the limit.
LEMMA SpentWithinRoot ==
  ASSUME IInv, sent # {}, NEW op \in PlannedOperation(request), Priced(op), NEW i \in DOMAIN plan,
         NEW cost, Prices(op.kind, cost), cost[op.roots[i]] < MaxU32
  PROVE  Spent(op, i, sent) <= cost[op.roots[i]]
<1> DEFINE f == op.roots[i]
           below == f.below
           q == Extensions(op, i, sent)
           c == CostsOf(cost, below)
           own == FieldCost(op.kind, f.name)
<1>1. /\ i \in RootFields(op) /\ f \in Selections /\ f.kind = "field"
      /\ below \in Seq(Selections)
  BY PaidOperation
<1>2. /\ q \in Seq(Nat) /\ Len(q) = Len(below) /\ Added(q) \in Nat
      /\ \A j \in 1..Len(below) : q[j] = IF AskedFor(op, i, j, sent) THEN 1 ELSE 0
      /\ InitialPrice(op, i, sent) \in Nat
      /\ Spent(op, i, sent) = InitialPrice(op, i, sent) + Added(q)
  BY ExtensionsTyped
<1>3. \A s \in Range(below) : s \in Selections /\ cost[s] \in Nat
  BY <1>1, Children DEF Prices
<1>4. /\ c \in Seq(Nat) /\ Len(c) = Len(below)
      /\ \A j \in 1..Len(below) : c[j] = cost[below[j]]
  BY <1>1, <1>3, CostsTyped
<1>5. Added(c) \in Nat
  BY <1>4, AddsUp
<1>6. cost[f] \in Nat /\ own + Added(c) <= cost[f]
  BY <1>1, FieldIsPaid
<1>7. own \in Nat /\ InitialPrice(op, i, sent) <= own
  <2>1. own \in Nat
    BY FieldCosts
  <2>2. QED
    BY <2>1 DEF InitialPrice
<1> HIDE DEF q, c, own
<1>8. \A j \in 1..Len(q) : q[j] <= c[j]
  <2> SUFFICES ASSUME NEW j \in 1..Len(below)
               PROVE  q[j] <= c[j]
    BY <1>2
  <2> DEFINE s == below[j]
  <2>1. s \in Range(below) /\ s \in Selections /\ cost[s] \in Nat
    BY <1>1, <1>3, SeqElements
  <2>2. q[j] = (IF AskedFor(op, i, j, sent) THEN 1 ELSE 0) /\ c[j] = cost[s]
    BY <1>2, <1>4
  <2>3. AskedFor(op, i, j, sent) => cost[s] > 0
    <3>1. ASSUME AskedFor(op, i, j, sent)
          PROVE  s.kind = "field"
      BY <3>1 DEF AskedFor, Chosen
    <3>2. s.kind = "field" => FieldCost(op.kind, s.name) > 0
      BY <1>1, <2>1 DEF Priced
    <3>3. s.kind = "field" /\ FieldCost(op.kind, s.name) > 0 => cost[s] > 0
      BY <2>1, FieldIsPaid
    <3>4. QED
      BY <3>1, <3>2, <3>3
  <2> HIDE DEF s
  <2>4. QED
    BY <2>1, <2>2, <2>3
<1>9. Added(q) <= Added(c)
  BY <1>2, <1>4, <1>8, AddsMore
<1>10. QED
  BY <1>2, <1>5, <1>6, <1>7, <1>9

LEMMA SpentWithinLimit ==
  ASSUME IInv, sent # {}, NEW op \in PlannedOperation(request), Priced(op)
  PROVE  Added(AllSpent(op, sent)) <= MaxCost
<1>1. /\ op.roots \in Seq(Selections) /\ OperationCost(op) <= MaxCost
  BY PaidOperation
<1>2. PICK cost : /\ Prices(op.kind, cost)
                  /\ \A sels : CostOf(op.kind, sels) = Total(CostsOf(cost, sels))
  BY CostRecursion
<1> DEFINE c == CostsOf(cost, op.roots)
           q == AllSpent(op, sent)
           n == Len(op.roots)
<1>3. /\ Added(c) <= MaxCost
      /\ \A i \in 1..n : cost[op.roots[i]] \in Nat /\ cost[op.roots[i]] < MaxU32
  BY <1>1, <1>2, OperationIsPaid
<1>4. \A s \in Range(op.roots) : cost[s] \in Nat
  BY <1>1, <1>2, SeqElements DEF Prices
<1>5. /\ c \in Seq(Nat) /\ Len(c) = n
      /\ \A i \in 1..n : c[i] = cost[op.roots[i]]
  BY <1>1, <1>4, CostsTyped
<1>6. /\ q \in Seq(Nat) /\ Len(q) = n /\ Added(q) \in Nat
      /\ \A i \in 1..n : q[i] = Spent(op, i, sent)
  BY AllSpentTyped
<1>7. Added(c) \in Nat /\ MaxCost \in Nat
  BY <1>5, AddsUp, OperationAssumption DEF OperationAssumption
<1> HIDE DEF c, q, n
<1>8. \A i \in 1..n : Spent(op, i, sent) <= cost[op.roots[i]]
  <2> SUFFICES ASSUME NEW i \in 1..n
               PROVE  Spent(op, i, sent) <= cost[op.roots[i]]
    OBVIOUS
  <2>1. CASE i \in DOMAIN plan
    BY <1>2, <1>3, <2>1, SpentWithinRoot
  <2>2. CASE i \notin DOMAIN plan
    BY <1>3, <2>2 DEF Spent
  <2>3. QED
    BY <2>1, <2>2
<1>9. \A i \in 1..Len(q) : q[i] <= c[i]
  BY <1>5, <1>6, <1>8
<1>10. Added(q) <= Added(c)
  BY <1>5, <1>6, <1>9, AddsMore
<1>11. Added(q) <= MaxCost
  BY <1>3, <1>6, <1>7, <1>10
<1>12. QED
  BY <1>11 DEF q

LEMMA WithinCost == IInv => SentWithinCost
<1> SUFFICES ASSUME IInv, NEW op \in PlannedOperation(request), Priced(op)
             PROVE  WeightOf(op, sent) <= MaxCost
  BY DEF SentWithinCost, WeightOf
<1> DEFINE B == [s \in SUBSET sent |-> IF sent = {} THEN 0 ELSE Added(AllSpent(op, s))]
<1>1. MaxCost \in Nat /\ IsFiniteSet(sent)
  BY OperationAssumption DEF OperationAssumption, IInv
<1>2. sent # {} => \A s \in SUBSET sent : Added(AllSpent(op, s)) \in Nat
  BY AllSpentTyped
<1>3. B \in [SUBSET sent -> Nat]
  BY <1>2
<1>4. ASSUME NEW s \in SUBSET sent, NEW x \in s
      PROVE  Weight(op, x) + B[s \ {x}] <= B[s]
  <2>1. sent # {} /\ s \ {x} \in SUBSET sent
    OBVIOUS
  <2>2. B[s] = Added(AllSpent(op, s)) /\ B[s \ {x}] = Added(AllSpent(op, s \ {x}))
    BY <2>1
  <2>3. Weight(op, x) + Added(AllSpent(op, s \ {x})) <= Added(AllSpent(op, s))
    BY <2>1, AllSpentLess
  <2> HIDE DEF B
  <2>4. QED
    BY <2>2, <2>3
<1>5. B[sent] <= MaxCost
  BY <1>1, SpentWithinLimit
<1> HIDE DEF B
<1>6. WeightOf(op, sent) \in Nat /\ WeightOf(op, sent) <= B[sent]
  BY <1>1, <1>3, <1>4, SumIsBounded
<1>7. B[sent] \in Nat
  BY <1>3
<1>8. QED
  BY <1>1, <1>5, <1>6, <1>7

\* What the subgraphs are asked to do costs no more than max_cost, and no total of cost.rs
\* wraps or saturates on the way to it: the limit is checked on the tree of the operation
\* that is planned, and the requests are made from its parts.
THEOREM CostIsLimited == Spec => []SentWithinCost
<1>1. QED
  BY Invariance, WithinCost, PTL

=============================================================================
