------------------------ MODULE CircuitBreaker_proofs ------------------------
(***************************************************************************)
(* What CircuitBreaker guarantees for every set of callers, every window,  *)
(* volume, ratio and recovery period.                                      *)
(***************************************************************************)
EXTENDS CircuitBreaker, SequenceTheorems, FiniteSetTheorems, WellFoundedInduction, TLAPS

\* In order: the ages never grow from the front of the deque to its back.
InOrder(s) == \A i, j \in 1..Len(s) : i < j => s[i].age >= s[j].age

AllFresh(s) == \A i \in 1..Len(s) : ~Stale(s[i])

IInv ==
  /\ TypeOK
  /\ SamplesInOrder

-----------------------------------------------------------------------------
\* A nonempty set of natural numbers has a least element.
LEMMA LeastElement ==
  ASSUME NEW S, S \subseteq Nat, S # {}
  PROVE  \E m \in S : \A i \in S : m <= i
<1>1. PICK m \in S : \A i \in S : ~(<<i, m>> \in OpToRel(<, Nat))
  BY NatLessThanWellFounded, WFMin
<1>2. \A i \in S : ~(i < m)
  BY <1>1 DEF OpToRel
<1>3. QED
  BY <1>2

\* What a sequence of samples holds.
LEMMA SampleElements ==
  ASSUME NEW s \in Seq(Sample)
  PROVE  /\ Len(s) \in Nat
         /\ \A i \in 1..Len(s) : /\ s[i] \in Sample
                                 /\ s[i].age \in Int
                                 /\ 0 <= s[i].age /\ s[i].age <= Window + 1
<1>1. Len(s) \in Nat
  BY LenProperties
<1>2. \A i \in 1..Len(s) : s[i] \in Sample
  BY ElementOfSeq
<1>3. \A x \in Sample : x.age \in Int /\ 0 <= x.age /\ x.age <= Window + 1
  BY ConfigAssumption DEF Sample, ConfigAssumption
<1>4. QED
  BY <1>1, <1>2, <1>3

\* prune_static's loop ends: there is always a longest stale prefix to drop.
LEMMA StalePrefixExists ==
  ASSUME NEW s \in Seq(Sample)
  PROVE  /\ StalePrefix(s) \in 0..Len(s)
         /\ \A i \in 1..StalePrefix(s) : Stale(s[i])
         /\ StalePrefix(s) < Len(s) => ~Stale(s[StalePrefix(s) + 1])
<1> DEFINE Fresh == {i \in 1..Len(s) : ~Stale(s[i])}
<1>1. Len(s) \in Nat
  OBVIOUS
<1>2. \E k \in 0..Len(s) : /\ \A i \in 1..k : Stale(s[i])
                           /\ k < Len(s) => ~Stale(s[k + 1])
  <2>1. CASE Fresh = {}
    BY <2>1, <1>1
  <2>2. CASE Fresh # {}
    <3>1. PICK m \in Fresh : \A i \in Fresh : m <= i
      <4>1. Fresh \subseteq Nat
        BY <1>1
      <4> HIDE DEF Fresh
      <4>2. QED
        BY <4>1, <2>2, LeastElement
    <3>2. WITNESS m - 1 \in 0..Len(s)
    <3>3. QED
      BY <3>1, <1>1
  <2>3. QED
    BY <2>1, <2>2
<1>3. QED
  BY <1>2 DEF StalePrefix

\* Pruning leaves a sequence of samples in order, all of them fresh; only the
\* order of the samples makes the second half true.
LEMMA PruneProperties ==
  ASSUME NEW s \in Seq(Sample), InOrder(s)
  PROVE  /\ Prune(s) \in Seq(Sample)
         /\ InOrder(Prune(s))
         /\ AllFresh(Prune(s))
<1> DEFINE k == StalePrefix(s)
           n == Len(s)
<1>1. /\ k \in 0..n
      /\ k < n => ~Stale(s[k + 1])
  BY StalePrefixExists
<1>2. n \in Nat /\ \A i \in 1..n : s[i] \in Sample /\ s[i].age \in Int
  BY SampleElements
<1> HIDE DEF k, n
<1>3. /\ SubSeq(s, k + 1, n) \in Seq(Sample)
      /\ Len(SubSeq(s, k + 1, n)) = n - k
      /\ \A i \in 1..(n - k) : SubSeq(s, k + 1, n)[i] = s[k + i]
  <2>1. \A i \in (k + 1)..n : s[i] \in Sample
    BY <1>1, <1>2
  <2>2. k + 1 \in Int /\ n \in Int
    BY <1>1, <1>2
  <2>3. /\ SubSeq(s, k + 1, n) \in Seq(Sample)
        /\ Len(SubSeq(s, k + 1, n)) = IF k + 1 <= n THEN n - (k + 1) + 1 ELSE 0
        /\ \A i \in 1..(n - (k + 1) + 1) : SubSeq(s, k + 1, n)[i] = s[(k + 1) + i - 1]
    BY <2>1, <2>2, SubSeqProperties
  <2>4. QED
    BY <2>3, <1>1, <1>2
<1>4. Prune(s) = SubSeq(s, k + 1, n)
  BY DEF Prune, k, n
<1>5. InOrder(Prune(s))
  BY <1>1, <1>2, <1>3, <1>4 DEF InOrder, n
<1>6. AllFresh(Prune(s))
  <2>1. SUFFICES ASSUME NEW i \in 1..(n - k)
                 PROVE  ~Stale(s[k + i])
    BY <1>3, <1>4 DEF AllFresh
  <2>2. /\ k + 1 \in 1..n /\ k + i \in 1..n
        /\ k < n
    BY <1>1, <1>2
  <2>3. s[k + 1].age >= s[k + i].age
    BY <2>2, <1>1, <1>2 DEF InOrder, n
  <2>4. s[k + 1].age \in Int /\ s[k + i].age \in Int
    BY <2>2, <1>2
  <2>5. QED
    BY <2>2, <2>3, <2>4, <1>1, ConfigAssumption DEF Stale, ConfigAssumption
<1>7. QED
  BY <1>3, <1>4, <1>5, <1>6

\* Recording appends the newest sample behind the fresh ones.
LEMMA ObserveProperties ==
  ASSUME NEW s \in Seq(Sample), InOrder(s), NEW ok \in BOOLEAN
  PROVE  /\ Observe(s, ok) \in Seq(Sample)
         /\ InOrder(Observe(s, ok))
         /\ AllFresh(Observe(s, ok))
         /\ Len(Observe(s, ok)) > 0
         /\ Observe(s, ok)[Len(Observe(s, ok))].success = ok
<1> DEFINE p == Prune(s)
           e == [age |-> 0, success |-> ok]
<1>1. p \in Seq(Sample) /\ InOrder(p) /\ AllFresh(p)
  BY PruneProperties
<1>2. e \in Sample /\ ~Stale(e) /\ e.age = 0 /\ e.success = ok
  BY ConfigAssumption DEF ConfigAssumption, Sample, Stale
<1> DEFINE q == Append(p, e)
<1>3. Observe(s, ok) = q
  BY DEF Observe
<1> HIDE DEF p, e
<1>4. /\ q \in Seq(Sample)
      /\ Len(q) = Len(p) + 1
      /\ \A i \in 1..Len(p) : q[i] = p[i]
      /\ q[Len(p) + 1] = e
  BY <1>1, <1>2, AppendProperties
<1> HIDE DEF q
<1>5. Len(p) \in Nat /\ \A i \in 1..Len(p) : p[i].age \in Int /\ 0 <= p[i].age
  BY <1>1, SampleElements
<1>6. InOrder(q)
  BY <1>1, <1>2, <1>4, <1>5 DEF InOrder
<1>7. AllFresh(q)
  BY <1>1, <1>2, <1>4, <1>5 DEF AllFresh
<1>8. QED
  BY <1>2, <1>3, <1>4, <1>5, <1>6, <1>7

\* The clock ages every sample and keeps their order.
LEMMA OlderProperties ==
  ASSUME NEW s \in Seq(Sample), InOrder(s)
  PROVE  /\ [i \in 1..Len(s) |-> Older(s[i])] \in Seq(Sample)
         /\ InOrder([i \in 1..Len(s) |-> Older(s[i])])
<1> DEFINE t == [i \in 1..Len(s) |-> Older(s[i])]
<1>1. Len(s) \in Nat /\ \A i \in 1..Len(s) : s[i] \in Sample
  BY SampleElements
<1>2. ASSUME NEW x \in Sample
      PROVE  /\ Older(x) \in Sample
             /\ Older(x).age = IF x.age > Window THEN x.age ELSE x.age + 1
  <2>1. CASE Stale(x)
    BY <2>1 DEF Older, Sample, Stale
  <2>2. CASE ~Stale(x)
    BY <2>2, ConfigAssumption DEF Older, Sample, Stale, ConfigAssumption
  <2>3. QED
    BY <2>1, <2>2
<1>3. t \in Seq(Sample) /\ Len(t) = Len(s)
  BY <1>1, <1>2
<1>4. \A i \in 1..Len(s) : s[i].age \in Int /\ 0 <= s[i].age /\ s[i].age <= Window + 1
  BY SampleElements
<1>5. InOrder(t)
  <2>1. SUFFICES ASSUME NEW i \in 1..Len(s), NEW j \in 1..Len(s), i < j
                 PROVE  t[i].age >= t[j].age
    BY <1>3 DEF InOrder
  <2>2. s[i].age >= s[j].age
    BY <2>1, <1>1 DEF InOrder
  <2>3. QED
    BY <2>2, <1>1, <1>2, <1>4, ConfigAssumption DEF ConfigAssumption
<1>6. QED
  BY <1>3, <1>5

-----------------------------------------------------------------------------
\* A new breaker has no samples.
LEMMA InitIInv == Init => IInv
<1>1. <<>> \in Seq(Sample) /\ Len(<<>>) = 0
  BY EmptySeq
<1>2. QED
  BY <1>1, ConfigAssumption
  DEF Init, IInv, TypeOK, SamplesInOrder, ConfigAssumption

\* IInv is inductive: one step per operation of the breaker.
LEMMA NextIInv == IInv /\ [Next]_vars => IInv'
<1> SUFFICES ASSUME IInv, [Next]_vars
             PROVE  IInv'
  OBVIOUS
<1>0. TypeOK /\ samples \in Seq(Sample) /\ InOrder(samples)
  BY DEF IInv, TypeOK, SamplesInOrder, InOrder
<1>P. Prune(samples) \in Seq(Sample) /\ InOrder(Prune(samples))
  BY <1>0, PruneProperties
<1>S. ASSUME samples' \in Seq(Sample),
             InOrder(samples'),
             state' \in {"Closed", "Open", "HalfOpen"},
             wait' \in 0..Recovery,
             inflight' \in SUBSET Calls
      PROVE  IInv'
  BY <1>S DEF IInv, TypeOK, SamplesInOrder, InOrder
<1>1. ASSUME NEW c \in Calls, Admit(c)
      PROVE  IInv'
  BY <1>0, <1>P, <1>1, <1>S DEF Admit, TypeOK
<1>2. ASSUME NEW c \in Calls, Reject(c)
      PROVE  IInv'
  BY <1>0, <1>P, <1>2, <1>S DEF Reject, TypeOK
<1>3. ASSUME NEW c \in Calls, Abandon(c)
      PROVE  IInv'
  BY <1>0, <1>3, <1>S DEF Abandon, TypeOK
<1>4. ASSUME NEW c \in Calls, NEW ok \in BOOLEAN, Record(c, ok)
      PROVE  IInv'
  <2>1. samples' = Observe(samples, ok) /\ inflight' = inflight \ {c}
    BY <1>4 DEF Record, RecordHalfOpen, RecordClosed, RecordOpen
  <2>2. samples' \in Seq(Sample) /\ InOrder(samples')
    BY <1>0, <2>1, ObserveProperties
  <2>3. state' \in {"Closed", "Open", "HalfOpen"} /\ wait' \in 0..Recovery
    BY <1>0, <1>4, ConfigAssumption
    DEF Record, RecordHalfOpen, RecordClosed, RecordOpen, TypeOK, ConfigAssumption
  <2>4. QED
    BY <1>0, <1>S, <2>1, <2>2, <2>3 DEF TypeOK
<1>5. ASSUME Tick
      PROVE  IInv'
  <2>1. samples' \in Seq(Sample) /\ InOrder(samples')
    BY <1>0, <1>5, OlderProperties DEF Tick
  <2>2. wait' \in 0..Recovery
    BY <1>0, <1>5, ConfigAssumption DEF Tick, TypeOK, ConfigAssumption
  <2>3. QED
    BY <1>0, <1>5, <1>S, <2>1, <2>2 DEF Tick, TypeOK
<1>6. ASSUME UNCHANGED vars
      PROVE  IInv'
  BY <1>0, <1>6, <1>S DEF vars, TypeOK
<1>7. QED
  BY <1>1, <1>2, <1>3, <1>4, <1>5, <1>6 DEF Next

\* Every reachable breaker is well typed, with its samples in the order of
\* their instants.
THEOREM BreakerInvariant == Spec => []IInv
  BY InitIInv, NextIInv, PTL DEF Spec

\* The breaker keeps its types.
THEOREM TypeCorrect == Spec => []TypeOK
  BY BreakerInvariant, PTL DEF IInv

\* The order prune_static relies on is kept by all interleavings.
THEOREM SamplesStayInOrder == Spec => []SamplesInOrder
  BY BreakerInvariant, PTL DEF IInv

-----------------------------------------------------------------------------
\* No check() and no record() leaves an outcome older than the window behind,
\* so none takes part in a failure ratio.
THEOREM OnlyFreshSamples == Spec => FreshSamplesOnly
<1> DEFINE A == \/ Tick
               \/ samples' = samples
               \/ \A i \in 1..Len(samples') : ~Stale(samples'[i])
<1>1. ASSUME IInv, [Next]_vars
      PROVE  [A]_vars
  <2>0. samples \in Seq(Sample) /\ InOrder(samples)
    BY <1>1 DEF IInv, TypeOK, SamplesInOrder, InOrder
  <2>1. ASSUME NEW c \in Calls, Admit(c) \/ Reject(c) \/ Abandon(c)
        PROVE  A
    <3>1. samples' = Prune(samples) \/ samples' = samples
      BY <2>1 DEF Admit, Reject, Abandon
    <3>2. AllFresh(Prune(samples))
      BY <2>0, PruneProperties
    <3>3. QED
      BY <3>1, <3>2 DEF AllFresh
  <2>2. ASSUME NEW c \in Calls, NEW ok \in BOOLEAN, Record(c, ok)
        PROVE  A
    <3>1. samples' = Observe(samples, ok)
      BY <2>2 DEF Record, RecordHalfOpen, RecordClosed, RecordOpen
    <3>2. AllFresh(Observe(samples, ok))
      BY <2>0, ObserveProperties
    <3>3. QED
      BY <3>1, <3>2 DEF AllFresh
  <2>3. QED
    BY <1>1, <2>1, <2>2 DEF Next
<1>2. QED
  BY <1>1, BreakerInvariant, PTL DEF Spec, FreshSamplesOnly

\* The recovery period, once started, runs its course.
THEOREM OpenPeriodIsHonoured == Spec => OpenPeriodHonoured
<1> DEFINE A == state = "Open" /\ wait > 0
                  => /\ state' = "Open"
                     /\ wait' \in {wait, wait - 1}
                     /\ inflight' \subseteq inflight
<1>1. ASSUME IInv, [Next]_vars
      PROVE  [A]_vars
  <2>0. TypeOK
    BY <1>1 DEF IInv
  <2>1. ASSUME NEW c \in Calls, Admit(c) \/ Reject(c) \/ Abandon(c)
        PROVE  A
    BY <2>0, <2>1, ConfigAssumption DEF Admit, Reject, Abandon, TypeOK, ConfigAssumption
  <2>2. ASSUME NEW c \in Calls, NEW ok \in BOOLEAN, Record(c, ok)
        PROVE  A
    BY <2>2 DEF Record, RecordHalfOpen, RecordClosed, RecordOpen
  <2>3. ASSUME Tick
        PROVE  A
    BY <2>3 DEF Tick
  <2>4. QED
    BY <1>1, <2>1, <2>2, <2>3 DEF Next
<1>2. QED
  BY <1>1, BreakerInvariant, PTL DEF Spec, OpenPeriodHonoured

\* A breaker that trips holds at least one failed outcome.
LEMMA TripsOnFailure ==
  ASSUME NEW s \in Seq(Sample), Len(s) > 0, Trips(s)
  PROVE  \E i \in 1..Len(s) : ~s[i].success
<1>1. SUFFICES ASSUME Failures(s) = {}
               PROVE  FALSE
  BY DEF Failures
<1>2. Cardinality(Failures(s)) = 0
  BY <1>1, FS_EmptySet
<1>3. 0 * RatioDen >= RatioNum * Len(s)
  BY <1>2 DEF Trips
<1>4. 0 * RatioDen = 0
  BY ConfigAssumption DEF ConfigAssumption
<1>5. RatioNum * Len(s) > 0
  <2>1. \A x, y \in Nat : x > 0 /\ y > 0 => x * y > 0
    OBVIOUS
  <2>2. QED
    BY <2>1, LenProperties, ConfigAssumption DEF ConfigAssumption
<1>6. QED
  BY <1>3, <1>4, <1>5, LenProperties, ConfigAssumption DEF ConfigAssumption

\* The breaker never opens without a recent failure, nor from closed without
\* the configured volume and ratio.
THEOREM OpensOnlyOnEvidence == Spec => OpensOnEvidence
<1> DEFINE A == state # "Open" /\ state' = "Open"
                  => /\ \E i \in 1..Len(samples') : ~samples'[i].success /\ ~Stale(samples'[i])
                     /\ state = "Closed" => Trips(samples')
<1>1. ASSUME IInv, [Next]_vars
      PROVE  [A]_vars
  <2>0. samples \in Seq(Sample) /\ InOrder(samples)
    BY <1>1 DEF IInv, TypeOK, SamplesInOrder, InOrder
  <2>1. ASSUME NEW c \in Calls, Admit(c) \/ Reject(c) \/ Abandon(c)
        PROVE  A
    BY <2>1 DEF Admit, Reject, Abandon
  <2>2. ASSUME NEW c \in Calls, NEW ok \in BOOLEAN, Record(c, ok)
        PROVE  A
    <3>0. /\ Observe(samples, ok) \in Seq(Sample)
          /\ AllFresh(Observe(samples, ok))
          /\ Len(Observe(samples, ok)) > 0
          /\ Observe(samples, ok)[Len(Observe(samples, ok))].success = ok
      BY <2>0, ObserveProperties
    <3>1. CASE RecordHalfOpen(c, ok)
      <4>1. SUFFICES ASSUME state' = "Open"
                     PROVE  \E i \in 1..Len(samples') : ~samples'[i].success /\ ~Stale(samples'[i])
        BY <3>1 DEF RecordHalfOpen
      <4>2. samples' = Observe(samples, ok) /\ ok = FALSE
        BY <3>1, <4>1 DEF RecordHalfOpen
      <4>3. Len(samples') \in 1..Len(samples')
        BY <3>0, <4>2, LenProperties
      <4>4. QED
        BY <3>0, <4>2, <4>3 DEF AllFresh
    <3>2. CASE RecordClosed(c, ok)
      <4>1. SUFFICES ASSUME state' = "Open", state # "Open"
                     PROVE  A
        OBVIOUS
      <4>2. samples' = Observe(samples, ok) /\ Trips(samples')
        BY <3>2, <4>1 DEF RecordClosed
      <4>3. \E i \in 1..Len(samples') : ~samples'[i].success
        BY <3>0, <4>2, TripsOnFailure
      <4>4. QED
        BY <3>0, <4>2, <4>3 DEF AllFresh
    <3>3. CASE RecordOpen(c, ok)
      BY <3>3 DEF RecordOpen
    <3>4. QED
      BY <2>2, <3>1, <3>2, <3>3 DEF Record
  <2>3. ASSUME Tick
        PROVE  A
    BY <2>3 DEF Tick
  <2>4. QED
    BY <1>1, <2>1, <2>2, <2>3 DEF Next, vars
<1>2. QED
  BY <1>1, BreakerInvariant, PTL DEF Spec, OpensOnEvidence

=============================================================================
