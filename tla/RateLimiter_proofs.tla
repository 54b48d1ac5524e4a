------------------------- MODULE RateLimiter_proofs -------------------------
(***************************************************************************)
(* The quota and the Retry-After of RateLimiter for every set of clients,  *)
(* every number of tasks and every configured rate, zero included.         *)
(***************************************************************************)
EXTENDS RateLimiter, SequenceTheorems, TLAPS

Made(c) == bucketOf[c] # 0

\* A client has one bucket, which its tasks hold; without one it has no history.
Bucketed ==
  /\ \A c, d \in Clients : Made(c) /\ bucketOf[c] = bucketOf[d] => c = d
  /\ \A w \in Workers : pc[w] = "checking" => held[w] = bucketOf[ClientOf[w]]
  /\ \A c \in Clients : ~Made(c) => admitted[c] = <<>>
  /\ \A x \in told : Made(x.client)

\* The tat is an interval ahead of each admission for every one since, and it is
\* never further ahead of the clock than the tolerance and an interval.
Paced ==
  \A c \in Clients : Made(c) =>
    /\ tats[bucketOf[c]] <= now + Tolerance(c) + Interval(c)
    /\ \A i \in 1..Len(admitted[c]) :
         admitted[c][i] + ((Len(admitted[c]) - i) + 1) * Interval(c) <= tats[bucketOf[c]]

\* Nobody has to wait longer than an interval.
Waiting ==
  \A x \in told :
    /\ x.at <= now
    /\ 1 <= x.after
    /\ tats[bucketOf[x.client]] - Tolerance(x.client) <= x.at + Interval(x.client)

IInv ==
  /\ TypeOK
  /\ Bucketed
  /\ Paced
  /\ Waiting
  /\ QuotaHolds
  /\ RetryAfterSuffices

-----------------------------------------------------------------------------
LEMMA DivBounds ==
  ASSUME NEW a \in Nat, NEW b \in Nat \ {0}
  PROVE  a \div b \in Nat /\ a \div b <= a
OBVIOUS

\* An interval is at most a second, because a rate is at least one.
LEMMA QuotaNumbers ==
  ASSUME NEW c \in Clients
  PROVE  /\ Interval(c) \in Nat
         /\ Interval(c) <= Second
         /\ Tolerance(c) \in Nat
         /\ Interval(c) <= Tolerance(c)
<1>1. Quota(c).rps \in Nat /\ Quota(c).burst \in Nat
  BY LimiterAssumption DEF Quota, Configured
<1>2. AtLeastOne(Quota(c).rps) \in Nat \ {0} /\ AtLeastOne(Quota(c).burst) \in Nat \ {0}
  BY <1>1 DEF AtLeastOne
<1>3. Interval(c) \in Nat /\ Interval(c) <= Second
  BY <1>2, DivBounds, LimiterAssumption DEF Interval
<1>4. AtLeastOne(Quota(c).burst) * Interval(c) \in Nat
  BY <1>2, <1>3
<1>5. Interval(c) <= AtLeastOne(Quota(c).burst) * Interval(c)
  <2> DEFINE n == AtLeastOne(Quota(c).burst)
             step == Interval(c)
  <2>1. n \in Nat /\ 1 <= n /\ step \in Nat
    BY <1>2, <1>3
  <2> HIDE DEF n, step
  <2>2. step <= n * step
    BY <2>1
  <2>3. QED
    BY <2>2 DEF n, step
<1>6. QED
  BY <1>3, <1>4, <1>5 DEF Tolerance

LEMMA RetryAfterSeconds ==
  ASSUME NEW wait \in Nat
  PROVE  RetryAfter(wait) \in Nat /\ 1 <= RetryAfter(wait)
BY DivBounds, LimiterAssumption DEF RetryAfter, AtLeastOne

\* What the invariant says of the bucket that a checking task holds.
LEMMA HeldBucket ==
  ASSUME IInv, NEW w \in Workers, pc[w] = "checking"
  PROVE  /\ ClientOf[w] \in Clients
         /\ Made(ClientOf[w])
         /\ held[w] = bucketOf[ClientOf[w]]
         /\ held[w] \in 1..Len(tats)
         /\ tats[held[w]] \in Nat
<1>1. ClientOf[w] \in Clients /\ held[w] = bucketOf[ClientOf[w]] /\ held[w] \in 1..Len(tats)
  BY LimiterAssumption DEF IInv, TypeOK, Bucketed
<1>2. tats[held[w]] \in Nat
  BY <1>1, ElementOfSeq DEF IInv, TypeOK
<1>3. QED
  BY <1>1, <1>2 DEF Made, IInv, TypeOK

\* The tat that a check goes by is the bucket's, or the starting one; with the
\* starting one nobody is refused.
LEMMA TatBounds ==
  ASSUME IInv, NEW w \in Workers, pc[w] = "checking"
  PROVE  /\ Tat(w) \in Nat
         /\ tats[held[w]] <= Tat(w)
         /\ Tat(w) <= now + Tolerance(ClientOf[w]) + Interval(ClientOf[w])
         /\ now < Tat(w) - Tolerance(ClientOf[w]) => Tat(w) = tats[held[w]]
<1> DEFINE c == ClientOf[w]
<1>1. /\ c \in Clients /\ Made(c) /\ held[w] = bucketOf[c] /\ tats[held[w]] \in Nat
      /\ now \in Nat
  BY HeldBucket DEF IInv, TypeOK
<1>2. /\ Interval(c) \in Nat /\ Tolerance(c) \in Nat /\ Interval(c) <= Tolerance(c)
  BY <1>1, QuotaNumbers
<1>3. tats[held[w]] <= now + Tolerance(c) + Interval(c)
  BY <1>1 DEF IInv, Paced
<1> HIDE DEF c
<1>4. CASE tats[held[w]] = Unset
  <2>1. Tat(w) = now + Interval(c)
    BY <1>4 DEF Tat, c
  <2>2. QED
    BY <2>1, <1>1, <1>2, <1>4 DEF Unset, c
<1>5. CASE tats[held[w]] # Unset
  <2>1. Tat(w) = tats[held[w]]
    BY <1>5 DEF Tat
  <2>2. QED
    BY <2>1, <1>1, <1>3 DEF c
<1>6. QED
  BY <1>4, <1>5

LEMMA InitIInv == Init => IInv
<1> SUFFICES ASSUME Init PROVE IInv
  OBVIOUS
<1>1. TypeOK
  <2>1. tats \in Seq(Nat) /\ Len(tats) = 0
    BY DEF Init
  <2>2. admitted \in [Clients -> Seq(Nat)]
    BY DEF Init
  <2>3. QED
    BY <2>1, <2>2 DEF Init, TypeOK
<1>2. QED
  BY <1>1 DEF Init, IInv, Bucketed, Paced, Waiting, QuotaHolds, RetryAfterSuffices, Made

-----------------------------------------------------------------------------
(* The steps *)

LEMMA CrashIInv == Crash => IInv'
<1> SUFFICES ASSUME Crash PROVE IInv'
  OBVIOUS
<1>1. TypeOK'
  <2>1. tats' \in Seq(Nat) /\ Len(tats') = 0
    BY DEF Crash
  <2>2. admitted' \in [Clients -> Seq(Nat)]
    BY DEF Crash
  <2>3. QED
    BY <2>1, <2>2 DEF Crash, TypeOK
<1>2. QED
  BY <1>1 DEF Crash, IInv, Bucketed, Paced, Waiting, QuotaHolds, RetryAfterSuffices, Made

LEMMA LimiterForIInv ==
  ASSUME IInv, NEW w \in Workers, LimiterFor(w)
  PROVE  IInv'
<1> DEFINE c == ClientOf[w]
<1> c \in Clients
  BY LimiterAssumption
<1>1. CASE Made(c)
  <2>1. tats' = tats /\ bucketOf' = bucketOf /\ held' = [held EXCEPT ![w] = bucketOf[c]]
    BY <1>1 DEF LimiterFor, Goto, Made
  <2>2. TypeOK'
    <3>1. bucketOf[c] \in 1..Len(tats)
      BY <1>1 DEF Made, IInv, TypeOK
    <3>2. QED
      BY <2>1, <3>1 DEF LimiterFor, Goto, IInv, TypeOK
  <2>3. Bucketed'
    BY <2>1 DEF LimiterFor, Goto, IInv, TypeOK, Bucketed, Made
  <2>4. (Paced /\ Waiting /\ QuotaHolds /\ RetryAfterSuffices)'
    BY <2>1 DEF LimiterFor, Goto, IInv, Paced, Waiting, QuotaHolds, RetryAfterSuffices, Made
  <2>5. QED
    BY <2>2, <2>3, <2>4 DEF IInv
<1>2. CASE ~Made(c)
  <2> DEFINE tat == Unset
  <2>1. tat \in Nat
    BY DEF Unset
  <2>2. /\ tats' = Append(tats, tat)
        /\ bucketOf' = [bucketOf EXCEPT ![c] = Len(tats')]
        /\ held' = [held EXCEPT ![w] = bucketOf'[c]]
        /\ pc' = [pc EXCEPT ![w] = "checking"]
        /\ UNCHANGED <<now, admitted, told>>
    BY <1>2 DEF LimiterFor, Goto, Made
  <2>3. /\ tats' \in Seq(Nat)
        /\ Len(tats') = Len(tats) + 1
        /\ tats'[Len(tats) + 1] = tat
        /\ \A i \in 1..Len(tats) : tats'[i] = tats[i]
    BY <2>1, <2>2, AppendProperties DEF IInv, TypeOK
  <2>4. \A d \in Clients : bucketOf[d] \in 0..Len(tats)
    BY DEF IInv, TypeOK
  <2>5. /\ bucketOf'[c] = Len(tats) + 1
        /\ \A d \in Clients \ {c} : bucketOf'[d] = bucketOf[d]
    BY <2>2, <2>3 DEF IInv, TypeOK
  <2>6. Len(tats) \in Nat
    BY DEF IInv, TypeOK
  <2>7. TypeOK'
    <3>1. bucketOf' \in [Clients -> 0..Len(tats')]
      BY <2>2, <2>3, <2>4, <2>5, <2>6 DEF IInv, TypeOK
    <3>2. held' \in [Workers -> Nat]
      BY <2>2, <2>5, <2>6 DEF IInv, TypeOK
    <3>3. \A v \in Workers : pc'[v] = "checking" => held'[v] \in 1..Len(tats')
      BY <2>2, <2>3, <2>5, <2>6 DEF IInv, TypeOK
    <3>4. QED
      BY <2>2, <2>3, <3>1, <3>2, <3>3 DEF IInv, TypeOK
  <2>8. Bucketed'
    <3>1. \A d, e \in Clients : Made(d)' /\ bucketOf'[d] = bucketOf'[e] => d = e
      BY <2>4, <2>5, <2>6 DEF IInv, Bucketed, Made
    <3>2. \A v \in Workers : pc'[v] = "checking" => held'[v] = bucketOf'[ClientOf[v]]
      <4> SUFFICES ASSUME NEW v \in Workers, pc'[v] = "checking"
                   PROVE  held'[v] = bucketOf'[ClientOf[v]]
        OBVIOUS
      <4>1. CASE v = w
        BY <4>1, <2>2 DEF IInv, TypeOK
      <4>2. CASE v # w
        <5>1. pc[v] = "checking" /\ held'[v] = held[v]
          BY <4>2, <2>2 DEF IInv, TypeOK
        <5>2. ClientOf[v] # c /\ held[v] = bucketOf[ClientOf[v]] /\ ClientOf[v] \in Clients
          BY <5>1, HeldBucket, <1>2
        <5>3. QED
          BY <5>1, <5>2, <2>5
      <4>3. QED
        BY <4>1, <4>2
    <3>3. \A d \in Clients : ~Made(d)' => admitted'[d] = <<>>
      BY <2>2, <2>5, <2>6 DEF IInv, Bucketed, Made
    <3>4. \A x \in told' : Made(x.client)'
      BY <2>2, <2>5, <2>6 DEF IInv, TypeOK, Refusal, Bucketed, Made
    <3>5. QED
      BY <3>1, <3>2, <3>3, <3>4 DEF Bucketed
  <2>9. Paced'
    <3> SUFFICES ASSUME NEW d \in Clients, Made(d)'
                 PROVE  /\ tats'[bucketOf'[d]] <= now' + Tolerance(d) + Interval(d)
                        /\ \A i \in 1..Len(admitted'[d]) :
                             admitted'[d][i] + ((Len(admitted'[d]) - i) + 1) * Interval(d)
                               <= tats'[bucketOf'[d]]
      BY DEF Paced
    <3>1. CASE d = c
      <4>1. admitted'[d] = <<>> /\ tats'[bucketOf'[d]] = tat
        BY <3>1, <1>2, <2>2, <2>3, <2>5 DEF IInv, Bucketed
      <4>2. QED
        BY <3>1, <4>1, <2>2, QuotaNumbers DEF IInv, TypeOK, Unset
    <3>2. CASE d # c
      <4>1. Made(d) /\ tats'[bucketOf'[d]] = tats[bucketOf[d]]
        BY <3>2, <2>3, <2>4, <2>5 DEF Made
      <4>2. QED
        BY <4>1, <2>2 DEF IInv, Paced
    <3>3. QED
      BY <3>1, <3>2
  <2>10. Waiting'
    <3> SUFFICES ASSUME NEW x \in told
                 PROVE  /\ x.at <= now
                        /\ 1 <= x.after
                        /\ tats'[bucketOf'[x.client]] - Tolerance(x.client)
                             <= x.at + Interval(x.client)
      BY <2>2 DEF Waiting
    <3>1. x.client \in Clients /\ Made(x.client)
      BY DEF IInv, TypeOK, Refusal, Bucketed
    <3>2. tats'[bucketOf'[x.client]] = tats[bucketOf[x.client]]
      BY <3>1, <1>2, <2>3, <2>4, <2>5 DEF Made
    <3>3. QED
      BY <3>2 DEF IInv, Waiting
  <2>11. (QuotaHolds /\ RetryAfterSuffices)'
    BY <2>2 DEF IInv, QuotaHolds, RetryAfterSuffices
  <2>12. QED
    BY <2>7, <2>8, <2>9, <2>10, <2>11 DEF IInv
<1>3. QED
  BY <1>1, <1>2

LEMMA AdmitIInv ==
  ASSUME IInv, NEW w \in Workers, Admit(w)
  PROVE  IInv'
<1> DEFINE c == ClientOf[w]
           b == held[w]
           tat == Later(Tat(w), now) + Interval(c)
           n == Len(admitted[c])
<1>1. /\ pc[w] = "checking"
      /\ now >= Tat(w) - Tolerance(c)
      /\ tats' = [tats EXCEPT ![b] = tat]
      /\ admitted' = [admitted EXCEPT ![c] = Append(admitted[c], now)]
      /\ told' = {x \in told : x.client # c}
      /\ pc' = [pc EXCEPT ![w] = "idle"]
      /\ UNCHANGED <<now, bucketOf, held>>
  BY DEF Admit, Goto
<1>2. c \in Clients /\ Made(c) /\ b = bucketOf[c] /\ b \in 1..Len(tats) /\ tats[b] \in Nat
  BY <1>1, HeldBucket
<1>3. Interval(c) \in Nat /\ Tolerance(c) \in Nat /\ now \in Nat
  BY <1>2, QuotaNumbers DEF IInv, TypeOK
<1>4. /\ tat \in Nat
      /\ tats[b] + Interval(c) <= tat
      /\ now + Interval(c) <= tat
      /\ tat <= now + Tolerance(c) + Interval(c)
      /\ now >= tats[b] - Tolerance(c)
  <2>1. Tat(w) \in Nat /\ tats[b] <= Tat(w)
    BY <1>1, TatBounds
  <2>2. now >= Tat(w) - Tolerance(c) /\ tats[b] \in Nat
    BY <1>1, <1>2
  <2> HIDE DEF c, b
  <2>3. QED
    BY <2>1, <2>2, <1>3 DEF Later
<1>5. /\ tats' \in Seq(Nat)
      /\ Len(tats') = Len(tats)
      /\ tats'[b] = tat
      /\ \A i \in 1..Len(tats) : i # b => tats'[i] = tats[i]
  BY <1>1, <1>2, <1>4, ExceptSeq DEF IInv, TypeOK
<1>6. \A d \in Clients : d # c /\ Made(d) => tats'[bucketOf'[d]] = tats[bucketOf[d]]
  <2> SUFFICES ASSUME NEW d \in Clients, d # c, Made(d)
               PROVE  tats'[bucketOf'[d]] = tats[bucketOf[d]]
    OBVIOUS
  <2>1. bucketOf[d] # b /\ bucketOf[d] \in 1..Len(tats)
    BY <1>2 DEF IInv, TypeOK, Bucketed, Made
  <2>2. QED
    BY <2>1, <1>1, <1>5
<1>7. n \in Nat /\ admitted[c] \in Seq(Nat)
  BY <1>2 DEF IInv, TypeOK
<1>8. /\ admitted'[c] \in Seq(Nat)
      /\ Len(admitted'[c]) = n + 1
      /\ admitted'[c][n + 1] = now
      /\ \A i \in 1..n : admitted'[c][i] = admitted[c][i]
      /\ \A d \in Clients : d # c => admitted'[d] = admitted[d]
  <2>1. admitted'[c] = Append(admitted[c], now)
    BY <1>1, <1>2 DEF IInv, TypeOK
  <2>2. QED
    BY <2>1, <1>1, <1>3, <1>7, AppendProperties DEF IInv, TypeOK
<1>9. TypeOK'
  <2>1. admitted' \in [Clients -> Seq(Nat)]
    BY <1>1, <1>2, <1>8 DEF IInv, TypeOK
  <2>2. QED
    BY <1>1, <1>5, <2>1 DEF IInv, TypeOK
<1>10. Bucketed'
  <2>1. \A d \in Clients : ~Made(d)' => admitted'[d] = <<>>
    BY <1>1, <1>2, <1>8 DEF IInv, Bucketed, Made
  <2>2. QED
    BY <1>1, <2>1 DEF IInv, TypeOK, Bucketed, Made
<1>11. \A i \in 1..n : admitted[c][i] + ((n - i) + 1) * Interval(c) <= tats[b]
  BY <1>2 DEF IInv, Paced
<1>12. \A i \in 1..n : admitted[c][i] \in Nat
  BY <1>7, ElementOfSeq
<1>13. Paced'
  <2> SUFFICES ASSUME NEW d \in Clients, Made(d)'
               PROVE  /\ tats'[bucketOf'[d]] <= now' + Tolerance(d) + Interval(d)
                      /\ \A i \in 1..Len(admitted'[d]) :
                           admitted'[d][i] + ((Len(admitted'[d]) - i) + 1) * Interval(d)
                             <= tats'[bucketOf'[d]]
    BY DEF Paced
  <2>1. CASE d = c
    <3>1. tats'[bucketOf'[d]] = tat
      BY <2>1, <1>1, <1>2, <1>5
    <3>2. ASSUME NEW i \in 1..(n + 1)
          PROVE  admitted'[c][i] + (((n + 1) - i) + 1) * Interval(c) <= tat
      <4>1. CASE i = n + 1
        BY <4>1, <1>3, <1>4, <1>7, <1>8
      <4>2. CASE i # n + 1
        <5>1. i \in 1..n /\ admitted'[c][i] = admitted[c][i]
          <6>1. i \in 1..n
            BY <4>2, <1>7
          <6>2. QED
            BY <6>1, <1>8
        <5>2. (((n + 1) - i) + 1) * Interval(c) = ((n - i) + 1) * Interval(c) + Interval(c)
          BY <1>3, <1>7
        <5> HIDE DEF n, c, b, tat
        <5>3. ((n - i) + 1) * Interval(c) \in Int
          BY <1>3, <1>7
        <5>4. admitted[c][i] + ((n - i) + 1) * Interval(c) <= tats[b]
          BY <5>1, <1>11
        <5>5. admitted[c][i] \in Nat
          BY <5>1, <1>12
        <5>6. admitted[c][i] + (((n - i) + 1) * Interval(c) + Interval(c)) <= tat
          <6> DEFINE at == admitted[c][i]
                     ahead == ((n - i) + 1) * Interval(c)
                     step == Interval(c)
                     old == tats[b]
          <6>1. at \in Int /\ ahead \in Int /\ step \in Int /\ old \in Int /\ tat \in Int
            BY <5>3, <5>5, <1>2, <1>3, <1>4
          <6>2. at + ahead <= old /\ old + step <= tat
            BY <5>4, <1>4
          <6> HIDE DEF at, ahead, step, old
          <6>3. at + (ahead + step) <= tat
            BY <6>1, <6>2
          <6>4. QED
            BY <6>3 DEF at, ahead, step
        <5>7. QED
          BY <5>1, <5>2, <5>6
      <4>3. QED
        BY <4>1, <4>2
    <3>3. QED
      BY <2>1, <3>1, <3>2, <1>1, <1>4, <1>8
  <2>2. CASE d # c
    <3>1. Made(d)
      BY <1>1 DEF Made
    <3>2. QED
      BY <2>2, <3>1, <1>1, <1>6, <1>8 DEF IInv, Paced
  <2>3. QED
    BY <2>1, <2>2
<1>14. Waiting'
  <2> SUFFICES ASSUME NEW x \in told, x.client # c
               PROVE  /\ x.at <= now
                      /\ 1 <= x.after
                      /\ tats'[bucketOf'[x.client]] - Tolerance(x.client)
                           <= x.at + Interval(x.client)
    BY <1>1 DEF Waiting
  <2>1. x.client \in Clients /\ Made(x.client)
    BY DEF IInv, TypeOK, Refusal, Bucketed
  <2>2. QED
    BY <2>1, <1>6 DEF IInv, Waiting
<1>15. QuotaHolds'
  <2> SUFFICES ASSUME NEW d \in Clients, NEW j \in 1..Len(admitted'[d]), NEW i \in 1..j
               PROVE  (j - i) * Interval(d)
                        <= admitted'[d][j] - admitted'[d][i] + Tolerance(d)
    BY DEF QuotaHolds
  <2>1. CASE d = c /\ j = n + 1
    <3>1. CASE i = n + 1
      BY <2>1, <3>1, <1>3, <1>7, <1>8
    <3>2. CASE i # n + 1
      <4>1. i \in 1..n /\ admitted'[c][i] = admitted[c][i] /\ admitted'[c][j] = now
        BY <2>1, <3>2, <1>7, <1>8
      <4>2. (j - i) * Interval(c) = ((n - i) + 1) * Interval(c)
        BY <2>1, <1>3, <1>7
      <4>3. ((n - i) + 1) * Interval(c) \in Int
        BY <1>3, <1>7
      <4>4. now >= tats[b] - Tolerance(c)
        BY <1>4
      <4>5. admitted[c][i] + ((n - i) + 1) * Interval(c) <= tats[b] /\ admitted[c][i] \in Nat
        BY <4>1, <1>11, <1>12
      <4>6. (j - i) * Interval(c) <= now - admitted[c][i] + Tolerance(c)
        <5> DEFINE p == ((n - i) + 1) * Interval(c)
        <5>1. p \in Int /\ admitted[c][i] + p <= tats[b] /\ (j - i) * Interval(c) = p
          BY <4>2, <4>3, <4>5
        <5>2. admitted[c][i] \in Nat /\ tats[b] \in Nat /\ Tolerance(c) \in Nat /\ now \in Nat
          BY <4>5, <1>2, <1>3
        <5> HIDE DEF p, n, c, b, tat
        <5>3. p <= now - admitted[c][i] + Tolerance(c)
          BY <5>1, <5>2, <4>4
        <5>4. QED
          BY <5>1, <5>3
      <4>7. QED
        BY <4>1, <4>6, <2>1
    <3>3. QED
      BY <3>1, <3>2
  <2>2. CASE ~(d = c /\ j = n + 1)
    <3>1. /\ j \in 1..Len(admitted[d]) /\ i \in 1..Len(admitted[d])
          /\ admitted'[d][j] = admitted[d][j] /\ admitted'[d][i] = admitted[d][i]
      <4>1. CASE d = c
        <5>1. j \in 1..n /\ i \in 1..n
          BY <2>2, <4>1, <1>7, <1>8
        <5>2. QED
          BY <5>1, <4>1, <1>8
      <4>2. CASE d # c
        <5>1. admitted'[d] = admitted[d] /\ Len(admitted[d]) \in Nat
          BY <4>2, <1>8 DEF IInv, TypeOK
        <5>2. QED
          BY <5>1
      <4>3. QED
        BY <4>1, <4>2
    <3>2. QED
      BY <3>1 DEF IInv, QuotaHolds
  <2>3. QED
    BY <2>1, <2>2
<1>16. RetryAfterSuffices'
  BY <1>1 DEF IInv, RetryAfterSuffices
<1>17. QED
  BY <1>9, <1>10, <1>13, <1>14, <1>15, <1>16 DEF IInv

LEMMA RefuseIInv ==
  ASSUME IInv, NEW w \in Workers, Refuse(w)
  PROVE  IInv'
<1> DEFINE c == ClientOf[w]
           b == held[w]
           wait == tats[b] - Tolerance(c) - now
           new == [client |-> c, at |-> now, after |-> RetryAfter(wait)]
<1>0. Tat(w) = tats[b]
  BY TatBounds DEF Refuse
<1>1. /\ pc[w] = "checking"
      /\ now < tats[b] - Tolerance(c)
      /\ told' = told \cup {new}
      /\ pc' = [pc EXCEPT ![w] = "idle"]
      /\ UNCHANGED <<now, tats, bucketOf, held, admitted>>
  BY <1>0 DEF Refuse, Goto
<1>2. c \in Clients /\ Made(c) /\ b = bucketOf[c] /\ tats[b] \in Nat
  BY <1>1, HeldBucket
<1>3. Interval(c) \in Nat /\ Interval(c) <= Second /\ Tolerance(c) \in Nat /\ now \in Nat
  BY <1>2, QuotaNumbers DEF IInv, TypeOK
<1>4. RetryAfter(wait) \in Nat /\ 1 <= RetryAfter(wait)
  BY <1>1, <1>2, <1>3, RetryAfterSeconds
<1>5. TypeOK'
  <2>1. new \in Refusal
    BY <1>2, <1>3, <1>4 DEF Refusal
  <2>2. told' \in SUBSET Refusal
    BY <2>1, <1>1 DEF IInv, TypeOK
  <2>3. QED
    BY <2>2, <1>1 DEF IInv, TypeOK
<1>6. Bucketed'
  BY <1>1, <1>2 DEF IInv, TypeOK, Bucketed, Made
<1>7. Paced'
  BY <1>1 DEF IInv, Paced, Made
<1>8. Waiting'
  <2>1. tats[b] - Tolerance(c) <= now + Interval(c)
    BY <1>2, <1>3 DEF IInv, Paced
  <2>2. QED
    BY <2>1, <1>1, <1>2, <1>3, <1>4 DEF IInv, Waiting
<1>9. RetryAfterSuffices'
  <2> SUFFICES ASSUME NEW x \in told', NEW y \in told', x.client = y.client
               PROVE  y.at < x.at + x.after * Second
    BY DEF RetryAfterSuffices
  <2>1. x.at \in Nat /\ y.at \in Nat /\ x.after \in Nat /\ 1 <= x.after
    BY <1>1, <1>3, <1>4 DEF IInv, TypeOK, Refusal, Waiting
  <2>2. Second <= x.after * Second /\ x.after * Second \in Nat
    BY <2>1, LimiterAssumption
  <2>3. 0 < Second /\ Second \in Nat
    BY LimiterAssumption
  <2>4. CASE x \in told /\ y \in told
    BY <2>4 DEF IInv, RetryAfterSuffices
  <2>5. CASE x \in told /\ y = new
    <3>1. x.client = c /\ y.at = now
      BY <2>5
    <3>2. tats[b] - Tolerance(c) <= x.at + Interval(c)
      BY <2>5, <3>1, <1>2 DEF IInv, Waiting
    <3>3. now < x.at + Interval(c)
      <4> HIDE DEF b, c
      <4>1. QED
        BY <3>2, <2>1, <1>1, <1>2, <1>3
    <3>4. QED
      <4> HIDE DEF b, c
      <4>1. QED
        BY <3>1, <3>3, <2>1, <2>2, <2>3, <1>3
  <2>6. CASE x = new
    <3>1. y.at <= now
      BY <1>1, <1>3 DEF IInv, Waiting
    <3>2. QED
      BY <3>1, <2>1, <2>2, <2>3, <2>6, <1>3
  <2>7. QED
    BY <2>4, <2>5, <2>6, <1>1
<1>10. QED
  BY <1>1, <1>5, <1>6, <1>7, <1>8, <1>9 DEF IInv, QuotaHolds

LEMMA ArriveIInv ==
  ASSUME IInv, NEW w \in Workers, Arrive(w)
  PROVE  IInv'
BY DEF Arrive, Goto, IInv, TypeOK, Bucketed, Paced, Waiting, QuotaHolds, RetryAfterSuffices, Made

LEMMA TickIInv == IInv /\ Tick => IInv'
<1> SUFFICES ASSUME IInv, Tick PROVE IInv'
  OBVIOUS
<1>1. (TypeOK /\ Bucketed)'
  BY DEF Tick, IInv, TypeOK, Bucketed, Made
<1>2. Paced'
  <2> SUFFICES ASSUME NEW c \in Clients, Made(c)
               PROVE  tats[bucketOf[c]] <= now + 1 + Tolerance(c) + Interval(c)
    BY DEF Tick, IInv, Paced, Made
  <2>1. bucketOf[c] \in 1..Len(tats)
    BY DEF IInv, TypeOK, Made
  <2>2. tats[bucketOf[c]] \in Nat
    BY <2>1, ElementOfSeq DEF IInv, TypeOK
  <2>3. QED
    BY <2>2, QuotaNumbers DEF IInv, TypeOK, Paced
<1>3. Waiting'
  BY DEF Tick, IInv, TypeOK, Refusal, Waiting
<1>4. QED
  BY <1>1, <1>2, <1>3 DEF Tick, IInv, QuotaHolds, RetryAfterSuffices

LEMMA NextIInv == IInv /\ [Next]_vars => IInv'
<1> SUFFICES ASSUME IInv, [Next]_vars PROVE IInv'
  OBVIOUS
<1>1. ASSUME NEW w \in Workers, Arrive(w) PROVE IInv'
  BY <1>1, ArriveIInv
<1>2. ASSUME NEW w \in Workers, LimiterFor(w) PROVE IInv'
  BY <1>2, LimiterForIInv
<1>3. ASSUME NEW w \in Workers, Admit(w) PROVE IInv'
  BY <1>3, AdmitIInv
<1>4. ASSUME NEW w \in Workers, Refuse(w) PROVE IInv'
  BY <1>4, RefuseIInv
<1>5. CASE Tick
  BY <1>5, TickIInv
<1>6. CASE Crash
  BY <1>6, CrashIInv
<1>7. CASE UNCHANGED vars
  BY <1>7 DEF vars, IInv, TypeOK, Bucketed, Paced, Waiting, QuotaHolds, RetryAfterSuffices, Made
<1>8. QED
  BY <1>1, <1>2, <1>3, <1>4, <1>5, <1>6, <1>7 DEF Next

-----------------------------------------------------------------------------
LEMMA Invariance == Spec => []IInv
<1>1. Init => IInv
  BY InitIInv
<1>2. IInv /\ [Next]_vars => IInv'
  BY NextIInv
<1>3. QED
  BY <1>1, <1>2, PTL DEF Spec

\* The types, and that a checking task holds a bucket there is.
THEOREM LimiterTypes == Spec => []TypeOK
<1>1. IInv => TypeOK
  BY DEF IInv
<1>2. QED
  BY <1>1, Invariance, PTL

\* The quota of every client holds in every span of time, although the look-up of a
\* bucket and the question to it are two steps.
THEOREM QuotaIsKept == Spec => []QuotaHolds
<1>1. IInv => QuotaHolds
  BY DEF IInv
<1>2. QED
  BY <1>1, Invariance, PTL

\* The seconds of Retry-After are enough for a client alone, rate zero or not.
THEOREM RetryIsLetThrough == Spec => []RetryAfterSuffices
<1>1. IInv => RetryAfterSuffices
  BY DEF IInv
<1>2. QED
  BY <1>1, Invariance, PTL

=============================================================================
