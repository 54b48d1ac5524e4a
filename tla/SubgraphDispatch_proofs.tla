----------------------- MODULE SubgraphDispatch_proofs -----------------------
(***************************************************************************)
(* The guarantees of dispatch for every set of calls, every retry policy   *)
(* and every configuration of the breaker.                                 *)
(***************************************************************************)
EXTENDS SubgraphDispatch, FiniteSetTheorems, TLAPS

\* The theorems about the breaker, for the breaker inside dispatch.
Proved == INSTANCE CircuitBreaker_proofs WITH inflight <- Inflight

CallTypeOK ==
  /\ pc \in [Calls -> {"check", "headers", "body", "backoff", "done", "dropped"}]
  /\ attempt \in [Calls -> Attempts]
  /\ timer \in [Calls -> 0..MaxTimer]
  /\ status \in [Calls -> Statuses]
  /\ result \in [Calls -> Results]
  /\ sent \in [Calls -> SUBSET Attempts]
  /\ applied \in [Calls -> SUBSET Attempts]

\* What a call's position says about its attempts, its outcome and its wire.
CallInv ==
  /\ CallTypeOK
  /\ AttemptsInOrder
  /\ \A c \in Calls : applied[c] \subseteq sent[c]
  /\ \A c \in Mutations : attempt[c] = 0
  /\ \A c \in Calls : pc[c] = "done" <=> result[c] # "none"
  /\ \A c \in Calls : pc[c] = "backoff" => c \notin Mutations /\ attempt[c] < MaxRetries
  /\ \A c \in Calls \ Mutations : result[c] \in RetryableErrors => attempt[c] = MaxRetries
  /\ \A c \in Calls : status[c] = "success" => applied[c] # {}
  /\ \A c \in Calls : result[c] = "Ok" => applied[c] # {}

\* The configuration of dispatch is one the breaker's theorems are about.
LEMMA Config == Proved!ConfigAssumption
  BY DispatchAssumption DEF DispatchAssumption, Breaker!ConfigAssumption, Proved!ConfigAssumption

\* The two instances of CircuitBreaker prune alike,
LEMMA SamePrune ==
  ASSUME NEW s
  PROVE  Breaker!Prune(s) = Proved!Prune(s)
  BY DEF Breaker!Prune, Proved!Prune, Breaker!StalePrefix, Proved!StalePrefix,
         Breaker!Stale, Proved!Stale

\* record alike,
LEMMA SameRecord ==
  ASSUME NEW c, NEW ok
  PROVE  Breaker!Record(c, ok) <=> Proved!Record(c, ok)
<1>1. Breaker!Observe(samples, ok) = Proved!Observe(samples, ok)
  BY SamePrune DEF Breaker!Observe, Proved!Observe
<1>2. Breaker!Trips(Breaker!Observe(samples, ok)) <=> Proved!Trips(Proved!Observe(samples, ok))
  BY <1>1
  DEF Breaker!Trips, Proved!Trips, Breaker!Failures, Proved!Failures,
      Breaker!Cardinality, Proved!Cardinality
<1>3. QED
  BY <1>1, <1>2
  DEF Breaker!Record, Proved!Record, Breaker!RecordHalfOpen, Proved!RecordHalfOpen,
      Breaker!RecordClosed, Proved!RecordClosed, Breaker!RecordOpen, Proved!RecordOpen

\* and are the same specification.
LEMMA SameBreaker ==
  /\ Breaker!Init <=> Proved!Init
  /\ Breaker!Next <=> Proved!Next
  /\ Breaker!vars = Proved!vars
  /\ Breaker!TypeOK <=> Proved!TypeOK
<1>1. \A c : /\ Breaker!Admit(c) <=> Proved!Admit(c)
             /\ Breaker!Reject(c) <=> Proved!Reject(c)
             /\ Breaker!Abandon(c) <=> Proved!Abandon(c)
  BY SamePrune
  DEF Breaker!Admit, Proved!Admit, Breaker!Reject, Proved!Reject,
      Breaker!Abandon, Proved!Abandon
<1>2. Breaker!Tick <=> Proved!Tick
  BY DEF Breaker!Tick, Proved!Tick, Breaker!Older, Proved!Older, Breaker!Stale, Proved!Stale
<1>3. Breaker!Next <=> Proved!Next
  BY <1>1, <1>2, SameRecord DEF Breaker!Next, Proved!Next
<1>4. QED
  BY <1>3
  DEF Breaker!Init, Proved!Init, Breaker!vars, Proved!vars,
      Breaker!TypeOK, Proved!TypeOK, Breaker!Sample, Proved!Sample

\* A breaker is well typed wherever it is used.
LEMMA BreakerTypes == Breaker!Spec => []Breaker!TypeOK
<1>1. Proved!Spec => []Proved!TypeOK
  BY Config, Proved!TypeCorrect
<1>2. [Breaker!Next]_(Breaker!vars) => [Proved!Next]_(Proved!vars)
  BY SameBreaker DEF Breaker!vars, Proved!vars
<1>3. QED
  BY <1>1, <1>2, SameBreaker, PTL DEF Proved!Spec, Breaker!Spec

-----------------------------------------------------------------------------
\* Before its first check a call has sent nothing.
LEMMA InitCallInv == Init => CallInv
<1> SUFFICES ASSUME Init
             PROVE  CallInv
  OBVIOUS
<1>1. 0 \in Attempts /\ 0 \in 0..MaxTimer /\ 0..(0 - 1) = {}
  BY DispatchAssumption DEF DispatchAssumption, Attempts, MaxTimer
<1>2. CallTypeOK
  BY <1>1 DEF Init, CallTypeOK, Statuses, Results
<1>3. AttemptsInOrder
  BY <1>1 DEF Init, AttemptsInOrder
<1>4. QED
  BY <1>2, <1>3, DispatchAssumption
  DEF Init, CallInv, DispatchAssumption, RetryableErrors

\* The delays of the backoff stay within the cap.
LEMMA BackoffBounded == ASSUME NEW a \in Attempts  PROVE Backoff(a) \in 0..MaxTimer
<1>1. Backoff(a) \in 0..MaxBackoff
  BY DispatchAssumption DEF Backoff, DispatchAssumption
<1>2. QED
  BY <1>1, DispatchAssumption DEF MaxTimer, DispatchAssumption

\* An attempt that is settled leaves its call done or in a backoff.
LEMMA SettleStep ==
  ASSUME CallInv,
         NEW c \in Calls,
         NEW outcome \in {"Ok"} \cup (Errors \ {"CircuitOpen"}),
         pc[c] \in {"headers", "body"},
         outcome = "Ok" => status[c] = "success",
         Settle(c, outcome)
  PROVE  CallInv'
<1> USE DEF CallInv
<1>0. CallTypeOK /\ attempt[c] \in Attempts /\ attempt' = attempt /\ sent' = sent /\ applied' = applied
  BY DEF CallTypeOK, Settle, wireVars
<1>1. CASE CanRetry(c, outcome)
  <2>1. /\ pc' = [pc EXCEPT ![c] = "backoff"]
        /\ timer' = [timer EXCEPT ![c] = Backoff(attempt[c])]
        /\ status' = [status EXCEPT ![c] = "none"]
        /\ result' = result
    BY <1>1 DEF Settle
  <2>2. CallTypeOK'
    BY <1>0, <2>1, BackoffBounded DEF CallTypeOK, Statuses
  <2>3. AttemptsInOrder'
    BY <1>0, <2>1 DEF AttemptsInOrder, CallTypeOK
  <2>4. c \notin Mutations /\ attempt[c] < MaxRetries
    BY <1>0, <1>1, DispatchAssumption DEF CanRetry, Attempts, DispatchAssumption
  <2>5. QED
    BY <1>0, <2>1, <2>2, <2>3, <2>4 DEF CallTypeOK
<1>2. CASE ~CanRetry(c, outcome)
  <2>1. /\ pc' = [pc EXCEPT ![c] = "done"]
        /\ timer' = [timer EXCEPT ![c] = 0]
        /\ status' = [status EXCEPT ![c] = "none"]
        /\ result' = [result EXCEPT ![c] = outcome]
    BY <1>2 DEF Settle
  <2>2. 0 \in 0..MaxTimer /\ outcome \in Results /\ outcome # "none" /\ outcome # "CircuitOpen"
    BY DispatchAssumption DEF MaxTimer, DispatchAssumption, Results, Errors, RetryableErrors
  <2>3. CallTypeOK'
    BY <1>0, <2>1, <2>2 DEF CallTypeOK, Statuses
  <2>4. AttemptsInOrder'
    BY <1>0, <2>1, <2>2 DEF AttemptsInOrder, CallTypeOK
  <2>5. c \notin Mutations /\ outcome \in RetryableErrors => attempt[c] = MaxRetries
    BY <1>0, <1>2, DispatchAssumption DEF CanRetry, Attempts, DispatchAssumption
  <2>6. QED
    BY <1>0, <2>1, <2>2, <2>3, <2>4, <2>5 DEF CallTypeOK
<1>3. QED
  BY <1>1, <1>2

\* An admitted attempt is the next in order.
LEMMA StartAttemptStep == ASSUME CallInv, NEW c \in Calls, StartAttempt(c)  PROVE CallInv'
<1> USE DEF CallInv
<1>1. /\ pc[c] = "check" /\ result[c] = "none"
      /\ pc' = [pc EXCEPT ![c] = "headers"]
      /\ timer' = [timer EXCEPT ![c] = Timeout]
      /\ sent' = [sent EXCEPT ![c] = @ \cup {attempt[c]}]
      /\ attempt' = attempt /\ status' = status /\ result' = result /\ applied' = applied
  BY DEF StartAttempt
<1>2. Timeout \in 0..MaxTimer
  BY DispatchAssumption DEF MaxTimer, DispatchAssumption
<1>3. CallTypeOK'
  BY <1>1, <1>2 DEF CallTypeOK
<1>4. (0..(attempt[c] - 1)) \cup {attempt[c]} = 0..attempt[c]
  BY DispatchAssumption DEF CallTypeOK, Attempts, DispatchAssumption
<1>5. AttemptsInOrder'
  BY <1>1, <1>4 DEF AttemptsInOrder, CallTypeOK
<1>6. \A d \in Calls : sent[d] \subseteq sent'[d]
  BY <1>1 DEF CallTypeOK
<1>7. QED
  BY <1>1, <1>3, <1>5, <1>6 DEF CallTypeOK

\* A rejected call has sent the attempts before this one.
LEMMA CircuitOpenStep == ASSUME CallInv, NEW c \in Calls, CircuitOpen(c)  PROVE CallInv'
<1> USE DEF CallInv
<1>1. /\ pc[c] = "check" /\ result[c] = "none"
      /\ pc' = [pc EXCEPT ![c] = "done"]
      /\ result' = [result EXCEPT ![c] = "CircuitOpen"]
      /\ attempt' = attempt /\ timer' = timer /\ status' = status
      /\ sent' = sent /\ applied' = applied
  BY DEF CircuitOpen, wireVars
<1>2. CallTypeOK'
  BY <1>1 DEF CallTypeOK, Results, Errors
<1>3. AttemptsInOrder'
  BY <1>1 DEF AttemptsInOrder, CallTypeOK
<1>4. QED
  BY <1>1, <1>2, <1>3 DEF CallTypeOK, RetryableErrors

\* Whatever the outcome of an attempt, it is settled.
LEMMA OutcomeStep ==
  ASSUME CallInv, NEW c \in Calls, TimeoutElapsed(c) \/ TransportError(c) \/ Body(c)
  PROVE  CallInv'
<1>1. CASE TimeoutElapsed(c)
  BY <1>1, SettleStep DEF TimeoutElapsed, Errors, RetryableErrors
<1>2. CASE TransportError(c)
  BY <1>2, SettleStep DEF TransportError, Errors, RetryableErrors
<1>3. CASE Body(c)
  <2>1. PICK outcome \in CASE status[c] = "success"   -> {"Ok", "Decode"}
                           [] status[c] = "transient" -> {"BadStatusTransient"}
                           [] OTHER                   -> {"BadStatusFinal"} :
          Settle(c, outcome)
    BY <1>3 DEF Body
  <2>2. /\ outcome \in {"Ok"} \cup (Errors \ {"CircuitOpen"})
        /\ outcome = "Ok" => status[c] = "success"
    BY <2>1 DEF Errors, RetryableErrors
  <2>3. QED
    BY <1>3, <2>1, <2>2, SettleStep DEF Body
<1>4. QED
  BY <1>1, <1>2, <1>3

\* A success status tells of an attempt that was processed.
LEMMA HeadersStep ==
  ASSUME CallInv, NEW c \in Calls, NEW s \in Statuses \ {"none"}, Headers(c, s)
  PROVE  CallInv'
<1> USE DEF CallInv
<1>1. /\ pc[c] = "headers"
      /\ pc' = [pc EXCEPT ![c] = "body"]
      /\ status' = [status EXCEPT ![c] = s]
      /\ timer' = [timer EXCEPT ![c] = 0]
      /\ attempt' = attempt /\ result' = result /\ sent' = sent /\ applied' = applied
      /\ s = "success" => applied[c] # {}
  BY DEF Headers, wireVars
<1>2. CallTypeOK'
  BY <1>1, DispatchAssumption DEF CallTypeOK, MaxTimer, DispatchAssumption
<1>3. AttemptsInOrder'
  BY <1>1 DEF AttemptsInOrder, CallTypeOK
<1>4. QED
  BY <1>1, <1>2, <1>3 DEF CallTypeOK

\* The loop goes on with the next attempt.
LEMMA BackoffOverStep == ASSUME CallInv, NEW c \in Calls, BackoffOver(c)  PROVE CallInv'
<1> USE DEF CallInv
<1>1. /\ pc[c] = "backoff" /\ result[c] = "none"
      /\ pc' = [pc EXCEPT ![c] = "check"]
      /\ attempt' = [attempt EXCEPT ![c] = @ + 1]
      /\ timer' = timer /\ status' = status /\ result' = result
      /\ sent' = sent /\ applied' = applied
  BY DEF BackoffOver, wireVars
<1>2. c \notin Mutations /\ attempt[c] + 1 \in Attempts /\ (attempt[c] + 1) - 1 = attempt[c]
  BY <1>1, DispatchAssumption DEF CallTypeOK, Attempts, DispatchAssumption
<1>3. CallTypeOK'
  BY <1>1, <1>2 DEF CallTypeOK
<1>4. AttemptsInOrder'
  BY <1>1, <1>2 DEF AttemptsInOrder, CallTypeOK
<1>5. QED
  BY <1>1, <1>2, <1>3, <1>4, DispatchAssumption
  DEF CallTypeOK, RetryableErrors, DispatchAssumption

\* A call that is dropped sends nothing more.
LEMMA DropStep == ASSUME CallInv, NEW c \in Calls, Drop(c)  PROVE CallInv'
<1> USE DEF CallInv
<1>1. /\ pc[c] \in {"headers", "body", "backoff"} /\ result[c] = "none"
      /\ pc' = [pc EXCEPT ![c] = "dropped"]
      /\ timer' = [timer EXCEPT ![c] = 0]
      /\ status' = [status EXCEPT ![c] = "none"]
      /\ attempt' = attempt /\ result' = result /\ sent' = sent /\ applied' = applied
  BY DEF Drop, wireVars
<1>2. CallTypeOK'
  BY <1>1, DispatchAssumption DEF CallTypeOK, MaxTimer, Statuses, DispatchAssumption
<1>3. AttemptsInOrder'
  BY <1>1 DEF AttemptsInOrder, CallTypeOK
<1>4. QED
  BY <1>1, <1>2, <1>3 DEF CallTypeOK

\* The subgraph processes only what was sent.
LEMMA AppliesStep ==
  ASSUME CallInv, NEW c \in Calls, NEW a \in Attempts, SubgraphApplies(c, a)
  PROVE  CallInv'
<1> USE DEF CallInv
<1>1. /\ a \in sent[c]
      /\ applied' = [applied EXCEPT ![c] = @ \cup {a}]
      /\ pc' = pc /\ attempt' = attempt /\ timer' = timer /\ status' = status
      /\ result' = result /\ sent' = sent
  BY DEF SubgraphApplies, callVars
<1>2. CallTypeOK'
  BY <1>1 DEF CallTypeOK
<1>3. AttemptsInOrder'
  BY <1>1 DEF AttemptsInOrder
<1>4. QED
  BY <1>1, <1>2, <1>3 DEF CallTypeOK

\* Time moves the timers only.
LEMMA TickStep == ASSUME CallInv, Tick  PROVE CallInv'
<1> USE DEF CallInv
<1>1. /\ timer' = [c \in Calls |-> IF timer[c] > 0 THEN timer[c] - 1 ELSE 0]
      /\ pc' = pc /\ attempt' = attempt /\ status' = status
      /\ result' = result /\ sent' = sent /\ applied' = applied
  BY DEF Tick, wireVars
<1>2. CallTypeOK'
  BY <1>1, DispatchAssumption DEF CallTypeOK, MaxTimer, DispatchAssumption
<1>3. AttemptsInOrder'
  BY <1>1 DEF AttemptsInOrder
<1>4. QED
  BY <1>1, <1>2, <1>3

\* CallInv is inductive: one step per action of dispatch.
LEMMA NextCallInv == CallInv /\ [Next]_vars => CallInv'
<1> SUFFICES ASSUME CallInv, [Next]_vars
             PROVE  CallInv'
  OBVIOUS
<1>1. CASE UNCHANGED vars
  BY <1>1 DEF vars, callVars, wireVars, CallInv, CallTypeOK, AttemptsInOrder
<1>2. CASE Next
  BY <1>2, StartAttemptStep, CircuitOpenStep, OutcomeStep, HeadersStep, BackoffOverStep,
     DropStep, AppliesStep, TickStep
  DEF Next
<1>3. QED
  BY <1>1, <1>2

\* Calls, attempts and the wire agree in every reachable state.
THEOREM CallInvariant == Spec => []CallInv
  BY InitCallInv, NextCallInv, PTL DEF Spec

-----------------------------------------------------------------------------
\* A call's attempts are sent in order, each once, up to the policy's limit.
THEOREM AttemptsAreInOrder == Spec => []AttemptsInOrder
  BY CallInvariant, PTL DEF CallInv

\* A call is processed no more often than it was sent.
LEMMA AppliedBound ==
  ASSUME CallInv, NEW c \in Calls
  PROVE  /\ IsFiniteSet(applied[c]) /\ IsFiniteSet(sent[c])
         /\ Cardinality(applied[c]) \in Nat
         /\ Cardinality(applied[c]) <= Cardinality(sent[c])
         /\ Cardinality(sent[c]) <= MaxRetries + 1
         /\ c \in Mutations => Cardinality(sent[c]) <= 1
<1>1. applied[c] \subseteq sent[c] /\ sent[c] \subseteq 0..MaxRetries
  BY DEF CallInv, CallTypeOK, Attempts
<1>2. IsFiniteSet(0..MaxRetries) /\ Cardinality(0..MaxRetries) = MaxRetries + 1
  BY FS_Interval, DispatchAssumption DEF DispatchAssumption
<1>3. /\ IsFiniteSet(sent[c]) /\ Cardinality(sent[c]) <= MaxRetries + 1
      /\ IsFiniteSet(applied[c]) /\ Cardinality(applied[c]) <= Cardinality(sent[c])
  BY <1>1, <1>2, FS_Subset
<1>4. Cardinality(applied[c]) \in Nat
  BY <1>3, FS_CardinalityType
<1>5. ASSUME c \in Mutations
      PROVE  Cardinality(sent[c]) <= 1
  <2>1. sent[c] \subseteq {0}
    BY <1>5 DEF CallInv, AttemptsInOrder
  <2>2. IsFiniteSet({0}) /\ Cardinality({0}) = 1
    BY FS_Singleton
  <2>3. QED
    BY <2>1, <2>2, FS_Subset
<1>6. QED
  BY <1>3, <1>4, <1>5

\* A subgraph processes a mutation at most once, whatever the network, the
\* timeouts and the clients do.
THEOREM MutationsApplyOnce == Spec => []MutationAppliedOnce
<1>1. ASSUME CallInv
      PROVE  MutationAppliedOnce
  <2>1. SUFFICES ASSUME NEW c \in Mutations
                 PROVE  Cardinality(applied[c]) <= 1
    BY DEF MutationAppliedOnce
  <2>2. c \in Calls
    BY DispatchAssumption DEF DispatchAssumption
  <2>3. Cardinality(sent[c]) \in Nat
    BY <1>1, <2>2, AppliedBound, FS_CardinalityType
  <2>4. QED
    BY <1>1, <2>2, <2>3, AppliedBound
<1>2. QED
  BY <1>1, CallInvariant, PTL

\* A query is failed for a transient error only after every attempt.
THEOREM GivesUpLast == Spec => []GivesUpOnlyWhenExhausted
<1>1. ASSUME CallInv
      PROVE  GivesUpOnlyWhenExhausted
  <2>1. SUFFICES ASSUME NEW c \in Calls \ Mutations, result[c] \in RetryableErrors
                 PROVE  Cardinality(sent[c]) = MaxRetries + 1
    BY DEF GivesUpOnlyWhenExhausted
  <2>2. attempt[c] = MaxRetries /\ pc[c] = "done" /\ result[c] # "CircuitOpen"
    BY <1>1, <2>1 DEF CallInv, RetryableErrors
  <2>3. sent[c] = 0..MaxRetries
    BY <1>1, <2>1, <2>2 DEF CallInv, AttemptsInOrder
  <2>4. QED
    BY <2>3, FS_Interval, DispatchAssumption DEF DispatchAssumption
<1>2. QED
  BY <1>1, CallInvariant, PTL

-----------------------------------------------------------------------------
\* Dispatch is a correct user of the breaker: each of its steps is a step of
\* CircuitBreaker or leaves the breaker alone.
THEOREM DispatchUsesBreaker == Spec => UsesBreaker
<1>1. Init => Breaker!Init
  BY DEF Init, Breaker!Init, Inflight
<1>2. ASSUME CallInv, [Next]_vars
      PROVE  [Breaker!Next]_(Breaker!vars)
  <2> USE DEF Breaker!vars
  <2>1. ASSUME NEW c \in Calls, StartAttempt(c) \/ CircuitOpen(c)
        PROVE  Breaker!Next
    BY <2>1 DEF StartAttempt, CircuitOpen, Breaker!Next
  <2>2. ASSUME NEW c \in Calls, TimeoutElapsed(c) \/ TransportError(c) \/ Body(c)
        PROVE  Breaker!Next
    <3>1. PICK outcome : Settle(c, outcome)
      BY <2>2 DEF TimeoutElapsed, TransportError, Body
    <3>2. Breaker!Record(c, outcome = "Ok") /\ (outcome = "Ok") \in BOOLEAN
      BY <3>1 DEF Settle
    <3>3. QED
      BY <3>2 DEF Breaker!Next
  <2>3. ASSUME NEW c \in Calls, NEW s \in Statuses \ {"none"}, Headers(c, s)
        PROVE  UNCHANGED Breaker!vars
    <3>1. Inflight' = Inflight
      BY <1>2, <2>3 DEF Headers, Inflight, CallInv, CallTypeOK
    <3>2. QED
      BY <2>3, <3>1 DEF Headers, breakerVars
  <2>4. ASSUME NEW c \in Calls, BackoffOver(c)
        PROVE  UNCHANGED Breaker!vars
    <3>1. Inflight' = Inflight
      BY <1>2, <2>4 DEF BackoffOver, Inflight, CallInv, CallTypeOK
    <3>2. QED
      BY <2>4, <3>1 DEF BackoffOver, breakerVars
  <2>5. ASSUME NEW c \in Calls, Drop(c)
        PROVE  [Breaker!Next]_(Breaker!vars)
    <3>1. Inflight' = Inflight \ {c}
      BY <1>2, <2>5 DEF Drop, Inflight, CallInv, CallTypeOK
    <3>2. CASE c \in Inflight
      BY <2>5, <3>1, <3>2 DEF Drop, breakerVars, Breaker!Abandon, Breaker!Next
    <3>3. CASE c \notin Inflight
      BY <2>5, <3>1, <3>3 DEF Drop, breakerVars
    <3>4. QED
      BY <3>2, <3>3
  <2>6. ASSUME NEW c \in Calls, NEW a \in Attempts, SubgraphApplies(c, a)
        PROVE  UNCHANGED Breaker!vars
    BY <2>6 DEF SubgraphApplies, breakerVars, callVars, Inflight
  <2>7. ASSUME Tick
        PROVE  Breaker!Next
    BY <2>7 DEF Tick, Breaker!Next
  <2>8. ASSUME UNCHANGED vars
        PROVE  UNCHANGED Breaker!vars
    BY <2>8 DEF vars, breakerVars, callVars, Inflight
  <2>9. QED
    BY <1>2, <2>1, <2>2, <2>3, <2>4, <2>5, <2>6, <2>7, <2>8 DEF Next
<1>3. QED
  BY <1>1, <1>2, CallInvariant, PTL DEF Spec, UsesBreaker, Breaker!Spec

\* The state of dispatch is well typed, its breaker included.
THEOREM TypeCorrect == Spec => []TypeOK
<1>1. Breaker!TypeOK /\ CallInv => TypeOK
  BY DEF Breaker!TypeOK, CallInv, CallTypeOK, TypeOK
<1>2. QED
  BY <1>1, DispatchUsesBreaker, BreakerTypes, CallInvariant, PTL DEF UsesBreaker

\* No request, first or retried, leaves for a subgraph whose breaker is open.
THEOREM OpenBreakerIsSpared == Spec => OpenBreakerSheds
<1> DEFINE A == state = "Open" /\ wait > 0 => sent' = sent
<1>1. ASSUME [Next]_vars, TypeOK
      PROVE  [A]_vars
  <2>1. ASSUME NEW c \in Calls, StartAttempt(c)
        PROVE  A
    BY <1>1, <2>1, DispatchAssumption
    DEF StartAttempt, Breaker!Admit, TypeOK, DispatchAssumption, Breaker!ConfigAssumption
  <2>2. ASSUME Next, \A c \in Calls : ~StartAttempt(c)
        PROVE  A
    BY <2>2
    DEF Next, CircuitOpen, TimeoutElapsed, TransportError, Body, Settle, Headers,
        BackoffOver, Drop, SubgraphApplies, Tick, wireVars
  <2>3. QED
    BY <1>1, <2>1, <2>2
<1>2. QED
  BY <1>1, TypeCorrect, PTL DEF Spec, OpenBreakerSheds

\* A half-open breaker has somebody who may decide it: an attempt in flight, the probe or
\* one admitted before it, or its client hung up before the outcome was recorded.
THEOREM HalfOpenHasItsProbe == Spec => []HalfOpenHasProbe
<1> DEFINE Dropped == {c \in Calls : pc[c] = "dropped"}
<1>1. Init => HalfOpenHasProbe
  BY DEF Init, HalfOpenHasProbe
<1>2. ASSUME [Next]_vars, TypeOK, HalfOpenHasProbe
      PROVE  HalfOpenHasProbe'
  <2>1. ASSUME NEW c \in Calls, StartAttempt(c)
        PROVE  HalfOpenHasProbe'
    <3>1. c \in Inflight'
      BY <1>2, <2>1 DEF StartAttempt, TypeOK, Inflight
    <3>2. QED
      BY <3>1 DEF HalfOpenHasProbe
  <2>2. ASSUME NEW c \in Calls, TimeoutElapsed(c) \/ TransportError(c) \/ Body(c)
        PROVE  HalfOpenHasProbe'
    <3>1. PICK outcome : Settle(c, outcome)
      BY <2>2 DEF TimeoutElapsed, TransportError, Body
    <3>2. state' # "HalfOpen"
      BY <3>1
      DEF Settle, Breaker!Record, Breaker!RecordHalfOpen, Breaker!RecordClosed,
          Breaker!RecordOpen
    <3>3. QED
      BY <3>2 DEF HalfOpenHasProbe
  <2>3. ASSUME NEW c \in Calls, Drop(c)
        PROVE  HalfOpenHasProbe'
    BY <1>2, <2>3 DEF Drop, TypeOK, HalfOpenHasProbe
  <2>4. ASSUME UNCHANGED state, Inflight \subseteq Inflight', Dropped \subseteq Dropped'
        PROVE  HalfOpenHasProbe'
    BY <1>2, <2>4 DEF HalfOpenHasProbe
  <2>5. ASSUME NEW c \in Calls,
               \/ CircuitOpen(c) \/ BackoffOver(c)
               \/ \E s \in Statuses \ {"none"} : Headers(c, s)
        PROVE  HalfOpenHasProbe'
    <3>1. UNCHANGED state
      BY <2>5 DEF CircuitOpen, Breaker!Reject, BackoffOver, Headers, breakerVars
    <3>2. Inflight \subseteq Inflight' /\ Dropped \subseteq Dropped'
      BY <1>2, <2>5 DEF CircuitOpen, BackoffOver, Headers, TypeOK, Inflight
    <3>3. QED
      BY <2>4, <3>1, <3>2
  <2>6. ASSUME \/ \E c \in Calls : \E a \in Attempts : SubgraphApplies(c, a)
               \/ Tick
               \/ UNCHANGED vars
        PROVE  HalfOpenHasProbe'
    <3>1. UNCHANGED pc
      BY <2>6 DEF SubgraphApplies, callVars, Tick, vars
    <3>2. UNCHANGED state
      BY <2>6 DEF SubgraphApplies, breakerVars, Tick, Breaker!Tick, vars
    <3>3. QED
      BY <2>4, <3>1, <3>2 DEF Inflight
  <2>7. QED
    BY <1>2, <2>1, <2>2, <2>3, <2>5, <2>6 DEF Next
<1>3. QED
  BY <1>1, <1>2, TypeCorrect, PTL DEF Spec

-----------------------------------------------------------------------------
(* Dispatch keeps the promise of RemoteCall *)

ReplyOf(c) ==
  CASE pc[c] = "dropped" -> "gone"
    [] result[c] = "none" -> "none"
    [] result[c] = "Ok" -> "ok"
    [] OTHER -> "error"

Replied == [c \in Calls |-> ReplyOf(c)]
AppliedCount == [c \in Calls |-> Cardinality(applied[c])]

\* A step that processes nothing and settles at most one call, with an Ok only
\* for a call that was processed, is a reply or nothing to the caller.
LEMMA ReplyStep ==
  ASSUME CallInv, NEW c \in Calls,
         applied' = applied,
         \A d \in Calls \ {c} : pc'[d] = pc[d] /\ result'[d] = result[d],
         pc[c] \notin {"done", "dropped"},
         result[c] = "none",
         result'[c] = "Ok" => applied[c] # {}
  PROVE  [Promise!Next]_(Promise!abstractVars)
<1>1. AppliedCount' = AppliedCount
  BY DEF AppliedCount
<1>2. ReplyOf(c) = "none"
  BY DEF ReplyOf
<1>3. \A d \in Calls \ {c} : ReplyOf(d)' = ReplyOf(d)
  BY DEF ReplyOf
<1>4. Replied' = [Replied EXCEPT ![c] = ReplyOf(c)']
  BY <1>3 DEF Replied
<1>5. ReplyOf(c)' \in {"none", "gone", "ok", "error"}
  BY DEF ReplyOf
<1>6. ReplyOf(c)' = "ok" => AppliedCount[c] > 0
  <2>1. SUFFICES ASSUME ReplyOf(c)' = "ok"
                 PROVE  Cardinality(applied[c]) > 0
    BY DEF AppliedCount
  <2>2. applied[c] # {}
    BY <2>1 DEF ReplyOf
  <2>3. Cardinality(applied[c]) # 0
    BY <2>2, AppliedBound, FS_EmptySet
  <2>4. QED
    BY <2>3, AppliedBound
<1>7. CASE ReplyOf(c)' = "none"
  <2>1. Replied' = Replied
    BY <1>2, <1>4, <1>7 DEF Replied
  <2>2. QED
    BY <1>1, <2>1 DEF Promise!abstractVars, Replied, ReplyOf, AppliedCount
<1>8. CASE ReplyOf(c)' # "none"
  <2>1. /\ Replied[c] = "none"
        /\ ReplyOf(c)' \in {"ok", "error", "gone"}
        /\ Replied' = [Replied EXCEPT ![c] = ReplyOf(c)']
    BY <1>2, <1>4, <1>5, <1>8 DEF Replied
  <2>2. \E r \in {"ok", "error", "gone"} :
          /\ Replied[c] = "none"
          /\ r = "ok" => AppliedCount[c] > 0
          /\ Replied' = [Replied EXCEPT ![c] = r]
          /\ AppliedCount' = AppliedCount
    BY <1>1, <1>6, <2>1
  <2>3. \E r \in {"ok", "error", "gone"} : Promise!Reply(c, r)
    BY <2>2 DEF Promise!Reply, Replied, ReplyOf, AppliedCount
  <2>4. QED
    BY <2>3 DEF Promise!Next
<1>9. QED
  BY <1>7, <1>8

\* A step that changes neither replies nor effects is a stutter.
LEMMA QuietStep ==
  ASSUME applied' = applied, pc' = pc, result' = result
  PROVE  UNCHANGED Promise!abstractVars
  BY DEF Promise!abstractVars

\* Processing one more request of a call stays within the call's limit.
LEMMA ApplyStep ==
  ASSUME CallInv, NEW c \in Calls, NEW a \in Attempts, SubgraphApplies(c, a)
  PROVE  Promise!Next
<1>1. /\ a \in sent[c] /\ a \notin applied[c]
      /\ applied' = [applied EXCEPT ![c] = @ \cup {a}]
      /\ pc' = pc /\ result' = result
  BY DEF SubgraphApplies, callVars
<1>2. applied \in [Calls -> SUBSET Attempts] /\ applied[c] \subseteq sent[c]
  BY DEF CallInv, CallTypeOK
<1>3. Cardinality(applied[c] \cup {a}) = Cardinality(applied[c]) + 1
  BY <1>1, AppliedBound, FS_AddElement
<1>4. applied[c] \cup {a} \subseteq sent[c]
  BY <1>1, <1>2
<1>5. Cardinality(applied[c] \cup {a}) <= Cardinality(sent[c]) /\ Cardinality(sent[c]) \in Nat
  BY <1>4, AppliedBound, FS_Subset, FS_CardinalityType
<1>6. AppliedCount[c] < Promise!Limit(c)
  BY <1>3, <1>5, AppliedBound, DispatchAssumption
  DEF Promise!Limit, AppliedCount, DispatchAssumption
<1>7. AppliedCount' = [AppliedCount EXCEPT ![c] = @ + 1]
  BY <1>1, <1>2, <1>3 DEF AppliedCount
<1>8. Promise!Apply(c)
  BY <1>1, <1>6, <1>7 DEF Promise!Apply, AppliedCount
<1>9. QED
  BY <1>8 DEF Promise!Next

\* One reply per call, an Ok only for work that was done, no mutation applied
\* twice: what the router does about failures cannot be told from RemoteCall.
THEOREM DispatchKeepsPromise == Spec => KeepsPromise
<1>1. Init => Promise!Init
  BY FS_EmptySet DEF Init, Promise!Init
<1>2. ASSUME CallInv, [Next]_vars
      PROVE  [Promise!Next]_(Promise!abstractVars)
  <2>0. CallTypeOK /\ \A c \in Calls : pc[c] = "done" <=> result[c] # "none"
    BY <1>2 DEF CallInv
  <2>1. ASSUME NEW c \in Calls, StartAttempt(c) \/ CircuitOpen(c) \/ BackoffOver(c) \/ Drop(c)
        PROVE  [Promise!Next]_(Promise!abstractVars)
    <3>1. /\ applied' = applied
          /\ \A d \in Calls \ {c} : pc'[d] = pc[d] /\ result'[d] = result[d]
          /\ pc[c] \notin {"done", "dropped"}
          /\ result'[c] # "Ok"
      BY <2>0, <2>1
      DEF StartAttempt, CircuitOpen, BackoffOver, Drop, CallTypeOK, wireVars
    <3>2. QED
      BY <1>2, <2>0, <3>1, ReplyStep
  <2>2. ASSUME NEW c \in Calls, TimeoutElapsed(c) \/ TransportError(c) \/ Body(c)
        PROVE  [Promise!Next]_(Promise!abstractVars)
    <3>1. PICK outcome : Settle(c, outcome) /\ (outcome = "Ok" => status[c] = "success")
      BY <2>2 DEF TimeoutElapsed, TransportError, Body
    <3>2. /\ applied' = applied
          /\ \A d \in Calls \ {c} : pc'[d] = pc[d] /\ result'[d] = result[d]
          /\ result'[c] = "Ok" => result[c] = "Ok" \/ outcome = "Ok"
      BY <2>0, <3>1 DEF Settle, CallTypeOK, wireVars
    <3>3. pc[c] \in {"headers", "body"}
      BY <2>2 DEF TimeoutElapsed, TransportError, Body
    <3>4. status[c] = "success" => applied[c] # {}
      BY <1>2 DEF CallInv
    <3>5. QED
      BY <1>2, <2>0, <3>1, <3>2, <3>3, <3>4, ReplyStep
  <2>3. ASSUME NEW c \in Calls, NEW s \in Statuses \ {"none"}, Headers(c, s)
        PROVE  [Promise!Next]_(Promise!abstractVars)
    <3>1. /\ applied' = applied /\ result' = result /\ pc[c] = "headers"
          /\ \A d \in Calls \ {c} : pc'[d] = pc[d] /\ result'[d] = result[d]
      BY <2>0, <2>3 DEF Headers, CallTypeOK, wireVars
    <3>2. QED
      BY <1>2, <2>0, <3>1, ReplyStep
  <2>4. ASSUME NEW c \in Calls, NEW a \in Attempts, SubgraphApplies(c, a)
        PROVE  Promise!Next
    BY <1>2, <2>4, ApplyStep
  <2>5. ASSUME Tick \/ UNCHANGED vars
        PROVE  UNCHANGED Promise!abstractVars
    BY <2>5, QuietStep DEF Tick, vars, callVars, wireVars
  <2>6. QED
    BY <1>2, <2>1, <2>2, <2>3, <2>4, <2>5 DEF Next
<1>3. QED
  BY <1>1, <1>2, CallInvariant, PTL DEF Spec, KeepsPromise, Promise!Spec

=============================================================================
