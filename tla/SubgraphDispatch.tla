-------------------------- MODULE SubgraphDispatch --------------------------
(***************************************************************************)
(* dispatch_with_reliability (reliability/tower_dispatch.rs): concurrent   *)
(* calls to one subgraph, each a loop of breaker check, one HTTP attempt,  *)
(* record, and perhaps a backoff and a further attempt, all sharing the    *)
(* subgraph's circuit breaker.                                             *)
(*                                                                         *)
(* The subgraph is the environment: a request on the wire is processed at  *)
(* any later time or never, also after the router has given up on it, and  *)
(* an answer comes in two parts, the headers and the body, of which only   *)
(* the first is under the router's timeout.                                *)
(***************************************************************************)
EXTENDS Integers, Sequences, FiniteSets

CONSTANTS
  Calls,
  Mutations,        \* calls with OperationKind::Mutation; the others are queries
  MaxRetries,       \* RetryPolicy.max_retries
  InitialBackoff,   \* RetryPolicy.initial_backoff, in ticks
  MaxBackoff,       \* RetryPolicy.max_backoff, in ticks
  Timeout,          \* SubgraphHttpCall.timeout, in ticks
  Window, MinSamples, RatioNum, RatioDen, Recovery   \* CircuitBreakerConfig

VARIABLES
  samples, state, wait,   \* the breaker of the subgraph
  pc,        \* where the call's future stands
  attempt,   \* the loop counter, from 0
  timer,     \* ticks left of tokio::time::timeout, or of the backoff's sleep
  status,    \* class of the HTTP status, once the headers have arrived
  result,    \* what dispatch returned
  sent,      \* attempts whose HTTP request has left the router
  applied    \* attempts the subgraph has processed

breakerVars == <<samples, state, wait>>
callVars == <<pc, attempt, timer, status, result>>
wireVars == <<sent, applied>>
vars == <<breakerVars, callVars, wireVars>>

Inflight == {c \in Calls : pc[c] \in {"headers", "body"}}

Breaker == INSTANCE CircuitBreaker WITH inflight <- Inflight

ASSUME DispatchAssumption ==
  /\ Mutations \subseteq Calls
  /\ MaxRetries \in Nat
  /\ InitialBackoff \in Nat
  /\ MaxBackoff \in Nat
  /\ Timeout \in Nat
  /\ Breaker!ConfigAssumption

Attempts == 0..MaxRetries
MaxTimer == IF Timeout > MaxBackoff THEN Timeout ELSE MaxBackoff

Statuses == {"none", "success", "transient", "final"}
RetryableErrors == {"Timeout", "Transport", "BadStatusTransient"}
Errors == RetryableErrors \cup {"BadStatusFinal", "Decode", "CircuitOpen"}
Results == {"none", "Ok"} \cup Errors

TypeOK ==
  /\ samples \in Seq(Breaker!Sample)
  /\ state \in {"Closed", "Open", "HalfOpen"}
  /\ wait \in 0..Recovery
  /\ pc \in [Calls -> {"check", "headers", "body", "backoff", "done", "dropped"}]
  /\ attempt \in [Calls -> Attempts]
  /\ timer \in [Calls -> 0..MaxTimer]
  /\ status \in [Calls -> Statuses]
  /\ result \in [Calls -> Results]
  /\ sent \in [Calls -> SUBSET Attempts]
  /\ applied \in [Calls -> SUBSET Attempts]

-----------------------------------------------------------------------------
Init ==
  /\ samples = <<>>
  /\ state = "Closed"
  /\ wait = 0
  /\ pc = [c \in Calls |-> "check"]
  /\ attempt = [c \in Calls |-> 0]
  /\ timer = [c \in Calls |-> 0]
  /\ status = [c \in Calls |-> "none"]
  /\ result = [c \in Calls |-> "none"]
  /\ sent = [c \in Calls |-> {}]
  /\ applied = [c \in Calls |-> {}]

\* initial_backoff * 2^attempt, capped.
Backoff(a) ==
  LET delay == InitialBackoff * 2^a
  IN  IF delay \in 0..MaxBackoff THEN delay ELSE MaxBackoff

\* Mutant: mutations are retried like queries.
CanRetryMutations(c, outcome) ==
  /\ attempt[c] + 1 < MaxRetries + 1
  /\ outcome \in RetryableErrors

\* Mutant: max_retries counts the first attempt.
CanRetryOnceLess(c, outcome) ==
  /\ c \notin Mutations
  /\ attempt[c] + 1 < MaxRetries
  /\ outcome \in RetryableErrors

CanRetry(c, outcome) ==
  /\ c \notin Mutations
  /\ attempt[c] + 1 < MaxRetries + 1
  /\ outcome \in RetryableErrors

-----------------------------------------------------------------------------
\* breaker.check() answers Ok and the attempt's POST leaves under the timeout.
StartAttempt(c) ==
  /\ pc[c] = "check"
  /\ pc' = [pc EXCEPT ![c] = "headers"]
  /\ timer' = [timer EXCEPT ![c] = Timeout]
  /\ sent' = [sent EXCEPT ![c] = @ \cup {attempt[c]}]
  /\ Breaker!Admit(c)
  /\ UNCHANGED <<attempt, status, result, applied>>

\* breaker.check() answers Err: dispatch returns it at once, even when an
\* earlier attempt of this call had failed with an error of its own.
CircuitOpen(c) ==
  /\ pc[c] = "check"
  /\ pc' = [pc EXCEPT ![c] = "done"]
  /\ result' = [result EXCEPT ![c] = "CircuitOpen"]
  /\ Breaker!Reject(c)
  /\ UNCHANGED <<attempt, timer, status, wireVars>>

\* Mutant: an error that is not retried is returned before it is recorded.
SettleUnrecorded(c, outcome) ==
  /\ IF CanRetry(c, outcome)
       THEN /\ pc' = [pc EXCEPT ![c] = "backoff"]
            /\ timer' = [timer EXCEPT ![c] = Backoff(attempt[c])]
            /\ UNCHANGED result
       ELSE /\ pc' = [pc EXCEPT ![c] = "done"]
            /\ timer' = [timer EXCEPT ![c] = 0]
            /\ result' = [result EXCEPT ![c] = outcome]
  /\ status' = [status EXCEPT ![c] = "none"]
  /\ IF CanRetry(c, outcome) \/ outcome = "Ok"
       THEN Breaker!Record(c, outcome = "Ok")
       ELSE UNCHANGED breakerVars
  /\ UNCHANGED <<attempt, wireVars>>

\* The outcome of single_attempt: recorded, then returned or retried.
Settle(c, outcome) ==
  /\ IF CanRetry(c, outcome)
       THEN /\ pc' = [pc EXCEPT ![c] = "backoff"]
            /\ timer' = [timer EXCEPT ![c] = Backoff(attempt[c])]
            /\ UNCHANGED result
       ELSE /\ pc' = [pc EXCEPT ![c] = "done"]
            /\ timer' = [timer EXCEPT ![c] = 0]
            /\ result' = [result EXCEPT ![c] = outcome]
  /\ status' = [status EXCEPT ![c] = "none"]
  /\ Breaker!Record(c, outcome = "Ok")
  /\ UNCHANGED <<attempt, wireVars>>

TimeoutElapsed(c) ==
  /\ pc[c] = "headers"
  /\ timer[c] = 0
  /\ Settle(c, "Timeout")

\* Connect and send errors, and a connection cut before or within the body.
TransportError(c) ==
  /\ pc[c] \in {"headers", "body"}
  /\ Settle(c, "Transport")

\* The headers arrive.  Success means that the subgraph processed this
\* attempt; an error status may come from it or from anything on the way.
Headers(c, s) ==
  /\ pc[c] = "headers"
  /\ s = "success" => attempt[c] \in applied[c]
  /\ pc' = [pc EXCEPT ![c] = "body"]
  /\ status' = [status EXCEPT ![c] = s]
  /\ timer' = [timer EXCEPT ![c] = 0]
  /\ UNCHANGED <<attempt, result, breakerVars, wireVars>>

\* response.bytes() completes: no timer runs while it is awaited.
Body(c) ==
  /\ pc[c] = "body"
  /\ \E outcome \in CASE status[c] = "success"   -> {"Ok", "Decode"}
                      [] status[c] = "transient" -> {"BadStatusTransient"}
                      [] OTHER                   -> {"BadStatusFinal"} :
       Settle(c, outcome)

\* Mutant: the loop retries the same attempt.
BackoffOverSameAttempt(c) ==
  /\ pc[c] = "backoff"
  /\ timer[c] = 0
  /\ pc' = [pc EXCEPT ![c] = "check"]
  /\ UNCHANGED <<attempt, timer, status, result, breakerVars, wireVars>>

\* Mutant: the breaker is checked before the loop, and not by the retries.
BackoffOverUnchecked(c) ==
  /\ pc[c] = "backoff"
  /\ timer[c] = 0
  /\ pc' = [pc EXCEPT ![c] = "headers"]
  /\ attempt' = [attempt EXCEPT ![c] = @ + 1]
  /\ timer' = [timer EXCEPT ![c] = Timeout]
  /\ sent' = [sent EXCEPT ![c] = @ \cup {attempt[c] + 1}]
  /\ UNCHANGED <<status, result, breakerVars, applied>>

BackoffOver(c) ==
  /\ pc[c] = "backoff"
  /\ timer[c] = 0
  /\ pc' = [pc EXCEPT ![c] = "check"]
  /\ attempt' = [attempt EXCEPT ![c] = @ + 1]
  /\ UNCHANGED <<timer, status, result, breakerVars, wireVars>>

\* The client hangs up: the server drops the future wherever it awaits.  An
\* attempt in flight is never recorded.
Drop(c) ==
  /\ pc[c] \in {"headers", "body", "backoff"}
  /\ pc' = [pc EXCEPT ![c] = "dropped"]
  /\ timer' = [timer EXCEPT ![c] = 0]
  /\ status' = [status EXCEPT ![c] = "none"]
  /\ UNCHANGED <<attempt, result, breakerVars, wireVars>>

\* The subgraph processes a request of this call, perhaps long after the
\* router stopped waiting for it.
SubgraphApplies(c, a) ==
  /\ a \in sent[c] \ applied[c]
  /\ applied' = [applied EXCEPT ![c] = @ \cup {a}]
  /\ UNCHANGED <<breakerVars, callVars, sent>>

Tick ==
  /\ timer' = [c \in Calls |-> IF timer[c] > 0 THEN timer[c] - 1 ELSE 0]
  /\ UNCHANGED <<pc, attempt, status, result, wireVars>>
  /\ Breaker!Tick

Next ==
  \/ \E c \in Calls :
       \/ StartAttempt(c) \/ CircuitOpen(c)
       \/ TimeoutElapsed(c) \/ TransportError(c) \/ Body(c)
       \/ \E s \in Statuses \ {"none"} : Headers(c, s)
       \/ BackoffOver(c) \/ Drop(c)
       \/ \E a \in Attempts : SubgraphApplies(c, a)
  \/ Tick

Spec == Init /\ [][Next]_vars

-----------------------------------------------------------------------------
(* Properties *)

\* "Never for mutations" (reliability/mod.rs): whatever timeouts, late
\* processing and retries do, a subgraph processes a mutation at most once.
MutationAppliedOnce ==
  \A c \in Mutations : Cardinality(applied[c]) <= 1

\* The router sends attempt a only after the earlier ones, never the same one
\* twice, and never more than max_attempts: the loop's fall-through error
\* ("exhausted subgraph retries") is never what a caller gets.
AttemptsInOrder ==
  \A c \in Calls :
    sent[c] = 0..(IF pc[c] = "check" \/ result[c] = "CircuitOpen"
                    THEN attempt[c] - 1 ELSE attempt[c])

\* The error of a call is the error of its last attempt, with one exception: a
\* breaker that opened during the backoff.  So an error that must not be
\* retried is returned after the attempt that met it, and a query gives up
\* with a transient error only when its attempts are used up.
GivesUpOnlyWhenExhausted ==
  \A c \in Calls \ Mutations :
    result[c] \in RetryableErrors => Cardinality(sent[c]) = MaxRetries + 1

\* Dispatch drives the breaker as CircuitBreaker describes it: every attempt,
\* retries included, is admitted by check() and recorded at most once, so what
\* holds of the breaker alone holds of it here.
UsesBreaker == Breaker!Spec

\* During an open period no HTTP request leaves the router, neither a first
\* attempt nor a retry whose backoff ends.
OpenBreakerSheds ==
  [][ state = "Open" /\ wait > 0 => sent' = sent ]_vars

\* A half-open breaker is not left without anybody who may decide it: some attempt
\* is in flight, the probe or one that was admitted before, or its client dropped it.
HalfOpenHasProbe ==
  state = "HalfOpen" => Inflight # {} \/ \E c \in Calls : pc[c] = "dropped"

\* The reply and the effects of a call, as its caller and the subgraph see
\* them, are those of RemoteCall.
Promise ==
  INSTANCE RemoteCall WITH
    MaxApplied <- MaxRetries + 1,
    applied <- [c \in Calls |-> Cardinality(applied[c])],
    reply <- [c \in Calls |->
                CASE pc[c] = "dropped" -> "gone"
                  [] result[c] = "none" -> "none"
                  [] result[c] = "Ok" -> "ok"
                  [] OTHER -> "error"]

KeepsPromise == Promise!Spec

\* Fairness: timers fire, ready futures are polled, and a subgraph that has
\* sent headers sends the body or drops the connection.
CodeFairness ==
  /\ WF_vars(Tick)
  /\ \A c \in Calls :
       /\ WF_vars(StartAttempt(c) \/ CircuitOpen(c))
       /\ WF_vars(TimeoutElapsed(c))
       /\ WF_vars(BackoffOver(c))

SubgraphFairness ==
  \A c \in Calls : WF_vars(pc[c] = "body" /\ (Body(c) \/ TransportError(c)))

LiveSpec == Spec /\ CodeFairness /\ SubgraphFairness

\* Every call returns to its caller: no combination of retries, backoff and
\* breaker keeps it for good.
EveryCallReturns ==
  \A c \in Calls : <>(pc[c] \in {"done", "dropped"})

\* reliability/mod.rs:2 promises a "per-attempt timeout": an attempt ends by
\* itself, also when the subgraph stalls.
StallSpec == Spec /\ CodeFairness

AttemptTimesOut ==
  \A c \in Calls :
    (pc[c] \in {"headers", "body"}) ~> (pc[c] \notin {"headers", "body"})

=============================================================================
