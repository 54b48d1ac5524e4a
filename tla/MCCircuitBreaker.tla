-------------------------- MODULE MCCircuitBreaker --------------------------
(***************************************************************************)
(* CircuitBreaker for TLC: at most MaxSamples requests are admitted per    *)
(* window, which bounds the deque; time is unbounded.                      *)
(***************************************************************************)
EXTENDS CircuitBreaker

CONSTANT MaxSamples   \* bound: samples in the window plus callers in flight

MCAdmit(c) ==
  /\ Len(Prune(samples)) + Cardinality(inflight) < MaxSamples
  /\ Admit(c)

MCNext ==
  \/ \E c \in Calls : MCAdmit(c)
  \/ \E c \in Calls : Reject(c)
  \/ \E c \in Calls : Abandon(c)
  \/ \E c \in Calls, ok \in BOOLEAN : Record(c, ok)
  \/ Tick

MCSpec == Init /\ [][MCNext]_vars

RecordFailure == \E c \in Calls : Record(c, FALSE)

\* The environment of the liveness runs: time passes, requests keep coming,
\* and not every client hangs up on every request: outcomes keep arriving.
LiveSpec ==
  /\ MCSpec
  /\ WF_vars(Tick)
  /\ WF_vars(\E c \in Calls : MCAdmit(c))
  /\ SF_vars(\E c \in Calls, ok \in BOOLEAN : Record(c, ok))

\* A half-open breaker is decided, even when the client of the caller that
\* turned it half-open hangs up and never records.
HalfOpenIsDecided == (state = "HalfOpen") ~> (state # "HalfOpen")

\* When the subgraph stops failing for good, the breaker closes for good, even
\* though a close does not clear the failures already in the window and these
\* can open it again on a success.
HealthyCloses == (<>[][~RecordFailure]_vars) => <>[](state = "Closed")

=============================================================================
