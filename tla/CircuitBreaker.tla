--------------------------- MODULE CircuitBreaker ---------------------------
(***************************************************************************)
(* The sliding-window circuit breaker that guards one subgraph             *)
(* (reliability/circuit.rs).  A caller takes the mutex twice: once in      *)
(* check(), before it talks to the subgraph, and once in record(), after   *)
(* an await of unbounded length.  Between the two it is in flight, and     *)
(* other callers check, record and move the breaker.                       *)
(*                                                                         *)
(* The code stores Instants; the module stores their distance from now: a  *)
(* sample carries its age in ticks, an open breaker the ticks it still has *)
(* to wait.  All samples older than Window are alike to the code, so an    *)
(* age stops growing at Window + 1.                                        *)
(***************************************************************************)
EXTENDS Integers, Sequences, FiniteSets

CONSTANTS
  Calls,        \* identities of the concurrent callers of dispatch
  Window,       \* CircuitBreakerConfig.window, in ticks
  MinSamples,   \* CircuitBreakerConfig.min_samples
  RatioNum,     \* CircuitBreakerConfig.failure_ratio
  RatioDen,     \*   = RatioNum / RatioDen
  Recovery      \* CircuitBreakerConfig.recovery, in ticks

ASSUME ConfigAssumption ==
  /\ Window \in Nat
  /\ MinSamples \in Nat
  /\ RatioNum \in Nat \ {0}
  /\ RatioDen \in Nat \ {0}
  /\ Recovery \in Nat \ {0}

VARIABLES
  samples,      \* Inner.samples, oldest first
  state,        \* Inner.state
  wait,         \* ticks until State::Open.until; 0 when it has passed or not open
  inflight      \* callers between check() and record()

vars == <<samples, state, wait, inflight>>

Sample == [age : 0..(Window + 1), success : BOOLEAN]

TypeOK ==
  /\ samples \in Seq(Sample)
  /\ state \in {"Closed", "Open", "HalfOpen"}
  /\ wait \in 0..Recovery
  /\ inflight \in SUBSET Calls

-----------------------------------------------------------------------------
\* prune_static: pops from the front while the front sample is past the cutoff.

Stale(sample) == sample.age > Window

StalePrefix(s) ==
  CHOOSE k \in 0..Len(s) :
    /\ \A i \in 1..k : Stale(s[i])
    /\ k < Len(s) => ~Stale(s[k + 1])

Prune(s) == SubSeq(s, StalePrefix(s) + 1, Len(s))

Observe(s, ok) == Append(Prune(s), [age |-> 0, success |-> ok])

Failures(s) == {i \in 1..Len(s) : ~s[i].success}

\* Mutant: the comparison with the ratio is the wrong way round.
TripsOnSuccesses(s) ==
  /\ Len(s) >= MinSamples
  /\ Cardinality(Failures(s)) * RatioDen <= RatioNum * Len(s)

Trips(s) ==
  /\ Len(s) >= MinSamples
  /\ Cardinality(Failures(s)) * RatioDen >= RatioNum * Len(s)

-----------------------------------------------------------------------------
Init ==
  /\ samples = <<>>
  /\ state = "Closed"
  /\ wait = 0
  /\ inflight = {}

\* Mutant: a half-open breaker admits one probe and waits for its outcome.
AdmitOneProbe(c) ==
  /\ c \notin inflight
  /\ state # "HalfOpen"
  /\ state = "Open" => wait = 0
  /\ state' = IF state = "Open" THEN "HalfOpen" ELSE state
  /\ samples' = Prune(samples)
  /\ inflight' = inflight \cup {c}
  /\ UNCHANGED wait

\* check() answers Ok.  The first caller after the recovery period turns the
\* breaker half-open; a half-open breaker admits every further caller.
Admit(c) ==
  /\ c \notin inflight
  /\ state = "Open" => wait = 0
  /\ state' = IF state = "Open" THEN "HalfOpen" ELSE state
  /\ samples' = Prune(samples)
  /\ inflight' = inflight \cup {c}
  /\ UNCHANGED wait

\* check() answers Err(CircuitOpen).
Reject(c) ==
  /\ c \notin inflight
  /\ state = "Open" /\ wait > 0
  /\ samples' = Prune(samples)
  /\ UNCHANGED <<state, wait, inflight>>

\* Mutant: a successful probe opens the breaker and a failed one closes it.
RecordHalfOpenSwapped(c, ok) ==
  /\ c \in inflight
  /\ state = "HalfOpen"
  /\ samples' = Observe(samples, ok)
  /\ IF ok
       THEN state' = "Open" /\ wait' = Recovery
       ELSE state' = "Closed" /\ wait' = 0
  /\ inflight' = inflight \ {c}

\* record() while half-open: the first outcome to arrive decides.
RecordHalfOpen(c, ok) ==
  /\ c \in inflight
  /\ state = "HalfOpen"
  /\ samples' = Observe(samples, ok)
  /\ IF ok
       THEN state' = "Closed" /\ wait' = 0
       ELSE state' = "Open" /\ wait' = Recovery
  /\ inflight' = inflight \ {c}

\* record() while closed: the window is evaluated after every outcome.
RecordClosed(c, ok) ==
  /\ c \in inflight
  /\ state = "Closed"
  /\ samples' = Observe(samples, ok)
  /\ IF Trips(Observe(samples, ok))
       THEN state' = "Open" /\ wait' = Recovery
       ELSE UNCHANGED <<state, wait>>
  /\ inflight' = inflight \ {c}

\* Mutant: a late failure starts the recovery period again.
RecordOpenRestarts(c, ok) ==
  /\ c \in inflight
  /\ state = "Open"
  /\ samples' = Observe(samples, ok)
  /\ inflight' = inflight \ {c}
  /\ wait' = IF ok THEN wait ELSE Recovery
  /\ UNCHANGED state

\* Mutant: a late failure adds a recovery period to until.
RecordOpenExtends(c, ok) ==
  /\ c \in inflight
  /\ state = "Open"
  /\ samples' = Observe(samples, ok)
  /\ inflight' = inflight \ {c}
  /\ wait' = IF ok THEN wait ELSE wait + Recovery
  /\ UNCHANGED state

\* record() while open: a caller admitted before the breaker opened.  Only
\* the sample is kept.
RecordOpen(c, ok) ==
  /\ c \in inflight
  /\ state = "Open"
  /\ samples' = Observe(samples, ok)
  /\ inflight' = inflight \ {c}
  /\ UNCHANGED <<state, wait>>

Record(c, ok) ==
  \/ RecordHalfOpen(c, ok)
  \/ RecordClosed(c, ok)
  \/ RecordOpen(c, ok)

\* The client hangs up: the server drops the request's future between check()
\* and record(), and no outcome is ever recorded for it.
Abandon(c) ==
  /\ c \in inflight
  /\ inflight' = inflight \ {c}
  /\ UNCHANGED <<samples, state, wait>>

Older(sample) == [sample EXCEPT !.age = IF Stale(sample) THEN @ ELSE @ + 1]

Tick ==
  /\ samples' = [i \in 1..Len(samples) |-> Older(samples[i])]
  /\ wait' = IF wait > 0 THEN wait - 1 ELSE 0
  /\ UNCHANGED <<state, inflight>>

Next ==
  \/ \E c \in Calls : Admit(c) \/ Reject(c) \/ Abandon(c)
  \/ \E c \in Calls, ok \in BOOLEAN : Record(c, ok)
  \/ Tick

Spec == Init /\ [][Next]_vars

-----------------------------------------------------------------------------
(* Properties *)

\* The samples are kept in the order of their instants, the oldest in front.
\* prune_static stops at the first fresh sample, so it relies on this order,
\* which nothing but the mutex around Instant::now() and push_back provides.
SamplesInOrder ==
  \A i, j \in 1..Len(samples) : i < j => samples[i].age >= samples[j].age

\* Every check() and record() leaves only samples inside the window, whatever
\* the order in which the callers came back: the ratio never counts history
\* older than the configured window.
FreshSamplesOnly ==
  [][ \/ Tick
      \/ samples' = samples
      \/ \A i \in 1..Len(samples') : ~Stale(samples'[i]) ]_vars

\* Once open, the breaker stays open for exactly the recovery period it was
\* opened with: outcomes of callers admitted earlier neither shorten nor
\* extend it, only the clock counts it down, and nothing is admitted meanwhile.
OpenPeriodHonoured ==
  [][ state = "Open" /\ wait > 0
        => /\ state' = "Open"
           /\ wait' \in {wait, wait - 1}
           /\ inflight' \subseteq inflight ]_vars

\* The breaker opens only on evidence inside the window: at least one failure,
\* and, unless a probe failed, the minimum volume and the failure ratio.
OpensOnEvidence ==
  [][ state # "Open" /\ state' = "Open"
        => /\ \E i \in 1..Len(samples') : ~samples'[i].success /\ ~Stale(samples'[i])
           /\ state = "Closed" => Trips(samples') ]_vars

=============================================================================
