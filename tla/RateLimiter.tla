---------------------------- MODULE RateLimiter ----------------------------
(***************************************************************************)
(* The rate limit of the router: rate_limit.rs, one governor token bucket  *)
(* for each client name, before graphql_handler (rate_limit_middleware in  *)
(* server.rs).  A request takes two steps, as in check(): it looks its     *)
(* bucket up, or makes it, and then asks that bucket; other requests, of   *)
(* the same client too, may come between.                                  *)
(*                                                                         *)
(* governor keeps of a bucket the theoretical arrival time (tat) of the    *)
(* next request.  Time is in ticks, Second of them to a second.  A crash   *)
(* loses the buckets, and starts the clock and the histories that the      *)
(* properties use again: a quota is that of one process.                   *)
(***************************************************************************)
EXTENDS Integers, Sequences, FiniteSets

CONSTANTS
  Workers,       \* tasks of the server, each with a request at a time
  Clients,       \* values of apollographql-client-name, the anonymous one too
  ClientOf,      \* the client whose requests a task has
  DefaultRps, DefaultBurst,
  Overrides,     \* for some clients, [rps, burst] (rate_limit.clients)
  Second,        \* ticks in a second
  MaxTime        \* bound: the clock

Configured == [rps : Nat, burst : Nat]

ASSUME LimiterAssumption ==
  /\ ClientOf \in [Workers -> Clients]
  /\ DefaultRps \in Nat /\ DefaultBurst \in Nat
  /\ DOMAIN Overrides \subseteq Clients
  /\ \A c \in DOMAIN Overrides : Overrides[c] \in Configured
  /\ Second \in Nat \ {0}
  /\ MaxTime \in Nat

VARIABLES
  now,           \* the time since the process started
  tats,          \* the buckets made so far: their tat
  bucketOf,      \* limiters: the bucket of a client, 0 for none
  pc,            \* of a task: idle, arrived, or checking
  held,          \* the bucket that a checking task has in hand
  admitted,      \* history: when requests of a client were let through
  told           \* history: a client's refusals since it was last let through, with
                 \* the seconds of Retry-After

vars == <<now, tats, bucketOf, pc, held, admitted, told>>

AtLeastOne(n) == IF n = 0 THEN 1 ELSE n

Quota(c) == IF c \in DOMAIN Overrides THEN Overrides[c]
            ELSE [rps |-> DefaultRps, burst |-> DefaultBurst]

\* Quota::per_second(rps).allow_burst(burst): the time between two requests, and
\* how far the tat may be ahead.
Interval(c) == Second \div AtLeastOne(Quota(c).rps)
Tolerance(c) == AtLeastOne(Quota(c).burst) * Interval(c)

\* Mutant: whole seconds, rounded down.
RetryAfterRounded(wait) == wait \div Second

\* as_secs().max(1)
RetryAfter(wait) == AtLeastOne(wait \div Second)

Unset == 0    \* of a tat: the bucket has not been asked yet

Later(a, b) == IF a > b THEN a ELSE b

Init ==
  /\ now = 0
  /\ tats = <<>>
  /\ bucketOf = [c \in Clients |-> 0]
  /\ pc = [w \in Workers |-> "idle"]
  /\ held = [w \in Workers |-> 0]
  /\ admitted = [c \in Clients |-> <<>>]
  /\ told = {}

Goto(w, place) == pc' = [pc EXCEPT ![w] = place]

Arrive(w) ==
  /\ pc[w] = "idle"
  /\ Goto(w, "arrived")
  /\ UNCHANGED <<now, tats, bucketOf, held, admitted, told>>

\* Mutant: the map is read and written under two locks, and the later write stays.
LimiterForTwice(w) ==
  LET c == ClientOf[w] IN
  /\ pc[w] = "arrived"
  /\ tats' = Append(tats, Unset)
  /\ bucketOf' = [bucketOf EXCEPT ![c] = Len(tats')]
  /\ held' = [held EXCEPT ![w] = bucketOf'[c]]
  /\ Goto(w, "checking")
  /\ UNCHANGED <<now, admitted, told>>

\* Mutant: a client gets its entry in the map before the bucket is made.
LimiterForUnmade(w) ==
  LET c == ClientOf[w] IN
  /\ pc[w] = "arrived"
  /\ IF bucketOf[c] # 0
     THEN /\ tats' = IF bucketOf[c] > Len(tats) THEN Append(tats, Unset) ELSE tats
          /\ held' = [held EXCEPT ![w] = bucketOf[c]]
          /\ Goto(w, "checking")
          /\ UNCHANGED bucketOf
     ELSE /\ bucketOf' = [bucketOf EXCEPT ![c] = Len(tats) + 1]
          /\ UNCHANGED <<tats, pc, held>>
  /\ UNCHANGED <<now, admitted, told>>

\* entry().or_insert_with(): the map's lock is held from the look-up to the insertion.
LimiterFor(w) ==
  LET c == ClientOf[w] IN
  /\ pc[w] = "arrived"
  /\ IF bucketOf[c] # 0
     THEN UNCHANGED <<tats, bucketOf>>
     ELSE /\ tats' = Append(tats, Unset)
          /\ bucketOf' = [bucketOf EXCEPT ![c] = Len(tats')]
  /\ held' = [held EXCEPT ![w] = bucketOf'[c]]
  /\ Goto(w, "checking")
  /\ UNCHANGED <<now, admitted, told>>

\* The tat a check goes by: a bucket that has not been asked before counts as if a
\* request had just been let through.
Tat(w) ==
  IF tats[held[w]] = Unset THEN now + Interval(ClientOf[w]) ELSE tats[held[w]]

Admit(w) ==
  LET c == ClientOf[w] IN
  /\ pc[w] = "checking"
  /\ now >= Tat(w) - Tolerance(c)
  /\ tats' = [tats EXCEPT ![held[w]] = Later(Tat(w), now) + Interval(c)]
  /\ admitted' = [admitted EXCEPT ![c] = Append(admitted[c], now)]
  /\ told' = {x \in told : x.client # c}
  /\ Goto(w, "idle")
  /\ UNCHANGED <<now, bucketOf, held>>

Refuse(w) ==
  LET c == ClientOf[w] IN
  /\ pc[w] = "checking"
  /\ now < Tat(w) - Tolerance(c)
  /\ told' = told \cup {[client |-> c, at |-> now,
                         after |-> RetryAfter(Tat(w) - Tolerance(c) - now)]}
  /\ Goto(w, "idle")
  /\ UNCHANGED <<now, tats, bucketOf, held, admitted>>

Tick ==
  /\ now < MaxTime
  /\ now' = now + 1
  /\ UNCHANGED <<tats, bucketOf, pc, held, admitted, told>>

Crash ==
  /\ tats' = <<>>
  /\ bucketOf' = [c \in Clients |-> 0]
  /\ pc' = [w \in Workers |-> "idle"]
  /\ held' = [w \in Workers |-> 0]
  /\ admitted' = [c \in Clients |-> <<>>]
  /\ told' = {}
  /\ now' = 0

Next ==
  \/ \E w \in Workers : Arrive(w) \/ LimiterFor(w) \/ Admit(w) \/ Refuse(w)
  \/ Tick \/ Crash

Spec == Init /\ [][Next]_vars

-----------------------------------------------------------------------------
(* Properties *)

Refusal == [client : Clients, at : Nat, after : Nat]

\* Types of the state, and that a checking task holds a bucket there is.
TypeOK ==
  /\ now \in Nat
  /\ tats \in Seq(Nat)
  /\ bucketOf \in [Clients -> 0..Len(tats)]
  /\ pc \in [Workers -> {"idle", "arrived", "checking"}]
  /\ held \in [Workers -> Nat]
  /\ \A w \in Workers : pc[w] = "checking" => held[w] \in 1..Len(tats)
  /\ admitted \in [Clients -> Seq(Nat)]
  /\ told \in SUBSET Refusal

\* However the requests of a client interleave, and the first of them that find no
\* bucket, in any span of time at most burst + 1 of them and one for each interval
\* in it are let through (ClientRateLimiter::check).
QuotaHolds ==
  \A c \in Clients : \A j \in 1..Len(admitted[c]) : \A i \in 1..j :
    (j - i) * Interval(c) <= admitted[c][j] - admitted[c][i] + Tolerance(c)

\* A client that waits as long as Retry-After says is let through, unless another
\* request of the same name was meanwhile (rate_limit_middleware).
RetryAfterSuffices ==
  \A x, y \in told :
    x.client = y.client => y.at < x.at + x.after * Second

=============================================================================
