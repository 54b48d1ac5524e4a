-------------------------- MODULE MCBookingService --------------------------
(***************************************************************************)
(* BookingService for TLC: a double click (r1, r2: one key, one window), a *)
(* second booking of the same user (r3) and one of another user (r4) that  *)
(* share a night with it, in a property with one room of one type; an      *)
(* anonymous request (r5) and one for an empty window (r6) are refused.    *)
(***************************************************************************)
EXTENDS BookingService

CONSTANTS r1, r2, r3, r4, r5, r6, x1, x2, u1, u2, k1, k2, k3, p1,
  MaxCallers    \* bound on the callers of one behaviour

MCKeyOf == [r \in Requests |-> CASE r = r3 -> k2 [] r = r4 -> k3 [] OTHER -> k1]
MCUserOf == [r \in Requests |-> CASE r = r4 -> u2 [] r = r5 -> Anonymous [] OTHER -> u1]
MCPropertyOf == [r \in Requests |-> p1]
MCNightsOf ==
  [r \in Requests |->
     CASE r = r3 -> {2, 3} [] r = r4 -> {3} [] r = r6 -> {} [] OTHER -> {1, 2}]
MCRooms == [double |-> 1, suite |-> 0]

\* Any MaxCallers of the callers arrive, up to the exchange of r1 and r2, and of x1 and x2;
\* the requests of the others are lost on their way.
Casts ==
  {cast \in SUBSET Callers : /\ Cardinality(cast) = MaxCallers
                             /\ r2 \in cast => r1 \in cast
                             /\ x2 \in cast => x1 \in cast}

MCInit ==
  /\ row = [r \in Requests |-> "none"]
  /\ \E cast \in Casts : pc = [c \in Callers |-> IF c \in cast THEN "new" ELSE "lost"]
  /\ reply = [c \in Callers |-> NoReply]
  /\ target = [x \in Cancels |-> NoBooking]
  /\ seen = [r \in Requests |-> {}]

MCSpec == MCInit /\ [][Next]_vars /\ Fairness

=============================================================================
