------------------------- MODULE MCRequestPipeline -------------------------
(***************************************************************************)
(* RequestPipeline for TLC: a persisted query asked twice by one user (q1, *)
(* q2), once with other variables (q4), once by another user (q3), and by  *)
(* a client that bypasses the cache (b1), a mutation sent twice (m1, m2),  *)
(* and a document over the limits (x1).                                    *)
(***************************************************************************)
EXTENDS RequestPipeline, FiniteSets, Integers

CONSTANTS q1, q2, q3, q4, b1, m1, m2, x1, search, book, huge, h1, u1, u2, v1, v2,
  MaxRequests    \* bound on the requests that arrive in one behaviour

MCTextOf ==
  [r \in Requests |-> CASE r \in {m1, m2} -> book [] r = x1 -> huge [] OTHER -> Nothing]
MCHashOf == [r \in Requests |-> IF r \in {m1, m2, x1} THEN Nothing ELSE h1]
MCVariablesOf == [r \in Requests |-> IF r = q4 THEN v2 ELSE v1]
MCUserOf == [r \in Requests |-> IF r = q3 THEN u2 ELSE u1]
MCStored == [h \in {h1} |-> search]

MCNext ==
  \/ \E r \in Requests :
       /\ Cardinality({s \in Requests : pc[s] # "new"}) < MaxRequests
       /\ Arrive(r)
  \/ \E r \in Requests : Continue(r) \/ Environment(r)

MCSpec == Init /\ [][MCNext]_vars
LiveSpec == MCSpec /\ Fairness

=============================================================================
