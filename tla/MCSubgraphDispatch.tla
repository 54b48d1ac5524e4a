------------------------- MODULE MCSubgraphDispatch -------------------------
(***************************************************************************)
(* SubgraphDispatch for TLC: a query (q1) and a mutation (m1) share one    *)
(* subgraph and its breaker.                                               *)
(***************************************************************************)
EXTENDS SubgraphDispatch

=============================================================================
