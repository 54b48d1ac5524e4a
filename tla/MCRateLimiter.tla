--------------------------- MODULE MCRateLimiter ---------------------------
(***************************************************************************)
(* RateLimiter for TLC: a client with the default quota that two tasks     *)
(* serve at once, and a client whose override is zero in both numbers.     *)
(***************************************************************************)
EXTENDS RateLimiter, TLC

CONSTANTS w1, w2, w3, web, batch

MCClientOf == (w1 :> web) @@ (w2 :> web) @@ (w3 :> batch)
MCOverrides == batch :> [rps |-> 0, burst |-> 0]
Tasks == Permutations({w1, w2})

=============================================================================
