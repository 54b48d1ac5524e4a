----------------------------- MODULE RemoteCall -----------------------------
(***************************************************************************)
(* What the router promises of a call to a subgraph, whatever it does to   *)
(* keep the promise: one reply per call, an Ok only for work the subgraph  *)
(* has done, and a mutation never applied twice: not even when its reply   *)
(* was an error, or nobody waits for it any more.                          *)
(***************************************************************************)
EXTENDS Naturals

CONSTANTS
  Calls,
  Mutations,     \* those of Calls whose OperationKind is Mutation
  MaxApplied     \* how often a subgraph may process one query

VARIABLES
  applied,       \* how often the subgraph has processed the call
  reply          \* what the caller has been told

abstractVars == <<applied, reply>>

Limit(c) == IF c \in Mutations THEN 1 ELSE MaxApplied

Init ==
  /\ applied = [c \in Calls |-> 0]
  /\ reply = [c \in Calls |-> "none"]

Apply(c) ==
  /\ applied[c] < Limit(c)
  /\ applied' = [applied EXCEPT ![c] = @ + 1]
  /\ UNCHANGED reply

Reply(c, r) ==
  /\ reply[c] = "none"
  /\ r = "ok" => applied[c] > 0
  /\ reply' = [reply EXCEPT ![c] = r]
  /\ UNCHANGED applied

Next ==
  \E c \in Calls : Apply(c) \/ \E r \in {"ok", "error", "gone"} : Reply(c, r)

Spec == Init /\ [][Next]_abstractVars

=============================================================================
