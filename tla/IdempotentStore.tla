-------------------------- MODULE IdempotentStore --------------------------
(***************************************************************************)
(* What the callers of a create operation with idempotency keys may rely   *)
(* on: a key is bound to at most one record, for good, and whoever is told *)
(* of a record for a key is told of that one.  A record that is cancelled  *)
(* stays so, and keeps its key.  A caller may also be told nothing, or be  *)
(* refused.                                                                *)
(***************************************************************************)
CONSTANTS Requests, Keys, KeyOf, NoBooking

VARIABLES
  store,      \* the record of each key
  cancelled,  \* the records that have been cancelled
  told        \* the record a request has been told of

storeVars == <<store, cancelled, told>>

Init ==
  /\ store = [k \in Keys |-> NoBooking]
  /\ cancelled = {}
  /\ told = [r \in Requests |-> NoBooking]

Create(r) ==
  /\ store[KeyOf[r]] = NoBooking
  /\ store' = [store EXCEPT ![KeyOf[r]] = r]
  /\ UNCHANGED <<cancelled, told>>

Tell(r) ==
  /\ store[KeyOf[r]] # NoBooking
  /\ told[r] = NoBooking
  /\ told' = [told EXCEPT ![r] = store[KeyOf[r]]]
  /\ UNCHANGED <<store, cancelled>>

Cancel(r) ==
  /\ store[KeyOf[r]] = r
  /\ r \notin cancelled
  /\ cancelled' = cancelled \cup {r}
  /\ UNCHANGED <<store, told>>

Next == \E r \in Requests : Create(r) \/ Tell(r) \/ Cancel(r)

Spec == Init /\ [][Next]_storeVars

=============================================================================
