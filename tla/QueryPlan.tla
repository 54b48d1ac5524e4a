------------------------------ MODULE QueryPlan ------------------------------
(***************************************************************************)
(* What the planner (plan/planner.rs) makes of one root field of a query,  *)
(* given the catalog (supergraph/catalog.rs) it has read from the composed *)
(* supergraph.                                                             *)
(*                                                                         *)
(* A selected field is a record: the response key (its alias, else its     *)
(* name), its name, the names selected below it, and whether an inline     *)
(* fragment surrounds it.  Arguments, and the rendering of the text that   *)
(* is sent, are left out.                                                  *)
(***************************************************************************)
EXTENDS Integers, Sequences, FiniteSets

CONSTANTS
  Names,        \* names of fields, and response keys
  Typename, Id, \* __typename and id
  Types, Roots, Subgraphs,
  None,         \* no entity type
  JoinType,     \* the @join__type directives of a type, in their order
  JoinField,    \* for a type, the graphs of its fields' @join__field directives
  JoinRoot      \* the same for the root fields, the fallback owner included

Selected == [key : Names, name : Names, below : SUBSET Names, inline : BOOLEAN]

ASSUME CatalogAssumption ==
  /\ {Typename, Id} \subseteq Names
  /\ Typename # Id
  /\ None \notin Types
  /\ IsFiniteSet(Types)

-----------------------------------------------------------------------------
(* The catalog *)

\* The types the planner knows: those with a @join__type, entities or not.
Tagged == {t \in Types : JoinType[t] # <<>>}

\* The last @join__type that is no extension (parse refuses a type without one).
TypeOwner(t) ==
  LET owners == SelectSeq(JoinType[t], LAMBDA j : ~j.extension)
  IN owners[Len(owners)].graph

FieldsOf(t) == DOMAIN JoinField[t]

FieldOwner(t, n) ==
  IF JoinField[t][n] = <<>> THEN TypeOwner(t) ELSE JoinField[t][n][1]

\* key_fields: what the first @join__type with a key names; here always id.
Keyed(t) == \E i \in DOMAIN JoinType[t] : JoinType[t][i].key = Id

RootOwner(root) == JoinRoot[root][1]

\* plan_operation refuses what an unknown subgraph owns.
ASSUME OwnersAssumption == \A t \in Tagged : \A n \in FieldsOf(t) : FieldOwner(t, n) \in Subgraphs

-----------------------------------------------------------------------------
(* The plan of a root field that selects sub and returns to subgraph owner *)

Visible(sub) == {s \in sub : ~s.inline}

Score(t, sub) == Cardinality({s \in Visible(sub) : s.name \in FieldsOf(t)})

\* The types with the most of the selected names; the order of a HashMap decides
\* between them.
Guesses(sub) ==
  LET best == {t \in Tagged : /\ Score(t, sub) > 0
                              /\ \A u \in Tagged : Score(u, sub) <= Score(t, sub)}
  IN IF best = {} THEN {None} ELSE best

Injected == {[key |-> n, name |-> n, below |-> {}, inline |-> FALSE] : n \in {Typename, Id}}

\* The subgraph that a selected field is fetched from.
OwnerOf(t, n, owner) == IF n \in FieldsOf(t) THEN FieldOwner(t, n) ELSE owner

\* The selections that are partitioned; the bookkeeping fields are not.
Partitioned(sub) == {s \in Visible(sub) : s.name \notin {Typename, Id}}

\* partition_for_entity: what each subgraph is asked for.
Share(t, sub, owner, e) == {s \in Partitioned(sub) : OwnerOf(t, s.name, owner) = e}

\* The selection set of the initial fetch.
InitialSelection(t, sub, owner) ==
  IF t = None THEN sub ELSE Injected \cup Share(t, sub, owner, owner)

\* The subgraphs that get an entity fetch.
Extenders(t, sub, owner) ==
  IF t = None THEN {}
  ELSE {e \in Subgraphs \ {owner} : Share(t, sub, owner, e) # {}}

\* client_requested_id_keys, for the only key there is.
AsksForKey(t, sub) == Keyed(t) /\ \E s \in Visible(sub) : s.name = Id

=============================================================================
