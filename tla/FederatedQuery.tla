--------------------------- MODULE FederatedQuery ---------------------------
(***************************************************************************)
(* One planned operation from its plan to its response: execute.rs runs    *)
(* the root fields in parallel, and for each of them the initial fetch,    *)
(* then one entity fetch per extending subgraph, in parallel again;        *)
(* merge.rs folds the results into { data, errors }.                       *)
(*                                                                         *)
(* A value is the sequence of its leaves, as a depth-first walk meets      *)
(* them: Null or an object, a function from response keys.  A field of an  *)
(* object is a record: the entity it is of, the field's name, the names    *)
(* below it.  The calls themselves are those of SubgraphDispatch: one that *)
(* fails is reported as Failed, and so is an answer without data.          *)
(***************************************************************************)
EXTENDS QueryPlan

CONSTANTS
  Fields,       \* the root fields of the operation, and their response keys
  Queries,      \* operations: what each of the fields asks for
  ReturnType,   \* what the supergraph declares a root field to return
  Entities,     \* the entities of a type
  Results,      \* the values a root field may have: sequences of entities and Null
  Null, Pending, Failed, Nothing

ASSUME QueryAssumption ==
  /\ \A query \in Queries, f \in Fields :
       /\ query[f].root \in Roots
       /\ query[f].sub \in SUBSET Selected
       /\ \A s, t \in query[f].sub : s.key = t.key => s = t
  /\ Pending # Failed
  /\ \A root \in Roots :
       /\ ReturnType[root] \in Types
       /\ Results[root] \subseteq Seq(Entities[ReturnType[root]] \cup {Null})

VARIABLES
  query,        \* the operation
  guess,        \* FieldFetch.entity_type, None without one
  initial,      \* the outcome of a field's initial fetch
  entities,     \* the outcome of a field's fetch from an extender
  response      \* what merge returns, Nothing before

vars == <<query, guess, initial, entities, response>>

Sub(f) == query[f].sub
Owner(f) == RootOwner(query[f].root)
Asked(f) == InitialSelection(guess[f], Sub(f), Owner(f))
AskedOf(f, e) == Share(guess[f], Sub(f), Owner(f), e)
ExtendersOf(f) == Extenders(guess[f], Sub(f), Owner(f))

Answered(f) == initial[f] \notin {Pending, Failed}

-----------------------------------------------------------------------------
(* Subgraphs: what they accept and what they answer *)

Value(x, s) == [of |-> x, name |-> s.name, below |-> s.below]

Object(x, sels) ==
  [k \in {s.key : s \in sels} |-> Value(x, CHOOSE s \in sels : s.key = k)]

\* A subgraph's validation: the fields exist and no two of them share a key.
Accepts(e, t, sels) ==
  /\ \A s \in sels :
       \/ s.name = Typename
       \/ s.name = Id /\ Keyed(t)
       \/ s.name \in FieldsOf(t) /\ FieldOwner(t, s.name) = e
  /\ \A s1, s2 \in sels : s1.key = s2.key => s1.name = s2.name

\* An object is not null.
ASSUME NullAssumption ==
  \A ops \in Queries, f \in Fields, t \in Tagged, e \in Subgraphs :
    \A x \in UNION {Entities[u] : u \in Types} :
      LET sub == ops[f].sub
          owner == RootOwner(ops[f].root)
      IN /\ Object(x, sub) # Null
         /\ Object(x, InitialSelection(t, sub, owner)) # Null
         /\ Object(x, Share(t, sub, owner, e)) # Null

-----------------------------------------------------------------------------
(* The executor *)

Init ==
  /\ query \in Queries
  /\ guess \in [Fields -> Types \cup {None}]
  /\ \A f \in Fields : guess[f] \in Guesses(Sub(f))
  /\ initial = [f \in Fields |-> Pending]
  /\ entities = [f \in Fields |-> [e \in ExtendersOf(f) |-> Pending]]
  /\ response = Nothing

InitialAnswers(f) ==
  /\ initial[f] = Pending
  /\ Accepts(Owner(f), ReturnType[query[f].root], Asked(f))
  /\ \E rows \in Results[query[f].root] :
       initial' = [initial EXCEPT ![f] =
         [i \in DOMAIN rows |-> IF rows[i] = Null THEN Null ELSE Object(rows[i], Asked(f))]]
  /\ UNCHANGED <<query, guess, entities, response>>

InitialFails(f) ==
  /\ initial[f] = Pending
  /\ initial' = [initial EXCEPT ![f] = Failed]
  /\ UNCHANGED <<query, guess, entities, response>>

HasKey(o) == o # Null /\ Id \in DOMAIN o

KeyedUpTo(value, i) == Cardinality({j \in 1..i : HasKey(value[j])})

\* extract_entity_refs: the entities of the objects that have the key, in order.
Refs(value) ==
  [n \in 1..KeyedUpTo(value, Len(value)) |->
     LET i == CHOOSE i \in DOMAIN value : HasKey(value[i]) /\ KeyedUpTo(value, i) = n
     IN value[i][Id].of]

\* An extender is asked when there is an entity to ask it about.
Asking(f, e) ==
  /\ e \in ExtendersOf(f)
  /\ entities[f][e] = Pending
  /\ Answered(f)
  /\ Refs(initial[f]) # <<>>

\* It resolves the entities it knows under the type in the representation, those
\* in lost excepted: they are null, with an error.
EntityAnswers(f, e, lost) ==
  /\ Asking(f, e)
  /\ Keyed(guess[f])
  /\ Accepts(e, guess[f], AskedOf(f, e))
  /\ LET refs == Refs(initial[f]) IN
       entities' = [entities EXCEPT ![f][e] =
         [items |-> [k \in DOMAIN refs |->
                       IF refs[k] \in Entities[guess[f]] \ lost
                         THEN Object(refs[k], AskedOf(f, e)) ELSE Null],
          lost |-> lost]]
  /\ UNCHANGED <<query, guess, initial, response>>

EntityFails(f, e) ==
  /\ Asking(f, e)
  /\ entities' = [entities EXCEPT ![f][e] = Failed]
  /\ UNCHANGED <<query, guess, initial, response>>

-----------------------------------------------------------------------------
(* The merger *)

\* Mutant: the walk counts every leaf.
PlaceOfLeaf(value, i) == i

\* walk_and_merge: the place of the i-th leaf in the answers, counting objects.
Place(value, i) == Cardinality({j \in 1..i : value[j] # Null})

\* What the extenders add to the i-th leaf, an object.
Extras(f, i) ==
  LET n == Place(initial[f], i) IN
  {entities[f][e].items[n] :
     e \in {d \in ExtendersOf(f) : /\ entities[f][d] \notin {Pending, Failed}
                                   /\ n \in DOMAIN entities[f][d].items
                                   /\ entities[f][d].items[n] # Null}}

\* The response keys of two extenders differ, so their order does not matter.
Merged(object, extras) ==
  [k \in DOMAIN object \cup UNION {DOMAIN x : x \in extras} |->
     IF \E x \in extras : k \in DOMAIN x
       THEN (CHOOSE x \in extras : k \in DOMAIN x)[k]
       ELSE object[k]]

\* Mutant: the key is always stripped.
DropsKey(f) == IF guess[f] = None THEN {} ELSE {Typename, Id}

Drops(f) ==
  IF guess[f] = None THEN {}
  ELSE {Typename} \cup (IF AsksForKey(guess[f], Sub(f)) THEN {} ELSE {Id})

Strip(object, drops) ==
  [k \in DOMAIN object \ drops |-> [object[k] EXCEPT !.below = @ \ drops]]

Data(f) ==
  IF ~Answered(f) THEN Null
  ELSE [i \in DOMAIN initial[f] |->
          IF initial[f][i] = Null THEN Null
          ELSE Strip(Merged(initial[f][i], Extras(f, i)), Drops(f))]

\* Mutant: only failed calls are reported.
ErrsCalls(f) == initial[f] = Failed \/ \E e \in ExtendersOf(f) : entities[f][e] = Failed

Errs(f) ==
  \/ initial[f] = Failed
  \/ \E e \in ExtendersOf(f) :
       \/ entities[f][e] = Failed
       \/ entities[f][e] \notin {Pending, Failed} /\ entities[f][e].lost # {}

\* Mutant: entity fetches are awaited although there is no entity to ask about.
OverAll(f) ==
  \/ initial[f] = Failed
  \/ Answered(f) /\ \A e \in ExtendersOf(f) : entities[f][e] # Pending

\* The fetches of a field are over.
Over(f) ==
  \/ initial[f] = Failed
  \/ Answered(f) /\ \A e \in ExtendersOf(f) : ~Asking(f, e)

\* Mutant: a field that failed is left out.
MergeAnswered ==
  /\ response = Nothing
  /\ \A f \in Fields : Over(f)
  /\ response' = [data |-> [f \in {g \in Fields : Answered(g)} |-> Data(f)],
                  errors |-> {f \in Fields : Errs(f)}]
  /\ UNCHANGED <<query, guess, initial, entities>>

Merge ==
  /\ response = Nothing
  /\ \A f \in Fields : Over(f)
  /\ response' = [data |-> [f \in Fields |-> Data(f)],
                  errors |-> {f \in Fields : Errs(f)}]
  /\ UNCHANGED <<query, guess, initial, entities>>

Lost(f) == SUBSET (IF guess[f] = None THEN {} ELSE Entities[guess[f]])

Fetch(f) ==
  \/ InitialAnswers(f) \/ InitialFails(f)
  \/ \E e \in ExtendersOf(f) :
       EntityFails(f, e) \/ \E lost \in Lost(f) : EntityAnswers(f, e, lost)

Next == Merge \/ \E f \in Fields : Fetch(f)

Spec == Init /\ [][Next]_vars

\* Every call ends (SubgraphDispatch), and a future that is ready is polled.
Fairness == WF_vars(Merge) /\ \A f \in Fields : WF_vars(Fetch(f))

-----------------------------------------------------------------------------
(* Properties *)

TrueType(f) == ReturnType[query[f].root]

\* The planner has recognised an entity of the type that the root field returns.
Recognised(f) == guess[f] = TrueType(f) /\ Keyed(TrueType(f))

\* A selection without the forms that the planner loses: inline fragments,
\* __typename, an alias of the key or for it, a key below another field.
Conventional(f) ==
  \A s \in Sub(f) :
    /\ ~s.inline
    /\ s.name # Typename /\ s.key # Typename
    /\ s.name = Id <=> s.key = Id
    /\ s.name = Id => s.below = {}
    /\ s.name = Id \/ s.name \in FieldsOf(TrueType(f))
    /\ Typename \notin s.below
    /\ Id \in s.below => \E t \in Sub(f) : t.name = Id

\* What is delivered of an entity: a field is lost with the subgraph that owns it.
Delivered(f, x) ==
  {s \in Sub(f) :
     LET e == IF s.name = Id THEN Owner(f) ELSE FieldOwner(TrueType(f), s.name) IN
       \/ e = Owner(f)
       \/ entities[f][e] \notin {Pending, Failed} /\ x \notin entities[f][e].lost}

TypeOK ==
  /\ query \in Queries
  /\ \A f \in Fields : guess[f] \in Guesses(Sub(f))
  /\ DOMAIN initial = Fields /\ DOMAIN entities = Fields
  /\ \A f \in Fields :
       /\ Answered(f) =>
            \E rows \in Results[query[f].root] :
              initial[f] = [i \in DOMAIN rows |->
                              IF rows[i] = Null THEN Null ELSE Object(rows[i], Asked(f))]
       /\ DOMAIN entities[f] = ExtendersOf(f)
  /\ response # Nothing => DOMAIN response.data = Fields /\ response.errors \subseteq Fields

\* Every field of an object in the response is of that object's own entity: the
\* walk that collects the entities and the one that merges them count alike,
\* whatever is null or fails.
OwnFields ==
  response # Nothing =>
    \A f \in Fields : Answered(f) =>
      \A i \in DOMAIN initial[f] : initial[f][i] # Null =>
        \A k \in DOMAIN response.data[f][i], own \in DOMAIN initial[f][i] :
          response.data[f][i][k].of = initial[f][i][own].of

\* An object of the response is the client's selection on its entity, without what
\* the subgraphs that failed would have delivered, and nothing else: the router
\* answers as one server would (merge.rs: non-critical failures).
AnswersSelection ==
  response # Nothing =>
    \A f \in Fields : Answered(f) /\ Recognised(f) /\ Conventional(f) =>
      \A i \in DOMAIN initial[f] : initial[f][i] # Null =>
        LET x == initial[f][i][Id].of
        IN response.data[f][i] = Object(x, Delivered(f, x))

\* A client that sees no error at a field has all it selected: no loss is silent.
LossesReported ==
  response # Nothing =>
    \A f \in Fields : f \notin response.errors =>
      /\ Answered(f)
      /\ Recognised(f) /\ Conventional(f) =>
           \A i \in DOMAIN initial[f] : initial[f][i] # Null =>
             \A s \in Sub(f) : s.key \in DOMAIN response.data[f][i]

\* Every operation is answered, whatever fails.
EveryQueryAnswered == <>(response # Nothing)

=============================================================================
