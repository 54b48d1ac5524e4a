------------------------ MODULE FederatedQuery_proofs ------------------------
(***************************************************************************)
(* Extraction and merging meet at the same entity, and the response is the *)
(* client's selection, whatever fails on the way.                          *)
(*                                                                         *)
(* extract_entity_refs counts the objects that have the key, and the       *)
(* merger counts all objects.  The planner asks for the key wherever there *)
(* is an entity fetch, so both count the same (PlacesAgree), and the n-th  *)
(* answer of an extender is about the n-th object (Alignment).             *)
(***************************************************************************)
EXTENDS FederatedQuery, FiniteSetTheorems, TLAPS

LeafOf(f, x) == IF x = Null THEN Null ELSE Object(x, Asked(f))

\* What an extender answers about an entity.
ItemOf(f, e, x, lost) ==
  IF x \in Entities[guess[f]] \ lost THEN Object(x, AskedOf(f, e)) ELSE Null

AnswerOf(f, e, lost) ==
  [items |-> [n \in DOMAIN Refs(initial[f]) |-> ItemOf(f, e, Refs(initial[f])[n], lost)],
   lost |-> lost]

EntitySound(f, e) ==
  entities[f][e] \notin {Pending, Failed} =>
    /\ Answered(f)
    /\ \E lost : entities[f][e] = AnswerOf(f, e, lost)

EntitiesSound == \A f \in Fields : \A e \in ExtendersOf(f) : EntitySound(f, e)

\* The response is made when all is over, and nothing happens afterwards.
ResponseSound ==
  response # Nothing =>
    /\ \A f \in Fields : Over(f)
    /\ response = [data |-> [f \in Fields |-> Data(f)],
                   errors |-> {f \in Fields : Errs(f)}]

IInv == TypeOK /\ EntitiesSound /\ ResponseSound

-----------------------------------------------------------------------------
(* Counting *)

\* A count of the members up to a place tells the members apart.
LEMMA CountGrows ==
  ASSUME NEW S, NEW i \in Nat, NEW j \in Nat, i < j, j \in S
  PROVE  Cardinality({a \in 1..i : a \in S}) # Cardinality({a \in 1..j : a \in S})
<1> DEFINE A == {a \in 1..i : a \in S}
           B == {a \in 1..j : a \in S}
<1>1. IsFiniteSet(1..j)
  BY FS_Interval
<1>2. IsFiniteSet(B)
  BY <1>1, FS_Subset
<1>3. A \in SUBSET B
  OBVIOUS
<1>4. j \in B /\ j \notin A
  OBVIOUS
<1> QED
  BY <1>2, <1>3, <1>4, FS_Subset

LEMMA CountInjective ==
  ASSUME NEW S, NEW i \in Nat, NEW j \in Nat, i \in S, j \in S,
         Cardinality({a \in 1..i : a \in S}) = Cardinality({a \in 1..j : a \in S})
  PROVE  i = j
<1>1. ~(i < j)
  BY CountGrows
<1>2. ~(j < i)
  BY CountGrows
<1> QED
  BY <1>1, <1>2

\* The count at a member is between one and the count of all.
LEMMA CountBounded ==
  ASSUME NEW S, NEW i \in Nat, NEW n \in Nat, i \in S, i \in 1..n
  PROVE  Cardinality({a \in 1..i : a \in S}) \in 1..Cardinality({a \in 1..n : a \in S})
<1> DEFINE A == {a \in 1..i : a \in S}
           B == {a \in 1..n : a \in S}
<1>1. IsFiniteSet(1..n)
  BY FS_Interval
<1>2. IsFiniteSet(B) /\ A \in SUBSET B
  BY <1>1, FS_Subset
<1>3. IsFiniteSet(A) /\ Cardinality(A) <= Cardinality(B)
  BY <1>2, FS_Subset
<1>4. A # {}
  OBVIOUS
<1>5. Cardinality(A) \in Nat /\ Cardinality(B) \in Nat /\ Cardinality(A) # 0
  BY <1>2, <1>3, <1>4, FS_CardinalityType, FS_EmptySet
<1> QED
  BY <1>3, <1>5

-----------------------------------------------------------------------------
(* Objects and their places *)

\* An object is of its entity, field by field.
LEMMA ObjectFields ==
  ASSUME NEW x, NEW sels
  PROVE  /\ DOMAIN Object(x, sels) = {s.key : s \in sels}
         /\ \A k \in DOMAIN Object(x, sels) : Object(x, sels)[k].of = x
  BY DEF Object, Value

LEMMA SelectedField ==
  ASSUME NEW x, NEW sels, NEW s \in sels
  PROVE  s.key \in DOMAIN Object(x, sels)
BY DEF Object

\* An initial fetch that entity fetches follow asks for the key.
LEMMA KeyIsAsked ==
  ASSUME NEW f \in Fields, ExtendersOf(f) # {}
  PROVE  /\ guess[f] # None
         /\ \A x : Id \in DOMAIN Object(x, Asked(f))
<1>1. guess[f] # None
  BY DEF ExtendersOf, Extenders
<1>2. Injected \subseteq Asked(f)
  BY <1>1 DEF Asked, InitialSelection
<1>3. \E s \in Injected : s.key = Id
  <2> DEFINE s == [key |-> Id, name |-> Id, below |-> {}, inline |-> FALSE]
  <2>1. s \in Injected /\ s.key = Id
    BY DEF Injected
  <2> QED
    BY <2>1
<1> QED
  BY <1>1, <1>2, <1>3 DEF Object

\* Rows of an answered field.
LEMMA RowsOf ==
  ASSUME TypeOK, NEW f \in Fields, Answered(f)
  PROVE  \E rows : /\ rows \in Seq(Entities[TrueType(f)] \cup {Null})
                   /\ initial[f] = [i \in DOMAIN rows |-> LeafOf(f, rows[i])]
                   /\ \E n \in Nat : DOMAIN rows = 1..n /\ Len(initial[f]) = n
<1>1. PICK rows \in Results[query[f].root] :
        initial[f] = [i \in DOMAIN rows |-> LeafOf(f, rows[i])]
  BY DEF TypeOK, LeafOf
<1>2. query \in Queries /\ query[f].root \in Roots
  BY QueryAssumption DEF TypeOK
<1>3. rows \in Seq(Entities[TrueType(f)] \cup {Null})
  BY <1>1, <1>2, QueryAssumption DEF TrueType
<1>4. DOMAIN rows = 1..Len(rows) /\ Len(rows) \in Nat
  BY <1>3
<1>5. Len(initial[f]) = Len(rows)
  BY <1>1, <1>4
<1> QED
  BY <1>1, <1>3, <1>4, <1>5

\* Both walks count the same.
LEMMA PlacesAgree ==
  ASSUME TypeOK, NEW f \in Fields, Answered(f), ExtendersOf(f) # {},
         NEW i \in DOMAIN initial[f]
  PROVE  /\ HasKey(initial[f][i]) <=> initial[f][i] # Null
         /\ KeyedUpTo(initial[f], i) = Place(initial[f], i)
<1> DEFINE value == initial[f]
<1>1. PICK rows : /\ value = [j \in DOMAIN rows |-> LeafOf(f, rows[j])]
                  /\ \E n \in Nat : DOMAIN rows = 1..n
  BY RowsOf
<1>2. \A j \in DOMAIN value : HasKey(value[j]) <=> value[j] # Null
  BY <1>1, KeyIsAsked DEF HasKey, LeafOf
<1>3. \A j \in 1..i : j \in DOMAIN value
  BY <1>1
<1>4. {j \in 1..i : HasKey(value[j])} = {j \in 1..i : value[j] # Null}
  BY <1>2, <1>3
<1> QED
  BY <1>2, <1>4 DEF KeyedUpTo, Place

\* The reference at an object's place is to the object's own entity.
LEMMA RefAtPlace ==
  ASSUME TypeOK, NEW f \in Fields, Answered(f), ExtendersOf(f) # {},
         NEW i \in DOMAIN initial[f], initial[f][i] # Null
  PROVE  /\ Place(initial[f], i) \in DOMAIN Refs(initial[f])
         /\ Refs(initial[f])[Place(initial[f], i)] = initial[f][i][Id].of
<1> DEFINE value == initial[f]
           place == Place(value, i)
<1>1. PICK n \in Nat : DOMAIN value = 1..n /\ Len(value) = n
  BY RowsOf
<1> DEFINE S == {j \in 1..n : HasKey(value[j])}
<1>2. \A m \in 0..n : {j \in 1..m : HasKey(value[j])} = {j \in 1..m : j \in S}
  OBVIOUS
<1>3. \A m \in 0..n : KeyedUpTo(value, m) = Cardinality({j \in 1..m : j \in S})
  BY <1>2 DEF KeyedUpTo
<1>4. i \in S /\ place = KeyedUpTo(value, i)
  BY <1>1, PlacesAgree
<1> HIDE DEF S
<1>5. place \in 1..KeyedUpTo(value, n)
  <2>1. i \in Nat /\ i \in 0..n /\ n \in 0..n /\ i \in 1..n
    BY <1>1
  <2>2. Cardinality({a \in 1..i : a \in S}) \in 1..Cardinality({a \in 1..n : a \in S})
    BY <2>1, <1>4, CountBounded
  <2> QED
    BY <2>1, <2>2, <1>3, <1>4
<1>6. DOMAIN Refs(value) = 1..KeyedUpTo(value, n)
  BY <1>1 DEF Refs
<1>7. ASSUME NEW j \in DOMAIN value, HasKey(value[j]), KeyedUpTo(value, j) = place
      PROVE  j = i
  <2>1. i \in Nat /\ j \in Nat /\ i \in 0..n /\ j \in 0..n /\ j \in S
    BY <1>1, <1>7 DEF S
  <2>2. Cardinality({a \in 1..i : a \in S}) = Cardinality({a \in 1..j : a \in S})
    BY <2>1, <1>3, <1>4, <1>7
  <2> QED
    BY <2>1, <2>2, <1>4, CountInjective
<1>8. (CHOOSE j \in DOMAIN value : HasKey(value[j]) /\ KeyedUpTo(value, j) = place) = i
  <2>1. i \in DOMAIN value /\ HasKey(value[i]) /\ KeyedUpTo(value, i) = place
    BY <1>1, <1>4 DEF S
  <2> QED
    BY <2>1, <1>7
<1>9. Refs(value)[place] = value[i][Id].of
  BY <1>1, <1>5, <1>8 DEF Refs
<1> QED
  BY <1>5, <1>6, <1>9

\* What an extender has answered at the place of an object is about its entity.
LEMMA Alignment ==
  ASSUME TypeOK, EntitiesSound, NEW f \in Fields, NEW e \in ExtendersOf(f),
         entities[f][e] \notin {Pending, Failed},
         NEW i \in DOMAIN initial[f], initial[f][i] # Null
  PROVE  LET n == Place(initial[f], i)
             x == initial[f][i][Id].of
         IN /\ n \in DOMAIN entities[f][e].items
            /\ entities[f][e].items[n] = ItemOf(f, e, x, entities[f][e].lost)
<1> DEFINE refs == Refs(initial[f])
<1>1. PICK lost : entities[f][e] = AnswerOf(f, e, lost)
  BY DEF EntitiesSound, EntitySound
<1>2. Answered(f)
  BY DEF EntitiesSound, EntitySound
<1>3. /\ Place(initial[f], i) \in DOMAIN refs
      /\ refs[Place(initial[f], i)] = initial[f][i][Id].of
  BY <1>2, RefAtPlace
<1> QED
  BY <1>1, <1>3 DEF AnswerOf

-----------------------------------------------------------------------------
(* The invariant *)

\* What the plan says does not change.
LEMMA PlanStays ==
  ASSUME UNCHANGED <<query, guess>>, NEW f
  PROVE  /\ Sub(f)' = Sub(f) /\ Owner(f)' = Owner(f) /\ Asked(f)' = Asked(f)
         /\ ExtendersOf(f)' = ExtendersOf(f)
         /\ \A e, x, lost : ItemOf(f, e, x, lost)' = ItemOf(f, e, x, lost)
  BY DEF Sub, Owner, Asked, ExtendersOf, AskedOf, ItemOf

\* An outcome stays sound as long as it and the field's value stay.
LEMMA EntityStays ==
  ASSUME UNCHANGED <<query, guess>>, NEW f, NEW e, initial'[f] = initial[f],
         entities'[f][e] = entities[f][e], EntitySound(f, e)
  PROVE  EntitySound(f, e)'
<1>1. \A lost : AnswerOf(f, e, lost)' = AnswerOf(f, e, lost)
  BY PlanStays DEF AnswerOf
<1> QED
  BY <1>1 DEF EntitySound, Answered

\* What merge computes depends on the outcomes alone.
LEMMA MergeStays ==
  ASSUME UNCHANGED <<query, guess, initial, entities>>, NEW f
  PROVE  Over(f)' = Over(f) /\ Data(f)' = Data(f) /\ Errs(f)' = Errs(f)
<1>1. /\ Sub(f)' = Sub(f) /\ ExtendersOf(f)' = ExtendersOf(f)
  BY PlanStays
<1>2. Answered(f)' = Answered(f) /\ Drops(f)' = Drops(f)
  BY <1>1 DEF Answered, Drops
<1>3. \A i : Extras(f, i)' = Extras(f, i)
  BY <1>1 DEF Extras
<1>4. Over(f)' = Over(f) /\ Errs(f)' = Errs(f)
  BY <1>1, <1>2 DEF Over, Errs, Asking
<1>5. Data(f)' = Data(f)
  BY <1>2, <1>3 DEF Data
<1> QED
  BY <1>4, <1>5

LEMMA Initially == Init => IInv
<1> SUFFICES ASSUME Init PROVE IInv
  OBVIOUS
<1>1. TypeOK
  BY DEF Init, TypeOK, Answered
<1>2. EntitiesSound
  BY DEF Init, EntitiesSound, EntitySound
<1>3. ResponseSound
  BY DEF Init, ResponseSound
<1> QED
  BY <1>1, <1>2, <1>3 DEF IInv

LEMMA InitialAnswersStep ==
  ASSUME IInv, NEW f \in Fields, InitialAnswers(f)
  PROVE  IInv'
<1>1. /\ initial[f] = Pending /\ ~Over(f) /\ ~Answered(f)
      /\ UNCHANGED <<query, guess, entities, response>>
      /\ \A g \in Fields \ {f} : initial'[g] = initial[g]
  BY QueryAssumption DEF InitialAnswers, Over, Answered, IInv, TypeOK
<1>2. TypeOK'
  <2>1. \E rows \in Results[query[f].root] :
          initial'[f] = [i \in DOMAIN rows |->
                           IF rows[i] = Null THEN Null ELSE Object(rows[i], Asked(f))]
    BY DEF InitialAnswers, IInv, TypeOK
  <2>2. DOMAIN initial' = Fields
    BY DEF InitialAnswers, IInv, TypeOK
  <2>3. \A g \in Fields : Asked(g)' = Asked(g) /\ ExtendersOf(g)' = ExtendersOf(g) /\ Sub(g)' = Sub(g)
    BY <1>1, PlanStays
  <2> QED
    BY <1>1, <2>1, <2>2, <2>3 DEF IInv, TypeOK, Answered
<1>3. EntitiesSound'
  <2>1. ASSUME NEW g \in Fields, NEW e \in ExtendersOf(g)
        PROVE  EntitySound(g, e)'
    <3>1. EntitySound(g, e)
      BY DEF IInv, EntitiesSound
    <3>2. CASE g = f
      BY <1>1, <3>1, <3>2 DEF EntitySound
    <3>3. CASE g # f
      BY <1>1, <3>1, <3>3, EntityStays
    <3> QED
      BY <3>2, <3>3
  <2>2. \A g \in Fields : ExtendersOf(g)' = ExtendersOf(g)
    BY <1>1, PlanStays
  <2> QED
    BY <2>1, <2>2 DEF EntitiesSound
<1>4. ResponseSound'
  BY <1>1 DEF IInv, ResponseSound
<1> QED
  BY <1>2, <1>3, <1>4 DEF IInv

LEMMA InitialFailsStep ==
  ASSUME IInv, NEW f \in Fields, InitialFails(f)
  PROVE  IInv'
<1>1. /\ initial[f] = Pending /\ ~Over(f) /\ ~Answered(f) /\ initial'[f] = Failed
      /\ UNCHANGED <<query, guess, entities, response>>
      /\ \A g \in Fields \ {f} : initial'[g] = initial[g]
      /\ DOMAIN initial' = Fields
  BY QueryAssumption DEF InitialFails, Over, Answered, IInv, TypeOK
<1>2. TypeOK'
  <2>1. \A g \in Fields : Asked(g)' = Asked(g) /\ ExtendersOf(g)' = ExtendersOf(g) /\ Sub(g)' = Sub(g)
    BY <1>1, PlanStays
  <2> QED
    BY <1>1, <2>1 DEF IInv, TypeOK, Answered
<1>3. EntitiesSound'
  <2>1. ASSUME NEW g \in Fields, NEW e \in ExtendersOf(g)
        PROVE  EntitySound(g, e)'
    <3>1. EntitySound(g, e)
      BY DEF IInv, EntitiesSound
    <3>2. CASE g = f
      BY <1>1, <3>1, <3>2 DEF EntitySound
    <3>3. CASE g # f
      BY <1>1, <3>1, <3>3, EntityStays
    <3> QED
      BY <3>2, <3>3
  <2>2. \A g \in Fields : ExtendersOf(g)' = ExtendersOf(g)
    BY <1>1, PlanStays
  <2> QED
    BY <2>1, <2>2 DEF EntitiesSound
<1>4. ResponseSound'
  BY <1>1 DEF IInv, ResponseSound
<1> QED
  BY <1>2, <1>3, <1>4 DEF IInv

\* Both outcomes of an entity fetch.
LEMMA EntityStep ==
  ASSUME IInv, NEW f \in Fields, NEW e \in ExtendersOf(f), NEW outcome, Asking(f, e),
         entities' = [entities EXCEPT ![f][e] = outcome],
         UNCHANGED <<query, guess, initial, response>>,
         \/ outcome = Failed
         \/ \E lost : outcome = AnswerOf(f, e, lost)
  PROVE  IInv'
<1>1. \A g \in Fields : /\ Asked(g)' = Asked(g) /\ ExtendersOf(g)' = ExtendersOf(g)
                        /\ Sub(g)' = Sub(g) /\ Answered(g)' = Answered(g)
  BY PlanStays DEF Answered
<1>2. /\ DOMAIN entities' = Fields
      /\ \A g \in Fields : DOMAIN entities'[g] = ExtendersOf(g)
  BY DEF IInv, TypeOK
<1>3. /\ entities'[f][e] = outcome
      /\ \A g \in Fields : \A d \in ExtendersOf(g) :
           g # f \/ d # e => entities'[g][d] = entities[g][d]
  BY DEF IInv, TypeOK
<1>4. TypeOK'
  BY <1>1, <1>2 DEF IInv, TypeOK
<1>5. EntitiesSound'
  <2>1. ASSUME NEW g \in Fields, NEW d \in ExtendersOf(g)
        PROVE  EntitySound(g, d)'
    <3>1. CASE g = f /\ d = e
      <4>1. \A lost : AnswerOf(f, e, lost)' = AnswerOf(f, e, lost)
        BY PlanStays DEF AnswerOf
      <4> QED
        BY <3>1, <4>1, <1>1, <1>3 DEF EntitySound, Asking
    <3>2. CASE g # f \/ d # e
      BY <3>2, <1>3, EntityStays DEF IInv, EntitiesSound
    <3> QED
      BY <3>1, <3>2
  <2> QED
    BY <1>1, <2>1 DEF EntitiesSound
<1>6. ResponseSound'
  <2>1. ~Over(f)
    BY DEF Over, Asking, Answered
  <2> QED
    BY <2>1 DEF IInv, ResponseSound
<1> QED
  BY <1>4, <1>5, <1>6 DEF IInv

LEMMA UnchangedOutcomes ==
  ASSUME IInv, UNCHANGED <<query, guess, initial, entities>>,
         response' # Nothing =>
           DOMAIN response'.data = Fields /\ response'.errors \subseteq Fields
  PROVE  TypeOK' /\ EntitiesSound'
<1>1. \A f : /\ Asked(f)' = Asked(f) /\ ExtendersOf(f)' = ExtendersOf(f)
            /\ Sub(f)' = Sub(f) /\ Answered(f)' = Answered(f)
  BY PlanStays DEF Answered
<1>2. TypeOK'
  BY <1>1 DEF IInv, TypeOK
<1>3. EntitiesSound'
  BY <1>1, EntityStays DEF IInv, EntitiesSound
<1> QED
  BY <1>2, <1>3

LEMMA MergeStep ==
  ASSUME IInv, Merge
  PROVE  IInv'
<1>1. \A f : Over(f)' = Over(f) /\ Data(f)' = Data(f) /\ Errs(f)' = Errs(f)
  BY MergeStays DEF Merge
<1>2. DOMAIN response'.data = Fields /\ response'.errors \subseteq Fields
  BY DEF Merge
<1>3. ResponseSound'
  BY <1>1 DEF Merge, ResponseSound
<1> QED
  BY <1>2, <1>3, UnchangedOutcomes DEF Merge, IInv

LEMMA StutterStep ==
  ASSUME IInv, UNCHANGED vars
  PROVE  IInv'
<1>1. UNCHANGED <<query, guess, initial, entities>> /\ response' = response
  BY DEF vars
<1>2. \A f : Over(f)' = Over(f) /\ Data(f)' = Data(f) /\ Errs(f)' = Errs(f)
  BY <1>1, MergeStays
<1>3. ResponseSound'
  BY <1>1, <1>2 DEF IInv, ResponseSound
<1>4. response' # Nothing =>
        DOMAIN response'.data = Fields /\ response'.errors \subseteq Fields
  BY <1>1 DEF IInv, TypeOK
<1> QED
  BY <1>1, <1>3, <1>4, UnchangedOutcomes DEF IInv

\* The inductive invariant of a federated operation.
THEOREM FederatedInvariant == Spec => []IInv
<1>1. IInv /\ [Next]_vars => IInv'
  <2> SUFFICES ASSUME IInv, [Next]_vars PROVE IInv'
    OBVIOUS
  <2>1. ASSUME NEW f \in Fields, NEW e \in ExtendersOf(f), NEW lost, EntityAnswers(f, e, lost)
        PROVE  IInv'
    <3>1. /\ Asking(f, e)
          /\ entities' = [entities EXCEPT ![f][e] = AnswerOf(f, e, lost)]
          /\ UNCHANGED <<query, guess, initial, response>>
      BY <2>1 DEF EntityAnswers, AnswerOf, ItemOf
    <3> QED
      BY <3>1, EntityStep
  <2>2. ASSUME NEW f \in Fields, NEW e \in ExtendersOf(f), EntityFails(f, e)
        PROVE  IInv'
    BY <2>2, EntityStep DEF EntityFails
  <2>3. ASSUME NEW f \in Fields, InitialAnswers(f) \/ InitialFails(f)
        PROVE  IInv'
    BY <2>3, InitialAnswersStep, InitialFailsStep
  <2>4. CASE Merge
    BY <2>4, MergeStep
  <2>5. CASE UNCHANGED vars
    BY <2>5, StutterStep
  <2> QED
    BY <2>1, <2>2, <2>3, <2>4, <2>5 DEF Next, Fetch
<1> QED
  BY <1>1, Initially, PTL DEF Spec

\* The state is well formed.
THEOREM TypeCorrect == Spec => []TypeOK
<1>1. IInv => TypeOK
  BY DEF IInv
<1> QED
  BY <1>1, FederatedInvariant, PTL

-----------------------------------------------------------------------------
(* The response *)

\* An object of the initial fetch is one entity of the type returned.
LEMMA ObjectOfEntity ==
  ASSUME TypeOK, NEW f \in Fields, Answered(f),
         NEW i \in DOMAIN initial[f], initial[f][i] # Null
  PROVE  \E x \in Entities[TrueType(f)] : initial[f][i] = Object(x, Asked(f))
<1>1. PICK rows : /\ rows \in Seq(Entities[TrueType(f)] \cup {Null})
                  /\ initial[f] = [j \in DOMAIN rows |-> LeafOf(f, rows[j])]
  BY RowsOf
<1>2. rows[i] \in Entities[TrueType(f)] \cup {Null} /\ initial[f][i] = LeafOf(f, rows[i])
  BY <1>1
<1> QED
  BY <1>2 DEF LeafOf

Responded(f, e) == entities[f][e] \notin {Pending, Failed}

\* What extenders add to an object.
LEMMA ExtraIsOwn ==
  ASSUME TypeOK, EntitiesSound, NEW f \in Fields, Answered(f),
         NEW i \in DOMAIN initial[f], NEW x, initial[f][i] = Object(x, Asked(f)),
         initial[f][i] # Null, NEW y \in Extras(f, i)
  PROVE  \E e \in ExtendersOf(f) :
           Responded(f, e) /\ x \notin entities[f][e].lost /\ y = Object(x, AskedOf(f, e))
<1> DEFINE n == Place(initial[f], i)
<1>1. PICK e \in ExtendersOf(f) :
        Responded(f, e) /\ y = entities[f][e].items[n] /\ y # Null
  BY DEF Extras, Responded
<1>2. initial[f][i][Id].of = x
  <2>1. Id \in DOMAIN Object(x, Asked(f))
    BY <1>1, KeyIsAsked
  <2> QED
    BY <2>1, ObjectFields
<1>3. y = ItemOf(f, e, x, entities[f][e].lost)
  BY <1>1, <1>2, Alignment DEF Responded
<1> QED
  BY <1>1, <1>3 DEF ItemOf

\* An extender has delivered a selected field of an entity.
Adds(f, e, x, s) ==
  Responded(f, e) /\ x \notin entities[f][e].lost /\ s \in AskedOf(f, e)

\* Every field of a merged object answers a selection, and about its own entity.
LEMMA MergedFields ==
  ASSUME TypeOK, EntitiesSound, NEW f \in Fields, Answered(f),
         NEW i \in DOMAIN initial[f], NEW x, initial[f][i] = Object(x, Asked(f)),
         initial[f][i] # Null,
         NEW k \in DOMAIN Merged(initial[f][i], Extras(f, i))
  PROVE  \E s : /\ s.key = k
                /\ Merged(initial[f][i], Extras(f, i))[k] = Value(x, s)
                /\ \/ s \in Asked(f)
                   \/ \E e \in ExtendersOf(f) : Adds(f, e, x, s)
<1> DEFINE object == initial[f][i]
           extras == Extras(f, i)
<1>1. \A sels : \A j \in DOMAIN Object(x, sels) :
        \E s \in sels : s.key = j /\ Object(x, sels)[j] = Value(x, s)
  BY DEF Object
<1>2. CASE \E y \in extras : k \in DOMAIN y
  <2> DEFINE y == CHOOSE y \in extras : k \in DOMAIN y
  <2>1. y \in extras /\ k \in DOMAIN y
    BY <1>2
  <2>2. Merged(object, extras)[k] = y[k]
    BY <1>2 DEF Merged
  <2>3. PICK e \in ExtendersOf(f) :
          Responded(f, e) /\ x \notin entities[f][e].lost /\ y = Object(x, AskedOf(f, e))
    BY <2>1, ExtraIsOwn
  <2> HIDE DEF y
  <2>4. PICK s \in AskedOf(f, e) : s.key = k /\ y[k] = Value(x, s)
    BY <1>1, <2>1, <2>3
  <2>5. Adds(f, e, x, s)
    BY <2>3, <2>4 DEF Adds
  <2> QED
    BY <2>2, <2>4, <2>5
<1>3. CASE ~ \E y \in extras : k \in DOMAIN y
  <2>1. k \in DOMAIN object /\ Merged(object, extras)[k] = object[k]
    BY <1>3 DEF Merged
  <2> QED
    BY <1>1, <2>1
<1> QED
  BY <1>2, <1>3

\* Every field of an object in the response is of that object's own entity.
THEOREM FieldsAreOwn == Spec => []OwnFields
<1>1. ASSUME IInv PROVE OwnFields
  <2> SUFFICES ASSUME response # Nothing, NEW f \in Fields, Answered(f),
                      NEW i \in DOMAIN initial[f], initial[f][i] # Null,
                      NEW k \in DOMAIN response.data[f][i], NEW own \in DOMAIN initial[f][i]
               PROVE  response.data[f][i][k].of = initial[f][i][own].of
    BY DEF OwnFields
  <2> DEFINE merged == Merged(initial[f][i], Extras(f, i))
  <2>1. response.data[f][i] = Strip(merged, Drops(f))
    BY <1>1 DEF IInv, ResponseSound, Data
  <2>2. PICK x : initial[f][i] = Object(x, Asked(f))
    BY <1>1, ObjectOfEntity DEF IInv
  <2>3. initial[f][i][own].of = x
    BY <2>2, ObjectFields
  <2>4. k \in DOMAIN merged /\ response.data[f][i][k] = [merged[k] EXCEPT !.below = @ \ Drops(f)]
    BY <2>1 DEF Strip
  <2>5. PICK s : merged[k] = Value(x, s)
    <3>1. TypeOK /\ EntitiesSound /\ k \in DOMAIN Merged(initial[f][i], Extras(f, i))
      BY <1>1, <2>4 DEF IInv
    <3> QED
      BY <3>1, <2>2, MergedFields
  <2> QED
    BY <2>3, <2>4, <2>5 DEF Value
<1> QED
  BY <1>1, FederatedInvariant, PTL

-----------------------------------------------------------------------------
(* The response is the selection *)

\* What the planner does with a conventional selection of a recognised entity.
LEMMA PlanOfEntity ==
  ASSUME TypeOK, NEW f \in Fields, Recognised(f), Conventional(f)
  PROVE  /\ guess[f] = TrueType(f) /\ guess[f] \in Tagged /\ guess[f] # None
         /\ \A s \in Sub(f) : s.name # Id =>
              s \in Share(guess[f], Sub(f), Owner(f), FieldOwner(TrueType(f), s.name))
         /\ \A e : \A s \in Share(guess[f], Sub(f), Owner(f), e) :
              s \in Sub(f) /\ s.name # Id /\ FieldOwner(TrueType(f), s.name) = e
         /\ Asked(f) = Injected \cup Share(guess[f], Sub(f), Owner(f), Owner(f))
         /\ Typename \in Drops(f) /\ Drops(f) \subseteq {Typename, Id}
         /\ Id \notin Drops(f) <=> \E s \in Sub(f) : s.name = Id
<1>1. guess[f] = TrueType(f) /\ Keyed(guess[f])
  BY DEF Recognised
<1>2. guess[f] \in Tagged /\ guess[f] # None
  <2>1. guess[f] \in Guesses(Sub(f)) /\ guess[f] \in Types
    BY <1>1, QueryAssumption DEF TypeOK, TrueType
  <2>2. JoinType[guess[f]] # <<>>
    BY <1>1 DEF Keyed
  <2> QED
    BY <2>1, <2>2, CatalogAssumption DEF Tagged
<1>0. Visible(Sub(f)) = Sub(f)
  BY Zenon DEF Visible, Conventional
<1>3. \A s \in Sub(f) : /\ s.name # Typename
                        /\ s.name # Id => s.name \in FieldsOf(TrueType(f))
  BY DEF Conventional
<1>4. \A e : Share(guess[f], Sub(f), Owner(f), e) =
        {s \in Sub(f) : s.name # Id /\ FieldOwner(TrueType(f), s.name) = e}
  <2>1. Partitioned(Sub(f)) = {s \in Sub(f) : s.name # Id}
    <3>1. \A s \in Sub(f) : s.name \notin {Typename, Id} <=> s.name # Id
      BY <1>3
    <3> QED
      BY <3>1, <1>0, Zenon DEF Partitioned
  <2>2. ASSUME NEW s \in Partitioned(Sub(f))
        PROVE  OwnerOf(guess[f], s.name, Owner(f)) = FieldOwner(TrueType(f), s.name)
    <3>1. s.name \in FieldsOf(guess[f])
      BY <2>1, <2>2, <1>1, <1>3
    <3> QED
      BY <3>1, <1>1, Zenon DEF OwnerOf
  <2> QED
    BY <2>1, <2>2 DEF Share
<1>5. Asked(f) = Injected \cup Share(guess[f], Sub(f), Owner(f), Owner(f))
  BY <1>2 DEF Asked, InitialSelection
<1>6. AsksForKey(guess[f], Sub(f)) <=> \E s \in Sub(f) : s.name = Id
  BY <1>1, <1>0 DEF AsksForKey
<1>7. Drops(f) = {Typename} \cup (IF \E s \in Sub(f) : s.name = Id THEN {} ELSE {Id})
  BY <1>2, <1>6 DEF Drops
<1> QED
  BY <1>1, <1>2, <1>3, <1>4, <1>5, <1>7, CatalogAssumption

\* What an extender adds to an object that it delivers.
LEMMA DeliveredIsAdded ==
  ASSUME TypeOK, EntitiesSound, NEW f \in Fields, Answered(f), Recognised(f), Conventional(f),
         NEW i \in DOMAIN initial[f], initial[f][i] # Null,
         NEW x \in Entities[TrueType(f)], initial[f][i] = Object(x, Asked(f)),
         NEW s \in Sub(f), s.name # Id,
         NEW e, e = FieldOwner(TrueType(f), s.name), e # Owner(f)
  PROVE  /\ e \in ExtendersOf(f)
         /\ Responded(f, e) /\ x \notin entities[f][e].lost =>
              \E y \in Extras(f, i) : s.key \in DOMAIN y
<1>1. /\ guess[f] = TrueType(f) /\ guess[f] \in Tagged /\ guess[f] # None
      /\ s \in AskedOf(f, e)
  BY PlanOfEntity DEF AskedOf
<1>2. e \in Subgraphs
  BY <1>1, OwnersAssumption DEF Conventional
<1>3. e \in ExtendersOf(f)
  BY <1>1, <1>2 DEF ExtendersOf, Extenders, AskedOf
<1>4. ASSUME Responded(f, e), x \notin entities[f][e].lost
      PROVE  \E y \in Extras(f, i) : s.key \in DOMAIN y
  <2> DEFINE n == Place(initial[f], i)
  <2>1. initial[f][i][Id].of = x
    <3>1. Id \in DOMAIN Object(x, Asked(f))
      BY <1>3, KeyIsAsked
    <3> QED
      BY <3>1, ObjectFields
  <2>2. /\ n \in DOMAIN entities[f][e].items
        /\ entities[f][e].items[n] = ItemOf(f, e, x, entities[f][e].lost)
    BY <1>3, <1>4, <2>1, Alignment DEF Responded
  <2>3. entities[f][e].items[n] = Object(x, AskedOf(f, e))
    BY <1>1, <1>4, <2>2 DEF ItemOf
  <2>4. Object(x, AskedOf(f, e)) # Null
    <3>1. query \in Queries /\ x \in UNION {Entities[u] : u \in Types}
      BY <1>1 DEF TypeOK, Tagged
    <3> QED
      BY <3>1, <1>1, <1>2, NullAssumption DEF AskedOf, Sub, Owner
  <2>5. Object(x, AskedOf(f, e)) \in Extras(f, i)
    BY <1>3, <1>4, <2>2, <2>3, <2>4 DEF Extras, Responded
  <2>6. s.key \in DOMAIN Object(x, AskedOf(f, e))
    BY <1>1, SelectedField
  <2> QED
    BY <2>5, <2>6
<1> QED
  BY <1>3, <1>4

\* The fields that the response has.
LEMMA KeysDelivered ==
  ASSUME TypeOK, EntitiesSound, NEW f \in Fields, Answered(f), Recognised(f), Conventional(f),
         NEW i \in DOMAIN initial[f], initial[f][i] # Null,
         NEW x \in Entities[TrueType(f)], initial[f][i] = Object(x, Asked(f))
  PROVE  LET merged == Merged(initial[f][i], Extras(f, i)) IN
         /\ \A s \in Delivered(f, x) : s.key \in (DOMAIN merged) \ Drops(f)
         /\ \A k \in (DOMAIN merged) \ Drops(f) :
              \E s \in Delivered(f, x) : s.key = k /\ merged[k] = Value(x, s)
<1> DEFINE merged == Merged(initial[f][i], Extras(f, i))
<1>1. DOMAIN merged = DOMAIN initial[f][i] \cup UNION {DOMAIN y : y \in Extras(f, i)}
  BY DEF Merged
<1>2. ASSUME NEW s \in Delivered(f, x)
      PROVE  s.key \in (DOMAIN merged) \ Drops(f)
  <2>0. s \in Sub(f)
    BY DEF Delivered
  <2>1. CASE s.name = Id
    <3>1. s.key = Id /\ Id \notin Drops(f)
      BY <2>0, <2>1, PlanOfEntity DEF Conventional
    <3>3. Id \in DOMAIN initial[f][i]
      <4> DEFINE t == [key |-> Id, name |-> Id, below |-> {}, inline |-> FALSE]
      <4>1. t \in Asked(f) /\ t.key = Id
        BY PlanOfEntity DEF Injected
      <4> HIDE DEF t
      <4> QED
        BY <4>1, SelectedField
    <3> QED
      BY <3>1, <3>3, <1>1
  <2>2. CASE s.name # Id
    <3>1. s.key \notin Drops(f)
      BY <2>0, <2>2, PlanOfEntity DEF Conventional
    <3> DEFINE e == FieldOwner(TrueType(f), s.name)
    <3>2. CASE e = Owner(f)
      <4>1. s \in Asked(f)
        BY <2>0, <2>2, <3>2, PlanOfEntity
      <4>2. s.key \in DOMAIN initial[f][i]
        BY <4>1, SelectedField
      <4> QED
        BY <4>2, <3>1, <1>1
    <3>3. CASE e # Owner(f)
      <4>1. Responded(f, e) /\ x \notin entities[f][e].lost
        BY <2>2, <3>3 DEF Delivered, Responded
      <4>2. \E y \in Extras(f, i) : s.key \in DOMAIN y
        BY <4>1, <2>0, <2>2, <3>3, DeliveredIsAdded
      <4> QED
        BY <4>2, <3>1, <1>1
    <3> QED
      BY <3>2, <3>3
  <2> QED
    BY <2>1, <2>2
<1>3. ASSUME NEW k \in (DOMAIN merged) \ Drops(f)
      PROVE  \E s \in Delivered(f, x) : s.key = k /\ merged[k] = Value(x, s)
  <2>1. PICK s : /\ s.key = k /\ merged[k] = Value(x, s)
                 /\ \/ s \in Asked(f)
                    \/ \E e \in ExtendersOf(f) : Adds(f, e, x, s)
    <3>1. k \in DOMAIN Merged(initial[f][i], Extras(f, i))
      BY <1>3
    <3> QED
      BY <3>1, MergedFields, Zenon
  <2>2. CASE s \in Injected
    <3>1. s.key = Id /\ s.name = Id /\ s.below = {}
      BY <2>1, <2>2, <1>3, PlanOfEntity DEF Injected
    <3>2. PICK t \in Sub(f) : t.name = Id
      BY <2>1, <3>1, <1>3, PlanOfEntity
    <3>3. t.key = Id /\ t.below = {} /\ t \in Delivered(f, x)
      BY <3>2 DEF Conventional, Delivered
    <3>4. Value(x, t) = Value(x, s)
      BY <3>1, <3>2, <3>3 DEF Value
    <3> QED
      BY <2>1, <3>1, <3>3, <3>4
  <2>3. CASE s \in Asked(f) \ Injected
    <3>1. s \in Share(guess[f], Sub(f), Owner(f), Owner(f))
      BY <2>3, PlanOfEntity
    <3>2. s \in Delivered(f, x)
      BY <3>1, PlanOfEntity DEF Delivered
    <3> QED
      BY <2>1, <3>2
  <2>4. CASE s \notin Asked(f)
    <3>1. PICK e \in ExtendersOf(f) :
            Responded(f, e) /\ x \notin entities[f][e].lost /\ s \in AskedOf(f, e)
      BY <2>1, <2>4 DEF Adds
    <3>2. s \in Sub(f) /\ s.name # Id /\ FieldOwner(TrueType(f), s.name) = e
      BY <3>1, PlanOfEntity DEF AskedOf
    <3>3. s \in Delivered(f, x)
      BY <3>1, <3>2 DEF Delivered, Responded
    <3> QED
      BY <2>1, <3>3
  <2> QED
    BY <2>2, <2>3, <2>4
<1> QED
  BY <1>2, <1>3

\* The response object of an entity is the selection that has been delivered.
LEMMA ObjectIsSelection ==
  ASSUME TypeOK, EntitiesSound, NEW f \in Fields, Answered(f), Recognised(f), Conventional(f),
         NEW i \in DOMAIN initial[f], initial[f][i] # Null,
         NEW x \in Entities[TrueType(f)], initial[f][i] = Object(x, Asked(f))
  PROVE  Strip(Merged(initial[f][i], Extras(f, i)), Drops(f)) = Object(x, Delivered(f, x))
<1> DEFINE merged == Merged(initial[f][i], Extras(f, i))
           delivered == Delivered(f, x)
<1>1. /\ \A s \in delivered : s.key \in (DOMAIN merged) \ Drops(f)
      /\ \A k \in (DOMAIN merged) \ Drops(f) :
           \E s \in delivered : s.key = k /\ merged[k] = Value(x, s)
  BY KeysDelivered
<1>2. \A s \in delivered :
        s \in Sub(f) /\ s.below \cap Drops(f) = {}
  <2> SUFFICES ASSUME NEW s \in delivered
               PROVE  s \in Sub(f) /\ s.below \cap Drops(f) = {}
    OBVIOUS
  <2>1. s \in Sub(f)
    BY DEF Delivered
  <2>2. Typename \notin s.below /\ (Id \in s.below => \E t \in Sub(f) : t.name = Id)
    BY <2>1 DEF Conventional
  <2> QED
    BY <2>1, <2>2, PlanOfEntity
<1>3. \A s, t \in delivered : s.key = t.key => s = t
  <2>1. query \in Queries
    BY DEF TypeOK
  <2> QED
    BY <2>1, <1>2, QueryAssumption DEF Sub
<1>4. {s.key : s \in delivered} = (DOMAIN merged) \ Drops(f)
  <2> HIDE DEF merged, delivered
  <2> QED
    BY <1>1
<1>5. ASSUME NEW k \in (DOMAIN merged) \ Drops(f)
      PROVE  [merged[k] EXCEPT !.below = @ \ Drops(f)] =
               Value(x, CHOOSE s \in delivered : s.key = k)
  <2>1. PICK s \in delivered : s.key = k /\ merged[k] = Value(x, s)
    BY <1>1, <1>5
  <2>2. (CHOOSE t \in delivered : t.key = k) = s
    <3> HIDE DEF merged, delivered
    <3> QED
      BY <2>1, <1>3
  <2>3. [Value(x, s) EXCEPT !.below = @ \ Drops(f)] = Value(x, s)
    <3>1. s.below \ Drops(f) = s.below
      BY <1>2, <2>1
    <3> QED
      BY <3>1 DEF Value
  <2> QED
    BY <2>1, <2>2, <2>3
<1> HIDE DEF merged, delivered
<1>6. Strip(merged, Drops(f)) = Object(x, delivered)
  BY <1>4, <1>5 DEF Strip, Object
<1> QED
  BY <1>6 DEF merged, delivered

\* What is known of an object when all fetches are over: its entity, and the
\* object of the response.
LEMMA AnsweredObject ==
  ASSUME IInv, response # Nothing, NEW f \in Fields, Answered(f),
         Recognised(f), Conventional(f), NEW i \in DOMAIN initial[f], initial[f][i] # Null
  PROVE  \E x \in Entities[TrueType(f)] :
           /\ initial[f][i] = Object(x, Asked(f))
           /\ initial[f][i][Id].of = x
           /\ response.data[f][i] = Object(x, Delivered(f, x))
<1>1. PICK x \in Entities[TrueType(f)] : initial[f][i] = Object(x, Asked(f))
  BY ObjectOfEntity DEF IInv
<1>2. Id \in DOMAIN initial[f][i]
  <2> DEFINE t == [key |-> Id, name |-> Id, below |-> {}, inline |-> FALSE]
  <2>1. t \in Asked(f) /\ t.key = Id
    BY PlanOfEntity DEF Injected, IInv
  <2> HIDE DEF t
  <2> QED
    BY <2>1, <1>1, SelectedField
<1>3. response.data[f][i] = Strip(Merged(initial[f][i], Extras(f, i)), Drops(f))
  BY DEF IInv, ResponseSound, Data
<1>4. Strip(Merged(initial[f][i], Extras(f, i)), Drops(f)) = Object(x, Delivered(f, x))
  BY <1>1, ObjectIsSelection DEF IInv
<1>5. initial[f][i][Id].of = x
  BY <1>1, <1>2, ObjectFields
<1>6. response.data[f][i] = Object(x, Delivered(f, x))
  BY <1>3, <1>4, Zenon
<1> QED
  BY <1>1, <1>5, <1>6, Zenon

\* The router answers as one server would, without what was lost.
THEOREM SelectionAnswered == Spec => []AnswersSelection
<1>1. ASSUME IInv PROVE AnswersSelection
  BY <1>1, AnsweredObject DEF AnswersSelection
<1> QED
  BY <1>1, FederatedInvariant, PTL

\* Where no error is reported, every selected field is delivered.
LEMMA NothingIsLost ==
  ASSUME IInv, response # Nothing, NEW f \in Fields, f \notin response.errors,
         Recognised(f), Conventional(f), NEW i \in DOMAIN initial[f], initial[f][i] # Null,
         NEW x \in Entities[TrueType(f)], initial[f][i] = Object(x, Asked(f)),
         NEW s \in Sub(f)
  PROVE  s \in Delivered(f, x)
<1> DEFINE e == IF s.name = Id THEN Owner(f) ELSE FieldOwner(TrueType(f), s.name)
<1>1. Over(f) /\ ~Errs(f) /\ TypeOK /\ EntitiesSound
  BY DEF IInv, ResponseSound
<1>2. Answered(f)
  BY <1>1 DEF Over, Errs
<1>3. CASE e = Owner(f)
  BY <1>3 DEF Delivered
<1>4. CASE e # Owner(f)
  <2>1. s.name # Id /\ e = FieldOwner(TrueType(f), s.name)
    BY <1>4
  <2> HIDE DEF e
  <2>2. e \in ExtendersOf(f)
    BY <1>1, <1>2, <1>4, <2>1, DeliveredIsAdded
  <2>3. Refs(initial[f]) # <<>>
    <3>1. Place(initial[f], i) \in DOMAIN Refs(initial[f])
      BY <1>1, <1>2, <2>2, RefAtPlace
    <3> QED
      BY <3>1
  <2>4. entities[f][e] \notin {Pending, Failed} /\ entities[f][e].lost = {}
    BY <1>1, <1>2, <2>2, <2>3 DEF Over, Asking, Errs
  <2> QED
    BY <2>1, <2>4 DEF Delivered
<1> QED
  BY <1>3, <1>4

\* No loss is silent.
THEOREM LossesAreReported == Spec => []LossesReported
<1>1. ASSUME IInv PROVE LossesReported
  <2> SUFFICES ASSUME response # Nothing, NEW f \in Fields, f \notin response.errors
               PROVE  /\ Answered(f)
                      /\ Recognised(f) /\ Conventional(f) =>
                           \A i \in DOMAIN initial[f] : initial[f][i] # Null =>
                             \A s \in Sub(f) : s.key \in DOMAIN response.data[f][i]
    BY DEF LossesReported
  <2>1. Answered(f)
    BY <1>1 DEF IInv, ResponseSound, Over, Errs
  <2>2. ASSUME Recognised(f), Conventional(f), NEW i \in DOMAIN initial[f],
               initial[f][i] # Null, NEW s \in Sub(f)
        PROVE  s.key \in DOMAIN response.data[f][i]
    <3>1. PICK x \in Entities[TrueType(f)] :
            /\ initial[f][i] = Object(x, Asked(f))
            /\ response.data[f][i] = Object(x, Delivered(f, x))
      BY <1>1, <2>1, <2>2, AnsweredObject
    <3>2. s \in Delivered(f, x)
      BY <1>1, <2>2, <3>1, NothingIsLost
    <3> QED
      BY <3>1, <3>2, SelectedField
  <2> QED
    BY <2>1, <2>2
<1> QED
  BY <1>1, FederatedInvariant, PTL

=============================================================================
