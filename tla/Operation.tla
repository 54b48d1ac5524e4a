------------------------------ MODULE Operation ------------------------------
(***************************************************************************)
(* One operation from the document a client sends to the requests that     *)
(* subgraphs get and the usage that is recorded: graphql/validate.rs,      *)
(* limits/cost.rs, plan/planner.rs, execute.rs and usage.rs in the order   *)
(* in which graphql_handler (server.rs) runs them.                         *)
(*                                                                         *)
(* A selection is a tree: a field, an inline fragment or a fragment        *)
(* spread, with the response key, the name, the tokens of the arguments    *)
(* and of the directives, and the selections below.  The name of an inline *)
(* fragment is the type in its condition, or Dots.  The planner renders    *)
(* trees to text and then works on the text; a text is a sequence of       *)
(* tokens here: a brace, a variable, a name, a literal, and a type for the *)
(* "... on" that type.  Misquoted gives the strings that render_value does *)
(* not write as they were, and what it writes: it escapes quotes, but no   *)
(* backslash and no line break.  Misread gives the tokens that the         *)
(* planner's scans of the bytes take for something else: the braces of an  *)
(* object value, a string with a brace or a variable's name in it.         *)
(***************************************************************************)
EXTENDS QueryPlan, SequencesExt

CONSTANTS
  Selections,       \* [kind, key, name, args, directives, below], all that is below too
  Height,           \* of a selection, which is as finite as its document
  Variables,        \* tokens: a use of a variable
  Representations,  \* the variable of an entity fetch
  Misquoted,        \* a function from strings to the token that is written for them
  Misread,          \* a function from tokens to what a scan of the bytes sees
  MutationRoots,    \* the root fields of Mutation; the others are Query's
  Costs,            \* for a root field with @cost directives, their values
  Searches,         \* names that contain "search"
  Plurals,          \* names that look like a list
  Introspection,    \* __schema and __type
  MaxDepth, MaxCost,
  MaxU32,           \* u32::MAX, scaled down
  Requests          \* [ops, fragments, asked, values]

ASSUME OperationAssumption ==
  /\ Representations \in Variables
  /\ MutationRoots \subseteq Roots
  /\ MaxDepth \in Nat /\ MaxCost \in Nat /\ MaxU32 \in Nat
  /\ MaxCost < MaxU32  \* or the limit is none
  /\ DOMAIN Misread \cap Variables = {}
  /\ (DOMAIN Misquoted \cup Range(Misquoted)) \cap Variables = {}

ASSUME SelectionAssumption ==
  /\ Height \in [Selections -> Nat]
  /\ \A s \in Selections :
       /\ s.kind \in {"field", "inline", "spread"}
       /\ s.args \in Seq(Range(s.args)) /\ (s.kind # "field" => s.args = <<>>)
       /\ s.directives \in Seq(Range(s.directives))
       /\ s.below \in Seq(Selections) /\ (s.kind = "spread" => s.below = <<>>)
       /\ s.kind = "inline" => s.below # <<>>
       /\ \A c \in Range(s.below) : Height[c] < Height[s]

\* The value of a @cost is an integer, or it is no override.
ASSUME CostAssumption == \A r \in DOMAIN Costs : Head(Costs[r]) = None \/ Head(Costs[r]) \in Int

ASSUME RequestAssumption ==
  \A req \in Requests :
    /\ req.ops \in Seq(Range(req.ops))
    /\ \A op \in Range(req.ops) : op.roots \in Seq(Selections)

\* The tokens around a selection set.
Open == "{"
Close == "}"

\* An inline fragment without a type condition.
Dots == "..."

\* Braces, names, type conditions, spreads, variables and what else arguments consist of
\* are told apart in a text; names, types and the braces of selection sets are read for
\* what they are.
ASSUME TokenAssumption ==
  LET braces == {Open, Close}
      arguments == Variables \cup DOMAIN Misread \cup Range(Misquoted)
  IN /\ Names \cap arguments = {} /\ Types \cap (Names \cup arguments) = {}
     /\ braces \cap (Names \cup Types \cup arguments) = {}
     /\ \A s \in Selections :
          /\ s.kind = "field" => s.name \in Names
          /\ s.kind = "inline" => s.name \in {Dots} \cup Types
          /\ s.kind = "spread" =>
               s.name \notin Names \cup Variables \cup braces \cup DOMAIN Misread
          /\ Range(s.args) \cap (Names \cup braces) = {}
     /\ \A req \in Requests :
          /\ DOMAIN req.fragments \cap
               (Names \cup Types \cup Variables \cup braces \cup Range(Misquoted)) = {}
          /\ \A s \in Selections : Range(s.args) \cap DOMAIN req.fragments = {}

VARIABLES
  request,      \* what the client asked
  stage,        \* how far graphql_handler is
  plan,         \* the field fetches of ExecutionPlan, by the places of their root fields
  outcome,      \* of the calls of each field fetch; the initial one is under None
  sent,         \* history: what the subgraphs were asked
  usage         \* the events published to the registry

vars == <<request, stage, plan, outcome, sent, usage>>

NamesOf(sels) == {s.name : s \in Range(sels)}

\* A selection and all below it; the same of a selection set.
Within[s \in Selections] == {s} \cup UNION {Within[c] : c \in Range(s.below)}
Inside(sels) == UNION {Within[s] : s \in Range(sels)}

-----------------------------------------------------------------------------
(* validate.rs *)

ArgumentVariables(s) == Range(s.args) \cap Variables

VariableUses(sels) == UNION {ArgumentVariables(s) : s \in Inside(sels)}

SpreadsIn(sels) == {s.name : s \in {s \in Inside(sels) : s.kind = "spread"}}

\* apollo-compiler's validation without a schema: unique names, an anonymous
\* operation alone, fragments that are defined, and in them variables that are.
Standalone(req) ==
  /\ \A i, j \in DOMAIN req.ops :
       i # j => req.ops[i].name # req.ops[j].name /\ req.ops[i].name # None
  /\ \A op \in Range(req.ops) :
       /\ \A f \in SpreadsIn(op.roots) :
            f \in DOMAIN req.fragments /\ req.fragments[f] \subseteq op.declared
       /\ \A s \in Inside(op.roots) : Range(s.directives) \cap Variables \subseteq op.declared

Valid(req) ==
  /\ Standalone(req)
  /\ req.ops # <<>>
  /\ \A op \in Range(req.ops) : VariableUses(op.roots) \subseteq op.declared

-----------------------------------------------------------------------------
(* limits/cost.rs *)

\* Mutant: the sum wraps, as u32 does in a release build.
PlusWraps(a, b) == (a + b) % (MaxU32 + 1)

\* saturating_add
Plus(a, b) == IF a + b > MaxU32 THEN MaxU32 ELSE a + b

\* collect_field_costs (catalog.rs): the first value of a root field's @cost,
\* None when it is no integer.
RootsOf(kind) == IF kind = "mutation" THEN MutationRoots ELSE Roots \ MutationRoots
Overridden(kind) == {r \in DOMAIN Costs \cap RootsOf(kind) : Head(Costs[r]) # None}

\* The override of a root field is that of every field of the same name.
FieldCost(kind, n) ==
  IF n \in Overridden(kind)
  THEN IF Head(Costs[n]) < 0 THEN 0 ELSE Head(Costs[n])
  ELSE IF n \in Searches THEN 20 ELSE 1

Total(costs) ==
  LET sum[i \in 0..Len(costs)] == IF i = 0 THEN 0 ELSE Plus(sum[i - 1], costs[i])
  IN sum[Len(costs)]

SelectionCost(kind, s, costOfBelow) ==
  IF s.kind = "field"
  THEN IF s.below = <<>> THEN FieldCost(kind, s.name)
       ELSE Plus(Plus(FieldCost(kind, s.name), 3),
                 Plus(IF s.name \in Plurals THEN 5 ELSE 0, costOfBelow))
  ELSE IF s.kind = "inline" THEN costOfBelow ELSE 1

CostOf(kind, sels) ==
  LET cost[s \in Selections] ==
        SelectionCost(kind, s, Total([i \in DOMAIN s.below |-> cost[s.below[i]]]))
  IN Total([i \in DOMAIN sels |-> cost[sels[i]]])

OperationCost(op) ==
  IF op.kind = "mutation" THEN Plus(CostOf(op.kind, op.roots), 30)
  ELSE CostOf(op.kind, op.roots)

\* Mutant: the walk does not go into inline fragments.
SelectionDepthOfFields(s, depthBelow) == IF s.kind # "field" THEN 0 ELSE depthBelow + 1

\* The levels from a selection down to the deepest field in it, an inline fragment
\* being a level; 0 if there is no field.
SelectionDepth(s, depthBelow) ==
  IF s.kind = "spread" \/ (s.kind = "inline" /\ depthBelow = 0) THEN 0 ELSE depthBelow + 1
Deepest(depths) == Max({0} \cup depths)
Depth[s \in Selections] == SelectionDepth(s, Deepest({Depth[c] : c \in Range(s.below)}))
DepthOf(sels) == Deepest({Depth[s] : s \in Range(sels)})

\* pick_operation, once in cost.rs and once in planner.rs: at most one operation.
CostedOperation(req) ==
  {op \in Range(req.ops) : IF req.asked = None THEN Len(req.ops) = 1 ELSE op.name = req.asked}

WithinLimits(req) ==
  \E op \in CostedOperation(req) :
    /\ op.kind # "subscription"
    /\ DepthOf(op.roots) <= MaxDepth
    /\ OperationCost(op) <= MaxCost

-----------------------------------------------------------------------------
(* planner.rs: rendering *)

Braced(text) == <<Open>> \o text \o <<Close>>

\* render_value
Quoted(token) == IF token \in DOMAIN Misquoted THEN Misquoted[token] ELSE token
ArgumentText(s) == [i \in DOMAIN s.args |-> Quoted(s.args[i])]

\* Directives are not written, nor is the "..." of a fragment without a condition.
Render(s, below) ==
  CASE s.kind = "field" ->
         <<s.name>> \o ArgumentText(s) \o (IF s.below = <<>> THEN <<>> ELSE Braced(below))
    [] s.kind = "inline" -> (IF s.name = Dots THEN <<>> ELSE <<s.name>>) \o Braced(below)
    [] s.kind = "spread" -> <<s.name>>
Text[s \in Selections] ==
  Render(s, FlattenSeq([i \in DOMAIN s.below |-> Text[s.below[i]]]))
RenderAll(sels) == FlattenSeq([i \in DOMAIN sels |-> Text[sels[i]]])

\* What a scan of the bytes sees at the places of a text.
Bytes(text) ==
  [i \in DOMAIN text |-> IF text[i] \in DOMAIN Misread THEN Misread[text[i]] ELSE text[i]]

Braces(bytes, b, i) == Cardinality({j \in 1..(i - 1) : bytes[j] = b})

\* strip_selection_set cuts the text at the last brace that opens at depth 0.
Outermost(bytes) ==
  {i \in DOMAIN bytes : bytes[i] = Open /\ Braces(bytes, Open, i) = Braces(bytes, Close, i)}
StripSelectionSet(text) ==
  IF Outermost(Bytes(text)) = {} THEN text
  ELSE SubSeq(text, 1, Max(Outermost(Bytes(text))) - 1)

\* collect_variable_uses_in_str
VariableNames(text) == Range(Bytes(text)) \cap Variables

-----------------------------------------------------------------------------
(* planner.rs: the plan *)

PlannedOperation(req) ==
  {op \in Range(req.ops) : IF req.asked = None THEN Len(req.ops) = 1 ELSE op.name = req.asked}

\* The places of the root fields that are planned: not spreads, not inline fragments.
RootFields(op) ==
  {i \in DOMAIN op.roots : op.roots[i].kind = "field" /\ op.roots[i].name \notin Introspection}

\* A selection set as QueryPlan has it.
Flat(sels) ==
  {[key |-> s.key, name |-> s.name, below |-> NamesOf(s.below), inline |-> s.kind # "field"] :
     s \in Range(sels)}

\* The fields that subgraph e is asked for, one after the other.
RenderPart(t, sels, owner, e) ==
  FlattenSeq([i \in DOMAIN sels |->
    IF /\ sels[i].kind = "field"
       /\ sels[i].name \notin {Typename, Id}
       /\ OwnerOf(t, sels[i].name, owner) = e
    THEN Text[sels[i]] ELSE <<>>])

InitialSelectionText(t, sels, owner) ==
  IF t # None THEN Braced(<<Typename, Id>> \o RenderPart(t, sels, owner, owner))
  ELSE IF sels = <<>> THEN <<>> ELSE Braced(RenderAll(sels))

RootOperationText(t, f, owner) ==
  StripSelectionSet(Text[f]) \o InitialSelectionText(t, f.below, owner)

\* Mutant: the declarations are not pruned.
FieldFetchUnpruned(op, f, t) ==
  LET owner == RootOwner(f.name)
      text == RootOperationText(t, f, owner)
  IN [key |-> f.key, subgraph |-> owner, type |-> t, text |-> text,
      declared |-> op.declared, variables |-> VariableNames(text),
      bodies |-> [e \in Extenders(t, Flat(f.below), owner) |->
                    RenderPart(t, f.below, owner, e)]]

\* Mutant: the variables are those of the root field's own arguments.
FieldFetchRootVariables(op, f, t) ==
  LET owner == RootOwner(f.name)
      text == RootOperationText(t, f, owner)
  IN [key |-> f.key, subgraph |-> owner, type |-> t, text |-> text,
      declared |-> op.declared \cap VariableNames(ArgumentText(f)),
      variables |-> VariableNames(ArgumentText(f)),
      bodies |-> [e \in Extenders(t, Flat(f.below), owner) |->
                    RenderPart(t, f.below, owner, e)]]

FieldFetch(op, f, t) ==
  LET owner == RootOwner(f.name)
      text == RootOperationText(t, f, owner)
  IN [key |-> f.key, subgraph |-> owner, type |-> t, text |-> text,
      declared |-> op.declared \cap VariableNames(text),
      variables |-> VariableNames(text),
      bodies |-> [e \in Extenders(t, Flat(f.below), owner) |->
                    RenderPart(t, f.below, owner, e)]]

\* The plans of an operation; none when plan_operation fails.
Plans(op) ==
  LET fields == RootFields(op)
      guesses == {g \in [fields -> Types \cup {None}] :
                    \A i \in fields : g[i] \in Guesses(Flat(op.roots[i].below))}
  IN IF \/ op.kind = "subscription"
        \/ fields = {}
        \/ \E i \in fields : \/ op.roots[i].name \notin RootsOf(op.kind)
                             \/ RootOwner(op.roots[i].name) \notin Subgraphs
     THEN {}
     ELSE {[i \in fields |-> FieldFetch(op, op.roots[i], g[i])] : g \in guesses}

-----------------------------------------------------------------------------
(* usage.rs *)

\* Of fetches with one response key the last one's type is taken.
TypeUnder(key) ==
  LET is == {i \in DOMAIN plan : plan[i].key = key /\ plan[i].type # None}
  IN IF is = {} THEN None ELSE plan[Max(is)].type

\* Mutant: the other operations of the document are counted as well.
CountedOperationsAll == Range(request.ops)

CountedOperations ==
  {op \in Range(request.ops) :
     \A planned \in PlannedOperation(request) : planned.name # None => op.name = planned.name}

FieldEvents(t, f) ==
  {[service |-> FieldOwner(t, s.name), type |-> t, field |-> s.name, under |-> f.key] :
     s \in {s \in Range(f.below) : /\ s.kind = "field"
                                   /\ s.name # Typename
                                   /\ s.name \in FieldsOf(t)}}

UsageEvents ==
  UNION {FieldEvents(TypeUnder(f.key), f) :
           f \in {f \in UNION {Range(op.roots) : op \in CountedOperations} :
                    f.kind = "field" /\ TypeUnder(f.key) # None}}

-----------------------------------------------------------------------------
(* The handler *)

Init ==
  /\ request \in Requests
  /\ stage = "received"
  /\ plan = <<>>
  /\ outcome = <<>>
  /\ sent = {}
  /\ usage = {}

Validate ==
  /\ stage = "received"
  /\ stage' = IF Valid(request) THEN "valid" ELSE "refused"
  /\ UNCHANGED <<request, plan, outcome, sent, usage>>

Limit ==
  /\ stage = "valid"
  /\ stage' = IF WithinLimits(request) THEN "limited" ELSE "refused"
  /\ UNCHANGED <<request, plan, outcome, sent, usage>>

Plan ==
  /\ stage = "limited"
  /\ \E op \in PlannedOperation(request) :
       IF Plans(op) = {}
       THEN stage' = "refused" /\ UNCHANGED <<plan, outcome>>
       ELSE /\ stage' = "executing"
            /\ plan' \in Plans(op)
            /\ outcome' = [i \in DOMAIN plan' |->
                             [c \in {None} \cup DOMAIN plan'[i].bodies |-> "unsent"]]
  /\ UNCHANGED <<request, sent, usage>>

\* build_body with subset_variables: the client's operation name goes with it.
InitialRequest(fetch) ==
  [to |-> fetch.subgraph, under |-> fetch.key, entity |-> FALSE, name |-> request.asked,
   text |-> fetch.text, declared |-> fetch.declared,
   values |-> request.values \cap fetch.variables]

EntityRequest(fetch, e) ==
  [to |-> e, under |-> fetch.key, entity |-> TRUE, name |-> None,
   text |-> <<Representations>> \o Braced(<<fetch.type>> \o Braced(fetch.bodies[e])),
   declared |-> {Representations}, values |-> {Representations}]

SendInitial(i) ==
  /\ stage = "executing"
  /\ outcome[i][None] = "unsent"
  /\ outcome' = [outcome EXCEPT ![i][None] = "sent"]
  /\ sent' = sent \cup {InitialRequest(plan[i])}
  /\ UNCHANGED <<request, stage, plan, usage>>

\* The answer holds entities, or none, or there is none.
InitialReply(i) ==
  /\ stage = "executing"
  /\ outcome[i][None] = "sent"
  /\ \E reply \in {"entities", "none", "failed"} :
       outcome' = [outcome EXCEPT ![i][None] = reply]
  /\ UNCHANGED <<request, stage, plan, sent, usage>>

SendEntity(i, e) ==
  /\ stage = "executing"
  /\ outcome[i][None] = "entities"
  /\ outcome[i][e] = "unsent"
  /\ outcome' = [outcome EXCEPT ![i][e] = "sent"]
  /\ sent' = sent \cup {EntityRequest(plan[i], e)}
  /\ UNCHANGED <<request, stage, plan, usage>>

EntityReply(i, e) ==
  /\ stage = "executing"
  /\ outcome[i][e] = "sent"
  /\ e # None
  /\ \E reply \in {"answered", "failed"} : outcome' = [outcome EXCEPT ![i][e] = reply]
  /\ UNCHANGED <<request, stage, plan, sent, usage>>

Finished(i) ==
  /\ outcome[i][None] \notin {"unsent", "sent"}
  /\ outcome[i][None] = "entities" =>
       \A e \in DOMAIN plan[i].bodies : outcome[i][e] \in {"answered", "failed"}

\* Usage is published for an operation without errors, before it is answered.
Answer ==
  /\ stage = "executing"
  /\ \A i \in DOMAIN plan : Finished(i)
  /\ stage' = "answered"
  /\ usage' = IF \E i \in DOMAIN plan : "failed" \in Range(outcome[i]) THEN {} ELSE UsageEvents
  /\ UNCHANGED <<request, plan, outcome, sent>>

Done == stage \in {"answered", "refused"} /\ UNCHANGED vars

Next ==
  \/ Validate \/ Limit \/ Plan \/ Answer \/ Done
  \/ \E i \in DOMAIN plan : SendInitial(i) \/ InitialReply(i)
  \/ \E i \in DOMAIN plan : \E e \in DOMAIN plan[i].bodies : SendEntity(i, e) \/ EntityReply(i, e)

Spec == Init /\ [][Next]_vars

-----------------------------------------------------------------------------
(* Properties *)

\* Types of the state: plans and requests name subgraphs of the catalog.
TypeOK ==
  /\ request \in Requests
  /\ stage \in {"received", "valid", "limited", "executing", "answered", "refused"}
  /\ \A f \in Range(plan) :
       /\ f.subgraph \in Subgraphs
       /\ f.type \in Tagged \cup {None}
       /\ f.declared \subseteq f.variables
       /\ f.variables \subseteq Variables
  /\ DOMAIN outcome = DOMAIN plan
  /\ \A r \in sent : r.to \in Subgraphs /\ r.values \subseteq Variables
  /\ \A ev \in usage : ev.field \in FieldsOf(ev.type)

\* No brace of a text closes what is not open, and all are closed.
Balanced(bytes) ==
  /\ \A i \in DOMAIN bytes : bytes[i] = Close => Braces(bytes, Open, i) > Braces(bytes, Close, i)
  /\ Braces(bytes, Open, Len(bytes) + 1) = Braces(bytes, Close, Len(bytes) + 1)

\* Arguments that the scans of the bytes do not misread.
LegibleArguments(sels) ==
  \A s \in Inside(sels) :
    /\ Balanced(Bytes(ArgumentText(s)))
    /\ VariableNames(ArgumentText(s)) = ArgumentVariables(s)

\* An object value cuts a root field short that has no selection set.
Legible(req) ==
  \A op \in Range(req.ops) :
    /\ LegibleArguments(op.roots)
    /\ \A f \in Range(op.roots) : f.below = <<>> => Open \notin Range(Bytes(ArgumentText(f)))

\* The variables below a root field are in fields of the subgraph that gets it.
KeepsVariables(f) ==
  \A s \in Range(f.below), t \in Guesses(Flat(f.below)) \ {None} :
    VariableUses(<<s>>) # {} => OwnerOf(t, s.name, RootOwner(f.name)) = RootOwner(f.name)

\* What is written as it was: nothing with directives, no bare inline fragment, no
\* string with a backslash or a line break.
Writable(s) ==
  /\ s.directives = <<>>
  /\ s.kind = "inline" => s.name # Dots
  /\ Range(s.args) \cap DOMAIN Misquoted = {}

\* The forms of a request that the planner is made for.
Conventional(req) ==
  /\ req.asked = None
  /\ Legible(req)
  /\ \A op \in Range(req.ops) : \A i \in RootFields(op) :
       /\ SpreadsIn(op.roots[i].below) = {}
       /\ \A s \in Within[op.roots[i]] : Writable(s)
       /\ op.roots[i].name \in Roots => KeepsVariables(op.roots[i])

\* The depth of the field at a place of a text.
Nesting(text, i) == 1 + Braces(text, Open, i) - Braces(text, Close, i)

\* No subgraph is asked for a field deeper than max_depth, whichever of the document's
\* operations is asked for and whatever the planner cuts off and puts together again:
\* the limit is checked on the tree, before there is a text (cost.rs, planner.rs).  The
\* inline fragment that an entity fetch needs would count as a level: it comes on top.
SentWithinDepth ==
  Legible(request) =>
    \A r \in sent : \A i \in DOMAIN r.text :
      r.text[i] \in Names => Nesting(r.text, i) <= MaxDepth + (IF r.entity THEN 1 ELSE 0)

\* No field below a root field is free; an override of 0 makes those of its name so.
Priced(op) ==
  \A i \in RootFields(op) : \A s \in Range(op.roots[i].below) :
    s.kind = "field" => FieldCost(op.kind, s.name) > 0

\* What the subgraphs are asked to do is within max_cost: the root fields at their
\* prices, and one for each entity fetch.  The sum saturates, it never wraps, and it
\* is taken of the operation that is planned.
SentWithinCost ==
  \A op \in PlannedOperation(request) :
    Priced(op) =>
      MapThenSumSet(LAMBDA r : IF r.entity THEN 1 ELSE FieldCost(op.kind, r.text[1]), sent)
        <= MaxCost

\* A selection as GraphQL has it, and some of a selection set.
Headed(s) == <<s.name>> \o s.args \o s.directives
Written[s \in Selections] ==
  Headed(s) \o (IF s.below = <<>> THEN <<>>
              ELSE Braced(FlattenSeq([i \in DOMAIN s.below |-> Written[s.below[i]]])))
WrittenOf(sels, kept) ==
  FlattenSeq([i \in DOMAIN sels |-> IF i \in kept THEN Written[sels[i]] ELSE <<>>])

\* The text of a request is that of a root field of the operation; or some of its
\* selections are below it, or below the type that entities are fetched of.
AsWritten(r) ==
  \E op \in PlannedOperation(request) : \E i \in RootFields(op) :
    LET f == op.roots[i]
    IN \E kept \in SUBSET DOMAIN f.below :
         IF r.entity
         THEN \E t \in Types :
                r.text = <<Representations>> \o Braced(<<t>> \o Braced(WrittenOf(f.below, kept)))
         ELSE r.text \in {Written[f],
                         Headed(f) \o Braced(<<Typename, Id>> \o WrittenOf(f.below, kept))}

\* A request is one that a GraphQL server can run by itself: its text is what the client
\* wrote, it declares the variables it uses and no other, it spreads no fragment, and it
\* comes with the client's values.
SelfContained(r) ==
  /\ AsWritten(r)
  /\ Range(r.text) \cap Variables = r.declared
  /\ Range(r.text) \cap DOMAIN request.fragments = {}
  /\ r.declared \cap request.values \subseteq r.values

\* Of a conventional operation, every part that the planner makes is self-contained
\* (InitialFetch.query_text, and the text that execute_field makes around a body).
PartsSelfContained ==
  Conventional(request) => \A r \in sent : SelfContained(r)

\* An operation that is asked for by its name can be found in the text.
NamedOperationsFound ==
  \A r \in sent : r.name # None => r.name \in Range(r.text)

\* An answered operation whose usage is counted: no two root fields, introspection
\* included, have one response key, and the owner of an entity owns its key.
UsageCounted ==
  /\ stage = "answered"
  /\ \A op \in PlannedOperation(request) : \A i, j \in DOMAIN op.roots :
       /\ op.roots[i].kind = "field" /\ op.roots[j].kind = "field"
       /\ op.roots[i].key = op.roots[j].key
       => i = j
  /\ \A f \in Range(plan) : f.type # None =>
       /\ f.subgraph = TypeOwner(f.type)
       /\ Id \in FieldsOf(f.type) => FieldOwner(f.type, Id) = f.subgraph
  /\ \A i \in DOMAIN plan : "failed" \notin Range(outcome[i])

\* The usage that decides which field may be removed is that of the plan: an event is
\* of a field that the plan asks that service for, under that response key, and every
\* service that entities are fetched from is counted (usage.rs, planner.rs).
UsageIsOfThePlan ==
  UsageCounted =>
    /\ \A ev \in usage : \E f \in Range(plan) :
         /\ f.key = ev.under /\ f.type = ev.type
         /\ \/ ev.service = f.subgraph /\ ev.field \in Range(f.text)
            \/ ev.service \in DOMAIN f.bodies /\ ev.field \in Range(f.bodies[ev.service])
    /\ \A f \in Range(plan) : \A e \in DOMAIN f.bodies :
         \E ev \in usage : ev.service = e /\ ev.under = f.key

=============================================================================
