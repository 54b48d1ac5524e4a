-------------------------- MODULE RequestPipeline --------------------------
(***************************************************************************)
(* The handler of POST /graphql (server.rs) for concurrent requests, with  *)
(* the persisted query lookup (persisted_queries.rs) and the Redis cache   *)
(* of responses (cache.rs).                                                *)
(*                                                                         *)
(* The handler is one future: what happens between two awaits is one step. *)
(* It awaits the GET, the fetches from the subgraphs, the publication of   *)
(* field usage and the SET, and the client may hang up at each of these.   *)
(* Redis may fail at any call, and a SET sent by a handler that is gone    *)
(* is still applied, or lost.                                              *)
(*                                                                         *)
(* A response is named by the request that computed it.  An entry expires  *)
(* after its time to live; since Redis may also fail, a GET may miss at    *)
(* any time, and the model keeps no clock.                                 *)
(***************************************************************************)

CONSTANTS
  Requests, Documents, Users, Variables,
  Nothing,            \* no document, no hash, no response, no cache entry
  TextOf, HashOf,     \* the document and the persisted query hash a request carries
  VariablesOf,        \* its operationName and variables
  UserOf,             \* identity.sub, "anonymous" without a valid token
  Bypass,             \* the requests with x-bypass-cache: true
  Stored,             \* the manifest: persisted queries by their hash
  AllowArbitrary,     \* persisted_queries.allow_arbitrary_queries
  Valid,              \* the documents that parse and validate,
  WithinLimits,       \*   those that analyze_cost lets pass,
  Plannable,          \*   those that plan_operation finds a plan for,
  Mutations,          \*   those whose operation is a mutation, and
  Tracked,            \*   those whose execution yields usage events
  CacheEnabled

ASSUME PipelineAssumption ==
  /\ VariablesOf \in [Requests -> Variables]
  /\ UserOf \in [Requests -> Users]
  /\ Valid \subseteq Documents
  /\ Nothing \notin Valid
  /\ Nothing \notin [by : Requests, ok : BOOLEAN]

VARIABLES
  pc,         \* where a request's handler stands
  answer,     \* the response it has computed or read from the cache
  cache,      \* Redis: responses by their key
  writing     \* the requests whose SET is on its way to Redis

vars == <<pc, answer, cache, writing>>

Awaits == {"get", "fetch", "stitch", "usage", "set"}
Places == Awaits \cup {"new", "done", "limited", "refused", "dropped"}
Responses == [by : Requests, ok : BOOLEAN]
CacheKeys == Documents \X Variables \X Users

TypeOK ==
  /\ pc \in [Requests -> Places]
  /\ answer \in [Requests -> Responses \cup {Nothing}]
  /\ cache \in [CacheKeys -> Responses \cup {Nothing}]
  /\ writing \subseteq Requests
  /\ \A r \in Requests :
       pc[r] \in {"stitch", "usage", "set", "done"} => answer[r] \in Responses

Init ==
  /\ pc = [r \in Requests |-> "new"]
  /\ answer = [r \in Requests |-> Nothing]
  /\ cache = [k \in CacheKeys |-> Nothing]
  /\ writing = {}

-----------------------------------------------------------------------------
(* What the handler computes between its awaits *)

\* PersistedQueryStore::resolve: a hash wins over the text, and the text alone
\* is taken only when arbitrary queries are allowed.
Resolve(r) ==
  IF HashOf[r] # Nothing
    THEN IF HashOf[r] \in DOMAIN Stored THEN Stored[HashOf[r]] ELSE Nothing
    ELSE IF AllowArbitrary THEN TextOf[r] ELSE Nothing

Admissible(d) == d \in Valid \cap WithinLimits \cap Plannable

\* Mutant: the key leaves the identity out.
CacheKeyShared(r) == <<Resolve(r), VariablesOf[r], CHOOSE u \in Users : TRUE>>

CacheKey(r) == <<Resolve(r), VariablesOf[r], UserOf[r]>>

UsesCache(r) == CacheEnabled /\ r \notin Bypass

\* Mutants: a response with errors, or of a mutation, is stored.
CacheableWithErrors(r, ok) == UsesCache(r) /\ Resolve(r) \notin Mutations
CacheableMutations(r, ok) == UsesCache(r) /\ ok

Cacheable(r, ok) ==
  UsesCache(r) /\ Resolve(r) \notin Mutations /\ ok

-----------------------------------------------------------------------------
Goto(r, place) == pc' = [pc EXCEPT ![r] = place]

\* Mutant: the limits are not checked.
PlanUnlimited(r) == Goto(r, IF Resolve(r) \in Plannable THEN "fetch" ELSE "refused")

\* The cost limit and the planner: the document is executed or refused.
Plan(r) == Goto(r, IF Resolve(r) \in WithinLimits \cap Plannable THEN "fetch" ELSE "refused")

\* The middleware finds the client's bucket empty.
RateLimited(r) ==
  /\ pc[r] = "new"
  /\ Goto(r, "limited")
  /\ UNCHANGED <<answer, cache, writing>>

\* The handler from its start to its first await.
Begin(r) ==
  /\ pc[r] = "new"
  /\ IF Resolve(r) \notin Valid THEN Goto(r, "refused")
     ELSE IF UsesCache(r) THEN Goto(r, "get")
     ELSE Plan(r)
  /\ UNCHANGED <<answer, cache, writing>>

\* Mutant: the absence of an entry is taken for an entry.
HitEmpty(r) ==
  /\ pc[r] = "get"
  /\ answer' = [answer EXCEPT ![r] = cache[CacheKey(r)]]
  /\ Goto(r, "done")
  /\ UNCHANGED <<cache, writing>>

\* The GET finds an entry, and the client gets it.
Hit(r) ==
  /\ pc[r] = "get"
  /\ LET entry == cache[CacheKey(r)] IN
       /\ entry # Nothing
       /\ answer' = [answer EXCEPT ![r] = entry]
  /\ Goto(r, "done")
  /\ UNCHANGED <<cache, writing>>

\* There is no entry, Redis fails, or the entry does not decode.
Miss(r) ==
  /\ pc[r] = "get"
  /\ Plan(r)
  /\ UNCHANGED <<answer, cache, writing>>

\* The subgraphs of the root fields answer (ok) or one of them fails.
Fetch(r, ok) ==
  /\ pc[r] = "fetch"
  /\ answer' = [answer EXCEPT ![r] = [by |-> r, ok |-> ok]]
  /\ Goto(r, "stitch")
  /\ UNCHANGED <<cache, writing>>

\* What follows the usage events: the SET, or the reply.
Store(r, ok) ==
  IF Cacheable(r, ok)
    THEN Goto(r, "set") /\ writing' = writing \cup {r}
    ELSE Goto(r, "done") /\ UNCHANGED writing

\* The entity fetches are over and merged: the response has errors when one of
\* them failed (not ok) or a root field did.  Events are published only for a
\* response without errors.
Stitch(r, ok) ==
  /\ pc[r] = "stitch"
  /\ LET clean == ok /\ answer[r].ok IN
       /\ answer' = [answer EXCEPT ![r].ok = clean]
       /\ IF clean /\ Resolve(r) \in Tracked
            THEN Goto(r, "usage") /\ UNCHANGED writing
            ELSE Store(r, clean)
  /\ UNCHANGED cache

\* The registry takes the events, or the POST fails.  The client of the POST has
\* a time limit for the connect only, so a registry that stalls holds the handler
\* here for ever.
Published(r) ==
  /\ pc[r] = "usage"
  /\ Store(r, answer[r].ok)
  /\ UNCHANGED <<answer, cache>>

\* Redis applies a SET, whatever has been stored under the key since it was sent.
RedisSets(r) ==
  /\ r \in writing
  /\ cache' = [cache EXCEPT ![CacheKey(r)] = answer[r]]
  /\ writing' = writing \ {r}
  /\ UNCHANGED <<pc, answer>>

\* A SET never reaches Redis.
SetLost(r) ==
  /\ r \in writing
  /\ writing' = writing \ {r}
  /\ UNCHANGED <<pc, answer, cache>>

\* Mutant: the handler insists on the confirmation.
SetOverConfirmed(r) ==
  /\ pc[r] = "set"
  /\ r \notin writing
  /\ Goto(r, "done")
  /\ UNCHANGED <<answer, cache, writing>>

\* Redis confirms the SET or the call fails, before or after it is applied.
SetOver(r) ==
  /\ pc[r] = "set"
  /\ Goto(r, "done")
  /\ UNCHANGED <<answer, cache, writing>>

\* The client hangs up and the handler's future is dropped.
Drop(r) ==
  /\ pc[r] \in Awaits
  /\ Goto(r, "dropped")
  /\ UNCHANGED <<answer, cache, writing>>

Continue(r) ==
  \/ Hit(r) \/ Miss(r)
  \/ \E ok \in BOOLEAN : Fetch(r, ok) \/ Stitch(r, ok)
  \/ SetOver(r)

Arrive(r) == RateLimited(r) \/ Begin(r)

Environment(r) == Published(r) \/ RedisSets(r) \/ SetLost(r) \/ Drop(r)

Next == \E r \in Requests : Arrive(r) \/ Continue(r) \/ Environment(r)

Spec == Init /\ [][Next]_vars

\* tokio polls ready futures.  Assumed of the environment: calls to subgraphs end
\* (SubgraphDispatch says when they do), and Redis answers or drops the connection,
\* for its client sets no time limit either.  Nothing is assumed of the registry:
\* it may never answer.
Fairness == \A r \in Requests : WF_vars(Continue(r))

-----------------------------------------------------------------------------
(* Properties *)

\* A client only sees what was computed for its own identity and for the same
\* document and variables, whether the handler or the cache answers (cache_key).
RepliesBelong ==
  \A r \in Requests :
    pc[r] = "done" =>
      LET by == answer[r].by IN
        /\ Resolve(by) = Resolve(r)
        /\ VariablesOf[by] = VariablesOf[r]
        /\ UserOf[by] = UserOf[r]

\* Data of a document is served only when it is valid, within the limits and
\* plannable, although the cache answers before the limits are checked.
OnlyAdmissibleServed ==
  \A r \in Requests : pc[r] = "done" => Admissible(Resolve(r))

\* A mutation is executed for every request that sends it: the GET does not look
\* at the operation, so what keeps a repeated mutation from being answered out of
\* the cache is that no mutation was ever stored.
MutationsExecute ==
  \A r \in Requests :
    pc[r] = "done" /\ Resolve(r) \in Mutations => answer[r].by = r

\* A request with x-bypass-cache is always executed.
BypassIsFresh ==
  \A r \in Requests : pc[r] = "done" /\ r \in Bypass => answer[r].by = r

\* A response with errors is seen only by the client whose request met them:
\* a degraded answer is never served to another (response_cacheable).
ErrorsStayHome ==
  \A r \in Requests :
    pc[r] = "done" /\ ~answer[r].ok => answer[r].by = r

\* However often Redis and subgraphs fail, a handler ends, or waits in the end for
\* the registry and for nothing else.  A request arrives once, so in the end no
\* handler is at any other await.
EndsOrAwaitsRegistry == <>[](\A r \in Requests : pc[r] \notin Awaits \ {"usage"})

=============================================================================
