----------------------- MODULE RequestPipeline_proofs -----------------------
(***************************************************************************)
(* What the cache may hold, and what a client may be told.                 *)
(*                                                                         *)
(* A reply can be as wrong as the entry it came from, and an entry as      *)
(* wrong as the SET that made it, which a handler sends before it ends and *)
(* Redis applies later.  The invariant follows a response along that way.  *)
(***************************************************************************)
EXTENDS RequestPipeline, TLAPS

\* What may be stored: a clean response to an admissible query.
Shareable(a) ==
  /\ a.ok
  /\ Admissible(Resolve(a.by))
  /\ Resolve(a.by) \notin Mutations

\* Where a handler stands, and what it has established by then.
Position(r) ==
  /\ pc[r] \in {"get", "fetch", "stitch", "usage", "set", "done"} => Resolve(r) \in Valid
  /\ pc[r] = "get" => UsesCache(r)
  /\ pc[r] \in {"fetch", "stitch", "usage", "set"} => Admissible(Resolve(r))
  /\ pc[r] \in {"stitch", "usage", "set"} => answer[r].by = r

EntriesSound ==
  \A k \in CacheKeys :
    cache[k] # Nothing => CacheKey(cache[k].by) = k /\ Shareable(cache[k])

WritesSound ==
  \A r \in writing :
    /\ pc[r] \in {"set", "done", "dropped"}
    /\ answer[r] \in Responses
    /\ answer[r].by = r
    /\ Shareable(answer[r])

RepliesSound ==
  \A r \in Requests :
    pc[r] = "done" =>
      /\ Admissible(Resolve(r))
      /\ \/ answer[r].by = r
         \/ /\ UsesCache(r)
            /\ CacheKey(answer[r].by) = CacheKey(r)
            /\ Shareable(answer[r])

IInv ==
  /\ TypeOK
  /\ \A r \in Requests : Position(r)
  /\ EntriesSound
  /\ WritesSound
  /\ RepliesSound

\* A request whose document is valid has a key of the right type.
LEMMA KeyType ==
  ASSUME NEW r \in Requests, Resolve(r) \in Valid
  PROVE  CacheKey(r) \in CacheKeys
BY PipelineAssumption DEF CacheKey, CacheKeys

\* Nothing has been stored, sent or answered at the start.
LEMMA InitInv == Init => IInv
BY PipelineAssumption
   DEF Init, IInv, TypeOK, Places, Awaits, Responses, Position, EntriesSound,
       WritesSound, RepliesSound


-----------------------------------------------------------------------------
(* One lemma per kind of step *)

\* A request that arrives is refused, or goes on with a valid document.
LEMMA ArriveInv ==
  ASSUME IInv, NEW r \in Requests, Arrive(r)
  PROVE  IInv'
<1>1. /\ UNCHANGED <<answer, cache, writing>>
      /\ pc[r] = "new"
      /\ pc' = [pc EXCEPT ![r] = pc'[r]]
      /\ pc'[r] \in {"limited", "refused", "get", "fetch"}
      /\ pc'[r] = "get" => UsesCache(r) /\ Resolve(r) \in Valid
      /\ pc'[r] = "fetch" => Admissible(Resolve(r))
  BY DEF IInv, TypeOK, Arrive, RateLimited, Begin, Plan, Goto, Admissible
<1>2. TypeOK'
  BY <1>1 DEF IInv, TypeOK, Places, Awaits
<1>3. \A s \in Requests : Position(s)'
  BY <1>1 DEF IInv, TypeOK, Position, UsesCache, Admissible
<1>4. EntriesSound' /\ WritesSound' /\ RepliesSound'
  BY <1>1 DEF IInv, TypeOK, EntriesSound, WritesSound, RepliesSound, Shareable
<1> QED  BY <1>2, <1>3, <1>4 DEF IInv

\* A hit passes on an entry, which is sound and of the request's own key.
LEMMA HitInv ==
  ASSUME IInv, NEW r \in Requests, Hit(r)
  PROVE  IInv'
<1> DEFINE entry == cache[CacheKey(r)]
<1>1. /\ pc[r] = "get" /\ entry # Nothing
      /\ answer' = [answer EXCEPT ![r] = entry]
      /\ pc' = [pc EXCEPT ![r] = "done"]
      /\ UNCHANGED <<cache, writing>>
  BY DEF Hit, Goto
<1>2. UsesCache(r) /\ Resolve(r) \in Valid /\ CacheKey(r) \in CacheKeys
  BY <1>1, KeyType DEF IInv, Position
<1>3. entry \in Responses /\ CacheKey(entry.by) = CacheKey(r) /\ Shareable(entry)
  BY <1>1, <1>2 DEF IInv, TypeOK, EntriesSound
<1>4. Resolve(entry.by) = Resolve(r)
  BY <1>3 DEF CacheKey
<1>5. r \notin writing
  BY <1>1 DEF IInv, WritesSound
<1>6. TypeOK'
  BY <1>1, <1>3 DEF IInv, TypeOK, Places, Awaits
<1>7. \A s \in Requests : Position(s)'
  BY <1>1, <1>2 DEF IInv, TypeOK, Position
<1>8. EntriesSound' /\ WritesSound'
  BY <1>1, <1>5 DEF IInv, TypeOK, EntriesSound, WritesSound, Shareable
<1>9. RepliesSound'
  BY <1>1, <1>2, <1>3, <1>4 DEF IInv, TypeOK, RepliesSound, Shareable
<1> QED  BY <1>6, <1>7, <1>8, <1>9 DEF IInv

\* A miss goes on to the limits and the planner.
LEMMA MissInv ==
  ASSUME IInv, NEW r \in Requests, Miss(r)
  PROVE  IInv'
<1>1. /\ UNCHANGED <<answer, cache, writing>>
      /\ pc[r] = "get" /\ Resolve(r) \in Valid
      /\ pc' = [pc EXCEPT ![r] = pc'[r]]
      /\ pc'[r] \in {"refused", "fetch"}
      /\ pc'[r] = "fetch" => Admissible(Resolve(r))
  BY DEF IInv, TypeOK, Position, Miss, Plan, Goto, Admissible
<1>2. TypeOK' /\ \A s \in Requests : Position(s)'
  BY <1>1 DEF IInv, TypeOK, Places, Awaits, Position, Admissible
<1>3. EntriesSound' /\ WritesSound' /\ RepliesSound'
  BY <1>1 DEF IInv, TypeOK, EntriesSound, WritesSound, RepliesSound, Shareable
<1> QED  BY <1>2, <1>3 DEF IInv

\* The root fetches put the request's own response in place.
LEMMA FetchInv ==
  ASSUME IInv, NEW r \in Requests, NEW ok \in BOOLEAN, Fetch(r, ok)
  PROVE  IInv'
<1> DEFINE own == [by |-> r, ok |-> ok]
<1>1. /\ pc[r] = "fetch" /\ Admissible(Resolve(r)) /\ own \in Responses
      /\ answer' = [answer EXCEPT ![r] = own]
      /\ pc' = [pc EXCEPT ![r] = "stitch"]
      /\ UNCHANGED <<cache, writing>>
  BY DEF IInv, Position, Fetch, Goto, Responses
<1>2. r \notin writing
  BY <1>1 DEF IInv, WritesSound
<1>3. TypeOK'
  BY <1>1 DEF IInv, TypeOK, Places, Awaits
<1>4. \A s \in Requests : Position(s)'
  BY <1>1 DEF IInv, TypeOK, Position, Admissible
<1>5. EntriesSound' /\ WritesSound' /\ RepliesSound'
  BY <1>1, <1>2 DEF IInv, TypeOK, EntriesSound, WritesSound, RepliesSound, Shareable
<1> QED  BY <1>3, <1>4, <1>5 DEF IInv

\* What follows an execution: the response is sent to Redis only if it may be
\* shared, and is in either case the request's own.
LEMMA StoreInv ==
  ASSUME IInv, NEW r \in Requests, NEW ok \in BOOLEAN,
         pc[r] \in {"stitch", "usage"},
         answer' = [answer EXCEPT ![r] = [by |-> r, ok |-> ok]],
         Store(r, ok), UNCHANGED cache
  PROVE  IInv'
<1> DEFINE own == [by |-> r, ok |-> ok]
<1>1. Admissible(Resolve(r)) /\ own \in Responses /\ r \notin writing
  BY DEF IInv, Position, WritesSound, Responses
<1>2. /\ pc' = [pc EXCEPT ![r] = pc'[r]] /\ pc'[r] \in {"set", "done"}
      /\ writing' \subseteq writing \cup {r}
      /\ r \in writing' => pc'[r] = "set" /\ ok /\ Resolve(r) \notin Mutations
  BY <1>1 DEF IInv, TypeOK, Store, Goto, Cacheable
<1>3. answer'[r] = own
  BY DEF IInv, TypeOK
<1>4. TypeOK'
  BY <1>1, <1>2 DEF IInv, TypeOK, Places, Awaits
<1>5. \A s \in Requests : Position(s)'
  BY <1>1, <1>2, <1>3 DEF IInv, TypeOK, Position, Admissible
<1>6. EntriesSound'
  BY DEF IInv, EntriesSound, Shareable
<1>7. WritesSound'
  <2> SUFFICES ASSUME NEW s \in writing'
               PROVE  /\ pc'[s] \in {"set", "done", "dropped"}
                      /\ answer'[s] \in Responses
                      /\ answer'[s].by = s
                      /\ Shareable(answer'[s])
    BY DEF WritesSound, Shareable
  <2>1. CASE s = r
    BY <1>1, <1>2, <1>3, <2>1 DEF Shareable
  <2>2. CASE s # r
    BY <1>2, <2>2 DEF IInv, TypeOK, WritesSound
  <2> QED  BY <2>1, <2>2
<1>8. RepliesSound'
  BY <1>1, <1>2, <1>3 DEF IInv, TypeOK, RepliesSound, Shareable
<1> QED  BY <1>4, <1>5, <1>6, <1>7, <1>8 DEF IInv

\* The merged response is published first, or goes on to Store.
LEMMA StitchInv ==
  ASSUME IInv, NEW r \in Requests, NEW ok \in BOOLEAN, Stitch(r, ok)
  PROVE  IInv'
<1> DEFINE clean == ok /\ answer[r].ok
           own == [by |-> r, ok |-> clean]
<1>1. /\ pc[r] = "stitch" /\ answer[r] \in Responses /\ answer[r].by = r
      /\ Admissible(Resolve(r)) /\ r \notin writing
  BY DEF IInv, TypeOK, Position, WritesSound, Stitch
<1>2. clean \in BOOLEAN /\ [answer[r] EXCEPT !.ok = clean] = own
  BY <1>1 DEF Responses
<1>3. answer' = [answer EXCEPT ![r] = own] /\ UNCHANGED cache
  BY <1>2 DEF Stitch
<1>4. CASE clean /\ Resolve(r) \in Tracked
  <2>1. pc' = [pc EXCEPT ![r] = "usage"] /\ UNCHANGED writing
    BY <1>4 DEF Stitch, Goto
  <2>2. own \in Responses
    BY <1>2 DEF Responses
  <2>3. TypeOK' /\ \A s \in Requests : Position(s)'
    BY <1>1, <1>3, <2>1, <2>2 DEF IInv, TypeOK, Places, Awaits, Position, Admissible
  <2>4. EntriesSound' /\ WritesSound' /\ RepliesSound'
    BY <1>1, <1>3, <2>1
       DEF IInv, TypeOK, EntriesSound, WritesSound, RepliesSound, Shareable
  <2> QED  BY <2>3, <2>4 DEF IInv
<1>5. CASE ~(clean /\ Resolve(r) \in Tracked)
  <2>1. Store(r, clean)
    BY <1>5 DEF Stitch
  <2> QED  BY <1>1, <1>2, <1>3, <2>1, StoreInv
<1> QED  BY <1>4, <1>5

\* After the events come the SET or the reply.
LEMMA PublishedInv ==
  ASSUME IInv, NEW r \in Requests, Published(r)
  PROVE  IInv'
<1> DEFINE own == [by |-> r, ok |-> answer[r].ok]
<1>1. /\ pc[r] = "usage" /\ answer[r] \in Responses /\ answer[r].by = r
      /\ Store(r, answer[r].ok) /\ UNCHANGED <<answer, cache>>
  BY DEF IInv, TypeOK, Position, Published
<1>2. answer[r] = own /\ answer[r].ok \in BOOLEAN
  BY <1>1 DEF Responses
<1>3. answer' = [answer EXCEPT ![r] = own]
  BY <1>1, <1>2 DEF IInv, TypeOK
<1> QED  BY <1>1, <1>2, <1>3, StoreInv

\* Redis stores a response under the key of the request that computed it.
LEMMA RedisSetsInv ==
  ASSUME IInv, NEW r \in Requests, RedisSets(r)
  PROVE  IInv'
<1>1. /\ r \in writing
      /\ cache' = [cache EXCEPT ![CacheKey(r)] = answer[r]]
      /\ writing' = writing \ {r}
      /\ UNCHANGED <<pc, answer>>
  BY DEF RedisSets
<1>2. answer[r] \in Responses /\ answer[r].by = r /\ Shareable(answer[r])
  BY <1>1 DEF IInv, WritesSound
<1>3. TypeOK'
  BY <1>1, <1>2 DEF IInv, TypeOK
<1>4. EntriesSound'
  BY <1>1, <1>2 DEF IInv, TypeOK, EntriesSound, Shareable
<1>5. (\A s \in Requests : Position(s)') /\ WritesSound' /\ RepliesSound'
  BY <1>1 DEF IInv, Position, WritesSound, RepliesSound, Shareable
<1> QED  BY <1>3, <1>4, <1>5 DEF IInv

\* The other steps only end a handler or forget a SET.
LEMMA EndInv ==
  ASSUME IInv, NEW r \in Requests, SetLost(r) \/ SetOver(r) \/ Drop(r)
  PROVE  IInv'
<1>1. CASE SetLost(r)
  BY <1>1
     DEF SetLost, IInv, TypeOK, Position, EntriesSound, WritesSound, RepliesSound, Shareable
<1>2. CASE SetOver(r) \/ Drop(r)
  <2>1. /\ UNCHANGED <<answer, cache, writing>>
        /\ pc[r] \in Awaits
        /\ pc' = [pc EXCEPT ![r] = pc'[r]]
        /\ pc'[r] = "dropped" \/ (pc'[r] = "done" /\ pc[r] = "set")
    <3>1. CASE SetOver(r)
      BY <3>1 DEF IInv, TypeOK, SetOver, Goto, Awaits
    <3>2. CASE Drop(r)
      BY <3>2 DEF IInv, TypeOK, Drop, Goto
    <3> QED  BY <1>2, <3>1, <3>2
  <2>2. TypeOK' /\ \A s \in Requests : Position(s)'
    BY <2>1 DEF IInv, TypeOK, Places, Awaits, Position, Admissible
  <2>3. EntriesSound' /\ WritesSound' /\ RepliesSound'
    BY <2>1
       DEF IInv, TypeOK, Awaits, Position, EntriesSound, WritesSound, RepliesSound, Shareable
  <2> QED  BY <2>2, <2>3 DEF IInv
<1> QED  BY <1>1, <1>2

\* A step of another component changes nothing.
LEMMA StutterInv == IInv /\ UNCHANGED vars => IInv'
BY DEF vars, IInv, TypeOK, Position, EntriesSound, WritesSound, RepliesSound, Shareable

-----------------------------------------------------------------------------
(* Theorems *)

\* What is stored, on its way to Redis and in the hands of clients is sound at
\* all times, for any number of concurrent requests.
THEOREM PipelineInvariant == Spec => []IInv
<1>1. IInv /\ [Next]_vars => IInv'
  <2> SUFFICES ASSUME IInv, [Next]_vars
               PROVE  IInv'
    OBVIOUS
  <2>1. CASE UNCHANGED vars
    BY <2>1, StutterInv
  <2>2. ASSUME NEW r \in Requests, Arrive(r) \/ Continue(r) \/ Environment(r)
        PROVE  IInv'
    BY <2>2, ArriveInv, HitInv, MissInv, FetchInv, StitchInv, PublishedInv,
       RedisSetsInv, EndInv
       DEF Continue, Environment
  <2> QED  BY <2>1, <2>2 DEF Next
<1> QED  BY InitInv, <1>1, PTL DEF Spec

\* The state of the pipeline is well typed: a reply is always a response.
THEOREM TypeCorrect == Spec => []TypeOK
<1>1. IInv => TypeOK
  BY DEF IInv
<1> QED  BY <1>1, PipelineInvariant, PTL

\* No reply crosses identities, documents or variables (cache_key).
THEOREM NoCrossTalk == Spec => []RepliesBelong
<1>1. IInv => RepliesBelong
  BY DEF IInv, RepliesSound, RepliesBelong, CacheKey
<1> QED  BY <1>1, PipelineInvariant, PTL

\* The cache never lets a document through that the limits would refuse.
THEOREM LimitsHold == Spec => []OnlyAdmissibleServed
<1>1. IInv => OnlyAdmissibleServed
  BY DEF IInv, RepliesSound, OnlyAdmissibleServed
<1> QED  BY <1>1, PipelineInvariant, PTL

\* A mutation is never answered out of the cache.
THEOREM MutationsAlwaysExecute == Spec => []MutationsExecute
<1>1. IInv => MutationsExecute
  <2> SUFFICES ASSUME IInv, NEW r \in Requests,
                      pc[r] = "done", Resolve(r) \in Mutations
               PROVE  answer[r].by = r
    BY DEF MutationsExecute
  <2>1. CacheKey(answer[r].by) = CacheKey(r) => Resolve(answer[r].by) = Resolve(r)
    BY DEF CacheKey
  <2> QED  BY <2>1 DEF IInv, RepliesSound, Shareable
<1> QED  BY <1>1, PipelineInvariant, PTL

\* A bypass is executed, and errors are told only to the request that met them.
THEOREM SharingIsLimited == Spec => [](BypassIsFresh /\ ErrorsStayHome)
<1>1. IInv => BypassIsFresh /\ ErrorsStayHome
  BY DEF IInv, RepliesSound, BypassIsFresh, ErrorsStayHome, UsesCache, Shareable
<1> QED  BY <1>1, PipelineInvariant, PTL

=============================================================================
