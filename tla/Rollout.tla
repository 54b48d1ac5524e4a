------------------------------ MODULE Rollout ------------------------------
(***************************************************************************)
(* How a schema gets from a service into the router: the instances of the  *)
(* services publish their SDL when they start (SchemaPublisher.kt), the    *)
(* registry stores it and composes what is newest (SchemaController.kt,    *)
(* RegistryServices.kt), and a router pod asks for a composition, fetches  *)
(* the latest one and starts on it (k8s/base/router.yaml, main.rs,         *)
(* server.rs build).  Connections break, processes die, and compositions   *)
(* of several pods and of the CI overlap.                                  *)
(***************************************************************************)
EXTENDS RouterStart

CONSTANTS
  Instances,      \* processes of the services
  ServiceOf,      \* the service an instance is one of
  Pods,           \* router pods
  Boots,          \* the configurations a pod may be created with
  Other,          \* who has the registry compose besides the pods, or has gone
  Composable(_),  \* whether composition of these services' schemas succeeds
  MaxAttempts,    \* 30 in SchemaPublisher.kt
  MaxFaults       \* bound: crashes, replacements and broken connections

ASSUME RolloutAssumption ==
  /\ MaxAttempts \in Nat \ {0} /\ MaxFaults \in Nat /\ Other \notin Pods
  /\ ~ Composable({})

\* What load() takes of a boot: the eight variables it reads, a flag that is there or
\* not, and a file whose switches are booleans, or serde refuses it.
ASSUME BootAssumption ==
  \A b \in Boots :
    /\ DOMAIN b.env \subseteq Texts \cup Switches
    /\ b.flag \in BOOLEAN
    /\ \A key \in Switches \cap DOMAIN b.file : b.file[key] \in BOOLEAN

NoFile == {}
NoPosts == [live |-> FALSE, late |-> 0]

VARIABLES
  publisher,      \* publisher[i]: the state of instance i's publication
  tries,          \* tries[i]: how many attempts have failed
  posts,          \* posts[i]: i's publications on their way to the registry: whether the
                  \*   one it waits for is, and how many that it no longer waits for
  rows,           \* the table schema_versions: [from, at]
  clock,          \* OffsetDateTime.now(): no two rows are of the same microsecond
  compositions,   \* compositions running in the registry: [by, input]
  snapshot,       \* the newest row of supergraph_snapshots: a set of rows
  pod,            \* pod[r]: where the pod is in its life
  boot,           \* boot[r]: the configuration of the pod
  file,           \* file[r]: the supergraph file in the pod's volume
  catalog,        \* catalog[r]: what its process has read of it
  app,            \* app[r]: what the process has built
  asked,          \* history: the rows of the pod's last composition, if it began alone
  faults

published == <<publisher, tries, posts, rows, clock>>
composed == <<compositions, snapshot>>
started == <<pod, boot, file, catalog, app, asked>>
vars == <<publisher, tries, posts, rows, clock, compositions, snapshot, pod, boot, file,
          catalog, app, asked, faults>>

\* What each of the configurations is loaded as.
Config == [b \in Boots |-> Loaded(b)]

Service(row) == ServiceOf[row.from]
Subgraphs(composition) == {Service(row) : row \in composition}

\* The rows whose creation time is the newest of some service.
LatestForEveryService ==
  LET top == {row \in rows : \A other \in rows :
                Service(other) = Service(row) => other.at <= row.at}
  IN {row \in rows : \E newest \in top : row.at = newest.at}

NoApp == [cache |-> FALSE, arbitrary |-> FALSE, queries |-> FALSE, address |-> "",
          breakers |-> {}, timeouts |-> [n \in {} |-> 0]]

Init ==
  /\ publisher = [i \in Instances |-> "publishing"]
  /\ tries = [i \in Instances |-> 0]
  /\ posts = [i \in Instances |-> NoPosts]
  /\ rows = {} /\ clock = 0 /\ compositions = {} /\ snapshot = {}
  /\ pod = [r \in Pods |-> "init"]
  /\ boot \in [Pods -> Boots]
  /\ file = [r \in Pods |-> NoFile]
  /\ catalog = [r \in Pods |-> {}]
  /\ app = [r \in Pods |-> NoApp]
  /\ asked = [r \in Pods |-> {}]
  /\ faults = 0

Fault == faults < MaxFaults /\ faults' = faults + 1

-----------------------------------------------------------------------------
(* The instances of the services.                                          *)

Post(i) ==
  /\ publisher[i] = "publishing"
  /\ publisher' = [publisher EXCEPT ![i] = "awaiting"]
  /\ posts' = [posts EXCEPT ![i].live = TRUE]
  /\ UNCHANGED <<tries, rows, clock, composed, started, faults>>

\* Mutant: the reply to an earlier attempt counts for the next one.
AbandonedStillHeard(i) == posts

\* A request whose sender no longer waits may still arrive.
Abandoned(i) ==
  [posts EXCEPT ![i] =
     [live |-> FALSE, late |-> IF posts[i].live THEN posts[i].late + 1 ELSE posts[i].late]]

\* The service does not answer for its own SDL, or the registry does not answer: an
\* second later it is tried again, 30 times in all.
AttemptFails(i) ==
  /\ publisher[i] \in {"publishing", "awaiting"}
  /\ Fault
  /\ tries' = [tries EXCEPT ![i] = @ + 1]
  /\ publisher' = [publisher EXCEPT ![i] =
       IF tries[i] + 1 < MaxAttempts THEN "publishing" ELSE "gaveup"]
  /\ posts' = Abandoned(i)
  /\ UNCHANGED <<rows, clock, composed, started>>

\* POST /schemas: the SDL is stored, whether its sender still waits or not.
Stored(i) ==
  /\ rows' = rows \cup {[from |-> i, at |-> clock]}
  /\ clock' = clock + 1
  /\ UNCHANGED <<tries, composed, started, faults>>

Publish(i) ==
  /\ posts[i].live
  /\ posts' = [posts EXCEPT ![i].live = FALSE]
  /\ publisher' = [publisher EXCEPT ![i] = "published"]
  /\ Stored(i)

PublishLate(i) ==
  /\ posts[i].late > 0
  /\ posts' = [posts EXCEPT ![i].late = posts[i].late - 1]
  /\ UNCHANGED publisher
  /\ Stored(i)

\* An instance dies, or is replaced: its successor is ready some time later, and its
\* ApplicationReadyEvent starts the publication anew.
RestartInstance(i) ==
  /\ publisher[i] # "publishing" \/ tries[i] > 0
  /\ Fault
  /\ publisher' = [publisher EXCEPT ![i] = "publishing"]
  /\ tries' = [tries EXCEPT ![i] = 0]
  /\ posts' = Abandoned(i)
  /\ UNCHANGED <<rows, clock, composed, started>>

-----------------------------------------------------------------------------
(* The registry and those who have it compose.                             *)

\* composeLatest() reads the rows once, when it begins.
Compose(by) == compositions' = compositions \cup {[by |-> by, input |-> LatestForEveryService]}

\* POST /supergraph/compose of a pod's init container.
InitComposes(r) ==
  /\ pod[r] = "init"
  /\ Compose(r)
  /\ asked' = [asked EXCEPT ![r] =
       IF compositions = {} THEN LatestForEveryService ELSE {}]
  /\ pod' = [pod EXCEPT ![r] = "composing"]
  /\ UNCHANGED <<published, snapshot, boot, file, catalog, app, faults>>

\* A schema check of the CI has the registry compose, too.
OtherComposes ==
  /\ Fault
  /\ Compose(Other)
  /\ UNCHANGED <<published, snapshot, started>>

\* Mutant: an init container that is told of an error does not ask again.
RepliedOnce(c, ok) ==
  pod' = [r \in Pods |-> IF c.by = r /\ pod[r] = "composing" /\ ok THEN "fetching" ELSE pod[r]]

\* Only a composition without errors is saved; the reply says whether it was, and only
\* "ok":true lets the init container go on.
Replied(c, ok) ==
  pod' = [r \in Pods |->
    IF c.by = r /\ pod[r] = "composing" THEN IF ok THEN "fetching" ELSE "init" ELSE pod[r]]

Composes(c) ==
  /\ c \in compositions
  /\ Composable(Subgraphs(c.input))
  /\ compositions' = compositions \ {c}
  /\ snapshot' = c.input
  /\ Replied(c, TRUE)
  /\ UNCHANGED <<published, boot, file, catalog, app, asked, faults>>

\* Mutant: the reply does not depend on the exit code of compose.mjs.
CompositionFailsOk(c) ==
  /\ c \in compositions
  /\ IF Composable(Subgraphs(c.input)) THEN Fault ELSE faults' = faults
  /\ compositions' = compositions \ {c}
  /\ Replied(c, TRUE)
  /\ UNCHANGED <<published, snapshot, boot, file, catalog, app, asked>>

\* No schemas, or a conflict between them, or compose.mjs is killed after 60 seconds.
CompositionFails(c) ==
  /\ c \in compositions
  /\ IF Composable(Subgraphs(c.input)) THEN Fault ELSE faults' = faults
  /\ compositions' = compositions \ {c}
  /\ Replied(c, FALSE)
  /\ UNCHANGED <<published, snapshot, boot, file, catalog, app, asked>>

\* The registry's process dies, and with it what it was composing; a request that it
\* has not read is lost.
RegistryCrash ==
  /\ Fault
  /\ compositions' = {}
  /\ posts' = [i \in Instances |-> NoPosts]
  /\ pod' = [r \in Pods |-> IF pod[r] = "composing" THEN "init" ELSE pod[r]]
  /\ UNCHANGED <<publisher, tries, rows, clock, snapshot, boot, file, catalog, app, asked>>

-----------------------------------------------------------------------------
(* The router pods.                                                        *)

\* The registry goes on with what a pod has asked for when the pod no longer waits.
Orphaned(r) == {IF c.by = r THEN [c EXCEPT !.by = Other] ELSE c : c \in compositions}

\* The connection breaks; the init container asks again, and starts over when it has
\* asked 120 times.
ConnectionBreaks(r) ==
  /\ pod[r] \in {"composing", "fetching"}
  /\ Fault
  /\ compositions' = Orphaned(r)
  /\ pod' = [pod EXCEPT ![r] = "init"]
  /\ UNCHANGED <<published, snapshot, boot, file, catalog, app, asked>>

\* GET /supergraph/latest into the file.
FetchLatest(r) ==
  /\ pod[r] = "fetching"
  /\ snapshot # {}
  /\ file' = [file EXCEPT ![r] = snapshot]
  /\ pod' = [pod EXCEPT ![r] = "starting"]
  /\ UNCHANGED <<published, composed, boot, catalog, app, asked, faults>>

\* The process loads its configuration and reads the supergraph file.
LoadCatalog(r) ==
  /\ pod[r] = "starting"
  /\ Parses(file[r])
  /\ catalog' = [catalog EXCEPT ![r] = file[r]]
  /\ pod' = [pod EXCEPT ![r] = "building"]
  /\ UNCHANGED <<published, composed, boot, file, app, asked, faults>>

\* Redis is connected to and the manifest read, and the socket bound.
Listen(r) ==
  /\ pod[r] = "building"
  /\ ManifestLoads(Config[boot[r]])
  /\ app' = [app EXCEPT ![r] = App(Config[boot[r]], boot[r].timeouts, Subgraphs(catalog[r]))]
  /\ pod' = [pod EXCEPT ![r] = "listening"]
  /\ UNCHANGED <<published, composed, boot, file, catalog, asked, faults>>

\* Redis does not accept the connection, or the manifest cannot be read: the error of
\* build() ends the process, and the kubelet starts it anew.
StartFails(r) ==
  /\ pod[r] = "building"
  /\ IF ManifestLoads(Config[boot[r]]) THEN OpensCache(Config[boot[r]]) /\ Fault ELSE faults' = faults
  /\ pod' = [pod EXCEPT ![r] = "starting"]
  /\ catalog' = [catalog EXCEPT ![r] = {}]
  /\ UNCHANGED <<published, composed, boot, file, app, asked>>

\* The router's process dies: the container is restarted on the file of its volume.
Crash(r) ==
  /\ pod[r] \in {"building", "listening"}
  /\ Fault
  /\ pod' = [pod EXCEPT ![r] = "starting"]
  /\ catalog' = [catalog EXCEPT ![r] = {}]
  /\ app' = [app EXCEPT ![r] = NoApp]
  /\ UNCHANGED <<published, composed, boot, file, asked>>

\* The pod is replaced, perhaps with another configuration; its volume goes with it.
Replace(r) ==
  /\ Fault
  /\ \E b \in Boots : boot' = [boot EXCEPT ![r] = b]
  /\ compositions' = Orphaned(r)
  /\ pod' = [pod EXCEPT ![r] = "init"]
  /\ file' = [file EXCEPT ![r] = NoFile]
  /\ catalog' = [catalog EXCEPT ![r] = {}]
  /\ app' = [app EXCEPT ![r] = NoApp]
  /\ asked' = [asked EXCEPT ![r] = {}]
  /\ UNCHANGED <<published, snapshot>>

-----------------------------------------------------------------------------
Publication ==
  \E i \in Instances :
    \/ Post(i) \/ AttemptFails(i) \/ RestartInstance(i)
    \/ Publish(i) \/ PublishLate(i)

Registry ==
  \/ \E c \in compositions : Composes(c) \/ CompositionFails(c)
  \/ OtherComposes
  \/ RegistryCrash

Router(r) ==
  \/ InitComposes(r)
  \/ ConnectionBreaks(r)
  \/ FetchLatest(r)
  \/ LoadCatalog(r)
  \/ Listen(r)
  \/ StartFails(r)
  \/ Crash(r)
  \/ Replace(r)

Next ==
  \/ Publication
  \/ Registry
  \/ \E r \in Pods : Router(r)

Spec == Init /\ [][Next]_vars

\* Init containers ask on, the registry answers in the end, and a process that can start
\* does; Redis refuses a connection no more often than there are faults.
Proceeds(r) ==
  InitComposes(r) \/ FetchLatest(r) \/ LoadCatalog(r) \/ Listen(r) \/ StartFails(r)

Fairness ==
  /\ \A r \in Pods : WF_vars(Proceeds(r))
  /\ WF_vars(\E c \in compositions : Composes(c) \/ CompositionFails(c))

LiveSpec == Spec /\ Fairness

-----------------------------------------------------------------------------
TypeOK ==
  /\ publisher \in [Instances -> {"publishing", "awaiting", "published", "gaveup"}]
  /\ tries \in [Instances -> 0 .. MaxAttempts]
  /\ posts \in [Instances -> [live : BOOLEAN, late : Nat]]
  /\ \A i \in Instances : posts[i].live => publisher[i] = "awaiting"
  /\ clock \in Nat /\ rows \subseteq [from : Instances, at : 0 .. clock - 1]
  /\ compositions \subseteq [by : Pods \cup {Other}, input : SUBSET rows]
  /\ snapshot \subseteq rows
  /\ pod \in [Pods -> {"init", "composing", "fetching", "starting", "building", "listening"}]
  /\ boot \in [Pods -> Boots]
  /\ file \in [Pods -> SUBSET rows] /\ catalog \in [Pods -> SUBSET rows]
  /\ \A r \in Pods : catalog[r] \subseteq file[r]

\* A router serves what its pod asked the registry for, or something newer, for every
\* service that had published by then, unless another composition, of older rows, was
\* running when it asked: composeLatest() reads the rows long before it saves, and the
\* pod fetches whatever was saved last (RegistryServices.kt:28-58, router.yaml:42-44).
\* What it serves composes as a whole, and with a schema of each service at most.
RoutesAreFresh ==
  \A r \in Pods : pod[r] = "listening" =>
    /\ Composable(Subgraphs(catalog[r]))
    /\ \A one, other \in catalog[r] : Service(one) = Service(other) => one = other
    /\ \A row \in asked[r] : \E served \in catalog[r] :
         Service(served) = Service(row) /\ served.at >= row.at

\* What an operator may expect of a boot: of the flag, the environment, the file and
\* the default, the first that says something decides; an empty text says nothing,
\* an empty switch that it is off.
Says(b, key) ==
  IF key = "allow_arbitrary_queries" /\ b.flag THEN TRUE
  ELSE IF key \in Switches \cap DOMAIN b.env THEN b.env[key] \in {"1", "true", "yes"}
  ELSE IF key \in DOMAIN b.env /\ b.env[key] # "" THEN b.env[key]
  ELSE IF key \in DOMAIN b.file THEN b.file[key] ELSE Default[key]

\* A listening router is what its operator has configured, however often it has been
\* restarted, replaced or kept waiting by Redis: it has the cache that was asked for
\* and no other, executes texts outside a manifest only if told to, has read its
\* manifest otherwise, and knows a timeout and a breaker for each of its subgraphs
\* (server.rs:51-117: a failure there ends the process, it does not degrade it).
ListensAsConfigured ==
  \A r \in Pods : pod[r] = "listening" =>
    LET b == boot[r] IN
    /\ app[r].cache = (Says(b, "cache_enabled") /\ Says(b, "redis_url") # "")
    /\ app[r].cache => app[r].address = Says(b, "redis_url")
    /\ app[r].arbitrary = Says(b, "allow_arbitrary_queries")
    /\ ~ app[r].arbitrary => Manifests[Says(b, "manifest")] = "whole" /\ app[r].queries
    /\ app[r].breakers = Subgraphs(file[r])
    /\ \A n \in Subgraphs(file[r]) :
         app[r].timeouts[n] = IF n \in DOMAIN b.timeouts THEN b.timeouts[n]
                              ELSE IF n \in {"property", "pricing", "booking", "review", "user"}
                              THEN default_subgraph_timeouts_ms[n]
                              ELSE Says(b, "default_subgraph_timeout_ms")

Bootable == {b \in Boots : ManifestLoads(Config[b])}

\* Once the published schemas compose for good, every pod whose manifest can be read
\* listens in the end, through failed compositions, broken connections, restarts and
\* an absent Redis (router.yaml:41-51, main.rs:59: whatever fails is tried again).
EveryPodListens ==
  <>[]Composable(Subgraphs(LatestForEveryService)) =>
    \A r \in Pods : []<>(pod[r] = "listening" \/ boot[r] \notin Bootable)

=============================================================================
