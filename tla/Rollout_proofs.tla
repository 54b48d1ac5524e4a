--------------------------- MODULE Rollout_proofs ---------------------------
(***************************************************************************)
(* What a router serves, for any number of instances, pods and faults: a   *)
(* composition as a whole, and nothing older than its pod asked for unless *)
(* a composition of older rows was already running.                        *)
(***************************************************************************)
EXTENDS Rollout, TLAPS

\* The services of the rows in old have rows in new that are as recent.
Covers(new, old) ==
  \A row \in old : \E served \in new : Service(served) = Service(row) /\ served.at >= row.at

\* One row of each service at most.
Single(composition) ==
  \A one, other \in composition : Service(one) = Service(other) => one = other

Stamped ==
  /\ \A one, other \in rows : one.at = other.at => one = other
  /\ \A i \in Instances : publisher[i] \in {"publishing", "awaiting"} => tries[i] < MaxAttempts
  /\ asked \in [Pods -> SUBSET rows]

Saved ==
  /\ \A c \in compositions : Single(c.input)
  /\ snapshot # {} => Composable(Subgraphs(snapshot)) /\ Single(snapshot)

Running(r) == pod[r] \in {"building", "listening"}
Started(r) == pod[r] \in {"starting", "building", "listening"}

Fetched ==
  \A r \in Pods :
    /\ Started(r) => Composable(Subgraphs(file[r])) /\ Single(file[r])
    /\ Running(r) => catalog[r] = file[r]
    /\ ~ Running(r) => catalog[r] = {}

\* What the pod has asked for is covered by whatever may yet reach it.
Fresh ==
  \A r \in Pods :
    /\ Covers(LatestForEveryService, asked[r])
    /\ pod[r] \in {"composing", "fetching"} =>
         \A c \in compositions : Covers(c.input, asked[r])
    /\ pod[r] = "fetching" => Covers(snapshot, asked[r])
    /\ Started(r) => Covers(file[r], asked[r])

IInv ==
  /\ TypeOK
  /\ Stamped
  /\ Saved
  /\ Fetched
  /\ Fresh

-----------------------------------------------------------------------------
\* The newest rows are rows, one of each service.
LEMMA LatestIsSingle ==
  ASSUME TypeOK, Stamped
  PROVE  /\ LatestForEveryService \subseteq rows
         /\ Single(LatestForEveryService)
         /\ \A row \in LatestForEveryService, other \in rows :
              Service(other) = Service(row) => other.at <= row.at
<1>1. LatestForEveryService \subseteq rows
  BY DEF LatestForEveryService
<1>2. ASSUME NEW row \in LatestForEveryService, NEW other \in rows,
             Service(other) = Service(row)
      PROVE  other.at <= row.at
  <2>1. PICK newest \in rows :
          /\ row.at = newest.at
          /\ \A x \in rows : Service(x) = Service(newest) => x.at <= newest.at
    BY DEF LatestForEveryService
  <2>2. newest = row
    BY <1>1, <2>1 DEF Stamped
  <2>3. QED
    BY <1>2, <2>1, <2>2
<1>3. Single(LatestForEveryService)
  <2> SUFFICES ASSUME NEW one \in LatestForEveryService, NEW other \in LatestForEveryService,
                      Service(one) = Service(other)
               PROVE  one = other
    BY DEF Single
  <2>1. one.at <= other.at /\ other.at <= one.at
    BY <1>1, <1>2
  <2>2. one.at \in Nat /\ other.at \in Nat
    BY <1>1 DEF TypeOK
  <2>3. QED
    BY <1>1, <2>1, <2>2 DEF Stamped
<1>4. QED
  BY <1>1, <1>2, <1>3

\* Publishing a row never uncovers what was covered.
LEMMA PublishCovers ==
  ASSUME TypeOK, Stamped, NEW i \in Instances, Stored(i), NEW r \in Pods,
         Covers(LatestForEveryService, asked[r])
  PROVE  Covers(LatestForEveryService', asked[r])
<1> DEFINE new == [from |-> i, at |-> clock]
<1>1. rows' = rows \cup {new} /\ \A row \in rows' : row.at \in Nat /\ row.at <= clock
  BY DEF Stored, TypeOK
<1> SUFFICES ASSUME NEW row \in asked[r]
             PROVE  \E served \in LatestForEveryService' :
                      Service(served) = Service(row) /\ served.at >= row.at
  BY DEF Covers
<1>2. PICK served \in LatestForEveryService :
        Service(served) = Service(row) /\ served.at >= row.at
  BY DEF Covers
<1>3. CASE Service(new) = Service(row)
  <2>1. new \in rows' /\ new.at = clock
    BY <1>1
  <2>2. new \in LatestForEveryService'
    BY <1>1, <2>1 DEF LatestForEveryService, Service
  <2>3. row \in rows
    BY DEF Stamped
  <2>4. new.at >= row.at
    BY <1>1, <2>1, <2>3 DEF TypeOK
  <2>5. QED
    BY <1>3, <2>2, <2>4
<1>4. CASE Service(new) # Service(row)
  <2>1. served \in rows
    BY LatestIsSingle
  <2>2. \A other \in rows' : Service(other) = Service(served) => other.at <= served.at
    BY <1>1, <1>2, <1>4, LatestIsSingle
  <2>3. served \in LatestForEveryService'
    BY <1>1, <2>1, <2>2 DEF LatestForEveryService, Service
  <2>4. QED
    BY <1>2, <2>3
<1>5. QED
  BY <1>3, <1>4

\* As long as no row is published the newest ones are the same.
LEMMA LatestUnchanged ==
  ASSUME rows' = rows
  PROVE  LatestForEveryService' = LatestForEveryService
BY DEF LatestForEveryService, Service

\* A composition that is read now covers what it is read from.
LEMMA LatestCoversItself ==
  ASSUME TypeOK
  PROVE  Covers(LatestForEveryService, LatestForEveryService)
BY DEF Covers, LatestForEveryService, TypeOK

-----------------------------------------------------------------------------
(* The steps                                                               *)

LEMMA InitIInv == Init => IInv
<1> SUFFICES ASSUME Init PROVE IInv
  OBVIOUS
<1>1. TypeOK
  BY RolloutAssumption DEF Init, TypeOK, NoFile, NoPosts
<1>2. LatestForEveryService = {}
  BY DEF Init, LatestForEveryService
<1>3. Stamped /\ Saved /\ Fetched
  BY RolloutAssumption DEF Init, Stamped, Saved, Fetched, Started, Running
<1>4. Fresh
  BY DEF Init, Fresh, Covers, Started
<1>5. QED
  BY <1>1, <1>3, <1>4 DEF IInv

\* A step of a publisher concerns neither the registry nor a pod.
LEMMA PublisherKeeps ==
  ASSUME IInv, UNCHANGED <<rows, composed, started>>
  PROVE  Saved' /\ Fetched' /\ Fresh'
<1>1. LatestForEveryService' = LatestForEveryService
  BY LatestUnchanged
<1>2. UNCHANGED <<compositions, snapshot, pod, file, catalog, asked>>
  BY DEF composed, started
<1>3. Saved' /\ Fetched'
  BY <1>2 DEF IInv, Saved, Fetched, Started, Running, Single, Subgraphs, Service
<1>4. Fresh'
  BY <1>1, <1>2 DEF IInv, Fresh, Started, Covers, Service
<1>5. QED
  BY <1>3, <1>4

LEMMA PublisherIInv ==
  ASSUME IInv, NEW i \in Instances, Post(i) \/ AttemptFails(i) \/ RestartInstance(i)
  PROVE  IInv'
<1>1. UNCHANGED <<rows, clock, composed, started>>
  BY DEF Post, AttemptFails, RestartInstance
<1>2. Saved' /\ Fetched' /\ Fresh'
  BY <1>1, PublisherKeeps
<1>3. publisher' \in [Instances -> {"publishing", "awaiting", "published", "gaveup"}]
  BY DEF IInv, TypeOK, Post, AttemptFails, RestartInstance
<1>4. tries' \in [Instances -> 0 .. MaxAttempts]
  BY RolloutAssumption DEF IInv, TypeOK, Stamped, Post, AttemptFails, RestartInstance
<1>5. /\ posts' \in [Instances -> [live : BOOLEAN, late : Nat]]
      /\ \A j \in Instances : posts'[j].live => publisher'[j] = "awaiting"
  <2>1. /\ posts \in [Instances -> [live : BOOLEAN, late : Nat]]
        /\ \A j \in Instances : posts[j].live => publisher[j] = "awaiting"
        /\ publisher \in [Instances -> {"publishing", "awaiting", "published", "gaveup"}]
    BY DEF IInv, TypeOK
  <2>2. CASE Post(i)
    <3>1. /\ posts' = [posts EXCEPT ![i].live = TRUE]
          /\ publisher' = [publisher EXCEPT ![i] = "awaiting"]
      BY <2>2 DEF Post
    <3>2. QED
      BY <2>1, <3>1
  <2>3. CASE AttemptFails(i) \/ RestartInstance(i)
    <3>1. posts' = Abandoned(i) /\ \A j \in Instances \ {i} : publisher'[j] = publisher[j]
      BY <2>1, <2>3 DEF AttemptFails, RestartInstance
    <3> DEFINE late == IF posts[i].live THEN posts[i].late + 1 ELSE posts[i].late
    <3>2. late \in Nat
      BY <2>1
    <3>3. posts' = [posts EXCEPT ![i] = [live |-> FALSE, late |-> late]]
      BY <3>1 DEF Abandoned
    <3>4. [live |-> FALSE, late |-> late] \in [live : BOOLEAN, late : Nat]
      BY <3>2
    <3> HIDE DEF late
    <3>5. \A j \in Instances : j # i => posts'[j] = posts[j] /\ publisher'[j] = publisher[j]
      BY <2>1, <3>1, <3>3
    <3>6. posts'[i].live = FALSE
      BY <2>1, <3>3
    <3>7. QED
      BY <2>1, <3>3, <3>4, <3>5, <3>6
  <2>4. QED
    BY <2>2, <2>3
<1>6. TypeOK'
  BY <1>1, <1>3, <1>4, <1>5 DEF IInv, TypeOK, composed, started
<1>7. Stamped'
  <2>1. /\ publisher \in [Instances -> {"publishing", "awaiting", "published", "gaveup"}]
        /\ tries \in [Instances -> 0 .. MaxAttempts]
        /\ \A j \in Instances :
             publisher[j] \in {"publishing", "awaiting"} => tries[j] < MaxAttempts
    BY DEF IInv, TypeOK, Stamped
  <2>2. \A j \in Instances :
          publisher'[j] \in {"publishing", "awaiting"} => tries'[j] < MaxAttempts
    BY <2>1, RolloutAssumption DEF Post, AttemptFails, RestartInstance
  <2>3. QED
    BY <1>1, <2>2 DEF IInv, Stamped, started
<1>8. QED
  BY <1>2, <1>6, <1>7 DEF IInv

LEMMA PublishIInv ==
  ASSUME IInv, NEW i \in Instances, Publish(i) \/ PublishLate(i)
  PROVE  IInv'
<1>0. Stored(i)
  BY DEF Publish, PublishLate
<1>1. UNCHANGED <<tries, compositions, snapshot, pod, boot, file, catalog, asked>>
  BY <1>0 DEF Stored, composed, started
<1>2. rows \subseteq rows' /\ clock' = clock + 1
  BY <1>0 DEF Stored
<1>3. TypeOK'
  <2>1. /\ posts' \in [Instances -> [live : BOOLEAN, late : Nat]]
        /\ publisher' \in [Instances -> {"publishing", "awaiting", "published", "gaveup"}]
        /\ \A j \in Instances : posts'[j].live => publisher'[j] = "awaiting"
    <3>1. /\ posts \in [Instances -> [live : BOOLEAN, late : Nat]]
          /\ \A j \in Instances : posts[j].live => publisher[j] = "awaiting"
          /\ publisher \in [Instances -> {"publishing", "awaiting", "published", "gaveup"}]
      BY DEF IInv, TypeOK
    <3>2. CASE Publish(i)
      BY <3>1, <3>2 DEF Publish
    <3>3. CASE PublishLate(i)
      <4>1. posts[i].late - 1 \in Nat
        BY <3>1, <3>3 DEF PublishLate
      <4>2. QED
        BY <3>1, <3>3, <4>1 DEF PublishLate
    <3>4. QED
      BY <3>2, <3>3
  <2>2. clock' \in Nat /\ rows' \subseteq [from : Instances, at : 0 .. clock' - 1]
    BY <1>0 DEF IInv, TypeOK, Stored
  <2>3. QED
    BY <1>1, <1>2, <2>1, <2>2 DEF IInv, TypeOK
<1>4. Stamped'
  <2>1. \A j \in Instances :
          publisher'[j] \in {"publishing", "awaiting"} => tries'[j] < MaxAttempts
    BY <1>1 DEF IInv, TypeOK, Stamped, Publish, PublishLate
  <2>2. \A one, other \in rows' : one.at = other.at => one = other
    BY <1>0 DEF IInv, TypeOK, Stamped, Stored
  <2>3. asked' \in [Pods -> SUBSET rows']
    BY <1>1, <1>2 DEF IInv, Stamped
  <2>4. QED
    BY <2>1, <2>2, <2>3 DEF Stamped
<1>5. Saved' /\ Fetched'
  BY <1>1 DEF IInv, Saved, Fetched, Started, Running, Single, Subgraphs, Service
<1>6. Fresh'
  BY <1>0, <1>1, PublishCovers DEF IInv, Fresh, Started, Covers, Service
<1>7. QED
  BY <1>3, <1>4, <1>5, <1>6 DEF IInv

-----------------------------------------------------------------------------
(* The steps of the registry                                               *)

\* The input of a composition that begins now.
LEMMA ComposeTypes ==
  ASSUME IInv, NEW by \in Pods \cup {Other}, Compose(by)
  PROVE  /\ compositions' \subseteq [by : Pods \cup {Other}, input : SUBSET rows]
         /\ \A c \in compositions' : Single(c.input)
         /\ \A r \in Pods :
              /\ Covers(LatestForEveryService, asked[r])
              /\ (\A c \in compositions : Covers(c.input, asked[r])) =>
                   \A c \in compositions' : Covers(c.input, asked[r])
<1> DEFINE new == [by |-> by, input |-> LatestForEveryService]
<1>1. compositions' = compositions \cup {new}
  BY DEF Compose
<1>2. LatestForEveryService \subseteq rows /\ Single(LatestForEveryService)
  BY LatestIsSingle DEF IInv
<1>3. new \in [by : Pods \cup {Other}, input : SUBSET rows] /\ new.input = LatestForEveryService
  BY <1>2
<1>4. \A r \in Pods : Covers(LatestForEveryService, asked[r])
  BY DEF IInv, Fresh
<1>5. QED
  BY <1>1, <1>2, <1>3, <1>4 DEF IInv, TypeOK, Saved

LEMMA OtherComposesIInv == ASSUME IInv, OtherComposes PROVE IInv'
<1>1. Compose(Other) /\ UNCHANGED <<published, snapshot, started>>
  BY DEF OtherComposes
<1>2. UNCHANGED <<publisher, tries, posts, rows, clock, snapshot, pod, boot, file, catalog, asked>>
  BY <1>1 DEF published, started
<1>3. LatestForEveryService' = LatestForEveryService
  BY <1>2, LatestUnchanged
<1>4. /\ compositions' \subseteq [by : Pods \cup {Other}, input : SUBSET rows]
      /\ \A c \in compositions' : Single(c.input)
      /\ \A r \in Pods : (\A c \in compositions : Covers(c.input, asked[r])) =>
                           \A c \in compositions' : Covers(c.input, asked[r])
  BY <1>1, ComposeTypes
<1>5. TypeOK'
  BY <1>2, <1>4 DEF IInv, TypeOK
<1>6. Stamped'
  BY <1>2 DEF IInv, Stamped
<1>7. Saved' /\ Fetched'
  BY <1>2, <1>4 DEF IInv, Saved, Fetched, Started, Running, Single, Subgraphs, Service
<1>8. Fresh'
  BY <1>2, <1>3, <1>4 DEF IInv, Fresh, Started, Covers, Service
<1>9. QED
  BY <1>5, <1>6, <1>7, <1>8 DEF IInv

\* A step of one pod concerns the files and processes of the others not at all.
LEMMA FetchedByOne ==
  ASSUME Fetched, NEW r \in Pods,
         \A s \in Pods \ {r} : pod'[s] = pod[s] /\ file'[s] = file[s] /\ catalog'[s] = catalog[s],
         pod'[r] \notin {"building", "listening"}, catalog'[r] = {},
         pod'[r] = "starting" => Composable(Subgraphs(file'[r])) /\ Single(file'[r])
  PROVE  Fetched'
<1> SUFFICES ASSUME NEW s \in Pods
             PROVE  /\ pod'[s] \in {"starting", "building", "listening"} =>
                         Composable(Subgraphs(file'[s])) /\ Single(file'[s])
                    /\ pod'[s] \in {"building", "listening"} => catalog'[s] = file'[s]
                    /\ pod'[s] \notin {"building", "listening"} => catalog'[s] = {}
  BY DEF Fetched, Started, Running, Single, Subgraphs, Service
<1>1. CASE s = r
  BY <1>1
<1>2. CASE s # r
  BY <1>2 DEF Fetched, Started, Running
<1>3. QED
  BY <1>1, <1>2

LEMMA InitComposesIInv ==
  ASSUME IInv, NEW r \in Pods, InitComposes(r)
  PROVE  IInv'
<1>1. /\ Compose(r)
      /\ UNCHANGED <<published, snapshot, boot, file, catalog>>
      /\ asked' = [asked EXCEPT ![r] = IF compositions = {} THEN LatestForEveryService ELSE {}]
      /\ pod' = [pod EXCEPT ![r] = "composing"]
  BY DEF InitComposes
<1>2. UNCHANGED <<publisher, tries, posts, rows, clock, snapshot, boot, file, catalog>>
  BY <1>1 DEF published
<1>3. LatestForEveryService' = LatestForEveryService
  BY <1>2, LatestUnchanged
<1>4. /\ compositions' \subseteq [by : Pods \cup {Other}, input : SUBSET rows]
      /\ \A c \in compositions' : Single(c.input)
      /\ \A s \in Pods : (\A c \in compositions : Covers(c.input, asked[s])) =>
                           \A c \in compositions' : Covers(c.input, asked[s])
  BY <1>1, ComposeTypes
<1>5. pod \in [Pods -> {"init", "composing", "fetching", "starting", "building", "listening"}]
  BY DEF IInv, TypeOK
<1>6. pod'[r] = "composing" /\ \A s \in Pods \ {r} : pod'[s] = pod[s]
  BY <1>1, <1>5
<1>7. asked \in [Pods -> SUBSET rows]
  BY DEF IInv, Stamped
<1>8. /\ asked'[r] = IF compositions = {} THEN LatestForEveryService ELSE {}
      /\ \A s \in Pods \ {r} : asked'[s] = asked[s]
      /\ asked' \in [Pods -> SUBSET rows]
  BY <1>1, <1>7, LatestIsSingle DEF IInv
<1>9. TypeOK'
  BY <1>1, <1>2, <1>4, <1>5 DEF IInv, TypeOK
<1>10. Stamped'
  BY <1>2, <1>8 DEF IInv, Stamped
<1>11. Saved' /\ Fetched'
  <2>1. Saved'
    BY <1>2, <1>4 DEF IInv, Saved, Single, Subgraphs, Service
  <2>2. catalog[r] = {}
    BY DEF IInv, Fetched, Running, InitComposes
  <2>3. Fetched'
    BY <1>2, <1>6, <2>2, FetchedByOne DEF IInv
  <2>4. QED
    BY <2>1, <2>3
<1>12. /\ Covers(LatestForEveryService, asked'[r])
       /\ \A c \in compositions' : Covers(c.input, asked'[r])
  <2>1. CASE compositions = {}
    <3>1. \A c \in compositions' : c.input = LatestForEveryService
      BY <1>1, <2>1 DEF Compose
    <3>2. Covers(LatestForEveryService, LatestForEveryService)
      BY LatestCoversItself DEF IInv
    <3>3. QED
      BY <1>8, <2>1, <3>1, <3>2
  <2>2. CASE compositions # {}
    BY <1>8, <2>2 DEF Covers
  <2>3. QED
    BY <2>1, <2>2
<1>13. Fresh'
  <2> SUFFICES ASSUME NEW s \in Pods
               PROVE  /\ Covers(LatestForEveryService, asked'[s])
                      /\ pod'[s] \in {"composing", "fetching"} =>
                           \A c \in compositions' : Covers(c.input, asked'[s])
                      /\ pod'[s] = "fetching" => Covers(snapshot, asked'[s])
                      /\ pod'[s] \in {"starting", "building", "listening"} =>
                           Covers(file[s], asked'[s])
    BY <1>2, <1>3 DEF Fresh, Started, Covers, Service
  <2>1. CASE s = r
    BY <1>6, <1>12, <2>1
  <2>2. CASE s # r
    BY <1>4, <1>6, <1>8, <2>2 DEF IInv, Fresh, Started
  <2>3. QED
    BY <2>1, <2>2
<1>14. QED
  BY <1>9, <1>10, <1>11, <1>13 DEF IInv

\* The reply to a composition, whether it was saved or not.
LEMMA RepliedIInv ==
  ASSUME IInv, NEW c \in compositions, NEW ok \in BOOLEAN, Replied(c, ok),
         UNCHANGED <<published, boot, file, catalog, app, asked>>,
         compositions' = compositions \ {c},
         snapshot' = IF ok THEN c.input ELSE snapshot,
         ok => Composable(Subgraphs(c.input))
  PROVE  IInv'
<1>1. UNCHANGED <<publisher, tries, posts, rows, clock, boot, file, catalog, asked>>
  BY DEF published
<1>2. LatestForEveryService' = LatestForEveryService
  BY <1>1, LatestUnchanged
<1>3. pod' = [r \in Pods |-> IF c.by = r /\ pod[r] = "composing"
                             THEN IF ok THEN "fetching" ELSE "init" ELSE pod[r]]
  BY DEF Replied
<1>4. c.input \subseteq rows /\ Single(c.input)
  BY DEF IInv, TypeOK, Saved
<1>5. TypeOK'
  BY <1>1, <1>3, <1>4 DEF IInv, TypeOK
<1>6. Stamped'
  BY <1>1 DEF IInv, Stamped
<1>7. Saved' /\ Fetched'
  BY <1>1, <1>3, <1>4 DEF IInv, Saved, Fetched, Started, Running, Single, Subgraphs, Service
<1>8. Fresh'
  <2> SUFFICES ASSUME NEW r \in Pods
               PROVE  /\ Covers(LatestForEveryService, asked[r])
                      /\ pod'[r] \in {"composing", "fetching"} =>
                           \A x \in compositions' : Covers(x.input, asked[r])
                      /\ pod'[r] = "fetching" => Covers(snapshot', asked[r])
                      /\ pod'[r] \in {"starting", "building", "listening"} =>
                           Covers(file[r], asked[r])
    BY <1>1, <1>2 DEF Fresh, Started, Covers, Service
  <2>1. CASE pod[r] \in {"composing", "fetching"}
    BY <1>3, <2>1 DEF IInv, Fresh
  <2>2. CASE pod[r] \notin {"composing", "fetching"}
    BY <1>3, <2>2 DEF IInv, Fresh, Started
  <2>3. QED
    BY <2>1, <2>2
<1>9. QED
  BY <1>5, <1>6, <1>7, <1>8 DEF IInv

LEMMA ComposesIInv ==
  ASSUME IInv, NEW c \in compositions, Composes(c) \/ CompositionFails(c)
  PROVE  IInv'
<1>1. CASE Composes(c)
  BY <1>1, RepliedIInv DEF Composes
<1>2. CASE CompositionFails(c)
  BY <1>2, RepliedIInv DEF CompositionFails
<1>3. QED
  BY <1>1, <1>2

LEMMA RegistryCrashIInv == ASSUME IInv, RegistryCrash PROVE IInv'
<1>1. /\ UNCHANGED <<publisher, tries, rows, clock, snapshot, boot, file, catalog, asked>>
      /\ compositions' = {} /\ posts' = [i \in Instances |-> NoPosts]
      /\ pod' = [r \in Pods |-> IF pod[r] = "composing" THEN "init" ELSE pod[r]]
  BY DEF RegistryCrash
<1>2. LatestForEveryService' = LatestForEveryService
  BY <1>1, LatestUnchanged
<1>3. TypeOK' /\ Stamped'
  BY <1>1 DEF IInv, TypeOK, Stamped, NoPosts
<1>4. Saved' /\ Fetched'
  BY <1>1 DEF IInv, TypeOK, Saved, Fetched, Started, Running, Single, Subgraphs, Service
<1>5. Fresh'
  BY <1>1, <1>2 DEF IInv, TypeOK, Fresh, Started, Covers, Service
<1>6. QED
  BY <1>3, <1>4, <1>5 DEF IInv

-----------------------------------------------------------------------------
(* The steps of the router pods                                            *)

\* A pod no longer waits for what it asked for; what is being composed stays.
LEMMA OrphanedKeeps ==
  ASSUME IInv, NEW r \in Pods, compositions' = Orphaned(r)
  PROVE  /\ compositions' \subseteq [by : Pods \cup {Other}, input : SUBSET rows]
         /\ \A c \in compositions' : \E x \in compositions : c.input = x.input
<1> SUFFICES ASSUME NEW c \in compositions'
             PROVE  /\ c \in [by : Pods \cup {Other}, input : SUBSET rows]
                    /\ \E x \in compositions : c.input = x.input
  OBVIOUS
<1>1. PICK x \in compositions : c = IF x.by = r THEN [x EXCEPT !.by = Other] ELSE x
  BY DEF Orphaned
<1>2. x \in [by : Pods \cup {Other}, input : SUBSET rows]
  BY DEF IInv, TypeOK
<1>3. QED
  BY <1>1, <1>2

LEMMA ConnectionBreaksIInv ==
  ASSUME IInv, NEW r \in Pods, ConnectionBreaks(r)
  PROVE  IInv'
<1>1. /\ UNCHANGED <<publisher, tries, posts, rows, clock, snapshot, boot, file, catalog, asked>>
      /\ compositions' = Orphaned(r)
      /\ pod' = [pod EXCEPT ![r] = "init"]
  BY DEF ConnectionBreaks, published
<1>2. /\ compositions' \subseteq [by : Pods \cup {Other}, input : SUBSET rows]
      /\ \A c \in compositions' : \E x \in compositions : c.input = x.input
  BY <1>1, OrphanedKeeps
<1>3. LatestForEveryService' = LatestForEveryService
  BY <1>1, LatestUnchanged
<1>4. pod'[r] = "init" /\ \A s \in Pods \ {r} : pod'[s] = pod[s]
  BY <1>1 DEF IInv, TypeOK
<1>5. TypeOK' /\ Stamped'
  BY <1>1, <1>2 DEF IInv, TypeOK, Stamped
<1>6. Saved' /\ Fetched'
  <2>1. Saved'
    BY <1>1, <1>2 DEF IInv, Saved, Single, Subgraphs, Service
  <2>2. catalog[r] = {}
    BY DEF IInv, Fetched, Running, ConnectionBreaks
  <2>3. Fetched'
    BY <1>1, <1>4, <2>2, FetchedByOne DEF IInv
  <2>4. QED
    BY <2>1, <2>3
<1>7. Fresh'
  BY <1>1, <1>2, <1>3, <1>4 DEF IInv, Fresh, Started, Covers, Service
<1>8. QED
  BY <1>5, <1>6, <1>7 DEF IInv

LEMMA FetchLatestIInv ==
  ASSUME IInv, NEW r \in Pods, FetchLatest(r)
  PROVE  IInv'
<1>1. /\ UNCHANGED <<publisher, tries, posts, rows, clock, compositions, snapshot>>
      /\ UNCHANGED <<boot, catalog, asked>>
      /\ pod[r] = "fetching" /\ snapshot # {}
      /\ file' = [file EXCEPT ![r] = snapshot]
      /\ pod' = [pod EXCEPT ![r] = "starting"]
  BY DEF FetchLatest, published, composed
<1>2. LatestForEveryService' = LatestForEveryService
  BY <1>1, LatestUnchanged
<1>3. catalog[r] = {}
  BY <1>1 DEF IInv, Fetched, Running
<1>4. /\ pod'[r] = "starting" /\ \A s \in Pods \ {r} : pod'[s] = pod[s]
      /\ file'[r] = snapshot /\ \A s \in Pods \ {r} : file'[s] = file[s]
  BY <1>1 DEF IInv, TypeOK
<1>5. TypeOK' /\ Stamped'
  BY <1>1, <1>3 DEF IInv, TypeOK, Stamped
<1>6. Saved' /\ Fetched'
  <2>1. Saved'
    BY <1>1 DEF IInv, Saved, Single, Subgraphs, Service
  <2>2. Composable(Subgraphs(snapshot)) /\ Single(snapshot)
    BY <1>1 DEF IInv, Saved
  <2>3. Fetched'
    BY <1>1, <1>3, <1>4, <2>2, FetchedByOne DEF IInv
  <2>4. QED
    BY <2>1, <2>3
<1>7. Fresh'
  BY <1>1, <1>2, <1>4 DEF IInv, Fresh, Started, Covers, Service
<1>8. QED
  BY <1>5, <1>6, <1>7 DEF IInv

\* A process of a pod starts, gets on, fails or dies; the file of the pod stays.
LEMMA ProcessIInv ==
  ASSUME IInv, NEW r \in Pods, LoadCatalog(r) \/ Listen(r) \/ StartFails(r) \/ Crash(r)
  PROVE  IInv'
<1>1. /\ UNCHANGED <<publisher, tries, posts, rows, clock, compositions, snapshot>>
      /\ UNCHANGED <<boot, file, asked>>
  BY DEF LoadCatalog, Listen, StartFails, Crash, published, composed
<1>2. LatestForEveryService' = LatestForEveryService
  BY <1>1, LatestUnchanged
<1>3. /\ Started(r) /\ pod'[r] \in {"starting", "building", "listening"}
      /\ pod' \in [Pods -> {"init", "composing", "fetching", "starting", "building", "listening"}]
      /\ \A s \in Pods \ {r} : pod'[s] = pod[s]
  BY DEF IInv, TypeOK, Started, LoadCatalog, Listen, StartFails, Crash
<1>4. /\ catalog'[r] \in {{}, file[r]}
      /\ pod'[r] \in {"building", "listening"} => catalog'[r] = file[r]
      /\ pod'[r] = "starting" => catalog'[r] = {}
      /\ \A s \in Pods \ {r} : catalog'[s] = catalog[s]
      /\ catalog' \in [Pods -> SUBSET rows]
  BY <1>3 DEF IInv, TypeOK, Fetched, Running, LoadCatalog, Listen, StartFails, Crash
<1>5. TypeOK' /\ Stamped'
  BY <1>1, <1>3, <1>4 DEF IInv, TypeOK, Stamped
<1>6. Saved' /\ Fetched'
  BY <1>1, <1>3, <1>4 DEF IInv, Saved, Fetched, Started, Running, Single, Subgraphs, Service
<1>7. Fresh'
  BY <1>1, <1>2, <1>3 DEF IInv, Fresh, Started, Covers, Service
<1>8. QED
  BY <1>5, <1>6, <1>7 DEF IInv

LEMMA ReplaceIInv ==
  ASSUME IInv, NEW r \in Pods, Replace(r)
  PROVE  IInv'
<1>1. /\ UNCHANGED <<publisher, tries, posts, rows, clock, snapshot>>
      /\ compositions' = Orphaned(r)
      /\ pod' = [pod EXCEPT ![r] = "init"]
      /\ file' = [file EXCEPT ![r] = {}]
      /\ catalog' = [catalog EXCEPT ![r] = {}]
      /\ asked' = [asked EXCEPT ![r] = {}]
      /\ \E b \in Boots : boot' = [boot EXCEPT ![r] = b]
  BY DEF Replace, published, NoFile
<1>2. /\ compositions' \subseteq [by : Pods \cup {Other}, input : SUBSET rows]
      /\ \A c \in compositions' : \E x \in compositions : c.input = x.input
  BY <1>1, OrphanedKeeps
<1>3. LatestForEveryService' = LatestForEveryService
  BY <1>1, LatestUnchanged
<1>4. /\ pod'[r] = "init" /\ \A s \in Pods \ {r} : pod'[s] = pod[s]
      /\ file'[r] = {} /\ \A s \in Pods \ {r} : file'[s] = file[s]
      /\ catalog'[r] = {} /\ \A s \in Pods \ {r} : catalog'[s] = catalog[s]
      /\ asked'[r] = {} /\ \A s \in Pods \ {r} : asked'[s] = asked[s]
  BY <1>1 DEF IInv, TypeOK, Stamped
<1>5. TypeOK' /\ Stamped'
  BY <1>1, <1>2, <1>4 DEF IInv, TypeOK, Stamped
<1>6. Saved' /\ Fetched'
  BY <1>1, <1>2, <1>4 DEF IInv, Saved, Fetched, Started, Running, Single, Subgraphs, Service
<1>7. Fresh'
  BY <1>1, <1>2, <1>3, <1>4 DEF IInv, Fresh, Started, Covers, Service
<1>8. QED
  BY <1>5, <1>6, <1>7 DEF IInv

-----------------------------------------------------------------------------
LEMMA NextIInv == IInv /\ [Next]_vars => IInv'
<1> SUFFICES ASSUME IInv, [Next]_vars PROVE IInv'
  OBVIOUS
<1>1. CASE Publication
  BY <1>1, PublisherIInv, PublishIInv DEF Publication
<1>2. CASE Registry
  BY <1>2, ComposesIInv, OtherComposesIInv, RegistryCrashIInv DEF Registry
<1>3. CASE \E r \in Pods : Router(r)
  BY <1>3, InitComposesIInv, ConnectionBreaksIInv, FetchLatestIInv, ProcessIInv, ReplaceIInv
     DEF Router
<1>4. CASE UNCHANGED vars
  <2>1. UNCHANGED <<publisher, tries, posts, rows, clock, boot>>
          /\ UNCHANGED <<rows, composed, started>>
    BY <1>4 DEF vars, composed, started
  <2>2. Saved' /\ Fetched' /\ Fresh'
    BY <2>1, PublisherKeeps
  <2>3. TypeOK' /\ Stamped'
    BY <2>1 DEF IInv, TypeOK, Stamped, composed, started
  <2>4. QED
    BY <2>2, <2>3 DEF IInv
<1>5. QED
  BY <1>1, <1>2, <1>3, <1>4 DEF Next

LEMMA Invariance == Spec => []IInv
<1>1. Init => IInv
  BY InitIInv
<1>2. IInv /\ [Next]_vars => IInv'
  BY NextIInv
<1>3. QED
  BY <1>1, <1>2, PTL DEF Spec

\* A publication that is waited for is of an instance that waits, and what is being
\* composed, saved, fetched and served are rows of the registry's table.
THEOREM RolloutTypes == Spec => []TypeOK
<1>1. IInv => TypeOK
  BY DEF IInv
<1>2. QED
  BY <1>1, Invariance, PTL

\* However many pods, the CI and the registry's failures interleave, a listening router
\* serves a composition as a whole, and for every service at least what its pod asked
\* for, unless a composition of older rows was running when it asked.
THEOREM RoutesStayFresh == Spec => []RoutesAreFresh
<1>1. IInv => RoutesAreFresh
  BY DEF IInv, Fetched, Fresh, RoutesAreFresh, Running, Started, Single, Covers
<1>2. QED
  BY <1>1, Invariance, PTL

-----------------------------------------------------------------------------
(* The configuration                                                       *)

\* Whether any text is allowed is a boolean, wherever it was given.
LEMMA ArbitraryIsBoolean ==
  ASSUME NEW b \in Boots
  PROVE  FromEnv(b)["allow_arbitrary_queries"] \in BOOLEAN
<1> DEFINE key == "allow_arbitrary_queries"
<1>1. key \in DOMAIN Default /\ Default[key] = FALSE
  BY DEF Default
<1>2. key \in Switches /\ key \notin Texts
  BY DEF Switches, Texts
<1>3. Parsed(b.file)[key] \in BOOLEAN
  <2>1. CASE key \in DOMAIN b.file
    BY <1>1, <1>2, <2>1, BootAssumption DEF Parsed
  <2>2. CASE key \notin DOMAIN b.file
    BY <1>1, <2>2 DEF Parsed
  <2>3. QED
    BY <2>1, <2>2
<1>4. FromEnv(b)[key] = IF key \in DOMAIN b.env THEN b.env[key] \in {"1", "true", "yes"}
                        ELSE Parsed(b.file)[key]
  BY <1>1, <1>2 DEF FromEnv
<1>5. CASE key \in DOMAIN b.env
  BY <1>4, <1>5
<1>6. CASE key \notin DOMAIN b.env
  BY <1>3, <1>4, <1>6
<1>7. QED
  BY <1>5, <1>6

\* What load() makes of a boot is what the first source that says something says.
LEMMA LoadedAsSaid ==
  ASSUME NEW b \in Boots,
         NEW key \in {"cache_enabled", "redis_url", "manifest", "default_subgraph_timeout_ms",
                      "allow_arbitrary_queries"}
  PROVE  Loaded(b)[key] = Says(b, key)
<1>1. key \in DOMAIN Default /\ "allow_arbitrary_queries" \in DOMAIN Default
  BY DEF Default
<1>2. /\ key \in Texts <=> key \in {"redis_url", "manifest"}
      /\ key \in Switches <=> key \in {"cache_enabled", "allow_arbitrary_queries"}
      /\ "allow_arbitrary_queries" \in Switches
  BY DEF Texts, Switches
<1>3. Parsed(b.file)[key] = IF key \in DOMAIN b.file THEN b.file[key] ELSE Default[key]
  BY <1>1 DEF Parsed
<1>4. FromEnv(b)[key] =
        IF key \in Texts \cap DOMAIN b.env /\ b.env[key] # "" THEN b.env[key]
        ELSE IF key \in Switches \cap DOMAIN b.env THEN b.env[key] \in {"1", "true", "yes"}
        ELSE Parsed(b.file)[key]
  BY <1>1, <1>2 DEF FromEnv
<1>5. FromEnv(b)[key] =
        IF key \in Switches \cap DOMAIN b.env THEN b.env[key] \in {"1", "true", "yes"}
        ELSE IF key \in DOMAIN b.env /\ b.env[key] # "" THEN b.env[key]
        ELSE IF key \in DOMAIN b.file THEN b.file[key] ELSE Default[key]
  BY <1>2, <1>3, <1>4, BootAssumption
<1>6. FromEnv(b) = [k \in DOMAIN Default |-> FromEnv(b)[k]]
  BY DEF FromEnv
<1>7. CASE key = "allow_arbitrary_queries"
  <2>1. Loaded(b)[key] = (FromEnv(b)[key] \/ b.flag)
    BY <1>1, <1>6, <1>7 DEF Loaded
  <2>2. FromEnv(b)[key] \in BOOLEAN /\ b.flag \in BOOLEAN
    BY <1>7, ArbitraryIsBoolean, BootAssumption
  <2>3. CASE b.flag
    BY <1>7, <2>1, <2>2, <2>3 DEF Says
  <2>4. CASE ~ b.flag
    <3>1. Loaded(b)[key] = FromEnv(b)[key]
      BY <2>1, <2>2, <2>4
    <3>2. QED
      BY <1>5, <2>4, <3>1 DEF Says
  <2>5. QED
    BY <2>3, <2>4
<1>8. CASE key # "allow_arbitrary_queries"
  <2>1. Loaded(b)[key] = FromEnv(b)[key]
    BY <1>1, <1>6, <1>8 DEF Loaded
  <2>2. QED
    BY <1>5, <1>8, <2>1 DEF Says
<1>9. QED
  BY <1>7, <1>8

\* A process that listens was built from its pod's configuration and file, and its
\* manifest could be read.
Built ==
  /\ app = [r \in Pods |-> app[r]]
  /\ \A r \in Pods : pod[r] = "listening" =>
       /\ ManifestLoads(Config[boot[r]])
       /\ app[r] = App(Config[boot[r]], boot[r].timeouts, Subgraphs(file[r]))

LEMMA BuiltStep == ASSUME IInv, Built, [Next]_vars PROVE Built'
<1> DEFINE Listens(r) == /\ ManifestLoads(Config[boot[r]])
                         /\ app[r] = App(Config[boot[r]], boot[r].timeouts, Subgraphs(file[r]))
<1> USE DEF Subgraphs, Service
<1>1. ASSUME UNCHANGED <<boot, file, app>>,
             \A s \in Pods : pod'[s] = "listening" => pod[s] = "listening"
      PROVE  Built'
  BY <1>1 DEF Built
<1>2. ASSUME NEW r \in Pods,
             app' = [s \in Pods |-> app'[s]],
             \A s \in Pods \ {r} : /\ pod'[s] = pod[s] /\ boot'[s] = boot[s]
                                   /\ file'[s] = file[s] /\ app'[s] = app[s],
             pod'[r] = "listening" => Listens(r)'
      PROVE  Built'
  <2> SUFFICES ASSUME NEW s \in Pods, pod'[s] = "listening"
               PROVE  Listens(s)'
    BY <1>2 DEF Built
  <2>1. CASE s = r
    BY <1>2, <2>1
  <2>2. CASE s # r
    BY <1>2, <2>2 DEF Built
  <2>3. QED
    BY <2>1, <2>2
<1>3. CASE Publication \/ UNCHANGED vars
  BY <1>1, <1>3 DEF Publication, Post, AttemptFails, RestartInstance, Publish, PublishLate,
     Stored, started, vars
<1>4. CASE Registry
  BY <1>1, <1>4
  DEF Registry, Composes, CompositionFails, Replied, OtherComposes, RegistryCrash, started
<1>5. ASSUME NEW r \in Pods, Router(r)
      PROVE  Built'
  <2>1. CASE InitComposes(r) \/ ConnectionBreaks(r) \/ LoadCatalog(r) \/ StartFails(r)
    BY <1>1, <2>1 DEF InitComposes, ConnectionBreaks, LoadCatalog, StartFails, IInv, TypeOK
  <2>2. CASE FetchLatest(r)
    BY <1>2, <2>2 DEF FetchLatest, IInv, TypeOK, Built
  <2>3. CASE Listen(r)
    <3>1. catalog[r] = file[r]
      BY <2>3 DEF Listen, IInv, Fetched, Running
    <3>2. app'[r] = App(Config[boot[r]], boot[r].timeouts, Subgraphs(file[r]))
      BY <2>3, <3>1 DEF Listen, Built
    <3>3. QED
      BY <1>2, <2>3, <3>2 DEF Listen, IInv, TypeOK, Built
  <2>4. CASE Crash(r)
    BY <1>2, <2>4 DEF Crash, IInv, TypeOK, Built
  <2>5. CASE Replace(r)
    BY <1>2, <2>5 DEF Replace, IInv, TypeOK, Built
  <2>6. QED
    BY <1>5, <2>1, <2>2, <2>3, <2>4, <2>5 DEF Router
<1>6. QED
  BY <1>3, <1>4, <1>5 DEF Next

\* Whatever is restarted, replaced or kept waiting, a router that listens is the one its
\* operator has configured.
THEOREM RouterIsAsConfigured == Spec => []ListensAsConfigured
<1>1. Init => Built
  BY DEF Init, Built
<1>2. ASSUME IInv, Built
      PROVE  ListensAsConfigured
  <2> SUFFICES ASSUME NEW r \in Pods, pod[r] = "listening"
               PROVE  ListensAsConfigured!(r)!2
    BY DEF ListensAsConfigured
  <2> DEFINE b == boot[r]
             cfg == Loaded(b)
  <2>1. b \in Boots /\ Config[b] = cfg
    BY <1>2 DEF IInv, TypeOK, Config
  <2>2. ManifestLoads(cfg) /\ app[r] = App(cfg, b.timeouts, Subgraphs(file[r]))
    BY <1>2, <2>1 DEF Built
  <2>3. /\ cfg.cache_enabled = Says(b, "cache_enabled")
        /\ cfg.redis_url = Says(b, "redis_url")
        /\ cfg.manifest = Says(b, "manifest")
        /\ cfg.default_subgraph_timeout_ms = Says(b, "default_subgraph_timeout_ms")
        /\ cfg.allow_arbitrary_queries = Says(b, "allow_arbitrary_queries")
    BY <2>1, LoadedAsSaid
  <2> HIDE DEF b, cfg
  <2>4. /\ app[r].cache = OpensCache(cfg) /\ app[r].address = cfg.redis_url
        /\ app[r].arbitrary = cfg.allow_arbitrary_queries /\ app[r].queries = ReadsManifest(cfg)
        /\ app[r].breakers = Subgraphs(file[r])
        /\ app[r].timeouts = [n \in Subgraphs(file[r]) |-> Timeout(cfg, b.timeouts, n)]
    BY <2>2 DEF App
  <2>5. ~ app[r].arbitrary => Manifests[Says(b, "manifest")] = "whole" /\ app[r].queries
    BY <2>2, <2>3, <2>4 DEF ManifestLoads, ReadsManifest
  <2>6. app[r].cache = (Says(b, "cache_enabled") /\ Says(b, "redis_url") # "")
    BY <2>3, <2>4 DEF OpensCache
  <2>7. DOMAIN default_subgraph_timeouts_ms = {"property", "pricing", "booking", "review", "user"}
    BY DEF default_subgraph_timeouts_ms
  <2>8. QED
    BY <2>3, <2>4, <2>5, <2>6, <2>7 DEF Timeout, b
<1>3. QED
  BY <1>1, <1>2, BuiltStep, Invariance, PTL DEF Spec
=============================================================================
