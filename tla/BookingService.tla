--------------------------- MODULE BookingService ---------------------------
(***************************************************************************)
(* createBooking and cancelBooking of the booking subgraph                 *)
(* (service/BookingService.kt, graphql/BookingMutations.kt) over its       *)
(* PostgreSQL table.                                                       *)
(*                                                                         *)
(* Each request runs in a transaction of its own at READ COMMITTED, so     *)
(* every query is a step that sees what has been committed by then, and    *)
(* the requests interleave between their queries.  An insert is visible to *)
(* the others only after its commit, but the unique index on               *)
(* idempotency_key sees it at once: a second insert of the key waits for   *)
(* the first transaction, and fails if that one commits.                   *)
(*                                                                         *)
(* A booking's id is a fresh UUID per insert; the module names a booking   *)
(* by the request that inserted it.  A date window is the set of its       *)
(* nights, so the half-open overlap of two windows is a common night.      *)
(***************************************************************************)
EXTENDS Integers, FiniteSets

CONSTANTS
  Requests,       \* createBooking requests; a client's retry is a new one
  Cancels,        \* cancelBooking requests
  Keys,           \* idempotency keys
  Anonymous,      \* the user id of a request without a verified identity
  NoBooking,
  KeyOf, UserOf, PropertyOf, NightsOf,   \* the arguments of each request
  Rooms,          \* inventory: total per room type
  PoolSize        \* connections in the Hikari pool

ASSUME BookingAssumption ==
  /\ KeyOf \in [Requests -> Keys]
  /\ NoBooking \notin Requests
  /\ Requests \cap Cancels = {}
  /\ IsFiniteSet(Requests)
  /\ \A type \in DOMAIN Rooms : Rooms[type] \in Nat
  /\ PoolSize \in Nat \ {0}

VARIABLES
  row,        \* the row a request inserted: its status, or not (yet) there
  pc,         \* where a request stands
  reply,      \* what its client was told
  target,     \* the booking a cancel request is for
  seen        \* history: the bookings committed when a request's transaction began

vars == <<row, pc, reply, target, seen>>

Callers == Requests \cup Cancels

InTransaction ==
  {"lookup", "overlap", "inventory", "insert", "flushed", "violated", "found"}

Committed == {r \in Requests : row[r] \in {"CONFIRMED", "CANCELLED"}}
Active == {r \in Requests : row[r] = "CONFIRMED"}

NoReply == [kind |-> "none", id |-> NoBooking]
Refusals == {"auth", "conflict", "unavailable", "notFound", "alreadyCancelled", "error"}
Replies == [kind : {"none", "booking"} \cup Refusals, id : Requests \cup {NoBooking}]

TypeOK ==
  /\ row \in [Requests -> {"none", "uncommitted", "CONFIRMED", "CANCELLED"}]
  /\ pc \in [Callers -> InTransaction \cup {"new", "committed", "done", "lost"}]
  /\ reply \in [Callers -> Replies]
  /\ target \in [Cancels -> Requests \cup {NoBooking}]
  /\ seen \in [Requests -> SUBSET Requests]

Init ==
  /\ row = [r \in Requests |-> "none"]
  /\ pc = [c \in Callers |-> "new"]
  /\ reply = [c \in Callers |-> NoReply]
  /\ target = [x \in Cancels |-> NoBooking]
  /\ seen = [r \in Requests |-> {}]

-----------------------------------------------------------------------------
(* The queries of BookingRepository *)

Overlaps(a, b) ==
  /\ PropertyOf[a] = PropertyOf[b]
  /\ NightsOf[a] \cap NightsOf[b] # {}

\* Mutant: rows of open transactions are read.
FindUncommitted(k) == {b \in Requests : row[b] # "none" /\ KeyOf[b] = k}

FindByIdempotencyKey(k) == {b \in Committed : KeyOf[b] = k}

FirstNight(b) == CHOOSE n \in NightsOf[b] : \A m \in NightsOf[b] : n <= m

\* Mutant: only bookings that begin within the window are found.
FindStarting(r) ==
  {b \in Active : PropertyOf[b] = PropertyOf[r] /\ FirstNight(b) \in NightsOf[r]}

FindOverlapping(r) == {b \in Active : Overlaps(b, r)}

FindOverlappingForUser(r) == {b \in FindOverlapping(r) : UserOf[b] = UserOf[r]}

\* Mutant: a room type without a room left still counts.
RoomsAvailableNone(r) ==
  \E type \in DOMAIN Rooms : Rooms[type] - Cardinality(FindOverlapping(r)) >= 0

\* roomsFor: every overlapping booking takes one room of every type.
RoomsAvailable(r) ==
  \E type \in DOMAIN Rooms : Rooms[type] - Cardinality(FindOverlapping(r)) > 0

-----------------------------------------------------------------------------
Goto(c, label) == pc' = [pc EXCEPT ![c] = label]

Answer(c, kind, id) ==
  /\ Goto(c, "done")
  /\ reply' = [reply EXCEPT ![c] = [kind |-> kind, id |-> id]]

ConnectionFree == Cardinality({c \in Callers : pc[c] \in InTransaction}) < PoolSize

\* BookingMutations.createBooking refuses anonymous callers; create() opens a
\* transaction on a pooled connection and refuses an empty window.
Begin(r) ==
  /\ pc[r] = "new"
  /\ IF UserOf[r] = Anonymous
       THEN Answer(r, "auth", NoBooking) /\ UNCHANGED seen
     ELSE IF NightsOf[r] = {}
       THEN Answer(r, "error", NoBooking) /\ UNCHANGED seen
     ELSE /\ ConnectionFree
          /\ Goto(r, "lookup")
          /\ seen' = [seen EXCEPT ![r] = Committed]
          /\ UNCHANGED reply
  /\ UNCHANGED <<row, target>>

\* The idempotent fast path.
Lookup(r) ==
  /\ pc[r] = "lookup"
  /\ IF FindByIdempotencyKey(KeyOf[r]) = {}
       THEN Goto(r, "overlap") /\ UNCHANGED reply
       ELSE \E b \in FindByIdempotencyKey(KeyOf[r]) : Answer(r, "booking", b)
  /\ UNCHANGED <<row, target, seen>>

CheckOverlap(r) ==
  /\ pc[r] = "overlap"
  /\ IF FindOverlappingForUser(r) = {}
       THEN Goto(r, "inventory") /\ UNCHANGED reply
       ELSE \E b \in FindOverlappingForUser(r) : Answer(r, "conflict", b)
  /\ UNCHANGED <<row, target, seen>>

\* Mutant: roomsFor has a transaction of its own, on a second connection of the pool.
CheckInventoryNested(r) ==
  /\ pc[r] = "inventory"
  /\ ConnectionFree
  /\ IF RoomsAvailable(r)
       THEN Goto(r, "insert") /\ UNCHANGED reply
       ELSE Answer(r, "unavailable", NoBooking)
  /\ UNCHANGED <<row, target, seen>>

CheckInventory(r) ==
  /\ pc[r] = "inventory"
  /\ IF RoomsAvailable(r)
       THEN Goto(r, "insert") /\ UNCHANGED reply
       ELSE Answer(r, "unavailable", NoBooking)
  /\ UNCHANGED <<row, target, seen>>

SameKey(r) == {b \in Requests \ {r} : KeyOf[b] = KeyOf[r]}

\* Mutant: the table has no unique index on idempotency_key.
InsertUnindexed(r) ==
  /\ pc[r] = "insert"
  /\ row' = [row EXCEPT ![r] = "uncommitted"]
  /\ Goto(r, "flushed")
  /\ UNCHANGED <<reply, target, seen>>

\* saveAndFlush succeeds: no other row holds the key, committed or not.
Insert(r) ==
  /\ pc[r] = "insert"
  /\ \A b \in SameKey(r) : row[b] = "none"
  /\ row' = [row EXCEPT ![r] = "uncommitted"]
  /\ Goto(r, "flushed")
  /\ UNCHANGED <<reply, target, seen>>

\* saveAndFlush violates the unique constraint: a row with the key is
\* committed.  While the other row is uncommitted neither action is enabled:
\* the insert waits for the other transaction.
InsertViolates(r) ==
  /\ pc[r] = "insert"
  /\ \E b \in SameKey(r) : b \in Committed
  /\ Goto(r, "violated")
  /\ UNCHANGED <<row, reply, target, seen>>

\* Mutant: the catch block returns the booking it failed to insert.
ReconcileOwn(r) ==
  /\ pc[r] = "violated"
  /\ Answer(r, "booking", r)
  /\ UNCHANGED <<row, target, seen>>

\* The catch block queries the surviving row in the same transaction, which
\* the failed insert has aborted: the query fails, and so does create().
Reconcile(r) ==
  /\ pc[r] = "violated"
  /\ Answer(r, "error", NoBooking)
  /\ UNCHANGED <<row, target, seen>>

\* Mutant: the booking is stored as pending.
CommitPending(r) ==
  /\ pc[r] = "flushed"
  /\ row' = [row EXCEPT ![r] = "PENDING"]
  /\ Goto(r, "committed")
  /\ UNCHANGED <<reply, target, seen>>

Commit(r) ==
  /\ pc[r] = "flushed"
  /\ row' = [row EXCEPT ![r] = "CONFIRMED"]
  /\ Goto(r, "committed")
  /\ UNCHANGED <<reply, target, seen>>

Reply(r) ==
  /\ pc[r] = "committed"
  /\ Answer(r, "booking", r)
  /\ UNCHANGED <<row, target, seen>>

-----------------------------------------------------------------------------
\* cancel(): findById and the status check.  Any id may be asked for.
CancelFind(x) ==
  /\ pc[x] = "new"
  /\ ConnectionFree
  /\ \E b \in Requests :
       /\ target' = [target EXCEPT ![x] = b]
       /\ CASE b \notin Committed -> Answer(x, "notFound", b)
            [] row[b] = "CANCELLED" -> Answer(x, "alreadyCancelled", b)
            [] OTHER -> Goto(x, "found") /\ UNCHANGED reply
  /\ UNCHANGED <<row, seen>>

\* The dirty entity is written at commit: an UPDATE by id, without a version
\* or a condition on the status that was read.
CancelCommit(x) ==
  /\ pc[x] = "found"
  /\ row' = [row EXCEPT ![target[x]] = "CANCELLED"]
  /\ Goto(x, "committed")
  /\ UNCHANGED <<reply, target, seen>>

CancelReply(x) ==
  /\ pc[x] = "committed"
  /\ Answer(x, "booking", target[x])
  /\ UNCHANGED <<row, target, seen>>

-----------------------------------------------------------------------------
\* The service dies: open transactions are rolled back, and no reply is sent
\* for those already committed.
Crash ==
  /\ \E c \in Callers : pc[c] \in InTransaction
  /\ row' = [r \in Requests |-> IF row[r] = "uncommitted" THEN "none" ELSE row[r]]
  /\ pc' = [c \in Callers |->
              IF pc[c] \in InTransaction \cup {"committed"} THEN "lost" ELSE pc[c]]
  /\ UNCHANGED <<reply, target, seen>>

\* The reply of a committed transaction is lost on its way, or comes after the
\* router's timeout.
LoseReply(c) ==
  /\ pc[c] = "committed"
  /\ Goto(c, "lost")
  /\ UNCHANGED <<row, reply, target, seen>>

Next ==
  \/ \E r \in Requests :
       \/ Begin(r) \/ Lookup(r) \/ CheckOverlap(r) \/ CheckInventory(r)
       \/ Insert(r) \/ InsertViolates(r) \/ Reconcile(r)
       \/ Commit(r) \/ Reply(r)
  \/ \E x \in Cancels : CancelFind(x) \/ CancelCommit(x) \/ CancelReply(x)
  \/ \E c \in Callers : LoseReply(c)
  \/ Crash

Spec == Init /\ [][Next]_vars

-----------------------------------------------------------------------------
(* Properties *)

\* "The same key cannot create two bookings" (V1__create_bookings.sql:2-4),
\* under concurrent requests, retries, lost replies and crashes.
OneBookingPerKey ==
  \A a, b \in Committed : KeyOf[a] = KeyOf[b] => a = b

\* Whoever is told of a booking for a key is told of the same one, and of one
\* that is in the database for that key and stays there, cancelled or not: a
\* reply never names a booking that was rolled back.
RepliesNameDurableBookings ==
  \A r \in Requests :
    /\ reply[r].kind = "booking" =>
         reply[r].id \in Committed /\ KeyOf[reply[r].id] = KeyOf[r]
    /\ reply[r].kind = "conflict" => reply[r].id \in Committed

\* Without a race a user has no two active bookings of a property on one
\* night: if both exist, neither was committed when the other's transaction
\* began.
DoubleBookingNeedsRace ==
  \A a, b \in Active :
    a # b /\ UserOf[a] = UserOf[b] /\ Overlaps(a, b) => a \notin seen[b]

\* Without a race no booking is accepted beyond the inventory: of the bookings
\* that overlap an accepted one and were committed when its transaction began,
\* fewer than the rooms of the largest type are still active.
OversellNeedsRace ==
  \A b \in Active :
    \E type \in DOMAIN Rooms :
      Cardinality({a \in seen[b] \cap Active : Overlaps(a, b)}) < Rooms[type]

\* A booking once cancelled stays cancelled, and no row is ever deleted.
CommittedRowsPersist ==
  [][ \A r \in Requests :
        /\ r \in Committed => r \in Committed'
        /\ row[r] = "CANCELLED" => row'[r] = "CANCELLED" ]_vars

\* The idempotent store a client may rely on.
StoreOf(k) ==
  IF \E b \in Committed : KeyOf[b] = k
    THEN CHOOSE b \in Committed : KeyOf[b] = k
    ELSE NoBooking

Store ==
  INSTANCE IdempotentStore WITH
    store <- [k \in Keys |-> StoreOf(k)],
    cancelled <- {b \in Requests : row[b] = "CANCELLED"},
    told <- [r \in Requests |->
               IF reply[r].kind = "booking" THEN reply[r].id ELSE NoBooking]

ImplementsStore == Store!Spec

\* Fairness: a transaction that can go on does, and a reply reaches the client
\* or is lost.  The insert of one transaction waits for another only through
\* the unique index.
Fairness ==
  /\ \A r \in Requests :
       WF_vars(\/ Begin(r) \/ Lookup(r) \/ CheckOverlap(r) \/ CheckInventory(r)
               \/ Insert(r) \/ InsertViolates(r) \/ Reconcile(r)
               \/ Commit(r) \/ Reply(r))
  /\ \A x \in Cancels : WF_vars(CancelFind(x) \/ CancelCommit(x) \/ CancelReply(x))

\* Every request is answered or lost with its connection or process: neither
\* the wait for another transaction's key nor the pool's limit is for ever, and
\* nobody has to be saved by the time limit on the wait for a connection, which
\* the model leaves out.
EveryRequestEnds == <>(\A c \in Callers : pc[c] \in {"done", "lost"})

\* BookingService.kt:55: "per-user same-property overlap = conflict", for bookings
\* that are asked for together too.
OverlapIsConflict ==
  \A a, b \in Active : UserOf[a] = UserOf[b] /\ Overlaps(a, b) => a = b

\* BookingService.kt:30-32 on two concurrent requests with one key: "The second
\* commit gets DataIntegrityViolationException; we catch it, look up the
\* surviving row, and return it."
LoserGetsSurvivor ==
  \A r \in Requests :
    pc[r] = "done" /\ UserOf[r] # Anonymous /\ NightsOf[r] # {} => reply[r].kind # "error"

=============================================================================
