------------------------ MODULE BookingService_proofs ------------------------
(***************************************************************************)
(* Idempotency of createBooking, for every set of requests, keys, users    *)
(* and windows, every inventory and every size of the connection pool.     *)
(***************************************************************************)
EXTENDS BookingService, FiniteSetTheorems, TLAPS

\* The unique index: a key has at most one row, committed or not.
KeyHeldOnce ==
  \A a, b \in Requests :
    row[a] # "none" /\ row[b] # "none" /\ KeyOf[a] = KeyOf[b] => a = b

\* What a request's position says about the table.
PositionsMatchRows ==
  /\ \A r \in Requests : row[r] = "uncommitted" <=> pc[r] = "flushed"
  /\ \A r \in Requests : pc[r] = "committed" => r \in Committed
  /\ \A r \in Committed : pc[r] \in {"committed", "done", "lost"}
  /\ \A x \in Cancels : pc[x] = "found" => target[x] \in Committed

IInv ==
  /\ TypeOK
  /\ KeyHeldOnce
  /\ PositionsMatchRows
  /\ RepliesNameDurableBookings

-----------------------------------------------------------------------------
\* An empty table satisfies the invariant.
LEMMA InitIInv == Init => IInv
  BY BookingAssumption
  DEF Init, IInv, TypeOK, KeyHeldOnce, PositionsMatchRows, RepliesNameDurableBookings,
      Callers, Committed, Replies, NoReply, BookingAssumption

\* A step that leaves the table and the cancels' targets alone, moves one
\* caller from a position without a row of its own, and tells the truth.
LEMMA QueryStep ==
  ASSUME IInv,
         NEW c \in Callers,
         NEW label \in (InTransaction \ {"flushed", "found"}) \cup {"new", "done", "lost"},
         pc[c] # "flushed",
         pc[c] \in {"committed", "done", "lost"} => label \in {"done", "lost"},
         pc' = [pc EXCEPT ![c] = label],
         UNCHANGED row,
         target' \in [Cancels -> Requests \cup {NoBooking}],
         \A x \in Cancels : x # c => target'[x] = target[x],
         seen' \in [Requests -> SUBSET Requests],
         reply' \in [Callers -> Replies],
         \A r \in Requests :
           \/ reply'[r] = reply[r]
           \/ /\ reply'[r].kind = "booking" =>
                   reply'[r].id \in Committed /\ KeyOf[reply'[r].id] = KeyOf[r]
              /\ reply'[r].kind = "conflict" => reply'[r].id \in Committed
  PROVE  IInv'
<1>1. TypeOK'
  BY DEF IInv, TypeOK, InTransaction
<1>2. KeyHeldOnce'
  BY DEF IInv, KeyHeldOnce
<1>3. PositionsMatchRows'
  BY DEF IInv, PositionsMatchRows, TypeOK, Callers, Committed, InTransaction
<1>4. RepliesNameDurableBookings'
  BY DEF IInv, RepliesNameDurableBookings, Committed
<1>5. QED
  BY <1>1, <1>2, <1>3, <1>4 DEF IInv

\* An answer that names a booking names a committed one, of the right key.
LEMMA AnswerStep ==
  ASSUME IInv,
         NEW c \in Callers,
         NEW kind \in {"booking"} \cup Refusals,
         NEW id \in Requests \cup {NoBooking},
         pc[c] # "flushed",
         Answer(c, kind, id),
         UNCHANGED <<row, seen>>,
         target' \in [Cancels -> Requests \cup {NoBooking}],
         \A x \in Cancels : x # c => target'[x] = target[x],
         c \in Requests /\ kind = "booking" => id \in Committed /\ KeyOf[id] = KeyOf[c],
         c \in Requests /\ kind = "conflict" => id \in Committed
  PROVE  IInv'
<1>1. /\ pc' = [pc EXCEPT ![c] = "done"]
      /\ reply' = [reply EXCEPT ![c] = [kind |-> kind, id |-> id]]
  BY DEF Answer, Goto
<1>2. [kind |-> kind, id |-> id] \in Replies
  BY DEF Replies
<1>3. reply \in [Callers -> Replies] /\ seen \in [Requests -> SUBSET Requests]
  BY DEF IInv, TypeOK
<1>4. reply' \in [Callers -> Replies]
  BY <1>1, <1>2, <1>3
<1>5. ASSUME NEW r \in Requests
      PROVE  \/ reply'[r] = reply[r]
             \/ /\ reply'[r].kind = "booking" =>
                     reply'[r].id \in Committed /\ KeyOf[reply'[r].id] = KeyOf[r]
                /\ reply'[r].kind = "conflict" => reply'[r].id \in Committed
  <2>1. CASE r = c
    <3>1. reply'[r].kind = kind /\ reply'[r].id = id
      BY <1>1, <1>3, <2>1
    <3>2. QED
      BY <3>1, <2>1
  <2>2. CASE r # c
    BY <1>1, <1>3, <2>2 DEF Callers
  <2>3. QED
    BY <2>1, <2>2
<1>6. "done" \in (InTransaction \ {"flushed", "found"}) \cup {"new", "done", "lost"}
  OBVIOUS
<1>7. QED
  BY <1>1, <1>3, <1>4, <1>5, <1>6, QueryStep

-----------------------------------------------------------------------------
(* One lemma per group of operations *)

\* Requests are refused or enter their transaction.
LEMMA BeginStep == ASSUME IInv, NEW r \in Requests, Begin(r)  PROVE IInv'
<1>1. /\ r \in Callers /\ pc[r] = "new" /\ UNCHANGED <<row, target>>
      /\ NoBooking \in Requests \cup {NoBooking}
      /\ target \in [Cancels -> Requests \cup {NoBooking}]
      /\ reply \in [Callers -> Replies] /\ seen \in [Requests -> SUBSET Requests]
  BY DEF Begin, Callers, IInv, TypeOK
<1>2. CASE Answer(r, "auth", NoBooking) /\ UNCHANGED seen
  BY <1>1, <1>2, AnswerStep DEF Refusals
<1>3. CASE Answer(r, "error", NoBooking) /\ UNCHANGED seen
  BY <1>1, <1>3, AnswerStep DEF Refusals
<1>4. CASE Goto(r, "lookup") /\ seen' = [seen EXCEPT ![r] = Committed] /\ UNCHANGED reply
  <2>1. seen' \in [Requests -> SUBSET Requests]
    BY <1>1, <1>4 DEF Committed
  <2>2. QED
    BY <1>1, <1>4, <2>1, QueryStep DEF Goto, InTransaction
<1>5. QED
  BY <1>2, <1>3, <1>4 DEF Begin

\* The queries of create() and the failed insert change no row.
LEMMA ReadStep ==
  ASSUME IInv, NEW r \in Requests,
         Lookup(r) \/ CheckOverlap(r) \/ CheckInventory(r) \/ InsertViolates(r) \/ Reconcile(r)
  PROVE  IInv'
<1>1. /\ r \in Callers /\ pc[r] \in {"lookup", "overlap", "inventory", "insert", "violated"}
      /\ UNCHANGED <<row, target, seen>>
      /\ NoBooking \in Requests \cup {NoBooking}
      /\ target \in [Cancels -> Requests \cup {NoBooking}]
      /\ reply \in [Callers -> Replies] /\ seen \in [Requests -> SUBSET Requests]
  BY DEF Lookup, CheckOverlap, CheckInventory, InsertViolates, Reconcile, Callers, IInv, TypeOK
<1>2. CASE /\ \E label \in {"overlap", "inventory", "insert", "violated"} : Goto(r, label)
           /\ UNCHANGED reply
  <2>1. PICK label \in {"overlap", "inventory", "insert", "violated"} : Goto(r, label)
    BY <1>2
  <2>2. label \in (InTransaction \ {"flushed", "found"}) \cup {"new", "done", "lost"}
    BY DEF InTransaction
  <2>3. /\ pc[r] # "flushed" /\ pc[r] \notin {"committed", "done", "lost"}
        /\ pc' = [pc EXCEPT ![r] = label]
    BY <1>1, <2>1 DEF Goto
  <2>4. QED
    BY <1>1, <1>2, <2>2, <2>3, QueryStep
<1>3. CASE \E b \in FindByIdempotencyKey(KeyOf[r]) : Answer(r, "booking", b)
  <2>1. PICK b \in FindByIdempotencyKey(KeyOf[r]) : Answer(r, "booking", b)
    BY <1>3
  <2>2. b \in Requests /\ b \in Committed /\ KeyOf[b] = KeyOf[r]
    BY DEF FindByIdempotencyKey, Committed
  <2>3. QED
    BY <1>1, <2>1, <2>2, AnswerStep
<1>4. CASE \E b \in FindOverlappingForUser(r) : Answer(r, "conflict", b)
  <2>1. PICK b \in FindOverlappingForUser(r) : Answer(r, "conflict", b)
    BY <1>4
  <2>2. b \in Requests /\ b \in Committed
    BY DEF FindOverlappingForUser, FindOverlapping, Active, Committed
  <2>3. QED
    BY <1>1, <2>1, <2>2, AnswerStep DEF Refusals
<1>5. CASE Answer(r, "unavailable", NoBooking) \/ Answer(r, "error", NoBooking)
  BY <1>1, <1>5, AnswerStep DEF Refusals
<1>6. QED
  BY <1>2, <1>3, <1>4, <1>5
  DEF Lookup, CheckOverlap, CheckInventory, InsertViolates, Reconcile

\* The insert takes the key only when no row has it: this is the step the
\* unique index is there for.
LEMMA InsertStep == ASSUME IInv, NEW r \in Requests, Insert(r)  PROVE IInv'
<1> USE DEF IInv
<1>1. TypeOK'
  BY DEF Insert, Goto, TypeOK, Callers, InTransaction
<1>2. KeyHeldOnce'
  BY DEF Insert, KeyHeldOnce, SameKey, TypeOK
<1>3. Committed' = Committed
  BY DEF Insert, Committed, TypeOK, PositionsMatchRows
<1>4. PositionsMatchRows'
  BY <1>3, BookingAssumption
  DEF Insert, Goto, PositionsMatchRows, TypeOK, Callers, BookingAssumption
<1>5. RepliesNameDurableBookings'
  BY <1>3 DEF Insert, RepliesNameDurableBookings
<1>6. QED
  BY <1>1, <1>2, <1>4, <1>5

\* A commit makes the row visible that holds the key alone.
LEMMA CommitStep == ASSUME IInv, NEW r \in Requests, Commit(r)  PROVE IInv'
<1> USE DEF IInv
<1>1. TypeOK'
  BY DEF Commit, Goto, TypeOK, Callers, InTransaction
<1>2. row[r] # "none"
  BY DEF Commit, PositionsMatchRows
<1>3. KeyHeldOnce'
  BY <1>2 DEF Commit, KeyHeldOnce, TypeOK
<1>4. Committed' = Committed \cup {r}
  BY DEF Commit, Committed, TypeOK
<1>5. PositionsMatchRows'
  BY <1>4, BookingAssumption
  DEF Commit, Goto, PositionsMatchRows, TypeOK, Callers, BookingAssumption
<1>6. RepliesNameDurableBookings'
  BY <1>4 DEF Commit, RepliesNameDurableBookings
<1>7. QED
  BY <1>1, <1>3, <1>5, <1>6

\* A reply names the row its request committed.
LEMMA ReplyStep == ASSUME IInv, NEW r \in Requests, Reply(r)  PROVE IInv'
<1>1. /\ r \in Callers /\ pc[r] = "committed" /\ r \in Committed
      /\ target \in [Cancels -> Requests \cup {NoBooking}]
  BY DEF Reply, Callers, IInv, TypeOK, PositionsMatchRows
<1>2. Answer(r, "booking", r) /\ UNCHANGED <<row, target, seen>>
  BY DEF Reply
<1>3. QED
  BY <1>1, <1>2, AnswerStep

\* Cancelling changes the status of a committed row and nothing else.
LEMMA CancelStep ==
  ASSUME IInv, NEW x \in Cancels, CancelFind(x) \/ CancelCommit(x) \/ CancelReply(x)
  PROVE  IInv'
<1>0. x \in Callers /\ x \notin Requests
  BY BookingAssumption DEF BookingAssumption, Callers
<1>1. CASE CancelFind(x)
  <2>1. PICK b \in Requests :
          /\ target' = [target EXCEPT ![x] = b]
          /\ CASE b \notin Committed -> Answer(x, "notFound", b)
               [] row[b] = "CANCELLED" -> Answer(x, "alreadyCancelled", b)
               [] OTHER -> Goto(x, "found") /\ UNCHANGED reply
    BY <1>1 DEF CancelFind
  <2>2. /\ pc[x] = "new" /\ UNCHANGED <<row, seen>>
        /\ target' \in [Cancels -> Requests \cup {NoBooking}]
        /\ \A y \in Cancels : y # x => target'[y] = target[y]
    BY <1>1, <2>1 DEF CancelFind, IInv, TypeOK
  <2>3. CASE Answer(x, "notFound", b) \/ Answer(x, "alreadyCancelled", b)
    BY <1>0, <2>2, <2>3, AnswerStep DEF Refusals
  <2>4. CASE b \in Committed /\ Goto(x, "found") /\ UNCHANGED reply
    <3> USE DEF IInv
    <3>1. TypeOK'
      BY <2>2, <2>4 DEF Goto, TypeOK, Callers, InTransaction
    <3>2. KeyHeldOnce' /\ Committed' = Committed
      BY <2>2 DEF KeyHeldOnce, Committed
    <3>3. PositionsMatchRows'
      BY <1>0, <2>1, <2>2, <2>4, <3>2 DEF Goto, PositionsMatchRows, TypeOK, Callers
    <3>4. RepliesNameDurableBookings'
      BY <2>4, <3>2 DEF RepliesNameDurableBookings
    <3>5. QED
      BY <3>1, <3>2, <3>3, <3>4
  <2>5. QED
    BY <2>1, <2>3, <2>4
<1>2. CASE CancelCommit(x)
  <2> USE DEF IInv
  <2>1. target[x] \in Committed /\ target[x] \in Requests
    BY <1>2 DEF CancelCommit, PositionsMatchRows, Committed
  <2>2. TypeOK'
    BY <1>0, <1>2, <2>1 DEF CancelCommit, Goto, TypeOK, InTransaction
  <2>3. Committed' = Committed /\ row[target[x]] # "none" /\ row[target[x]] # "uncommitted"
    BY <1>2, <2>1 DEF CancelCommit, Committed, TypeOK
  <2>4. KeyHeldOnce'
    BY <1>2, <2>1, <2>3 DEF CancelCommit, KeyHeldOnce, TypeOK
  <2>5. PositionsMatchRows'
    BY <1>0, <1>2, <2>1, <2>3 DEF CancelCommit, Goto, PositionsMatchRows, TypeOK, Callers
  <2>6. RepliesNameDurableBookings'
    BY <1>2, <2>3 DEF CancelCommit, RepliesNameDurableBookings
  <2>7. QED
    BY <2>2, <2>4, <2>5, <2>6
<1>3. CASE CancelReply(x)
  <2>1. /\ Answer(x, "booking", target[x]) /\ UNCHANGED <<row, target, seen>>
        /\ pc[x] = "committed"
    BY <1>3 DEF CancelReply
  <2>2. /\ target[x] \in Requests \cup {NoBooking}
        /\ target \in [Cancels -> Requests \cup {NoBooking}]
    BY DEF IInv, TypeOK
  <2>3. QED
    BY <1>0, <2>1, <2>2, AnswerStep
<1>4. QED
  BY <1>1, <1>2, <1>3

\* A lost reply leaves the table as it is.
LEMMA LoseReplyStep == ASSUME IInv, NEW c \in Callers, LoseReply(c)  PROVE IInv'
<1>1. /\ pc[c] = "committed" /\ pc' = [pc EXCEPT ![c] = "lost"]
      /\ UNCHANGED <<row, reply, target, seen>>
      /\ target \in [Cancels -> Requests \cup {NoBooking}]
      /\ reply \in [Callers -> Replies] /\ seen \in [Requests -> SUBSET Requests]
  BY DEF LoseReply, Goto, IInv, TypeOK
<1>2. QED
  BY <1>1, QueryStep

\* A crash frees the keys of the open transactions and nothing else.
LEMMA CrashStep == ASSUME IInv, Crash  PROVE IInv'
<1> USE DEF IInv
<1>1. TypeOK'
  BY DEF Crash, TypeOK
<1>2. Committed' = Committed
  BY DEF Crash, Committed, TypeOK
<1>3. KeyHeldOnce'
  BY DEF Crash, KeyHeldOnce, TypeOK
<1>4. PositionsMatchRows'
  <2>1. \A c \in Callers :
          pc'[c] = IF pc[c] \in InTransaction \cup {"committed"} THEN "lost" ELSE pc[c]
    BY DEF Crash
  <2>2. \A r \in Requests : row'[r] # "uncommitted" /\ pc'[r] # "flushed"
    BY <2>1 DEF Crash, TypeOK, Callers, InTransaction
  <2>3. \A c \in Callers : pc'[c] # "committed" /\ pc'[c] # "found"
    BY <2>1 DEF InTransaction
  <2>4. \A r \in Committed' : pc'[r] \in {"committed", "done", "lost"}
    BY <1>2, <2>1 DEF PositionsMatchRows, Callers, Committed
  <2>5. QED
    BY <2>2, <2>3, <2>4 DEF PositionsMatchRows, Callers
<1>5. RepliesNameDurableBookings'
  BY <1>2 DEF Crash, RepliesNameDurableBookings
<1>6. QED
  BY <1>1, <1>3, <1>4, <1>5

\* IInv is inductive: one step per operation of the service.
LEMMA NextIInv == IInv /\ [Next]_vars => IInv'
<1> SUFFICES ASSUME IInv, [Next]_vars
             PROVE  IInv'
  OBVIOUS
<1>1. CASE UNCHANGED vars
  BY <1>1
  DEF vars, IInv, TypeOK, KeyHeldOnce, PositionsMatchRows, RepliesNameDurableBookings, Committed
<1>2. CASE Next
  BY <1>2, BeginStep, ReadStep, InsertStep, CommitStep, ReplyStep, CancelStep,
     LoseReplyStep, CrashStep
  DEF Next
<1>3. QED
  BY <1>1, <1>2

-----------------------------------------------------------------------------
\* Rows, positions and replies keep their types and agree with each other.
THEOREM BookingInvariant == Spec => []IInv
  BY InitIInv, NextIInv, PTL DEF Spec

\* The state of the service is well typed.
THEOREM TypeCorrect == Spec => []TypeOK
  BY BookingInvariant, PTL DEF IInv

\* An idempotency key never yields two bookings, whatever races, retries,
\* lost replies and crashes there are.
THEOREM AtMostOneBookingPerKey == Spec => []OneBookingPerKey
<1>1. IInv => OneBookingPerKey
  BY DEF IInv, KeyHeldOnce, OneBookingPerKey, Committed
<1>2. QED
  BY <1>1, BookingInvariant, PTL

\* No client is ever told of a booking that is not in the database for good.
THEOREM RepliesAreDurable == Spec => []RepliesNameDurableBookings
  BY BookingInvariant, PTL DEF IInv


-----------------------------------------------------------------------------
\* Nobody has a reply before the request has ended.
RepliesComeLast == \A c \in Callers : pc[c] # "done" => reply[c] = NoReply

\* A request is answered when it leaves the transaction or its commit, once.
LEMMA NextRepliesComeLast ==
  IInv /\ RepliesComeLast /\ [Next]_vars => RepliesComeLast'
<1> SUFFICES ASSUME IInv, RepliesComeLast, [Next]_vars
             PROVE  RepliesComeLast'
  OBVIOUS
<1> USE DEF RepliesComeLast, IInv, TypeOK, Callers
<1>1. CASE UNCHANGED vars
  BY <1>1 DEF vars
<1>2. ASSUME NEW r \in Requests, Begin(r) \/ Lookup(r) \/ CheckOverlap(r) \/ CheckInventory(r)
      PROVE  RepliesComeLast'
  BY <1>2 DEF Begin, Lookup, CheckOverlap, CheckInventory, Answer, Goto
<1>3. ASSUME NEW r \in Requests,
             Insert(r) \/ InsertViolates(r) \/ Reconcile(r) \/ Commit(r) \/ Reply(r)
      PROVE  RepliesComeLast'
  BY <1>3 DEF Insert, InsertViolates, Reconcile, Commit, Reply, Answer, Goto
<1>4. ASSUME NEW x \in Cancels, CancelFind(x) \/ CancelCommit(x) \/ CancelReply(x)
      PROVE  RepliesComeLast'
  BY <1>4 DEF CancelFind, CancelCommit, CancelReply, Answer, Goto
<1>5. ASSUME NEW c \in Callers, LoseReply(c)
      PROVE  RepliesComeLast'
  BY <1>5 DEF LoseReply, Goto
<1>6. CASE Crash
  BY <1>6 DEF Crash, InTransaction
<1>7. QED
  BY <1>1, <1>2, <1>3, <1>4, <1>5, <1>6 DEF Next

\* Rows are committed one at a time, and none is ever taken back.
LEMMA CommittedStep ==
  ASSUME IInv, [Next]_vars
  PROVE  \/ Committed' = Committed
         \/ \E r \in Requests :
              /\ Commit(r)
              /\ r \notin Committed
              /\ Committed' = Committed \cup {r}
<1> USE DEF IInv, TypeOK, PositionsMatchRows, Committed
<1>1. CASE UNCHANGED row
  BY <1>1
<1>2. ASSUME NEW r \in Requests, Insert(r)
      PROVE  Committed' = Committed
  BY <1>2 DEF Insert
<1>3. ASSUME NEW r \in Requests, Commit(r)
      PROVE  r \notin Committed /\ Committed' = Committed \cup {r}
  BY <1>3 DEF Commit
<1>4. ASSUME NEW x \in Cancels, CancelCommit(x)
      PROVE  Committed' = Committed
  BY <1>4 DEF CancelCommit
<1>5. CASE Crash
  BY <1>5 DEF Crash
<1>6. QED
  BY <1>1, <1>2, <1>3, <1>4, <1>5
  DEF Next, vars, Begin, Lookup, CheckOverlap, CheckInventory, InsertViolates, Reconcile,
      Reply, CancelFind, CancelReply, LoseReply

\* No operation touches a cancelled row.
LEMMA CancelledStays ==
  ASSUME IInv, [Next]_vars, NEW r \in Requests, row[r] = "CANCELLED"
  PROVE  row'[r] = "CANCELLED"
<1> USE DEF IInv, TypeOK, PositionsMatchRows, Committed
<1>1. CASE UNCHANGED row
  BY <1>1
<1>2. ASSUME NEW b \in Requests, Insert(b) \/ Commit(b)
      PROVE  row'[r] = "CANCELLED"
  BY <1>2 DEF Insert, Commit
<1>3. ASSUME NEW x \in Cancels, CancelCommit(x)
      PROVE  row'[r] = "CANCELLED"
  BY <1>3 DEF CancelCommit
<1>4. CASE Crash
  BY <1>4 DEF Crash
<1>5. QED
  BY <1>1, <1>2, <1>3, <1>4
  DEF Next, vars, Begin, Lookup, CheckOverlap, CheckInventory, InsertViolates, Reconcile,
      Reply, CancelFind, CancelReply, LoseReply

\* Committed rows are never lost, and a cancelled booking stays cancelled.
THEOREM RowsPersist == Spec => CommittedRowsPersist
<1>1. ASSUME IInv, [Next]_vars, NEW r \in Requests
      PROVE  /\ r \in Committed => r \in Committed'
             /\ row[r] = "CANCELLED" => row'[r] = "CANCELLED"
  BY <1>1, CommittedStep, CancelledStays
<1>2. IInv /\ [Next]_vars
      => [ \A r \in Requests :
             /\ r \in Committed => r \in Committed'
             /\ row[r] = "CANCELLED" => row'[r] = "CANCELLED" ]_vars
  BY <1>1
<1>3. QED
  BY <1>2, BookingInvariant, PTL DEF Spec, CommittedRowsPersist

-----------------------------------------------------------------------------
(* The abstract store *)

\* The store's record of a key is the one committed booking with that key.
LEMMA StoreOfBooking ==
  ASSUME OneBookingPerKey, NEW b \in Committed
  PROVE  StoreOf(KeyOf[b]) = b
  BY DEF OneBookingPerKey, StoreOf

\* A key without a committed booking has no record.
LEMMA StoreOfNothing ==
  ASSUME NEW k, \A b \in Committed : KeyOf[b] # k
  PROVE  StoreOf(k) = NoBooking
  BY DEF StoreOf

\* A step that commits nothing leaves the store as it is; a commit binds one
\* free key.
LEMMA StoreChange ==
  ASSUME IInv, OneBookingPerKey, OneBookingPerKey', [Next]_vars
  PROVE  \/ \A k \in Keys : StoreOf(k)' = StoreOf(k)
         \/ \E r \in Requests :
              /\ reply' = reply
              /\ StoreOf(KeyOf[r]) = NoBooking
              /\ \A k \in Keys : StoreOf(k)' = IF k = KeyOf[r] THEN r ELSE StoreOf(k)
<1>1. CASE Committed' = Committed
  BY <1>1 DEF StoreOf
<1>2. ASSUME NEW r \in Requests, Commit(r), r \notin Committed, Committed' = Committed \cup {r}
      PROVE  /\ reply' = reply
             /\ StoreOf(KeyOf[r]) = NoBooking
             /\ \A k \in Keys : StoreOf(k)' = IF k = KeyOf[r] THEN r ELSE StoreOf(k)
  <2>1. \A b \in Committed : KeyOf[b] # KeyOf[r]
    BY <1>2 DEF OneBookingPerKey
  <2>2. StoreOf(KeyOf[r]) = NoBooking
    BY <2>1, StoreOfNothing
  <2>3. StoreOf(KeyOf[r])' = r
    BY <1>2 DEF OneBookingPerKey, StoreOf
  <2>4. ASSUME NEW k \in Keys, k # KeyOf[r]
        PROVE  StoreOf(k)' = StoreOf(k)
    <3>1. ASSUME NEW b \in Committed, KeyOf[b] = k
          PROVE  StoreOf(k)' = StoreOf(k)
      <4>1. StoreOf(k) = b
        BY <3>1, StoreOfBooking
      <4>2. StoreOf(k)' = b
        BY <1>2, <3>1 DEF OneBookingPerKey, StoreOf
      <4>3. QED
        BY <4>1, <4>2
    <3>2. CASE \A b \in Committed : KeyOf[b] # k
      BY <1>2, <2>4, <3>2 DEF StoreOf
    <3>3. QED
      BY <3>1, <3>2
  <2>5. QED
    BY <1>2, <2>2, <2>3, <2>4 DEF Commit
<1>3. QED
  BY <1>1, <1>2, CommittedStep

Cancelled == {b \in Requests : row[b] = "CANCELLED"}

\* A step cancels nothing, or one committed booking and does nothing else that
\* a client sees.
LEMMA CancelledStep ==
  ASSUME IInv, [Next]_vars
  PROVE  \/ Cancelled' = Cancelled
         \/ \E r \in Committed \ Cancelled :
              /\ Cancelled' = Cancelled \cup {r}
              /\ Committed' = Committed
              /\ reply' = reply
<1> USE DEF IInv, TypeOK, PositionsMatchRows, Committed, Cancelled
<1>1. CASE UNCHANGED row
  BY <1>1
<1>2. ASSUME NEW r \in Requests, Insert(r) \/ Commit(r)
      PROVE  Cancelled' = Cancelled
  BY <1>2 DEF Insert, Commit
<1>3. ASSUME NEW x \in Cancels, CancelCommit(x)
      PROVE  /\ target[x] \in Committed
             /\ Cancelled' = Cancelled \cup {target[x]}
             /\ Committed' = Committed
             /\ reply' = reply
  <2>1. target[x] \in Committed
    BY <1>3 DEF CancelCommit
  <2>2. Cancelled' = Cancelled \cup {target[x]} /\ Committed' = Committed
    BY <1>3, <2>1 DEF CancelCommit
  <2>3. QED
    BY <1>3, <2>1, <2>2 DEF CancelCommit
<1>4. CASE Crash
  BY <1>4 DEF Crash
<1>5. QED
  <2>1. CASE \E x \in Cancels : CancelCommit(x)
    <3>1. PICK x \in Cancels : CancelCommit(x)
      BY <2>1
    <3>2. CASE target[x] \in Cancelled
      <4>1. Cancelled' = Cancelled
        BY <1>3, <3>1, <3>2
      <4>2. QED
        BY <4>1
    <3>3. CASE target[x] \notin Cancelled
      <4>1. target[x] \in Committed \ Cancelled
        BY <1>3, <3>1, <3>3
      <4>2. QED
        BY <1>3, <3>1, <4>1
    <3>4. QED
      BY <3>2, <3>3
  <2>2. QED
    BY <1>1, <1>2, <1>4, <2>1
    DEF Next, vars, Begin, Lookup, CheckOverlap, CheckInventory, InsertViolates, Reconcile,
        Reply, CancelFind, CancelReply, LoseReply

\* A step answers at most one caller, who had no reply before.
LEMMA ReplyChange ==
  ASSUME IInv, RepliesComeLast, [Next]_vars
  PROVE  \/ reply' = reply
         \/ \E c \in Callers :
              /\ reply[c] = NoReply
              /\ \A d \in Callers \ {c} : reply'[d] = reply[d]
<1> USE DEF IInv, TypeOK, RepliesComeLast, Answer, Goto, Callers
<1>1. ASSUME NEW r \in Requests,
             Begin(r) \/ Lookup(r) \/ CheckOverlap(r) \/ CheckInventory(r)
      PROVE  pc[r] # "done" /\ \A d \in Callers \ {r} : reply'[d] = reply[d]
  BY <1>1 DEF Begin, Lookup, CheckOverlap, CheckInventory
<1>2. ASSUME NEW r \in Requests, Reconcile(r) \/ Reply(r)
      PROVE  pc[r] # "done" /\ \A d \in Callers \ {r} : reply'[d] = reply[d]
  BY <1>2 DEF Reconcile, Reply
<1>3. ASSUME NEW x \in Cancels, CancelFind(x) \/ CancelReply(x)
      PROVE  pc[x] # "done" /\ \A d \in Callers \ {x} : reply'[d] = reply[d]
  BY <1>3 DEF CancelFind, CancelReply
<1>4. QED
  BY <1>1, <1>2, <1>3
  DEF Next, vars, Insert, InsertViolates, Commit, CancelCommit, LoseReply, Crash

\* What clients see of bookings and keys is an idempotent store: a key is
\* bound once, every request that names it is told of the same booking, and a
\* cancelled booking stays cancelled under its key.
THEOREM ImplementsIdempotentStore == Spec => ImplementsStore
<1>1. Init => Store!Init
  BY BookingAssumption
  DEF Init, Store!Init, StoreOf, Committed, NoReply, Callers, BookingAssumption
<1>2. ASSUME IInv, IInv', RepliesComeLast, OneBookingPerKey, OneBookingPerKey', [Next]_vars
      PROVE  [Store!Next]_(Store!storeVars)
  <2> DEFINE store == [k \in Keys |-> StoreOf(k)]
             cancelled == {b \in Requests : row[b] = "CANCELLED"}
             Told(c) == IF reply[c].kind = "booking" THEN reply[c].id ELSE NoBooking
             told == [c \in Requests |-> Told(c)]
  <2>1. ASSUME NEW r \in Requests,
               reply' = reply,
               cancelled' = cancelled,
               StoreOf(KeyOf[r]) = NoBooking,
               \A k \in Keys : StoreOf(k)' = IF k = KeyOf[r] THEN r ELSE StoreOf(k)
        PROVE  Store!Create(r)
    <3>1. KeyOf[r] \in Keys
      BY BookingAssumption DEF BookingAssumption
    <3>2. told' = told
      BY <2>1
    <3>3. store' = [store EXCEPT ![KeyOf[r]] = r]
      BY <2>1, <3>1
    <3>4. store[KeyOf[r]] = NoBooking
      BY <2>1, <3>1
    <3>5. QED
      BY <2>1, <3>2, <3>3, <3>4 DEF Store!Create
  <2>2. ASSUME \A k \in Keys : StoreOf(k)' = StoreOf(k)
        PROVE  store' = store
    BY <2>2
  <2>3. ASSUME store' = store, cancelled' = cancelled,
               NEW c \in Requests, reply[c] = NoReply,
               \A d \in Callers \ {c} : reply'[d] = reply[d],
               reply'[c].kind = "booking"
        PROVE  Store!Tell(c)
    <3>1. /\ reply'[c].id \in Committed'
          /\ KeyOf[reply'[c].id] = KeyOf[c]
          /\ reply'[c].id # NoBooking
      BY <1>2, <2>3, BookingAssumption
      DEF IInv, RepliesNameDurableBookings, Committed, BookingAssumption
    <3>2. StoreOf(KeyOf[c])' = reply'[c].id
      BY <1>2, <3>1 DEF StoreOf, OneBookingPerKey
    <3>3. KeyOf[c] \in Keys
      BY BookingAssumption DEF BookingAssumption
    <3>4. store[KeyOf[c]] = reply'[c].id
      BY <2>3, <3>2, <3>3
    <3>5. told[c] = NoBooking
      BY <2>3 DEF NoReply
    <3>6. told' = [told EXCEPT ![c] = store[KeyOf[c]]]
      BY <2>3, <3>4 DEF Callers
    <3>7. QED
      BY <2>3, <3>1, <3>4, <3>5, <3>6 DEF Store!Tell
  <2>4. ASSUME store' = store, cancelled' = cancelled,
               NEW c \in Callers, reply[c] = NoReply,
               \A d \in Callers \ {c} : reply'[d] = reply[d],
               c \in Requests => reply'[c].kind # "booking"
        PROVE  UNCHANGED Store!storeVars
    <3>1. told' = told
      BY <2>4 DEF Callers, NoReply
    <3>2. QED
      BY <2>4, <3>1 DEF Store!storeVars
  <2>5. ASSUME store' = store, cancelled' = cancelled, reply' = reply
        PROVE  UNCHANGED Store!storeVars
    BY <2>5 DEF Store!storeVars
  <2>6. ASSUME NEW r \in Committed \ Cancelled,
               Cancelled' = Cancelled \cup {r}, Committed' = Committed, reply' = reply
        PROVE  Store!Cancel(r) /\ r \in Requests
    <3>1. r \in Requests /\ KeyOf[r] \in Keys
      BY BookingAssumption DEF BookingAssumption, Committed
    <3>2. r \notin cancelled /\ cancelled' = cancelled \cup {r}
      BY <2>6 DEF Cancelled
    <3>3. store[KeyOf[r]] = r
      BY <1>2, <3>1, StoreOfBooking
    <3>4. store' = store
      BY <2>6 DEF StoreOf
    <3>5. told' = told
      BY <2>6
    <3>6. QED
      BY <3>1, <3>2, <3>3, <3>4, <3>5 DEF Store!Cancel
  <2>7. CASE cancelled' = cancelled
    <3> HIDE DEF store, cancelled
    <3>1. QED
      BY <1>2, <2>1, <2>2, <2>3, <2>4, <2>5, <2>7, StoreChange, ReplyChange DEF Store!Next
  <2>8. QED
    BY <1>2, <2>6, <2>7, CancelledStep DEF Store!Next, Cancelled
<1>3. Init => RepliesComeLast
  BY DEF Init, RepliesComeLast
<1>4. Spec => []RepliesComeLast
  BY <1>3, NextRepliesComeLast, BookingInvariant, PTL DEF Spec
<1>5. QED
  BY <1>1, <1>2, <1>4, BookingInvariant, AtMostOneBookingPerKey, PTL
  DEF Spec, ImplementsStore, Store!Spec

-----------------------------------------------------------------------------
(* Double bookings and overselling *)

\* The requests whose conflict check, and those whose inventory check, has
\* passed: on their way to a booking, or with one.
PastOverlap == Committed \cup {r \in Requests : pc[r] \in {"inventory", "insert", "flushed"}}
PastInventory == Committed \cup {r \in Requests : pc[r] \in {"insert", "flushed"}}

SeenOverlap(b) == {a \in seen[b] \cap Active : Overlaps(a, b)}

\* What a request has seen when it began was committed, none of it stands in
\* its way once the conflict check has passed, and not all rooms are taken by
\* it once the inventory check has passed.
RaceInv ==
  /\ \A b \in Requests : seen[b] \subseteq Committed
  /\ \A b \in PastOverlap : \A a \in SeenOverlap(b) : a # b => UserOf[a] # UserOf[b]
  /\ \A b \in PastInventory :
       \E type \in DOMAIN Rooms : Cardinality(SeenOverlap(b)) < Rooms[type]

\* Fewer bookings take fewer rooms.
LEMMA FewerTaken ==
  ASSUME NEW S \in SUBSET Requests, NEW T, T \subseteq S,
         \E type \in DOMAIN Rooms : Cardinality(S) < Rooms[type]
  PROVE  \E type \in DOMAIN Rooms : Cardinality(T) < Rooms[type]
<1>1. IsFiniteSet(S)
  BY FS_Subset, BookingAssumption DEF BookingAssumption
<1>2. IsFiniteSet(T) /\ Cardinality(T) <= Cardinality(S)
  BY <1>1, FS_Subset
<1>3. Cardinality(T) \in Nat /\ Cardinality(S) \in Nat
  BY <1>1, <1>2, FS_CardinalityType
<1>4. QED
  BY <1>2, <1>3, BookingAssumption DEF BookingAssumption

\* A step that does not begin a transaction never adds to what a request has
\* seen and is still active: it was committed then, and what is cancelled
\* stays cancelled.
LEMMA SeenShrinks ==
  ASSUME IInv, RaceInv, [Next]_vars, NEW b \in Requests, seen'[b] = seen[b]
  PROVE  SeenOverlap(b)' \subseteq SeenOverlap(b)
<1>1. ASSUME NEW a \in seen[b], a \in Active'
      PROVE  a \in Active
  <2>1. a \in Committed /\ a \in Requests
    BY <1>1 DEF RaceInv, Committed
  <2>2. row[a] = "CANCELLED" => row'[a] = "CANCELLED"
    BY <2>1, CancelledStays
  <2>3. QED
    BY <1>1, <2>1, <2>2 DEF Active, Committed
<1>2. QED
  BY <1>1 DEF SeenOverlap, Overlaps

\* Only Begin changes what a request has seen.
LEMMA SeenStep ==
  ASSUME IInv, [Next]_vars, NEW b \in Requests
  PROVE  \/ seen'[b] = seen[b] /\ (pc[b] = "new" => pc'[b] # "lookup")
         \/ /\ seen'[b] = Committed
            /\ pc[b] = "new" /\ pc'[b] = "lookup"
            /\ UNCHANGED row
<1> USE DEF IInv, TypeOK, Callers, Answer, Goto
<1>1. CASE UNCHANGED vars
  BY <1>1 DEF vars
<1>2. ASSUME NEW r \in Requests, Begin(r)
      PROVE  \/ seen'[b] = seen[b] /\ (pc[b] = "new" => pc'[b] # "lookup")
             \/ /\ seen'[b] = Committed
                /\ pc[b] = "new" /\ pc'[b] = "lookup"
                /\ UNCHANGED row
  BY <1>2 DEF Begin
<1>3. CASE UNCHANGED seen /\ pc'[b] # "lookup"
  BY <1>3
<1>4. CASE UNCHANGED seen /\ pc[b] # "new"
  BY <1>4
<1>5. CASE UNCHANGED seen /\ pc'[b] = pc[b]
  BY <1>5
<1>6. ASSUME NEW r \in Requests,
             \/ Lookup(r) \/ CheckOverlap(r) \/ CheckInventory(r) \/ Insert(r)
             \/ InsertViolates(r) \/ Reconcile(r) \/ Commit(r) \/ Reply(r)
      PROVE  UNCHANGED seen /\ (pc'[b] # "lookup" \/ pc'[b] = pc[b])
  BY <1>6
  DEF Lookup, CheckOverlap, CheckInventory, Insert, InsertViolates, Reconcile, Commit, Reply
<1>7. ASSUME NEW x \in Cancels, CancelFind(x) \/ CancelCommit(x) \/ CancelReply(x)
      PROVE  UNCHANGED seen /\ (pc'[b] # "lookup" \/ pc'[b] = pc[b])
  BY <1>7 DEF CancelFind, CancelCommit, CancelReply
<1>8. ASSUME NEW c \in Callers, LoseReply(c)
      PROVE  UNCHANGED seen /\ (pc'[b] # "lookup" \/ pc'[b] = pc[b])
  BY <1>8 DEF LoseReply
<1>9. CASE Crash
  BY <1>9 DEF Crash
<1>10. QED
  BY <1>1, <1>2, <1>3, <1>4, <1>5, <1>6, <1>7, <1>8, <1>9 DEF Next

\* A request gets past the conflict check only by passing it.
LEMMA PastOverlapStep ==
  ASSUME IInv, [Next]_vars, NEW b \in PastOverlap'
  PROVE  \/ b \in PastOverlap
         \/ UNCHANGED <<row, seen>> /\ FindOverlappingForUser(b) = {}
<1> USE DEF IInv, TypeOK, PositionsMatchRows, Callers, Answer, Goto, Committed, PastOverlap
<1>0. b \in Requests
  OBVIOUS
<1>1. CASE UNCHANGED vars
  BY <1>1 DEF vars
<1>2. ASSUME NEW r \in Requests, Begin(r) \/ Lookup(r)
      PROVE  b \in PastOverlap
  BY <1>0, <1>2 DEF Begin, Lookup
<1>3. ASSUME NEW r \in Requests, CheckOverlap(r)
      PROVE  b \in PastOverlap \/ (UNCHANGED <<row, seen>> /\ FindOverlappingForUser(b) = {})
  BY <1>0, <1>3 DEF CheckOverlap
<1>4. ASSUME NEW r \in Requests,
             \/ CheckInventory(r) \/ Insert(r) \/ InsertViolates(r) \/ Reconcile(r)
             \/ Commit(r) \/ Reply(r)
      PROVE  b \in PastOverlap
  BY <1>0, <1>4 DEF CheckInventory, Insert, InsertViolates, Reconcile, Commit, Reply
<1>5. ASSUME NEW x \in Cancels, CancelFind(x) \/ CancelCommit(x) \/ CancelReply(x)
      PROVE  b \in PastOverlap
  BY <1>0, <1>5, BookingAssumption
  DEF CancelFind, CancelCommit, CancelReply, BookingAssumption
<1>6. ASSUME NEW c \in Callers, LoseReply(c)
      PROVE  b \in PastOverlap
  BY <1>0, <1>6 DEF LoseReply
<1>7. CASE Crash
  BY <1>0, <1>7 DEF Crash
<1>8. QED
  BY <1>1, <1>2, <1>3, <1>4, <1>5, <1>6, <1>7 DEF Next

\* A request gets past the inventory check only by passing it.
LEMMA PastInventoryStep ==
  ASSUME IInv, [Next]_vars, NEW b \in PastInventory'
  PROVE  \/ b \in PastInventory
         \/ UNCHANGED <<row, seen>> /\ RoomsAvailable(b)
<1> USE DEF IInv, TypeOK, PositionsMatchRows, Callers, Answer, Goto, Committed, PastInventory
<1>0. b \in Requests
  OBVIOUS
<1>1. CASE UNCHANGED vars
  BY <1>1 DEF vars
<1>2. ASSUME NEW r \in Requests, Begin(r) \/ Lookup(r) \/ CheckOverlap(r)
      PROVE  b \in PastInventory
  BY <1>0, <1>2 DEF Begin, Lookup, CheckOverlap
<1>3. ASSUME NEW r \in Requests, CheckInventory(r)
      PROVE  b \in PastInventory \/ (UNCHANGED <<row, seen>> /\ RoomsAvailable(b))
  BY <1>0, <1>3 DEF CheckInventory
<1>4. ASSUME NEW r \in Requests,
             Insert(r) \/ InsertViolates(r) \/ Reconcile(r) \/ Commit(r) \/ Reply(r)
      PROVE  b \in PastInventory
  BY <1>0, <1>4 DEF Insert, InsertViolates, Reconcile, Commit, Reply
<1>5. ASSUME NEW x \in Cancels, CancelFind(x) \/ CancelCommit(x) \/ CancelReply(x)
      PROVE  b \in PastInventory
  BY <1>0, <1>5, BookingAssumption
  DEF CancelFind, CancelCommit, CancelReply, BookingAssumption
<1>6. ASSUME NEW c \in Callers, LoseReply(c)
      PROVE  b \in PastInventory
  BY <1>0, <1>6 DEF LoseReply
<1>7. CASE Crash
  BY <1>0, <1>7 DEF Crash
<1>8. QED
  BY <1>1, <1>2, <1>3, <1>4, <1>5, <1>6, <1>7 DEF Next

\* RaceInv is inductive, given IInv.
LEMMA NextRaceInv == IInv /\ RaceInv /\ [Next]_vars => RaceInv'
<1> SUFFICES ASSUME IInv, RaceInv, [Next]_vars
             PROVE  RaceInv'
  OBVIOUS
<1>1. ASSUME NEW b \in Requests
      PROVE  seen'[b] \subseteq Committed'
  BY CommittedStep, SeenStep DEF RaceInv, Committed
<1>2. ASSUME NEW b \in Requests, b \in PastOverlap \cup PastInventory
      PROVE  SeenOverlap(b)' \subseteq SeenOverlap(b)
  BY <1>2, SeenStep, SeenShrinks DEF PastOverlap, PastInventory, IInv, PositionsMatchRows
<1>3. ASSUME NEW b \in Requests, UNCHANGED <<row, seen>>
      PROVE  SeenOverlap(b)' = SeenOverlap(b)
  BY <1>3 DEF SeenOverlap, Active
<1>4. ASSUME NEW b \in PastOverlap'
      PROVE  \A a \in SeenOverlap(b)' : a # b => UserOf[a] # UserOf[b]
  <2>0. b \in Requests
    BY DEF PastOverlap, Committed
  <2>1. CASE b \in PastOverlap
    BY <1>2, <2>0, <2>1 DEF RaceInv
  <2>2. CASE UNCHANGED <<row, seen>> /\ FindOverlappingForUser(b) = {}
    BY <1>3, <2>0, <2>2 DEF SeenOverlap, FindOverlappingForUser, FindOverlapping
  <2>3. QED
    BY <2>1, <2>2, PastOverlapStep
<1>5. ASSUME NEW b \in PastInventory'
      PROVE  \E type \in DOMAIN Rooms : Cardinality(SeenOverlap(b)') < Rooms[type]
  <2>0. /\ b \in Requests
        /\ SeenOverlap(b) \subseteq FindOverlapping(b)
        /\ FindOverlapping(b) \in SUBSET Requests
        /\ SeenOverlap(b) \in SUBSET Requests
    BY DEF PastInventory, Committed, SeenOverlap, FindOverlapping, Active
  <2>1. CASE b \in PastInventory
    BY <1>2, <2>0, <2>1, FewerTaken DEF RaceInv
  <2>2. CASE UNCHANGED <<row, seen>> /\ RoomsAvailable(b)
    <3>1. IsFiniteSet(FindOverlapping(b))
      BY <2>0, FS_Subset, BookingAssumption DEF BookingAssumption
    <3>2. \E type \in DOMAIN Rooms : Cardinality(FindOverlapping(b)) < Rooms[type]
      BY <2>2, <3>1, FS_CardinalityType, BookingAssumption
      DEF RoomsAvailable, BookingAssumption
    <3>3. QED
      BY <1>3, <2>0, <2>2, <3>2, FewerTaken
  <2>3. QED
    BY <2>1, <2>2, PastInventoryStep
<1>6. QED
  BY <1>1, <1>4, <1>5 DEF RaceInv

\* Races aside, in every reachable state the checks of create() have held.
THEOREM RaceInvariant == Spec => []RaceInv
<1>1. Init => RaceInv
  BY DEF Init, RaceInv, PastOverlap, PastInventory, Committed, Callers
<1>2. QED
  BY <1>1, NextRaceInv, BookingInvariant, PTL DEF Spec

\* Two active bookings of a user and property on one night come from
\* transactions neither of which had seen the other's booking when it began.
THEOREM DoubleBookingOnlyByRace == Spec => []DoubleBookingNeedsRace
<1>1. RaceInv => DoubleBookingNeedsRace
  BY DEF RaceInv, DoubleBookingNeedsRace, SeenOverlap, PastOverlap, Active, Committed
<1>2. QED
  BY <1>1, RaceInvariant, PTL

\* No booking is accepted beyond the inventory of what its transaction saw.
THEOREM OversellOnlyByRace == Spec => []OversellNeedsRace
<1>1. ASSUME RaceInv, NEW b \in Active
      PROVE  \E type \in DOMAIN Rooms :
               Cardinality({a \in seen[b] \cap Active : Overlaps(a, b)}) < Rooms[type]
  BY <1>1 DEF RaceInv, SeenOverlap, PastInventory, Active, Committed
<1>2. RaceInv => OversellNeedsRace
  BY <1>1 DEF OversellNeedsRace
<1>3. QED
  BY <1>2, RaceInvariant, PTL

=============================================================================
