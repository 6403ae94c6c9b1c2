----------------------------- MODULE RentalWorker ------------------------------
(***************************************************************************)
(* The Kafka consumer of rental-batch-queue: eachBatch of worker.ts and    *)
(* RentalBatchProcessor, which insert the queued bookings into the rentals *)
(* table, split a batch that fails in two halves, and route what fails on  *)
(* its own to rental-dlq.                                                  *)
(*                                                                         *)
(* The topic has one partition (config/kafka.ts), its log is `queue`, and  *)
(* an offset is an index of it.  A list of items is the set of their       *)
(* offsets: the code keeps every list in offset order.                     *)
(***************************************************************************)
EXTENDS RentalDates, Sequences, FiniteSets

CONSTANTS
    Workers,          \* the processes of the consumer group
    Junk,             \* a message without a value, or whose JSON is broken
    Unstorable,       \* requests that the INSERT rejects (a foreign key, a
                      \* total_amount too large for its column)
    RedisConnected,   \* whether the worker's Redis client is open
    MaxQueue,         \* bound: messages produced
    Faults,           \* the faults that may happen, out of FaultKinds
    MaxFaults         \* bound: faults that do happen

FaultKinds ==
    {"db",          \* a query fails, or a commit whose reply is lost
     "redis",       \* the DEL of the slots fails, applied or not
     "kafka",       \* the send to rental-dlq fails, appended or not
     "crash",       \* a worker dies and restarts
     "rebalance"}   \* the partition moves to another worker

ASSUME WorkerAssumption ==
    /\ IsFiniteSet(Workers)
    /\ Junk \notin ValidRequests
    /\ Unstorable \subseteq Requests
    /\ RedisConnected \in BOOLEAN
    /\ MaxQueue \in Nat
    /\ Faults \subseteq FaultKinds
    /\ MaxFaults \in Nat

VARIABLES
    queue,       \* the log of rental-batch-queue
    slots,       \* the keys rental:slot:{vehicle}:{date} that exist
    rentals,     \* the rows of the rentals table
    nextId,      \* the sequence of rentals.id
    dlq,         \* the offsets whose booking is in rental-dlq
    dropped,     \* history: the offsets for which sendToDLQ swallowed an error
    committed,   \* the committed offset: that many messages are consumed
    owner,       \* the worker that the partition is assigned to
    wpc,         \* what each worker does next
    upto,        \* the last offset of each worker's batch
    calls,       \* the item lists each worker has still to process, in order:
                 \* the pending calls of processBatchWithBinarySplit
    faultsLeft,  \* how many more faults may happen
    overtaken    \* history: a rebalance hit a worker in the middle of a batch

vars == <<queue, slots, rentals, nextId, dlq, dropped, committed, owner, wpc,
          upto, calls, faultsLeft, overtaken>>

store == <<slots, rentals, nextId, dlq, dropped>>      \* outside the workers
group == <<committed, owner, overtaken>>               \* the consumer group

Messages == Requests \cup {Junk}

Statuses == {"booked", "ongoing", "completed", "cancelled"}

Offsets == DOMAIN queue

Init ==
    /\ queue = <<>>
    /\ slots = {}
    /\ rentals = {}
    /\ nextId = 1
    /\ dlq = {}
    /\ dropped = {}
    /\ committed = 0
    /\ owner \in Workers
    /\ wpc = [w \in Workers |-> "idle"]
    /\ upto = [w \in Workers |-> 0]
    /\ calls = [w \in Workers |-> <<>>]
    /\ faultsLeft = MaxFaults
    /\ overtaken = FALSE
-----------------------------------------------------------------------------
Goto(w, label) == wpc' = [wpc EXCEPT ![w] = label]

Fault(kind) ==
    /\ kind \in Faults
    /\ faultsLeft > 0
    /\ faultsLeft' = faultsLeft - 1

\* A message arrives: a booking, whose slots its sender has reserved, or junk.
Produce(m) ==
    /\ Len(queue) < MaxQueue
    /\ queue' = Append(queue, m)
    /\ slots' = IF m = Junk THEN slots ELSE slots \cup SlotKeys(m)
    /\ UNCHANGED <<rentals, nextId, dlq, dropped, wpc, upto, calls, faultsLeft>>
    /\ UNCHANGED group

(***************************************************************************)
(* eachBatch begins: the broker hands over any number of messages after    *)
(* the committed offset, and those that parse become the items.            *)
(* (`if (isStale()) break` never does: KafkaJS makes a batch stale on a    *)
(* seek of the consumer, which nothing calls.)                             *)
(***************************************************************************)
Fetch(w) ==
    /\ owner = w
    /\ wpc[w] = "idle"
    /\ \E n \in (committed + 1) .. Len(queue) :
          LET items == {o \in (committed + 1) .. n : queue[o] # Junk}
          IN  /\ upto' = [upto EXCEPT ![w] = n]
              /\ calls' = [calls EXCEPT ![w] = IF items = {} THEN <<>>
                                                            ELSE <<items>>]
              /\ Goto(w, IF items = {} THEN "commit" ELSE "check")
    /\ UNCHANGED <<queue, faultsLeft>>
    /\ UNCHANGED store
    /\ UNCHANGED group

\* checkIntraBatchOverlaps, comparing neighbours only.
NeighboursClash(items) ==
    \E i, j \in items : j = i + 1 /\ InstantsOverlap(queue[i], queue[j])

\* checkIntraBatchOverlaps, comparing every item with itself, too.
SelfClash(items) ==
    \E i, j \in items : i <= j /\ InstantsOverlap(queue[i], queue[j])

\* checkIntraBatchOverlaps: all pairs.
BatchClash(items) ==
    \E i, j \in items : i < j /\ InstantsOverlap(queue[i], queue[j])

\* findOverlappingRentalsBulk with > for >=.
TableClashBeyondEnd(items) ==
    \E i \in items, r \in rentals :
        /\ r.status # "cancelled"
        /\ r.vehicle = queue[i].vehicle
        /\ r.start <= queue[i].end.day
        /\ r.end > queue[i].start.day

\* findOverlappingRentalsBulk, asking for the rentals under way only.
OngoingClash(items) ==
    \E i \in items, r \in rentals :
        /\ r.status = "ongoing"
        /\ r.vehicle = queue[i].vehicle
        /\ r.start <= queue[i].end.day
        /\ r.end >= queue[i].start.day

\* findOverlappingRentalsBulk.
TableClash(items) ==
    \E i \in items, r \in rentals :
        /\ r.status # "cancelled"
        /\ r.vehicle = queue[i].vehicle
        /\ r.start <= queue[i].end.day
        /\ r.end >= queue[i].start.day

\* The two halves at mid = floor(n / 2), the right one an item short.
HalvesLosingOne(items, left, right) ==
    /\ left \cup right = items \ {CHOOSE o \in items : \A p \in items : o >= p}
    /\ \A i \in left, j \in right : i < j
    /\ Cardinality(left) = Cardinality(items) \div 2

Halves(items, left, right) ==
    /\ left \cup right = items
    /\ \A i \in left, j \in right : i < j
    /\ Cardinality(left) = Cardinality(items) \div 2

\* The catch block: a single item goes to the DLQ, a longer list is split and
\* its left half processed first.
Reject(w) ==
    LET items == Head(calls[w])
    IN  \/ /\ Cardinality(items) = 1
           /\ Goto(w, "release")
           /\ UNCHANGED calls
        \/ /\ Cardinality(items) > 1
           /\ \E left, right \in SUBSET items :
                 /\ Halves(items, left, right)
                 /\ calls' = [calls EXCEPT ![w] = <<left, right>> \o Tail(@)]
           /\ Goto(w, "check")

\* The call for the first list returns.
Return(w) ==
    /\ calls' = [calls EXCEPT ![w] = Tail(@)]
    /\ Goto(w, IF Len(calls[w]) = 1 THEN "commit" ELSE "check")

(***************************************************************************)
(* The in-memory check, then the transaction's SELECT.  It locks nothing,  *)
(* and the INSERT is a later statement.                                    *)
(***************************************************************************)
Check(w) ==
    /\ wpc[w] = "check"
    /\ IF BatchClash(Head(calls[w])) \/ TableClash(Head(calls[w]))
       THEN Reject(w)
       ELSE Goto(w, "insert") /\ UNCHANGED calls
    /\ UNCHANGED <<queue, upto, faultsLeft>>
    /\ UNCHANGED store
    /\ UNCHANGED group

Row(o, id) ==
    [id |-> id, src |-> o, vehicle |-> queue[o].vehicle,
     start |-> queue[o].start.day, end |-> queue[o].end.day,
     status |-> "booked"]

NewRows(items) ==
    {Row(o, nextId + Cardinality({p \in items : p < o})) : o \in items}

Storable(items) == \A o \in items : queue[o] \notin Unstorable

\* createBulk and the COMMIT.
Store(items) ==
    /\ rentals' = rentals \cup NewRows(items)
    /\ nextId' = nextId + Cardinality(items)
    /\ UNCHANGED <<slots, dlq, dropped>>

Insert(w) ==
    /\ wpc[w] = "insert"
    /\ IF Storable(Head(calls[w]))
       THEN Store(Head(calls[w])) /\ Return(w)
       ELSE UNCHANGED store /\ Reject(w)
    /\ UNCHANGED <<queue, upto, faultsLeft>>
    /\ UNCHANGED group

\* A database error in the transaction; after the COMMIT took effect, too.
DatabaseError(w) ==
    /\ wpc[w] \in {"check", "insert"}
    /\ Fault("db")
    /\ Reject(w)
    /\ \/ UNCHANGED store
       \/ /\ wpc[w] = "insert"
          /\ Storable(Head(calls[w]))
          /\ Store(Head(calls[w]))
    /\ UNCHANGED <<queue, upto>>
    /\ UNCHANGED group

\* The offset of the single item being routed.
Poison(w) == CHOOSE o \in Head(calls[w]) : TRUE

ReleaseSlots(r) == slots \ SlotKeys(r)

(***************************************************************************)
(* sendToDLQ: release the slots, then send.  Its catch block swallows what *)
(* goes wrong in either, and the batch goes on.  A client that was never   *)
(* connected rejects every command.                                        *)
(***************************************************************************)
Release(w) ==
    /\ wpc[w] = "release"
    /\ \/ /\ RedisConnected
          /\ slots' = ReleaseSlots(queue[Poison(w)])
          /\ Goto(w, "deadletter")
          /\ UNCHANGED <<calls, dropped>>
       \/ /\ ~RedisConnected
          /\ dropped' = dropped \cup {Poison(w)}
          /\ Return(w)
          /\ UNCHANGED slots
    /\ UNCHANGED <<queue, upto, faultsLeft, rentals, nextId, dlq>>
    /\ UNCHANGED group

RedisError(w) ==
    /\ wpc[w] = "release"
    /\ RedisConnected
    /\ Fault("redis")
    /\ slots' \in {slots, ReleaseSlots(queue[Poison(w)])}
    /\ dropped' = dropped \cup {Poison(w)}
    /\ Return(w)
    /\ UNCHANGED <<queue, upto, rentals, nextId, dlq>>
    /\ UNCHANGED group

DeadLetter(w) ==
    /\ wpc[w] = "deadletter"
    /\ dlq' = dlq \cup {Poison(w)}
    /\ Return(w)
    /\ UNCHANGED <<queue, upto, faultsLeft, slots, rentals, nextId, dropped>>
    /\ UNCHANGED group

ProducerError(w) ==
    /\ wpc[w] = "deadletter"
    /\ Fault("kafka")
    /\ dlq' \in {dlq, dlq \cup {Poison(w)}}
    /\ dropped' = dropped \cup {Poison(w)}
    /\ Return(w)
    /\ UNCHANGED <<queue, upto, slots, rentals, nextId>>
    /\ UNCHANGED group

\* A batch none of whose messages parses resolves nothing.
ResolvedItemsOnly(w) ==
    IF \A o \in (committed + 1) .. upto[w] : queue[o] = Junk
    THEN committed ELSE upto[w]

\* The offset after the batch's last, which KafkaJS goes on to by itself.
ResolvedNext(w) == upto[w] + 1

\* resolveOffset of every message of the batch.
Resolved(w) == upto[w]

\* A broker that takes a commit from whoever sends it.
CommitsUnfenced(w) == w \in Workers

\* The broker refuses the commit of a worker that has lost the partition.
CommitsAccepted(w) == owner = w

Commit(w) ==
    /\ wpc[w] = "commit"
    /\ committed' = IF CommitsAccepted(w) THEN Resolved(w) ELSE committed
    /\ Goto(w, "idle")
    /\ UNCHANGED <<queue, upto, calls, faultsLeft, owner, overtaken>>
    /\ UNCHANGED store
-----------------------------------------------------------------------------
\* A worker dies, whatever it was doing, and starts again.
Crash(w) ==
    /\ wpc[w] # "idle"
    /\ Fault("crash")
    /\ Goto(w, "idle")
    /\ calls' = [calls EXCEPT ![w] = <<>>]
    /\ UNCHANGED <<queue, upto>>
    /\ UNCHANGED store
    /\ UNCHANGED group

(***************************************************************************)
(* The partition moves to another worker.  The old one may be in a batch:  *)
(* heartbeats are sent between batches only, so a long one exceeds the     *)
(* session timeout.  A worker joins the group between its batches.         *)
(***************************************************************************)
Rebalance(w) ==
    /\ w # owner
    /\ wpc[w] = "idle"
    /\ Fault("rebalance")
    /\ owner' = w
    /\ overtaken' = (overtaken \/ wpc[owner] # "idle")
    /\ UNCHANGED <<queue, wpc, upto, calls, committed>>
    /\ UNCHANGED store

Work(w) ==
    Fetch(w) \/ Check(w) \/ Insert(w) \/ Release(w) \/ DeadLetter(w) \/ Commit(w)

Failure(w) ==
    \/ DatabaseError(w) \/ RedisError(w) \/ ProducerError(w)
    \/ Crash(w) \/ Rebalance(w)

\* The bound on the log is reached and all of it is consumed.
Quiet ==
    /\ Len(queue) = MaxQueue
    /\ committed = MaxQueue
    /\ \A w \in Workers : wpc[w] = "idle"
    /\ UNCHANGED vars

Next ==
    \/ \E m \in Messages : Produce(m)
    \/ \E w \in Workers : Work(w) \/ Failure(w)
    \/ Quiet

Spec == Init /\ [][Next]_vars

\* A worker that has something to do goes on; faults are finitely many.
FairSpec == Spec /\ \A w \in Workers : WF_vars(Work(w))
-----------------------------------------------------------------------------
Rows == [id : Nat \ {0}, src : Nat \ {0}, vehicle : Vehicles,
         start : Days, end : Days, status : Statuses]

TypeOK ==
    /\ queue \in Seq(Messages)
    /\ slots \subseteq Vehicles \X Int
    /\ rentals \subseteq Rows
    /\ nextId \in Nat \ {0}
    /\ dlq \subseteq Offsets
    /\ dropped \subseteq Offsets
    /\ committed \in 0 .. Len(queue)
    /\ owner \in Workers
    /\ wpc \in [Workers -> {"idle", "check", "insert", "release",
                             "deadletter", "commit"}]
    /\ upto \in [Workers -> Nat]
    /\ \A w \in Workers : upto[w] <= Len(queue)
    /\ calls \in [Workers -> Seq(SUBSET Offsets)]
    /\ faultsLeft \in 0 .. MaxFaults
    /\ overtaken \in BOOLEAN

RowsCollide(r, s) ==
    /\ r.vehicle = s.vehicle
    /\ r.start <= s.end
    /\ s.start <= r.end

Active == {r \in rentals : r.status # "cancelled"}

Recorded(o) == \E r \in rentals : r.src = o

\* No vehicle is booked twice for a day: the in-memory check, the SELECT and
\* the INSERT keep the table free of collisions through crashes, redelivery
\* and failed or half-acknowledged transactions, as long as no rebalance
\* overtakes a batch (the SELECT locks nothing) and both checks mean the same
\* days.
NoDoubleBooking ==
    TestsAgree /\ ~overtaken =>
        \A r, s \in Active : r # s => ~RowsCollide(r, s)

\* Offsets are committed only after their messages were dealt with: each
\* booking that counts as consumed is in the table, in the DLQ, or was given
\* up by sendToDLQ with an error, whatever crashed or moved in between.
CommittedAccounted ==
    \A o \in 1 .. committed :
        queue[o] # Junk => Recorded(o) \/ o \in dlq \/ o \in dropped

\* The rows of the messages that ask for r.
RowsFor(r) == {row \in rentals : queue[row.src] = r}

\* Whoever asks for a car and dates that are taken gets no second row, be it
\* another customer or the same message again.  A rebalance in the middle of a
\* batch can put workers side by side that have all looked before any of them
\* inserts; then each of them adds one row at most, for nobody who looks when
\* there is one lets the booking pass.
RowsPerRequest ==
    \A r \in Requests :
        Cardinality(RowsFor(r)) <= IF overtaken THEN Cardinality(Workers) ELSE 1

\* A worker that lost the partition in the middle of a batch cannot set the
\* group back: when it commits late, what the new owner has consumed since
\* stays consumed.
CommitsOnlyGrow == [][committed' >= committed]_vars

\* The bookings that win when the log is served strictly in order: a booking
\* is granted unless it cannot be stored or collides with one granted before.
Granted ==
    LET g[o \in Nat] ==
            /\ o \in Offsets
            /\ queue[o] # Junk
            /\ queue[o] \notin Unstorable
            /\ \A p \in 1 .. (o - 1) : g[p] => ~DaysOverlap(queue[p], queue[o])
    IN  {o \in Offsets : g[o]}

\* However the broker cuts the log into batches and whatever the binary split
\* does with them, first come is first served: until the first fault exactly
\* the granted bookings are recorded and exactly the others are rejected.
FirstComeFirstServed ==
    TestsAgree /\ faultsLeft = MaxFaults =>
        /\ \A o \in Offsets : Recorded(o) => o \in Granted
        /\ dlq \cup dropped \subseteq Offsets \ Granted

\* A poisonous record cannot block the partition: every message that is
\* produced is consumed in the end, once the faults are over.
EverythingConsumed ==
    \A n \in 1 .. MaxQueue : Len(queue) >= n ~> committed >= n

\* Every record that fails is isolated and routed to rental-dlq.
PoisonReachesDLQ == dropped = {}

\* Only failed records are handed to sendToDLQ: what is in the table is not.
RecordedNotRejected == \A o \in dlq \cup dropped : ~Recorded(o)
=============================================================================
