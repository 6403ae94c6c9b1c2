----------------------------- MODULE RentalSystem ------------------------------
(***************************************************************************)
(* A booking from POST /rentals to its row: the handlers of RentalIngress  *)
(* and the workers of RentalWorker, which share the log of                 *)
(* rental-batch-queue and the slot keys in Redis, and nothing else.  The   *)
(* bookings that a worker reads are the payloads that handlers sent.       *)
(***************************************************************************)
EXTENDS RentalIngress

CONSTANTS
    Workers,          \* the processes of the consumer group
    Junk,             \* a message that is no booking; no handler sends one
    Unstorable,       \* requests that the INSERT rejects
    RedisConnected,   \* whether the worker's Redis client is open
    MaxQueue,         \* bound: messages in the log
    WorkerFaults,     \* the faults of the worker that may happen
    MaxFaults         \* bound: faults of the worker that do happen

VARIABLES rentals, nextId, dlq, dropped, committed, owner, wpc, upto, calls,
          faultsLeft, overtaken

workerVars == <<rentals, nextId, dlq, dropped, committed, owner, wpc, upto,
                calls, faultsLeft, overtaken>>

ingressVars == <<locks, queue, rateCache, pc, req, due, result, lapsed>>

systemVars == <<vars, workerVars>>

Booking(p) == [vehicle |-> p.vehicle, start |-> p.start, end |-> p.end]

W == INSTANCE RentalWorker
        WITH queue <- [o \in DOMAIN queue |-> Booking(queue[o])],
             Faults <- WorkerFaults

ASSUME SystemAssumption ==
    /\ IsFiniteSet(Workers)
    /\ Junk \notin ValidRequests
    /\ Unstorable \subseteq Requests
    /\ RedisConnected \in BOOLEAN
    /\ MaxQueue \in Nat
    /\ WorkerFaults \subseteq W!FaultKinds
    /\ MaxFaults \in Nat

SystemInit == Init /\ W!Init
-----------------------------------------------------------------------------
Handle(c) == Handler(c) /\ UNCHANGED workerVars

Die(c) == Crash(c) /\ UNCHANGED workerVars

Expire(r) == LockExpires(r) /\ UNCHANGED workerVars

Forget(v) == DetailsExpire(v) /\ UNCHANGED workerVars

Evict(key) == SlotExpires(key) /\ UNCHANGED workerVars

Process(w) == UNCHANGED ingressVars /\ W!Work(w)

Disturb(w) == UNCHANGED ingressVars /\ W!Failure(w)

\* Every request is answered, every lease over and the log consumed.
Rest ==
    /\ \A c \in Clients : pc[c] \in Ended
    /\ \A r \in Requests : locks[r] = Free
    /\ committed = Len(queue)
    /\ \A w \in Workers : wpc[w] = "idle"
    /\ UNCHANGED systemVars

SystemNext ==
    \/ \E c \in Clients : Handle(c) \/ Die(c)
    \/ \E r \in Requests : Expire(r)
    \/ \E v \in rateCache : Forget(v)
    \/ \E key \in slots : Evict(key)
    \/ \E w \in Workers : Process(w) \/ Disturb(w)
    \/ Rest

SystemSpec == SystemInit /\ [][SystemNext]_systemVars

SystemFairSpec ==
    /\ SystemSpec
    /\ \A c \in Clients : WF_systemVars(Handle(c))
    /\ \A r \in Requests : WF_systemVars(Expire(r))
    /\ \A w \in Workers : WF_systemVars(Process(w))
-----------------------------------------------------------------------------
RowsOf(c) == {row \in rentals : queue[row.src].requestId = c}

\* Handlers within their leases, different ranges that share no day even as
\* the table counts days (whose last one the slots miss if it ends earlier
\* than the first begins), and no producer that gave up, whose handler rolls
\* back and answers with an error, although its message was in the log.
Dependable ==
    /\ \A r, s \in Requests : r # s => ~DaysOverlap(r, s)
    /\ ~lapsed
    /\ \A c \in Clients : Copies(c) # {} => result[c] \in {"none", "queued"}

\* What a 201 promises: the booking gets its row in the end.  No other
\* accepted booking, no duplicate of a message, no crash of the worker
\* between its COMMIT and its offset takes the row away.  (A range that is past
\* altogether can be accepted again when its slots have expired.)
PromiseKept ==
    \A c \in Clients :
        result[c] = "queued" ~>
            \/ RowsOf(c) # {}
            \/ ~Dependable
            \/ req[c] \in Unstorable
            \/ LastingKeys(req[c]) = {}

\* However often a payload is sent, delivered and tried again, it becomes one
\* row: nothing but the collision with its own row tells a duplicate.  Workers
\* that a rebalance has put side by side may each have looked for that row
\* before any of them inserts it, and then it is one row for each of them at
\* most, for nobody who looks afterwards lets it pass again.
RecordedOnce ==
    \A c \in Clients :
        Cardinality(RowsOf(c)) <= IF overtaken THEN Cardinality(Workers) ELSE 1

\* The days of every row are reserved, those apart whose keys have a TTL that
\* may be over, so that the calendar refuses what the table would: whoever
\* crashed on either side of the queue.  (A connected worker that rejects a
\* redelivered booking frees the days of its row.)
RecordedKeepSlots ==
    Dependable /\ ~RedisConnected =>
        \A c \in Clients : RowsOf(c) # {} => LastingKeys(req[c]) \subseteq slots
=============================================================================
