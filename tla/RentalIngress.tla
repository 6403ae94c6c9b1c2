----------------------------- MODULE RentalIngress -----------------------------
(***************************************************************************)
(* POST /rentals: RentalService.createRental together with the Redis lock  *)
(* and slot operations of RentalCache and the producer of the topic        *)
(* rental-batch-queue.                                                     *)
(*                                                                         *)
(* A client is one HTTP request being handled, by any container.  Its      *)
(* handler runs from one `await` to the next; each await is a step, since  *)
(* other handlers run while it is pending.  `pc` names the await that the  *)
(* handler is about to issue.                                              *)
(***************************************************************************)
EXTENDS RentalDates, Sequences, FiniteSets

CONSTANTS
    Clients,     \* the requests being handled; a client is also its token
    Catalog,     \* the vehicles present in the vehicles table
    PastDays,    \* days so far back that their slot's TTL may run out
    Faults,      \* the faults that may happen, out of FaultKinds
    MaxCopies,   \* how often a retried send may append its message
    Free         \* the lock is not held

FaultKinds ==
    {"redis",    \* a Redis command is answered by an error, applied or not
     "db",       \* the vehicle query fails
     "kafka",    \* an acknowledgement is lost, or the producer gives up
     "crash",    \* the process dies
     "slow"}     \* a handler outlives the 5 s lease of its lock

ASSUME IngressAssumption ==
    /\ Catalog \subseteq Vehicles
    /\ PastDays \subseteq Nat
    /\ Faults \subseteq FaultKinds
    /\ MaxCopies \in Nat
    /\ Free \notin Clients

VARIABLES
    locks,       \* rental:lock:{vehicle}:{start}:{end} -> token or Free
    slots,       \* the keys rental:slot:{vehicle}:{date} that exist
    queue,       \* the log of rental-batch-queue
    rateCache,   \* the vehicles whose details are cached (vehicle:{id})
    pc,          \* the next await of each handler
    req,         \* what each client asks for
    due,         \* the dates that reserveSlots has still to set
    result,      \* what the try block returns or throws
    lapsed       \* history: a lease ran out under a running handler

vars == <<locks, slots, queue, rateCache, pc, req, due, result, lapsed>>

\* Between the acquisition of the lock and the end of the finally block.
Holding == {"lookup", "find", "fill", "check", "reserve", "send",
            "rollback", "unlock"}
\* "done": the result of the try block, or 409 for a lock that is taken, is
\* the response.  "failed": acquireLock or releaseLock threw, a 500.
Ended == {"done", "failed", "dead"}

Results == {"none", "queued", "locked", "unknown_vehicle", "unavailable",
            "redis_error", "db_error", "kafka_error"}

Payloads == [requestId : Clients, vehicle : Vehicles,
             start : Instants, end : Instants]

Payload(c) == [requestId |-> c, vehicle |-> req[c].vehicle,
               start |-> req[c].start, end |-> req[c].end]

Copies(c) == {i \in DOMAIN queue : queue[i].requestId = c}

Init ==
    /\ locks = [r \in Requests |-> Free]
    /\ slots = {}
    /\ queue = <<>>
    /\ rateCache = {}
    /\ pc = [c \in Clients |-> "idle"]
    /\ req \in [Clients -> Requests]
    /\ due = [c \in Clients |-> {}]
    /\ result = [c \in Clients |-> "none"]
    /\ lapsed = FALSE
-----------------------------------------------------------------------------
Goto(c, label) == pc' = [pc EXCEPT ![c] = label]

\* The try block ends: the outcome is kept while the finally block runs.
Leave(c, outcome) ==
    /\ result' = [result EXCEPT ![c] = outcome]
    /\ Goto(c, "unlock")

\* SET ... NX: the key must not exist.
LockableWithoutNX(c) == TRUE

Lockable(c) == locks[req[c]] = Free

(***************************************************************************)
(* acquireLock: SET key token NX PX 5000.  An error here is thrown before  *)
(* the try block, so that nothing releases a lock the command did take.    *)
(***************************************************************************)
Acquire(c) ==
    /\ pc[c] = "idle"
    /\ \/ /\ Lockable(c)
          /\ locks' = [locks EXCEPT ![req[c]] = c]
          /\ Goto(c, "lookup")
          /\ UNCHANGED result
       \/ /\ ~Lockable(c)
          /\ result' = [result EXCEPT ![c] = "locked"]
          /\ Goto(c, "done")
          /\ UNCHANGED locks
    /\ UNCHANGED <<slots, queue, rateCache, req, due, lapsed>>

AcquireFails(c) ==
    /\ pc[c] = "idle"
    /\ "redis" \in Faults
    /\ \/ UNCHANGED locks
       \/ /\ Lockable(c)
          /\ locks' = [locks EXCEPT ![req[c]] = c]
    /\ Goto(c, "failed")
    /\ UNCHANGED <<slots, queue, rateCache, req, due, result, lapsed>>

(***************************************************************************)
(* getVehicleDailyRate: the vehicle cache, then the database, whose row is *)
(* cached.  Only the presence of the vehicle matters here.                 *)
(***************************************************************************)
Lookup(c) ==
    /\ pc[c] = "lookup"
    /\ Goto(c, IF req[c].vehicle \in rateCache THEN "check" ELSE "find")
    /\ UNCHANGED <<locks, slots, queue, rateCache, req, due, result, lapsed>>

\* Without the 404.
FindAnyVehicle(c) ==
    /\ pc[c] = "find"
    /\ Goto(c, "fill")
    /\ UNCHANGED <<locks, slots, queue, rateCache, req, due, result, lapsed>>

FindVehicle(c) ==
    /\ pc[c] = "find"
    /\ \/ /\ req[c].vehicle \in Catalog
          /\ Goto(c, "fill")
          /\ UNCHANGED result
       \/ /\ req[c].vehicle \notin Catalog
          /\ Leave(c, "unknown_vehicle")
       \/ /\ "db" \in Faults
          /\ Leave(c, "db_error")
    /\ UNCHANGED <<locks, slots, queue, rateCache, req, due, lapsed>>

FillCache(c) ==
    /\ pc[c] = "fill"
    /\ rateCache' = rateCache \cup {req[c].vehicle}
    /\ Goto(c, "check")
    /\ UNCHANGED <<locks, slots, queue, req, due, result, lapsed>>

\* checkSlotsAvailable: one MGET over all the dates.
CheckSlots(c) ==
    /\ pc[c] = "check"
    /\ \/ /\ SlotKeys(req[c]) \cap slots = {}
          /\ due' = [due EXCEPT ![c] = SlotDates(req[c])]
          /\ Goto(c, "reserve")
          /\ UNCHANGED result
       \/ /\ SlotKeys(req[c]) \cap slots # {}
          /\ Leave(c, "unavailable")
          /\ UNCHANGED due
    /\ UNCHANGED <<locks, slots, queue, rateCache, req, lapsed>>

SendAtOnce(c, d) == "send"

\* The send is awaited after the last date of the loop.
AfterSlot(c, d) == IF due[c] = {d} THEN "send" ELSE "reserve"

\* reserveSlots: one SET per date, in date order; no test of what is there.
ReserveNext(c) ==
    /\ pc[c] = "reserve"
    /\ \E d \in due[c] :
          /\ \A e \in due[c] : d <= e
          /\ slots' = slots \cup {<<req[c].vehicle, d>>}
          /\ due' = [due EXCEPT ![c] = @ \ {d}]
          /\ Goto(c, AfterSlot(c, d))
    /\ UNCHANGED <<locks, queue, rateCache, req, result, lapsed>>

\* releaseSlots: one DEL of all the dates, whoever set them, for a slot's
\* value is 'booked' and names no owner.
ReleaseFirstOnly(r) == slots \ {<<r.vehicle, r.start.day>>}

ReleaseSlots(r) == slots \ SlotKeys(r)

\* A Redis error anywhere in the try block: straight to the finally block,
\* with whatever the failed command and the earlier ones left behind.
RedisError(c) ==
    /\ "redis" \in Faults
    /\ \/ /\ pc[c] \in {"lookup", "check"}
          /\ UNCHANGED <<slots, rateCache>>
       \/ /\ pc[c] = "fill"
          /\ rateCache' \in {rateCache, rateCache \cup {req[c].vehicle}}
          /\ UNCHANGED slots
       \/ /\ pc[c] = "reserve"
          /\ \E d \in due[c] :
                /\ \A e \in due[c] : d <= e
                /\ slots' \in {slots, slots \cup {<<req[c].vehicle, d>>}}
          /\ UNCHANGED rateCache
       \/ /\ pc[c] = "rollback"
          /\ slots' \in {slots, ReleaseSlots(req[c])}
          /\ UNCHANGED rateCache
    /\ due' = [due EXCEPT ![c] = {}]
    /\ Leave(c, "redis_error")
    /\ UNCHANGED <<locks, queue, req, lapsed>>

(***************************************************************************)
(* producer.send with acks -1.  The producer is not idempotent: it retries *)
(* after a lost acknowledgement and so may append the message again, and   *)
(* when it gives up the message may be in the log all the same.            *)
(***************************************************************************)
Send(c) ==
    /\ pc[c] = "send"
    /\ queue' = Append(queue, Payload(c))
    /\ Leave(c, "queued")
    /\ UNCHANGED <<locks, slots, rateCache, req, due, lapsed>>

SendUnacknowledged(c) ==
    /\ pc[c] = "send"
    /\ "kafka" \in Faults
    /\ Cardinality(Copies(c)) < MaxCopies
    /\ queue' = Append(queue, Payload(c))
    /\ UNCHANGED <<locks, slots, rateCache, pc, req, due, result, lapsed>>

SendGivesUp(c) ==
    /\ pc[c] = "send"
    /\ "kafka" \in Faults
    /\ result' = [result EXCEPT ![c] = "kafka_error"]
    /\ Goto(c, "rollback")
    /\ UNCHANGED <<locks, slots, queue, rateCache, req, due, lapsed>>

\* The catch block around the send.
Rollback(c) ==
    /\ pc[c] = "rollback"
    /\ slots' = ReleaseSlots(req[c])
    /\ Goto(c, "unlock")
    /\ UNCHANGED <<locks, queue, rateCache, req, due, result, lapsed>>

(***************************************************************************)
(* releaseLock in the finally block: the Lua script deletes the key only   *)
(* if it still holds this handler's token.  An error replaces the outcome  *)
(* of the try block by a 500.                                              *)
(***************************************************************************)
DeleteAlways(c) == locks' = [locks EXCEPT ![req[c]] = Free]

DeleteIfOwned(c) ==
    locks' = [locks EXCEPT ![req[c]] = IF @ = c THEN Free ELSE @]

Unlock(c) ==
    /\ pc[c] = "unlock"
    /\ DeleteIfOwned(c)
    /\ Goto(c, "done")
    /\ UNCHANGED <<slots, queue, rateCache, req, due, result, lapsed>>

UnlockFails(c) ==
    /\ pc[c] = "unlock"
    /\ "redis" \in Faults
    /\ DeleteIfOwned(c) \/ UNCHANGED locks
    /\ Goto(c, "failed")
    /\ UNCHANGED <<slots, queue, rateCache, req, due, result, lapsed>>
-----------------------------------------------------------------------------
\* The process that handles c dies.
Crash(c) ==
    /\ pc[c] \in Holding
    /\ "crash" \in Faults
    /\ Goto(c, "dead")
    /\ UNCHANGED <<locks, slots, queue, rateCache, req, due, result, lapsed>>

\* The lock's PX 5000 runs out.  While its holder is still at work this
\* takes a handler slower than the lease.
LeaseWithoutPX(r) == locks[r] # Free /\ pc[locks[r]] \in Holding

Leased(r) == locks[r] # Free

LockExpires(r) ==
    /\ Leased(r)
    /\ pc[locks[r]] \in Holding => "slow" \in Faults
    /\ lapsed' = (lapsed \/ pc[locks[r]] \in Holding)
    /\ locks' = [locks EXCEPT ![r] = Free]
    /\ UNCHANGED <<slots, queue, rateCache, pc, req, due, result>>

\* The cached details of a vehicle live for an hour.
DetailsExpire(v) ==
    /\ v \in rateCache
    /\ rateCache' = rateCache \ {v}
    /\ UNCHANGED <<locks, slots, queue, pc, req, due, result, lapsed>>

\* A slot's EX runs out: a day after the end of its date, or, for a date
\* further back than that, an hour after it was set.
SlotExpires(key) ==
    /\ key \in slots
    /\ key[2] \in PastDays
    /\ slots' = slots \ {key}
    /\ UNCHANGED <<locks, queue, rateCache, pc, req, due, result, lapsed>>

Handler(c) ==
    \/ Acquire(c) \/ AcquireFails(c)
    \/ Lookup(c) \/ FindVehicle(c) \/ FillCache(c)
    \/ CheckSlots(c) \/ ReserveNext(c) \/ RedisError(c)
    \/ Send(c) \/ SendUnacknowledged(c) \/ SendGivesUp(c)
    \/ Rollback(c) \/ Unlock(c) \/ UnlockFails(c)

\* Every request has been answered and every lease is over.
Quiet ==
    /\ \A c \in Clients : pc[c] \in Ended
    /\ \A r \in Requests : locks[r] = Free
    /\ UNCHANGED vars

Next ==
    \/ \E c \in Clients : Handler(c) \/ Crash(c)
    \/ \E r \in Requests : LockExpires(r)
    \/ \E v \in rateCache : DetailsExpire(v)
    \/ \E key \in slots : SlotExpires(key)
    \/ Quiet

\* Node runs a handler whose await has settled, and Redis expires keys.
Fairness ==
    /\ \A c \in Clients : WF_vars(Handler(c))
    /\ \A r \in Requests : WF_vars(LockExpires(r))

Spec == Init /\ [][Next]_vars

FairSpec == Spec /\ Fairness
-----------------------------------------------------------------------------
TypeOK ==
    /\ locks \in [Requests -> Clients \cup {Free}]
    /\ slots \subseteq Vehicles \X Nat
    /\ queue \in Seq(Payloads)
    /\ rateCache \subseteq Catalog
    /\ pc \in [Clients -> {"idle"} \cup Holding \cup Ended]
    /\ req \in [Clients -> Requests]
    /\ due \in [Clients -> SUBSET Int]
    /\ result \in [Clients -> Results]
    /\ lapsed \in BOOLEAN

\* The bookings whose message the broker acknowledged.
Accepted == {c \in Clients : result[c] = "queued"}

\* The slots of a request that no TTL can take away.
LastingKeys(r) == {key \in SlotKeys(r) : key[2] \notin PastDays}

\* Two accepted bookings never share a date, whatever fails on the way, as
\* long as handlers finish within their lease and the requested ranges that
\* share a date are the same range, so that they take the same lock: the
\* lock, the slot check and the reservation together admit one of them.
NoDoubleAccept ==
    RangesAligned /\ ~lapsed =>
        \A c, d \in Accepted :
            c # d => LastingKeys(req[c]) \cap LastingKeys(req[d]) = {}

\* An accepted booking keeps its dates reserved, although releaseSlots
\* deletes whatever it finds: under the same two conditions no handler rolls
\* back dates that another one booked.
AcceptedKeepSlots ==
    RangesAligned /\ ~lapsed =>
        \A c \in Accepted : LastingKeys(req[c]) \subseteq slots

\* A date is blocked only on behalf of a booking: one that is accepted, one
\* under way, or one that a crash or a Redis error cut short.  A refusal or a
\* failed dispatch that was rolled back leaves no date behind.
NoOrphanSlots ==
    \A key \in slots : \E c \in Clients :
        /\ key \in SlotKeys(req[c])
        /\ \/ result[c] \in {"queued", "redis_error"}
           \/ pc[c] \in {"reserve", "send", "rollback", "dead"}

\* A handler that comes late, after its lease ran out and another handler
\* took the lock, does not release the other one's lock.
ReleasesOwnLockOnly ==
    [][\A r \in Requests, c \in Clients :
          locks[r] = c /\ pc[c] \in Holding /\ pc'[c] \in Holding =>
              locks'[r] = c \/ (lapsed' /\ pc' = pc)]_vars

\* No lock outlives the handlers: after a crash, or a release that failed,
\* the range becomes available for booking again.
LocksAreFreed ==
    \A r \in Requests : locks[r] # Free ~> locks[r] = Free

\* The claim that the lock blocks concurrent booking collisions, without
\* any condition on the requested ranges.
CollisionsBlocked ==
    \A c, d \in Accepted :
        c # d => SlotKeys(req[c]) \cap SlotKeys(req[d]) = {}
=============================================================================
