# A TLA+ verification of the car rental backend

The repository is an Express API, a Kafka worker, a PostgreSQL database and a
Redis store that together take bookings of rental cars. This directory holds
TLA+ modules that model how a booking travels through them, configurations that
model-check the modules with TLC, and proofs that TLAPS checks.

## The system

| Component | State | Operations | Talks to |
| --- | --- | --- | --- |
| Rental ingress (`rental.service.ts`, `rental.cache.ts`) | Redis: `rental:lock:{vehicle}:{start}:{end}`, `rental:slot:{vehicle}:{date}` | `createRental`: lock, rate, check, reserve, send, roll back, unlock | Redis, database, Kafka |
| Batch worker (`worker.ts`, `rental.handler.ts`) | `rentals` table, committed offset, `rental-dlq` | `eachBatch`, binary split, `sendToDLQ` | Kafka, database, Redis |
| Rental staff operations (`rental.service.ts`) | `rentals` table, slots, locks | `updateRental`, `deleteRental`, `getRentalById`, `getRentalsList` | database, Redis |
| Vehicles (`vehicles.service.ts`, `vehicles.cache.ts`) | `vehicles` table, `vehicle:{id}`, ZSET indexes, OpenSearch | CRUD, list, search | database, Redis, OpenSearch |
| Login rate limiter (`rateLimitter.middleware.ts`) | `rl:login:{ip}` | one middleware | Redis |
| Authentication (`auth.*`) | `session:staff:{id}:{device}` | `login`, `authenticate` | Redis, database |
| Monthly report (`reports.*`) | none | `getRentalReport` | database |
| Start-up, wiring, uploads, validation, rendering | none | | |

A booking is accepted with a 201 once its message is in the topic
`rental-batch-queue`; whether it ends up in the table is decided later by the
worker. Redis slots are the first line of defence against double bookings, the
worker's overlap checks the second.

What is hard in this code:

- **Concurrency.** HTTP handlers run in several containers and give way at every
  `await`; the lock serialises only requests for exactly the same range.
- **Failure between two stores.** A booking lives in Redis, Kafka and PostgreSQL;
  a process can die, or a command fail, between any two of them.
- **Ambiguity.** A failed Redis command, `send` or `COMMIT` may have taken effect.
- **Time.** Locks have a 5 s lease, slots and cached vehicles a TTL.
- **Redelivery.** Offsets are committed after the database transaction.
- **Three notions of dates.** Slots, instants and `date` columns (see below).

What makes each component correct:

- ingress: two accepted bookings do not share a date, an accepted booking keeps
  its dates reserved, refused ones leave none behind, locks are released by their
  holder and never outlive it for good;
- worker: the table holds no two active bookings of one vehicle and day, nothing
  is lost in silence, earlier bookings win, and a bad message cannot block the
  partition: in short, it implements an orderly ledger;
- both together: an accepted booking gets its row, once, and keeps its days to come;
- staff operations: slots and table agree after an update or deletion, no
  update makes two active rentals share a date, and amounts follow the dates;
- vehicles: details, indexes and search documents agree with the table once all
  is quiet, and a walk through the pages misses no vehicle;
- login: no more than the allowed attempts in a window, no address refused for
  ever, and no token handed out that is not honoured;
- reports: the months of a rental add up to the rental.

## Modules

| Module | Models |
| --- | --- |
| `RentalDates` | requests, slot keys, the two overlap tests and the number of billed days, shared by the others |
| `RentalIngress` | `createRental` and the lock and slot operations of `RentalCache` |
| `RentalWorker` | `eachBatch`, `RentalBatchProcessor`, the bulk queries of `RentalRepository` |
| `BookingLedger` | abstract: what the consumer of the queue promises |
| `RentalWorkerLedger` | the refinement mapping from `RentalWorker` to `BookingLedger` |
| `RentalSystem` | `RentalIngress` and `RentalWorker` (by `INSTANCE`) over one queue and one set of slots |
| `RentalStaff` | `updateRental` and `deleteRental`, beside the bookings of customers |
| `RentalReport` | `getRentalReport` and the pages of `getRentalsList`, as functions of the table of `RentalStaff` |
| `VehicleCatalog` | `VehiclesService` over its four stores |
| `StaffLogin` | the login rate limiter, `login` and `authenticate` |
| `RentalIngressProofs`, `RentalWorkerProofs`, `RentalWorkerLedgerProofs`, `RentalStaffProofs`, `RentalReportProofs`, `StaffLoginProofs`, `RentalSystemProofs`, `VehicleCatalogProofs` | theorems about the module of that name |
| `MC...` | constants for TLC |

An operator such as `SendAtOnce`, `TableClashBeyondEnd` or `PurgeAlways`, the
definition just above the one it resembles, is a deliberately wrong variant. It
is used by nothing but the sensitivity checks listed under `mutants` in
`PROJECT.json`: with it in place of the definition, the named property fails.

### RentalDates

A request is a vehicle and two instants, each a day and a time of day, the end
not before the start (`createRentalSchema`). `SlotDates` is the loop of
`generateDateArray`, which steps whole days from the start instant and so misses
the last day when the end's hour precedes the start's. `InstantsOverlap` is the
test of `checkIntraBatchOverlaps`, which compares the ISO strings; `DaysOverlap`
is the SQL test, on `date` columns. `TestsAgree` says that the two mean the same
for the requests at hand; it holds when requests carry dates only (the documented
format), proved as `DatesOnlyAgree`, but the validator admits any ISO date.

Assumed: processes run in UTC, as in the containers, and requests write
their dates in one ISO format, so that string order is chronological.

### RentalIngress

One client is one HTTP request. `pc` names the await its handler issues next and
each action runs from that await to the next one:

| Code | Actions |
| --- | --- |
| `acquireLock` (`SET NX PX 5000`) | `Acquire`, `AcquireFails` |
| `getVehicleDailyRate` | `Lookup`, `FindVehicle`, `FillCache` |
| `checkSlotsAvailable` (`MGET`) | `CheckSlots` |
| `reserveSlots`, one `SET` per date | `ReserveNext` |
| `producer.send`, acks -1 | `Send`, `SendUnacknowledged`, `SendGivesUp` |
| the catch block around it | `Rollback` |
| the finally block (Lua script) | `Unlock`, `UnlockFails` |
| any Redis error in the try block | `RedisError` |
| outside the code | `Crash`, `LockExpires`, `SlotExpires`, `DetailsExpire` |

A Redis error may leave its command applied or not. A retried send may append
the message again (the producer is not idempotent), and a send that is given up,
and rolled back, may be in the log all the same. `lapsed` remembers that a lease
ran out under a running handler. `locks`, `slots` and `queue` are what the code
calls by those names; amounts, names and telephone numbers are left out.

### RentalWorker

A list of items is the set of their offsets, since the code keeps every list in
offset order. `calls` is the stack of pending calls of
`processBatchWithBinarySplit`: `Check` is the in-memory test and the SELECT,
`Insert` the INSERT and COMMIT, `Reject` the catch block (split, left half first,
or route a single item), `Release` and `DeadLetter` the two halves of
`sendToDLQ`, `Commit` the resolved offset. `DatabaseError` covers a lost
`COMMIT` reply. `Crash` forgets what the worker was doing; `Rebalance` moves the
partition while the old owner may be in a batch (`overtaken` remembers that). The
broker refuses the commit of a worker that lost the partition. `Unstorable`
requests violate a constraint of the table. The TTL of slots is not part of this
module, none of whose properties speaks of slots: see `RentalSystem`. `RedisConnected` says whether the
worker's Redis client is open: in `worker.ts` it is not.

### RentalStaff

`StartUpdate` is `findById` and the choice of a branch; from then on the handler
works with the row it has read. `evict` is the release of a cancellation; `lock`,
`release`, `check`, `reserve` or `restore`, and `unlock` or `abort` are the change
of dates; `rate` and `write` follow. `purge` and `remove` are `deleteRental`.
`Fail` lets any of these commands fail, applied or not, or the process die.
Customers are seen from afar: `Book` is the slot check and reservation of
`createRental`, `Record` the worker's table check and INSERT; whether a rejected
booking's slots are released is left open, for it depends on the Redis client.

`upset` collects the irregularities of a history: requests for one vehicle that
`overlap` in time, a `revival` of a cancelled rental, an `inversion` (a stored end
before its start, which `updateRentalSchema` allows when it gets one date only),
a `failure` half-way. The code keeps slots and table in step only without them,
and the properties say so. `MaxUpset` bounds what happens after one.

`Priced` is the amount of a change of dates; a row's `billed` is the number of
daily rates in its `total_amount`.

### RentalReport

The report and the list only read, so that they are functions, evaluated on every
table that `RentalStaff` reaches. A share of an amount is kept in units of
`1/Scale` cent, in which every division of the instance comes out even, until
`toFixed(2)` rounds it; the floating-point error of the code is left out. `East`
says that the process runs in a zone ahead of UTC, where the database driver
delivers a DATE as local midnight and `toISOString` makes it the day before.

### BookingLedger and RentalWorkerLedger

The ledger grants pending bookings, several at once if they do not clash, or
refuses the one whose turn it is; every booking is decided in the end. Under the
mapping the granted ones are the rows of the table, the refused ones those that
were dead-lettered or dropped. Everything else that the worker does (fetch,
check, split, commit) is a stutter.

### RentalSystem

`RentalIngress` is extended and `RentalWorker` instantiated, with the worker's log
defined as the bookings in the ingress's queue; slots are shared, all the other
variables belong to one side. Everything that happens to the ingress happens here
too: the death of a handler (`Die`), the end of a lease (`Expire`) and of a cached
vehicle (`Forget`), and the end of the TTL of a slot whose day is past (`Evict`).
`Produce` of the worker is left out, for `Send` does its work. `Rest` lets the
finished system stay as it is.

### VehicleCatalog

A vehicle is its plate and its category. One handler is one HTTP request:

| Code | Actions |
| --- | --- |
| `createVehicle`, `updateVehicle` up to the statement | `StartCreate`, `StartUpdate`, `CheckPlate`, `Insert`, `Update` |
| `deleteVehicle`: `findById`, `softDelete`, eviction | `StartDelete`, `Retire`, `Store` |
| `setVehicle` after a write or a read | `Store` |
| EXISTS, then ZADD or ZREM, for each index | `IndexExists`, `ChangeIndex` |
| the OpenSearch document | `Publish` |
| `getVehicleById` | `StartGet`, `Get`, `Load`, `Store` |
| `hydrateZsetIndex` | `HydrateExists`, `FindActiveIds`, `Hydrate`, `ExpireIndex` |
| `getVehiclesList` | `StartList`, `StartSearch`, `ZRange`, `Hits`, `FallBack` |
| `stitchVehicleDetails` | `Stitch`, `FindRows`, `CacheRow` |
| errors of any of these, and process death | `Fail` |
| outside the code | `DetailsExpire`, `IndexExpires` |

`walk` is a customer who follows `nextCursor` from page to page; `owed` are the
vehicles that have been on the list all the time and not yet on a page, and
`missed` what was still owed at the end. `upset` collects irregularities: a
`conflict` (two requests at a time for one vehicle of which one writes, or a
write beside a list), a `failure` of a write after its first effect, a `lapse`
(an index key that expires under a request that has just found it).

### StaffLogin

Each attempt comes from one address and is one device. `Incr`, `Expire` and `Ttl`
are the three commands of the limiter, `Bypass` its catch block and its test for a
closed client; `CheckPassword`, `SetSession` and `LoginFails` are `login`;
`Verify` and `HasSession` are `authenticate`. `Entitled` attempts have the
password. The query and the comparison of the password are one step: they touch
nothing that is shared.

## Runs

| Run | Instance | Shows |
| --- | --- | --- |
| `ingress_safety` | 3 clients, a two-day range or an unknown vehicle, all faults, 1 retry copy, day 1 is past and may expire | `NoDoubleAccept`, `AcceptedKeepSlots`, `NoOrphanSlots`, `ReleasesOwnLockOnly` |
| `ingress_crossing` | 2 clients, days 1-2 and 2-3, no fault | finding: both are accepted (`CollisionsBlocked` fails) |
| `worker_faults` | 2 workers, log of 2, colliding, unstorable and junk messages, 3 faults of any kind, fairness | `NoDoubleBooking`, `CommittedAccounted`, `RowsPerRequest`, `EverythingConsumed`, `CommitsOnlyGrow` |
| `worker_order` | 1 worker, log of 5, a chain of collisions, any batching, fairness | `FirstComeFirstServed`, `ImplementsLedger` |
| `worker_closed_redis` | 1 worker, Redis closed, no fault | finding: `PoisonReachesDLQ` fails |
| `worker_redelivery` | 1 worker, 1 booking, 1 crash, Redis closed | finding: `RecordedNotRejected` fails |
| `system` | 2 clients for one range from the afternoon of day 1 to the morning of day 3, day 1 is past and its slots may expire, Redis, database and Kafka errors and crashes, 1 retry copy, 1 worker with 1 crash, Redis closed, fairness | `PromiseKept`, `RecordedOnce`, `RecordedKeepSlots`, `LocksAreFreed` |
| `staff_sequence` | 1 staff request at a time, customers, 2 rentals of 2 days, failures; months of one day, pages of one rental | `SlotsFollowTable`, `UpdatesKeepApart`, `BilledByDates`, `ReportMatchesSlots`, `PagesCoverList` |
| `staff_revival` | the same, no failure | finding: `RevivalsKeepApart` fails |
| `vehicles` | 2 requests at a time, 2 vehicles, 2 plates, 2 categories, pages of one, failures and expiry | `StoresAgree`, `WalksAreComplete` |
| `vehicles_deleted` | 2 requests at a time for 1 vehicle, no failure | finding: `DeletedNotCached` fails |
| `login` | 3 attempts, 2 to a window, 1 with the password, failures, fairness | `LimitIsExact`, `LockoutEnds`, `TokensHonoured` |

Why the bounds are enough to be interesting. Two handlers race for a lock; the
third takes over while a late one rolls back or unlocks. Two days make
`reserveSlots` a loop that can stop in the middle; a past day lets a slot expire
under its booking. In the worker two colliding messages suffice for a batch that
splits, a redelivery that meets its own rows and a zombie that inserts between
another worker's SELECT and INSERT; three faults allow a crash after a lost
COMMIT reply after a rebalance. Without faults the log grows to five messages,
so that a batch is split twice into uneven halves. Two rentals and two days give a
staff request something to collide with and a range that is longer than a day,
and months of one day make that range cross the end of a month; the number of
updates is not bounded, so that sequences are as long as it takes. Pages of one
vehicle or one rental make lists of two pages, with the row fetched beyond the
page, and let the fleet change between them. In `system` the range has an end that
is earlier in the day than its start, so that its last day has no slot; two
clients and a retried send make three messages of one range; day 1 being past, its
slot may expire before, between and after them, while that of day 2 must stay. Its
one worker cannot be overtaken: what a rebalance does is explored in
`worker_faults`, where a worker that has run its SELECT loses the partition, the
other inserts the same booking, and the table really gets two rows of it. Three
attempts with a limit of two fill a window, exceed it, and open the next.
`SYMMETRY` permutes clients, handlers, plates and categories, in runs without
liveness only.

Conditions under which the properties hold are part of the properties, because
the code does not enforce them.

- `RangesAligned` (ranges that share a slot are the same range) and `~lapsed`
  (handlers finish within their lease) for the ingress. Dropping the first is the
  finding `ingress_crossing`.
- `TestsAgree` and `~overtaken` for the worker: without one of them TLC finds two
  rows of one day, inserted by two workers that both ran their SELECT first, or in
  one batch for different hours.
- `LastingKeys` excepts the slots of past days, which a TTL may remove, from
  `AcceptedKeepSlots` and `RecordedKeepSlots`. Both say nothing of the past days of
  a range, whose dates are then free in the calendar and taken in the table.
- `overtaken` in `RowsPerRequest` and `RecordedOnce`: the table check locks no rows,
  so that a rebalance in the middle of a batch can put a second row beside the
  first. These properties do not except the case but bound it, by one row for each
  worker.
- `Dependable` for the system: handlers within their leases, different ranges that
  share no day of the table, no send that was given up although it arrived.
  Nor has the worker any fault but crashes in the run `system`: with a database
  error TLC finds an accepted booking whose transaction fails once and which is then
  treated as poisonous (`rental.handler.ts:118`). The range of the run has a day to
  come. One that lies in the past altogether can be accepted again once its slots
  have expired, and the table then refuses the second booking: `PromiseKept` is
  about ranges with a day to come (`LastingKeys`). `RecordedKeepSlots` demands the
  closed Redis client: a connected worker that refuses a duplicate frees the days
  of the row.
- `Regular` for the staff: requests for one vehicle one after the other, no revival,
  no inversion, no failure half-way, dates without times.
- `Regular` for the vehicles: no conflict, lapse or failure (with `MaxUpset = 0`
  the run makes no conflicting request and follows histories up to the first
  lapse or failure) and one spelling per category. What it excludes, and
  what breaks the properties otherwise: a fill that overtakes a deletion or an update, an index
  hydrated from a SELECT before a write, a ZADD that makes an expired key anew
  with one member and no TTL, an empty page because the key has just expired, two
  updates that reach OpenSearch in the wrong order, and, for `SUV` and `suv`, one
  key that holds whichever spelling was listed first.
- `~East` for the report: ahead of UTC a rental moves a day back, and a rental of
  the first of a month vanishes from both months.
- `blind` and `orphaned` for the login: an attempt whose Redis command fails passes
  the limiter, as its comment says it shall; and if the one EXPIRE of a window is
  lost, by a death or an error between the two commands, the counter never goes
  away. TLC reaches that state, and the address is then refused for good, where
  `README.md:199` of the repository speaks of a window of 15 minutes.

Fairness. Each handler and each worker is weakly fair in its own steps as a
whole: Node resumes a handler whose await has settled, so the handler goes on,
but no outcome is promised. Redis expires keys, so `LockExpires` and `WindowEnds`
are weakly fair. Faults, expiry of anything else and arriving messages have no
fairness; the number of faults of a worker is bounded (`MaxFaults`), so that
liveness means "once the faults are over". `BookingLedger` promises that pending
bookings are decided (`WF` of `Decide`), which `worker_order` derives from the
fairness of the worker.

Other bounds: `MaxQueue` limits the log, `MaxCopies` the retries of a send,
`MaxRentals` and `MaxVehicles` the rows created, `MaxUpset` what happens after an
irregularity of the staff or of the vehicles; one `createRental` is made per client and one login per
attempt. The runs `worker_faults` and `worker_order` open the worker's Redis
client, for this explores more: the closed client behaves like a `RedisError` at
every `Release`. Slow handlers (`slow`) are left to `ingress_safety`: in `system`
they take the run beyond its time.

## Proofs

TLC explores the small instances above. The theorems below hold for every value
of the constants that satisfies the modules' assumptions: any number of clients,
workers, vehicles, days, requests and faults. Each inductive invariant was first
checked by TLC as an invariant of a small instance, with faults.

The assumptions on constants are weak: days and times are numbers and requests
pass the validator (`DatesAssumption`), bounds are numbers, marks such as `Free`,
`Keep` or `Deleted` differ from what they stand for (`MarksAssumption` and its
likes), and in `StaffLogin`, `VehicleCatalog` and `RentalWorker` there are finitely
many attempts, handlers and workers, without which a cardinality means nothing. In `RentalReport` a page
holds at least one rental and every number of days divides `Scale`
(`ReportAssumption`).

### RentalIngressProofs

`IngressInvariant`: `Spec => []IngressInv`. From it follow `IngressTypeCorrect`
(`TypeOK`), `NoDateAcceptedTwice` (`NoDoubleAccept`), `AcceptedStayReserved`
(`AcceptedKeepSlots`), `NoSlotOrphaned` (`NoOrphanSlots`) and the action property
`LocksReleasedByOwner` (`ReleasesOwnLockOnly`).

`NoDoubleAccept` is not inductive: nothing in it says why a handler that passed
the slot check may set its slots. `Exclusion` adds, under `RangesAligned` and
`~lapsed`, that a handler past `acquireLock` still has its lock (`HoldersOwn`), so
that at most one handler of a range is past it; that its dates are in `slots` up
to those still `due` (`ReservedSoFar`); and that they are dates of no accepted
booking (`CheckedIsFree`), which is what makes its rollback harmless. Outside
`Exclusion`, `OutcomeWhenLeft` ties the result to the place in the code, and
`DueWithin` bounds what `reserveSlots` may still set; these two carry
`NoOrphanSlots`, which needs neither condition.

### RentalWorkerProofs

- `TypeCorrect`: `Spec => []TypeOK`. `TypeOK` is inductive only with `Shape`: a
  worker has pending item lists exactly when it is in the middle of a batch, the
  lists are non-empty sets of offsets up to its `upto`, hold bookings and never
  junk, and a worker that is dead-lettering has a single item in hand.
- `NothingSilentlyLost`: `Spec => []CommittedAccounted`. The strengthening is
  `BatchAccounted`: of the messages that a worker has fetched and not yet
  committed, each is recorded, dead-lettered, dropped, or in one of its pending
  lists. The heart is that neither `Halves` nor `Return` lets an item slip
  (`RejectAccounted`, `ReturnAccounted`), and that a commit is accepted only of
  the owner.
- `TableFreeOfCollisions`: `Spec => []NoDoubleBooking`. Until a rebalance
  overtakes a batch only the owner is busy (`SoleWorker`), so that what `Check`
  found of the table still holds when `Insert` runs (`Checked`). `TestsAgree`
  carries the in-memory test over to days.
- `RowsBounded`: `Spec => []RowsPerRequest`, from `OnceInv`. Until a rebalance
  overtakes a batch, two rows never hold the same booking (`OneRowEach`): a booking
  collides with itself in both tests (`SelfCollision`), so neither a batch nor a
  table that has it admits it again. Afterwards the rows of a booking and the
  workers that have checked it and not yet inserted it are together no more than
  the workers (`RowPerWorker`): a worker joins them only while the table has no row
  of the booking, and leaves them with the row that it inserts.
- `OffsetsNeverFall`: `Spec => CommitsOnlyGrow`. The broker refuses the commit of a
  worker that lost the partition; that of the owner is no step back because the
  owner of a batch is never behind the group (`OwnerAhead`): whoever gets the
  partition starts at the committed offset, and nobody else's commit is taken while
  he works.

### RentalWorkerLedgerProofs

- `WorkerImplementsLedger`: if the two overlap tests agree and no fault happens
  but those that `sendToDLQ` swallows (Redis and Kafka), `Spec` implies
  `Ledger!Init /\ [][Ledger!Next]_(Ledger!ledger)`. `StepKinds` sorts the worker's
  steps into splits, advances, grants and refusals; `GrantsRefines` and
  `RefusesRefines` map the last two to `Grant` and `Refuse`, and the others
  stutter or submit. What the proof needs beyond `RentalWorkerProofs` is order:
  the lists on the stack are sorted by offset (`ListsSorted`) and nothing is
  decided ahead of a pending item (`NothingAhead`), so that an INSERT grants
  exactly the pending bookings up to its last one, and a refused booking is the one
  whose turn it is. The refusal is right because what was found in its way is
  still there (`RejectedRightly`). A database error or a redelivery breaks the
  refinement: finding 3 and the text on `Dependable` show how.
- `ServedInOrder`: `Spec => []FirstComeFirstServed`. The step invariant is
  `Justified`: a recorded booking can be stored and clashes with no earlier
  recorded one, a refused one cannot be stored or clashes with one; and the
  decided bookings are the first of the log (`DecidedFirst`).
  `FirstComeFirstServed` compares that with
  `Granted`, a recursive function. That such a function exists is shown without
  induction over data: `Chosen(A, C, n, B)` says that `B` is a choice in order up to
  `n`; by the least-number principle there is one for each `n` and any two agree
  (`ChosenExists`, `ChosenAgree`), so that `Granted` is what the recursion says
  (`GrantedInOrder`).

### RentalSystemProofs

What is known of either side is taken over: `RentalIngressProofs` is extended, and
`RentalWorkerProofs` is instantiated as `P`, with the log of bookings in the place
of `queue`. An instance brings the assumptions of its module as hypotheses;
`WorkerAssumptions` proves them, from `DatesAssumption` and `SystemAssumption`
(junk is no request, bounds are numbers). The definitions of `W`, the instance in
`RentalSystem`, and of `P` are compared once, action by action (`SameWork`,
`SameFailure`).

- `OneRowPerBooking`: `SystemSpec => []RecordedOnce`: one row for a booking while no
  rebalance has overtaken a batch, one for each worker at most afterwards.
  `OnceInv` is taken over from `RentalWorkerProofs`; a handler that sends is to the
  worker a growth of its log (`LogGrows`). `QueueFaithful` ties a message to its
  client.
- `RowsStayReserved`: `SystemSpec => []RecordedKeepSlots`. `AcceptedKeepSlots` of the
  ingress speaks of accepted bookings; a row may belong to one whose handler is
  still waiting for the broker, or died after sending. `BookedKept` covers every
  booking in the log unless its send was given up, and holds because such a
  booking's days are shared with no handler past its slot check (`BookedApart`), so
  that no rollback frees them, and because a handler sends only when its slots are
  set (`SlotsSoFar`). All of it speaks of `LastingKeys`, the only slots that `Evict`
  leaves alone.

### RentalStaffProofs

`StaffInvariant`: `Spec => []StaffInv`, in three layers.

- `StaffTyped` gives `StaffTypeCorrect` (`TypeOK`). `HandlersTyped` adds what the
  place in the code tells of the request: nobody releases slots of a rental that
  was cancelled when it was read, `reserveSlots` sets dates of its range only.
- `AloneInv`, while no two requests on a vehicle overlap, gives
  `ChargedForItsDays` (`BilledByDates`): handlers and queued bookings have
  different vehicles (`OneAtATime`), so that the row is still what the handler has
  read when it writes (`RowsCurrent`), and the price goes with the dates. Failures
  are included: `BilledRight` survives an UPDATE that is applied and answered by an
  error.
- `RegularInv`, in regular runs, gives `SlotsAreThoseOfTable` (`SlotsFollowTable`)
  and `UpdatesNeverCollide` (`UpdatesKeepApart`). Both are false of the steps in
  between, when a rental's slots have been released and the new ones are not yet
  there. `Held(h)` names the slots that handler `h` has at each await, and
  `SlotsAccounted` says that `slots` are those of the rentals that nobody is working
  on, of the queued bookings, and of the handlers. They are pairwise disjoint
  (`HeldApart`), so that a step of one handler takes nothing away from the others
  (`Moved`), its answer hands its slots over to its row (`Ended`), and a free date
  in Redis is a date free in the table (`FoundFree`). `TargetsApart` keeps that
  knowledge until the UPDATE; `RowsForward` and `PendingApart` make the worker's
  table check succeed (`NothingClashes`).

### RentalReportProofs

- `ReportIsRight`: `Spec => []ReportMatchesSlots`. `Settles` gathers what
  `StaffInvariant` says of a table at rest: the slots are the days of the active
  rentals (`RestMatches`), no two of which share one, and each was billed for its
  days. A share is then the rate times the days in the month (`ShareIsRate`), and
  the days of different rentals are disjoint parts of the reserved ones
  (`ReservedAreCovered`), so that the sums add up to whole cents, which rounding
  leaves alone (`RoundedWhole`).
- `PagesAreComplete`: `Spec => []PagesCoverList`. In a finite set each rank belongs
  to one number (`DescendingRanks`); what follows the p-th is what is smaller
  (`PageAndRest`), so that a page and the rest behind its cursor are what there was
  to show (`OnePage`), and the cursor has moved towards the end (`NextPage`). It
  needs neither regularity nor anything of the staff but their types.

Sums and listings are recursive functions. That such a function is what it should
be is shown without induction over data: a closed form satisfies the recursion, and
another function that satisfies it would differ from the closed form at a smallest
set of rentals (`SumIsUnique`), or at a cursor closest to the end
(`PagesAreRest`), and there the recursion says that it does not.

### VehicleCatalogProofs

`CatalogInvariant`: `Spec => []CatalogInv`, in two layers.

- `Typed` gives `CatalogTypeCorrect` (`TypeOK`). `Placed` and `Pending` tie the await
  that a handler has reached to its request and to what it has read so far; `Room`
  says that every creation that is let in finds a free id, and `OneList` that the one
  walk is served by one handler.
- `Agreeing`, in regular histories, gives `StoresAgreeAtRest` (`StoresAgree`) and
  `WalksComplete` (`WalksAreComplete`). Between two awaits of a handler the stores
  do differ. `DetailsRight`, `DocsRight` and `IndexRight` say for which vehicles: only
  those of which a writer has that very change still to make (`Unsettled`, `Owes`).
  `HandlerRight` says that what a handler has read is what the table still says
  (`Current`), that the moves it has still to make are the right ones (`TodoRight`),
  and that a page is one of the list as the table has it (`Listing`). `Apart`, no two requests
  conflict, makes that stable: a write has no list beside it (`WriterAlone`), and a
  handler that stands by when another vehicle is written sees no difference
  (`BystanderRight`). `LeasesRight` lets an index lack a TTL only between ZADD and
  EXPIRE. `WalkRight` says that what is owed to the walk is on its list and below its
  cursor, so that an empty page leaves nothing owed; the page itself is closed
  upwards (`TopClosed`, `NextIsSeen`). Only reads may fail in a regular history, and
  they fall back on the table (`FailRegular`).

### StaffLoginProofs

`LimiterInvariant`: `Spec => []LimiterInv` gives `LoginTypeCorrect` (`TypeOK`) and
`LimiterIsExact` (`LimitIsExact`). The counter is the number of attempts that the
running window counted (`CountsAttempts`); what INCR returned to an attempt is
not more than that (`Ranked`), and those that pass with a rank up to `Limit` are
at most `Limit` (`AdmittedWithin`). `OneOpener`: one attempt at most is between the
first INCR of a window and its EXPIRE. `TokensAreHonoured` (`TokensHonoured`) follows
from `StoredBeforeUse`: the session is stored before the token is handed out, and
outlives it.

### Model-checked only

Every invariant that a passing run checks is proved, and so are the action
properties `ReleasesOwnLockOnly` and `CommitsOnlyGrow` and the safety half of `ImplementsLedger`, without database
errors and redeliveries. `PromiseKept`, `LocksAreFreed`, `EverythingConsumed`,
`LockoutEnds` and the liveness half of `ImplementsLedger` rest on fairness, and with
it on ENABLED, which none of the provers can reason about here: they are checked by
TLC on the instances above, and nothing is claimed beyond those. The findings are
counterexamples, which TLC finds.

## Findings

1. `ingress_crossing`: `README.md:37` and `AGENT.md:25` say that the lock blocks
   concurrent collisions. Its key is the exact range, so that requests for days
   1-2 and 2-3 both find day 2 free and both are accepted. The worker rejects
   one of them, after its customer was told 201.
2. `worker_closed_redis`: the worker never connects `redisClient`, so that
   `sendToDLQ` fails at its first statement and swallows the error: nothing ever
   reaches `rental-dlq`, contrary to `README.md:311`.
3. `worker_redelivery`: a crash between the transaction's COMMIT and the commit
   of the offset makes the worker treat a recorded booking as poisonous. With
   the client closed this is a misleading log line; once it is connected, the
   booking lands in the DLQ and its slots are freed although it stands.
4. `staff_revival`: a cancelled rental can be set back to booked without a look at
   slots or table, so that two active rentals share a date, although
   `src/docs/swagger.json:744` and `:818` promise an update of the slots and a 409.
5. `vehicles_deleted`: `README.md:219` says that a deletion purges the details
   cache. A request for the vehicle that has read or written the row before puts
   it back after the purge; for an hour the vehicle is served, and `createRental`,
   which takes the rate from that key, goes on booking it.

## Not modelled

Start-up, wiring, uploads, request parsing, error rendering, seeds and the
Swagger document are I/O or data. bcrypt and JWT are third-party. The buffer of
`addMessage` and `flush` has no caller that fills it, and `RentalRepository.create`,
`hasOverlappingRental` and four methods of `VehiclesCache` have no caller at all. `if (isStale()) break` of the worker (`worker.ts:41`)
takes effect after a `seek` of the consumer only, and nothing calls that. A
JSON value that is no object (`null`) would make the worker's catch block throw; the
service never sends one. The photo files, of which the old one is deleted before
the UPDATE that replaces it, and the relevance and filters of a search are left
out. The report's floating-point arithmetic is exact in the model. The order in
which `updateVehicle` uploads, and a deletion that fails to remove the photo and
answers 500 without purging the caches, are covered as `Fail` of the step before.

## Possible extensions

What was planned is done: each component named above as modelled has its module,
its run and, for its invariants, its theorems. What could follow: the buffer of
`addMessage`, should anything feed it; the photo files of a vehicle; the cursor of
a search, which looks itself up among a fixed number of hits; and the refinement of
the ledger by a worker with database errors, for a ledger that admits wrong
refusals.
