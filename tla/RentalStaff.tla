------------------------------ MODULE RentalStaff ------------------------------
(***************************************************************************)
(* PUT /rentals/{id} and DELETE /rentals/{id}: RentalService.updateRental  *)
(* and deleteRental, which act on a row read several awaits earlier and    *)
(* keep the Redis slots in step with the rentals table, beside customers   *)
(* whose bookings pass through the ingress and the worker.                 *)
(*                                                                         *)
(* A rental's id is its index in `rentals`.  Rows hold days, and the staff *)
(* operations reduce every date to its day before they form a key, so that *)
(* slots and locks are keyed by days here.  Slots of these days do not     *)
(* expire yet.  `billed` is the number of days that a row's total_amount   *)
(* pays for: the daily rates do not change.                                *)
(***************************************************************************)
EXTENDS RentalDates, Sequences, FiniteSets

CONSTANTS
    Staff,        \* the staff requests that may run at the same time
    Retirable,    \* the vehicles that may be deleted meanwhile
    Failures,     \* whether Redis, the database and the process may fail
    MaxRentals,   \* bound: bookings made
    MaxUpset,     \* bound: irregularities after which nothing new begins
    Keep,         \* a field that an update does not mention
    Deleted,      \* in place of the row of a deleted rental
    Free,         \* the lock is not held
    Nothing       \* the job of an idle handler

ASSUME StaffAssumption ==
    /\ Retirable \subseteq Vehicles
    /\ Failures \in BOOLEAN
    /\ MaxRentals \in Nat
    /\ MaxUpset \in Nat
    /\ Free \notin Staff

VARIABLES
    rentals,   \* the rentals table: id -> row, or Deleted
    slots,     \* the keys rental:slot:{vehicle}:{date} that exist
    locks,     \* rental:lock:{vehicle}:{start}:{end} -> holder, or Free
    pending,   \* the bookings that are queued for the worker
    pc,        \* the next await of each handler
    job,       \* its rental's id, the row as it was read, and the payload
    due,       \* the dates that reserveSlots has still to set
    upset      \* history: the irregularities that have happened

vars == <<rentals, slots, locks, pending, pc, job, due, upset>>

Statuses == {"booked", "ongoing", "completed", "cancelled"}

Rows == [vehicle : Vehicles, start : Days, end : Days, status : Statuses,
         billed : Nat \ {0}]

\* The marks are told apart from what they stand for.
ASSUME MarksAssumption == Keep \notin Nat /\ Deleted \notin Rows

\* What updateRentalSchema lets through: the dates are compared if both are
\* there.
Payloads ==
    {p \in [start : Days \cup {Keep}, end : Days \cup {Keep},
            status : Statuses \cup {Keep}] :
        Keep \notin {p.start, p.end} => p.start <= p.end}

Ids == DOMAIN rentals

Live == {id \in Ids : rentals[id] # Deleted}

Dates(row) == row.start .. row.end

Keys(row) == {row.vehicle} \X Dates(row)

LockOf(row) == <<row.vehicle, row.start, row.end>>

\* The row with the fields of the payload.
Updated(row, p) ==
    [row EXCEPT !.start = IF p.start = Keep THEN @ ELSE p.start,
                !.end = IF p.end = Keep THEN @ ELSE p.end,
                !.status = IF p.status = Keep THEN @ ELSE p.status]

NoChange == [start |-> Keep, end |-> Keep, status |-> Keep]

Old(h) == job[h].old

New(h) == Updated(job[h].old, job[h].change)

Init ==
    /\ rentals = <<>>
    /\ slots = {}
    /\ locks = [k \in Vehicles \X Days \X Days |-> Free]
    /\ pending = {}
    /\ pc = [h \in Staff |-> "idle"]
    /\ job = [h \in Staff |-> Nothing]
    /\ due = [h \in Staff |-> {}]
    /\ upset = {}
-----------------------------------------------------------------------------
Goto(h, label) == pc' = [pc EXCEPT ![h] = label]

\* The handler answers, with a result or an error, and takes the next request.
Answer(h) ==
    /\ Goto(h, "idle")
    /\ job' = [job EXCEPT ![h] = Nothing]
    /\ due' = [due EXCEPT ![h] = {}]

InScope == Cardinality(upset) <= MaxUpset

Begin(h, label, id, change) ==
    /\ InScope
    /\ pc[h] = "idle"
    /\ Goto(h, label)
    /\ job' = [job EXCEPT ![h] =
                  [id |-> id, old |-> rentals[id], change |-> change]]

Note(kind, happens) == upset' = upset \cup (IF happens THEN {kind} ELSE {})

Busy(v) == \E h \in Staff : pc[h] # "idle" /\ Old(h).vehicle = v

Queued(v) == \E r \in pending : r.vehicle = v

NotesOverlap(v) == Note("overlap", Busy(v) \/ Queued(v))

Moves(old, new) == <<old.start, old.end>> # <<new.start, new.end>>

Cancels(old, new) == new.status = "cancelled" /\ old.status # "cancelled"

\* The rate is looked up only to price a change of dates.
AfterSlots(old, new) == IF Moves(old, new) THEN "rate" ELSE "write"

\* The branches of updateRental: a cancellation releases the slots, a change
\* of dates moves them under a lock, unless the rental is already cancelled.
Branch(old, new) ==
    IF Cancels(old, new) THEN "evict"
    ELSE IF Moves(old, new) /\ old.status # "cancelled" THEN "lock"
    ELSE AfterSlots(old, new)

\* findById of updateRental.
StartUpdate(h, id, p) ==
    /\ Begin(h, Branch(rentals[id], Updated(rentals[id], p)), id, p)
    /\ NotesOverlap(rentals[id].vehicle)
    /\ UNCHANGED <<rentals, slots, locks, pending, due>>

PurgeAlways(row) == "purge"

\* A cancelled rental has no slots to release.
PurgeIfActive(row) == IF row.status = "cancelled" THEN "remove" ELSE "purge"

\* findById of deleteRental.
StartDelete(h, id) ==
    /\ Begin(h, PurgeIfActive(rentals[id]), id, NoChange)
    /\ NotesOverlap(rentals[id].vehicle)
    /\ UNCHANGED <<rentals, slots, locks, pending, due>>

\* releaseSlots of the old dates: on a cancellation, on a change of dates
\* before the new ones are checked, and on a deletion.
ReleaseOld(h) ==
    /\ \/ pc[h] = "evict" /\ Goto(h, AfterSlots(Old(h), New(h)))
       \/ pc[h] = "release" /\ Goto(h, "check")
       \/ pc[h] = "purge" /\ Goto(h, "remove")
    /\ slots' = slots \ Keys(Old(h))
    /\ UNCHANGED <<rentals, locks, pending, job, due, upset>>

\* acquireLock for the target range.
Lock(h) ==
    /\ pc[h] = "lock"
    /\ locks[LockOf(New(h))] = Free
    /\ locks' = [locks EXCEPT ![LockOf(New(h))] = h]
    /\ Goto(h, "release")
    /\ UNCHANGED <<rentals, slots, pending, job, due, upset>>

LockIsTaken(h) ==
    /\ pc[h] = "lock"
    /\ locks[LockOf(New(h))] # Free
    /\ Answer(h)
    /\ UNCHANGED <<rentals, slots, locks, pending, upset>>

\* The dates that a refused change reserves again.
ToRestore(h) == Dates(Old(h))

StartAvailable(h) == <<New(h).vehicle, New(h).start>> \notin slots

Available(h) == Keys(New(h)) \cap slots = {}

\* checkSlotsAvailable for the target range, which a range without dates
\* passes; then the first SET of reserveSlots, or the end of the try block.
CheckTarget(h) ==
    LET dates == IF Available(h) THEN Dates(New(h)) ELSE ToRestore(h)
    IN  /\ pc[h] = "check"
        /\ due' = [due EXCEPT ![h] = dates]
        /\ Goto(h, IF dates # {} THEN IF Available(h) THEN "reserve" ELSE "restore"
                                 ELSE IF Available(h) THEN "unlock" ELSE "abort")
        /\ UNCHANGED <<rentals, slots, locks, pending, job, upset>>

FirstDue(h) == {d \in due[h] : \A e \in due[h] : d <= e}

\* reserveSlots, of the new dates or again of the old: one SET per date.
ReserveNext(h) ==
    /\ \/ due[h] # FirstDue(h) /\ pc[h] \in {"reserve", "restore"}
          /\ UNCHANGED pc
       \/ due[h] = FirstDue(h) /\ pc[h] = "reserve" /\ Goto(h, "unlock")
       \/ due[h] = FirstDue(h) /\ pc[h] = "restore" /\ Goto(h, "abort")
    /\ slots' = slots \cup ({Old(h).vehicle} \X FirstDue(h))
    /\ due' = [due EXCEPT ![h] = @ \ FirstDue(h)]
    /\ UNCHANGED <<rentals, locks, pending, job, upset>>

\* releaseLock in the finally block, after which a refusal is thrown.
Unlock(h) ==
    /\ \/ pc[h] = "unlock" /\ Goto(h, "rate") /\ UNCHANGED <<job, due>>
       \/ pc[h] = "abort" /\ Answer(h)
    /\ locks' = [locks EXCEPT ![LockOf(New(h))] = IF @ = h THEN Free ELSE @]
    /\ UNCHANGED <<rentals, slots, pending, upset>>

\* getVehicleDailyRate, which throws 404 for a deleted vehicle that is not
\* cached: the slots have been moved by then.
Rate(h) ==
    /\ pc[h] = "rate"
    /\ \/ /\ Goto(h, "write")
          /\ UNCHANGED <<job, due, upset>>
       \/ /\ Old(h).vehicle \in Retirable
          /\ Answer(h)
          /\ Note("failure", TRUE)
    /\ UNCHANGED <<rentals, slots, locks, pending>>

Midnight(d) == [day |-> d, time |-> 0]

\* The price of the dates as they were.
PricedBefore(h) ==
    IF Moves(Old(h), New(h))
    THEN BilledDays(Midnight(Old(h).start), Midnight(Old(h).end))
    ELSE Keep

\* A change of dates has its price, computed from the row as first read.
Priced(h) ==
    IF Moves(Old(h), New(h))
    THEN BilledDays(Midnight(New(h).start), Midnight(New(h).end))
    ELSE Keep

\* What the UPDATE leaves in the row: the fields of the payload and the price.
Rewritten(h) ==
    [Updated(rentals[job[h].id], job[h].change) EXCEPT
        !.billed = IF Priced(h) = Keep THEN @ ELSE Priced(h)]

\* RentalRepository.update: nothing happens if the row has gone.
Written(h) ==
    IF rentals[job[h].id] = Deleted THEN rentals
    ELSE [rentals EXCEPT ![job[h].id] = Rewritten(h)]

\* A soft deletion, as vehicles have one.
RemovedSoftly(h) == [rentals EXCEPT ![job[h].id].status = "deleted"]

\* RentalRepository.delete.
Removed(h) == [rentals EXCEPT ![job[h].id] = Deleted]

Revives(h) == Old(h).status = "cancelled" /\ New(h).status # "cancelled"

Inverts(h) == New(h).start > New(h).end

Write(h) ==
    /\ pc[h] = "write"
    /\ rentals' = Written(h)
    /\ upset' = upset \cup (IF Revives(h) THEN {"revival"} ELSE {})
                      \cup (IF Inverts(h) THEN {"inversion"} ELSE {})
    /\ Answer(h)
    /\ UNCHANGED <<slots, locks, pending>>

DeleteRow(h) ==
    /\ pc[h] = "remove"
    /\ rentals' = Removed(h)
    /\ Answer(h)
    /\ UNCHANGED <<slots, locks, pending, upset>>

(***************************************************************************)
(* A command fails, applied or not, or the process dies.  Inside the try   *)
(* block an error still goes through releaseLock.  No harm is done by the  *)
(* failure of an operation's first command that moves a slot or a row, if  *)
(* it was not applied.                                                     *)
(***************************************************************************)
Fail(h) ==
    /\ Failures
    /\ pc[h] # "idle"
    /\ \/ UNCHANGED <<rentals, slots, locks>>
       \/ /\ pc[h] \in {"evict", "release", "purge"}
          /\ slots' = slots \ Keys(Old(h))
          /\ UNCHANGED <<rentals, locks>>
       \/ /\ pc[h] \in {"reserve", "restore"}
          /\ slots' = slots \cup ({Old(h).vehicle} \X FirstDue(h))
          /\ UNCHANGED <<rentals, locks>>
       \/ /\ pc[h] = "lock" /\ locks[LockOf(New(h))] = Free
          /\ locks' = [locks EXCEPT ![LockOf(New(h))] = h]
          /\ UNCHANGED <<rentals, slots>>
       \/ /\ pc[h] = "write" /\ rentals' = Written(h)
          /\ UNCHANGED <<slots, locks>>
       \/ /\ pc[h] = "remove" /\ rentals' = Removed(h)
          /\ UNCHANGED <<slots, locks>>
    /\ \/ Answer(h)
       \/ /\ pc[h] \in {"release", "check", "reserve", "restore"}
          /\ Goto(h, "abort")
          /\ UNCHANGED <<job, due>>
    /\ Note("failure",
            ~(/\ pc[h] \in {"evict", "lock", "release", "purge"}
              /\ slots' = slots))
    /\ UNCHANGED pending

\* The 5 s lease of a lock runs out, under its holder or after it.
LockExpires(k) ==
    /\ locks[k] # Free
    /\ locks' = [locks EXCEPT ![k] = Free]
    /\ UNCHANGED <<rentals, slots, pending, pc, job, due, upset>>
-----------------------------------------------------------------------------
\* A customer's booking passes the slot check of createRental and is queued.
Book(r) ==
    /\ InScope
    /\ Len(rentals) + Cardinality(pending) < MaxRentals
    /\ SlotKeys(r) \cap slots = {}
    /\ slots' = slots \cup SlotKeys(r)
    /\ pending' = pending \cup {r}
    /\ Note("overlap", Busy(r.vehicle))
    /\ UNCHANGED <<rentals, locks, pc, job, due>>

\* The worker's query.
TableClash(r) ==
    \E id \in Live :
        /\ rentals[id].status # "cancelled"
        /\ rentals[id].vehicle = r.vehicle
        /\ rentals[id].start <= r.end.day
        /\ rentals[id].end >= r.start.day

\* The worker takes the booking from the queue and records it, or rejects it;
\* whether it then releases its slots depends on its Redis client.
Record(r) ==
    /\ pending' = pending \ {r}
    /\ \/ /\ ~TableClash(r)
          /\ rentals' = Append(rentals, [vehicle |-> r.vehicle,
                                         start |-> r.start.day,
                                         end |-> r.end.day,
                                         status |-> "booked",
                                         billed |-> BilledDays(r.start, r.end)])
          /\ UNCHANGED slots
       \/ /\ TableClash(r)
          /\ slots' \in {slots, slots \ SlotKeys(r)}
          /\ UNCHANGED rentals
    /\ UNCHANGED <<locks, pc, job, due, upset>>

Handler(h) ==
    \/ \E id \in Live : StartDelete(h, id) \/ \E p \in Payloads : StartUpdate(h, id, p)
    \/ ReleaseOld(h) \/ Lock(h) \/ LockIsTaken(h) \/ CheckTarget(h)
    \/ ReserveNext(h) \/ Unlock(h) \/ Rate(h) \/ Write(h) \/ DeleteRow(h)

\* Nobody asks for anything.
Quiet ==
    /\ pending = {}
    /\ \A h \in Staff : pc[h] = "idle"
    /\ UNCHANGED vars

Next ==
    \/ \E h \in Staff : Handler(h) \/ Fail(h)
    \/ \E k \in DOMAIN locks : LockExpires(k)
    \/ \E r \in Requests : Book(r)
    \/ \E r \in pending : Record(r)
    \/ Quiet

Spec == Init /\ [][Next]_vars
-----------------------------------------------------------------------------
Labels == {"idle", "evict", "lock", "release", "check", "reserve", "restore",
           "unlock", "abort", "rate", "write", "purge", "remove"}

TypeOK ==
    /\ rentals \in Seq(Rows \cup {Deleted})
    /\ slots \subseteq Vehicles \X Int
    /\ locks \in [Vehicles \X Days \X Days -> Staff \cup {Free}]
    /\ pending \subseteq Requests
    /\ pc \in [Staff -> Labels]
    /\ \A h \in Staff : pc[h] # "idle" =>
          job[h] \in [id : Ids, old : Rows, change : Payloads]
    /\ due \in [Staff -> SUBSET Int]
    /\ upset \subseteq {"overlap", "revival", "inversion", "failure"}

Active == {id \in Live : rentals[id].status # "cancelled"}

AtRest == pending = {} /\ \A h \in Staff : pc[h] = "idle"

Regular == upset = {} /\ DatesOnly

\* Whatever sequence of bookings, changes, refusals, cancellations and
\* deletions has gone by, each completed before the next one on the same
\* vehicle began: at rest exactly the dates of the active rentals are
\* reserved.  None is left behind, none is free for a second booking.  A
\* rental brought back from cancellation, or stored with its end before its
\* start, breaks this.
SlotsFollowTable ==
    Regular /\ AtRest => slots = UNION {Keys(rentals[id]) : id \in Active}

DatesApart ==
    \A a, b \in Active :
        a # b => Keys(rentals[a]) \cap Keys(rentals[b]) = {}

\* Under the conditions of SlotsFollowTable, and at any moment, no two active
\* rentals share a date, although updateRental asks the slots and never the
\* table.
UpdatesKeepApart == Regular => DatesApart

\* A rental is charged for the days it has, whatever changes of dates, with
\* or without a refusal, a failure half-way or a cancellation in between: the
\* price and the dates of one row never come from two different updates, as
\* long as these do not overlap in time.
BilledByDates ==
    DatesOnly /\ "overlap" \notin upset =>
        \A id \in Live :
            \/ rentals[id].start > rentals[id].end
            \/ rentals[id].billed = Cardinality(Dates(rentals[id]))

\* The documented answer to an update that collides with another rental is
\* 409, and a change of status keeps the slots in step: bringing a cancelled
\* rental back is no exception, one request after the other.
RevivalsKeepApart == upset \subseteq {"revival"} => DatesApart
=============================================================================
