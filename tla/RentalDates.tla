------------------------------ MODULE RentalDates ------------------------------
(***************************************************************************)
(* The three notions of "the dates of a rental" that the program uses.     *)
(*                                                                         *)
(* A rental request carries two ISO instants.  They are reduced            *)
(*   - to the Redis slot keys, by stepping whole days from the start       *)
(*     instant (rental.cache.ts, generateDateArray);                       *)
(*   - to the `date` columns of the rentals table, by dropping the time    *)
(*     of day (create_tables.ts, findOverlappingRentalsBulk);              *)
(*   - to nothing at all in the intra-batch check, which compares the      *)
(*     instants themselves (rental.handler.ts, checkIntraBatchOverlaps).   *)
(* The three agree when requests carry dates only (time 0, midnight), the  *)
(* documented format; the validator accepts any ISO instant.               *)
(* The processes run in UTC, as the containers do.                         *)
(***************************************************************************)
EXTENDS Integers

CONSTANTS
    Vehicles,   \* vehicle ids
    Days,       \* calendar days that requests name
    Times,      \* times of day that requests name; 0 is midnight
    Requests    \* the (vehicle, start, end) triples customers ask for

Instants == [day : Days, time : Times]

\* Chronological order, which is also the order of the ISO strings.
Leq(a, b) == \/ a.day < b.day
             \/ a.day = b.day /\ a.time <= b.time

\* What createRentalSchema lets through: the end is not before the start.
ValidRequests ==
    {r \in [vehicle : Vehicles, start : Instants, end : Instants] :
        Leq(r.start, r.end)}

ASSUME DatesAssumption ==
    /\ Days \subseteq Nat
    /\ Times \subseteq Nat
    /\ Requests \subseteq ValidRequests

\* The loop `while (current <= end)` with `current` advancing by one day:
\* the last day is missing when the end's time of day precedes the start's.
SlotDates(r) ==
    r.start.day .. (IF r.start.time <= r.end.time THEN r.end.day
                                                  ELSE r.end.day - 1)

\* The keys rental:slot:{vehicle}:{date} of a request.
SlotKeys(r) == {r.vehicle} \X SlotDates(r)

\* calculateTotalAmount: the days that are charged for, a part of a day as a
\* whole one, and one more.
BilledDays(start, end) ==
    LET days == end.day - start.day + (IF end.time > start.time THEN 2 ELSE 1)
    IN  IF days < 1 THEN 1 ELSE days

\* The collision test of the intra-batch check, on instants.
InstantsOverlap(r, s) ==
    /\ r.vehicle = s.vehicle
    /\ Leq(r.start, s.end)
    /\ Leq(s.start, r.end)

\* The collision test of the database, on days.
DaysOverlap(r, s) ==
    /\ r.vehicle = s.vehicle
    /\ r.start.day <= s.end.day
    /\ s.start.day <= r.end.day

\* Whether the two tests agree on every pair of requests: true of requests
\* that carry dates only, false of 09:00-10:00 and 12:00-13:00 of one day.
TestsAgree ==
    \A r, s \in Requests : DaysOverlap(r, s) => InstantsOverlap(r, s)

DatesOnly == \A r \in Requests : r.start.time = 0 /\ r.end.time = 0

\* Whether two requests that can want the same slot also contend for the
\* same lock: the lock key is the exact (vehicle, start, end) triple.
RangesAligned ==
    \A r, s \in Requests : r # s => SlotKeys(r) \cap SlotKeys(s) = {}
=============================================================================
