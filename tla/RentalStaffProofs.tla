--------------------------- MODULE RentalStaffProofs ---------------------------
(***************************************************************************)
(* Proofs about RentalStaff, for every set of staff requests, vehicles,    *)
(* days and bookings.                                                      *)
(***************************************************************************)
EXTENDS RentalStaff, FiniteSetTheorems, SequenceTheorems, TLAPS

Running(h) == pc[h] # "idle"

Jobs == [id : Nat, old : Rows, change : Payloads]

\* What a handler is at tells what it was asked for.
PhaseAt(h, label) ==
    /\ label \in {"evict", "lock", "release", "check", "reserve", "restore",
                  "unlock", "abort", "purge"} => Old(h).status # "cancelled"
    /\ label \in {"lock", "release", "check", "reserve", "restore", "unlock",
                  "abort"} => New(h).status # "cancelled"
    /\ label = "evict" => New(h).status = "cancelled"

\* reserveSlots has only dates of its range left to set.
DueAt(h, label, dates) ==
    /\ label = "reserve" => dates \subseteq Dates(New(h))
    /\ label = "restore" => dates \subseteq Dates(Old(h))

HandlersTyped ==
    /\ pc \in [Staff -> Labels]
    /\ job \in [Staff -> Jobs \cup {Nothing}]
    /\ due \in [Staff -> SUBSET Int]
    /\ \A h \in Staff : Running(h) =>
          /\ job[h] \in Jobs /\ job[h].id \in Ids
          /\ PhaseAt(h, pc[h]) /\ DueAt(h, pc[h], due[h])

StaffTyped == TypeOK /\ HandlersTyped

\* Without overlap a handler has the vehicle of its rental for itself,
OneAtATime ==
    \A h \in Staff : Running(h) =>
        /\ \A g \in Staff \ {h} :
              Running(g) => Old(g).vehicle # Old(h).vehicle
        /\ \A r \in pending : r.vehicle # Old(h).vehicle

\* and its rental is as it was read.
RowsCurrent ==
    \A h \in Staff : Running(h) => rentals[job[h].id] = Old(h)

BilledRight(row) == row.start > row.end \/ row.billed = Cardinality(Dates(row))

AloneInv ==
    "overlap" \notin upset =>
        /\ OneAtATime /\ RowsCurrent
        /\ DatesOnly => \A id \in Live : BilledRight(rentals[id])

\* The slots that a handler holds on behalf of its rental.
Held(h) ==
    IF pc[h] \in {"evict", "lock", "release", "abort", "purge"} THEN Keys(Old(h))
    ELSE IF pc[h] = "reserve" THEN {Old(h).vehicle} \X (Dates(New(h)) \ due[h])
    ELSE IF pc[h] = "restore" THEN {Old(h).vehicle} \X (Dates(Old(h)) \ due[h])
    ELSE IF pc[h] = "unlock" THEN Keys(New(h))
    ELSE IF /\ pc[h] \in {"rate", "write"}
            /\ Old(h).status # "cancelled" /\ New(h).status # "cancelled"
         THEN Keys(New(h))
    ELSE {}

\* Whether a handler has found its new dates free and is to write them.
Aims(h) ==
    \/ pc[h] \in {"reserve", "unlock"}
    \/ /\ pc[h] \in {"rate", "write"}
       /\ Old(h).status # "cancelled" /\ New(h).status # "cancelled"

InHand == {job[h].id : h \in {g \in Staff : Running(g)}}

Settled == UNION {Keys(rentals[id]) : id \in Active \ InHand}

Promised == UNION {SlotKeys(r) : r \in pending}

\* Each reserved slot belongs to a rental that nobody is working on, to a
\* booking under way, or to a handler; and theirs are reserved.
SlotsAccounted == slots = Settled \cup Promised \cup UNION {Held(h) : h \in Staff}

RowsForward == \A id \in Live : rentals[id].start <= rentals[id].end

PendingApart ==
    \A r \in pending :
        /\ \A id \in Active : SlotKeys(r) \cap Keys(rentals[id]) = {}
        /\ \A s \in pending \ {r} : SlotKeys(r) \cap SlotKeys(s) = {}

TargetsApart ==
    \A h \in Staff : Aims(h) =>
        \A id \in Active \ {job[h].id} : Keys(New(h)) \cap Keys(rentals[id]) = {}

RegularInv ==
    Regular =>
        SlotsAccounted /\ RowsForward /\ DatesApart /\ PendingApart /\ TargetsApart

StaffInv == StaffTyped /\ AloneInv /\ RegularInv
-----------------------------------------------------------------------------
(***************************************************************************)
(* Types.                                                                  *)
(***************************************************************************)
LEMMA DaysAreNumbers == Days \subseteq Nat
BY DatesAssumption

\* An update changes dates and status, and no other field.
LEMMA UpdatedRow ==
    ASSUME NEW row \in Rows, NEW p \in Payloads
    PROVE  /\ Updated(row, p) \in Rows
           /\ Updated(row, p).vehicle = row.vehicle
           /\ Updated(row, p).billed = row.billed
<1>1. /\ p.start \in Days \cup {Keep} /\ p.end \in Days \cup {Keep}
      /\ p.status \in Statuses \cup {Keep}
  BY DEF Payloads
<1> QED BY <1>1 DEF Updated, Rows

LEMMA NoChangeChanges ==
    ASSUME NEW row \in Rows
    PROVE  NoChange \in Payloads /\ Updated(row, NoChange) = row
BY DEF NoChange, Payloads, Updated, Rows

\* What a running handler works on.
LEMMA JobTypes ==
    ASSUME HandlersTyped, NEW h \in Staff, Running(h)
    PROVE  /\ Old(h) \in Rows /\ New(h) \in Rows
           /\ New(h).vehicle = Old(h).vehicle
           /\ job[h].change \in Payloads /\ job[h].id \in Ids
           /\ New(h) = Updated(Old(h), job[h].change)
<1>1. job[h] \in Jobs /\ job[h].id \in Ids
  BY DEF HandlersTyped
<1>2. Old(h) \in Rows /\ job[h].change \in Payloads
  BY <1>1 DEF Jobs, Old
<1> QED BY <1>1, <1>2, UpdatedRow DEF New, Old

\* The keys and the lock of a row are keys.
LEMMA RowKeys ==
    ASSUME NEW row \in Rows
    PROVE  /\ Dates(row) \subseteq Int
           /\ Keys(row) \subseteq Vehicles \X Int
           /\ LockOf(row) \in Vehicles \X Days \X Days
<1>1. row.vehicle \in Vehicles /\ row.start \in Days /\ row.end \in Days
  BY DEF Rows
<1>2. Dates(row) \subseteq Int
  BY DEF Dates
<1> QED BY <1>1, <1>2 DEF Keys, LockOf

\* A handler that goes on with its job.
LEMMA GoesOn ==
    ASSUME HandlersTyped, NEW h \in Staff, Running(h),
           NEW label \in Labels \ {"idle"}, Goto(h, label), UNCHANGED job,
           NEW D \in SUBSET Int, due' = [due EXCEPT ![h] = D],
           PhaseAt(h, label), DueAt(h, label, D), Ids \subseteq Ids'
    PROVE  HandlersTyped'
<1>1. /\ pc' \in [Staff -> Labels] /\ pc'[h] = label
      /\ \A g \in Staff \ {h} : pc'[g] = pc[g]
  BY DEF HandlersTyped, Goto
<1>2. /\ due' \in [Staff -> SUBSET Int] /\ due'[h] = D
      /\ \A g \in Staff \ {h} : due'[g] = due[g]
  BY DEF HandlersTyped
<1>3. \A g \in Staff : Old(g)' = Old(g) /\ New(g)' = New(g)
  BY DEF Old, New
<1>4. \A g \in Staff : Running(g)' => Running(g)
  BY <1>1 DEF Running
<1>5. ASSUME NEW g \in Staff, Running(g)'
      PROVE  PhaseAt(g, pc[g])' /\ DueAt(g, pc[g], due[g])'
  <2>1. PhaseAt(g, pc'[g]) /\ DueAt(g, pc'[g], due'[g])
    BY <1>1, <1>2, <1>4, <1>5 DEF HandlersTyped
  <2> QED BY <1>3, <2>1 DEF PhaseAt, DueAt
<1> QED BY <1>1, <1>2, <1>4, <1>5 DEF HandlersTyped

\* A handler that answers.
LEMMA Answered ==
    ASSUME HandlersTyped, NEW h \in Staff, Answer(h), Ids \subseteq Ids'
    PROVE  HandlersTyped'
<1>1. /\ pc' \in [Staff -> Labels] /\ pc'[h] = "idle"
      /\ job' \in [Staff -> Jobs \cup {Nothing}]
      /\ due' \in [Staff -> SUBSET Int]
      /\ \A g \in Staff \ {h} : /\ pc'[g] = pc[g] /\ job'[g] = job[g]
                                /\ due'[g] = due[g]
  BY DEF HandlersTyped, Answer, Goto, Labels
<1>2. ASSUME NEW g \in Staff, Running(g)'
      PROVE  /\ job'[g] \in Jobs /\ job'[g].id \in Ids'
             /\ PhaseAt(g, pc[g])' /\ DueAt(g, pc[g], due[g])'
  <2>1. g # h /\ Running(g)
    BY <1>1, <1>2 DEF Running
  <2>2. Old(g)' = Old(g) /\ New(g)' = New(g)
    BY <1>1, <2>1 DEF Old, New
  <2>3. PhaseAt(g, pc[g]) /\ DueAt(g, pc[g], due[g])
    BY <2>1 DEF HandlersTyped
  <2> QED BY <1>1, <2>1, <2>2, <2>3 DEF HandlersTyped, PhaseAt, DueAt
<1> QED BY <1>1, <1>2 DEF HandlersTyped

\* A handler that takes a request for a rental that it has read.
LEMMA Begun ==
    ASSUME StaffTyped, NEW h \in Staff, NEW id \in Live,
           NEW change \in Payloads, NEW label,
           Begin(h, label, id, change),
           label \in {"evict", "lock", "rate", "write", "purge", "remove"},
           LET new == Updated(rentals[id], change)
           IN  /\ label \in {"evict", "lock", "purge"} =>
                     rentals[id].status # "cancelled"
               /\ label = "lock" => new.status # "cancelled"
               /\ label = "evict" => new.status = "cancelled",
           UNCHANGED due, Ids \subseteq Ids'
    PROVE  HandlersTyped'
<1>1. /\ pc' \in [Staff -> Labels] /\ pc'[h] = label
      /\ \A g \in Staff \ {h} : pc'[g] = pc[g] /\ job'[g] = job[g]
  BY DEF StaffTyped, HandlersTyped, Begin, Goto, Labels
<1>2. rentals[id] \in Rows /\ id \in Nat /\ id \in Ids
  BY DEF StaffTyped, TypeOK, Live, Ids
<1>3. /\ job' \in [Staff -> Jobs \cup {Nothing}]
      /\ job'[h] = [id |-> id, old |-> rentals[id], change |-> change]
      /\ job'[h] \in Jobs /\ job'[h].id \in Ids
  BY <1>2 DEF StaffTyped, HandlersTyped, Begin, Jobs
<1>4. ASSUME NEW g \in Staff, Running(g)'
      PROVE  /\ job'[g] \in Jobs /\ job'[g].id \in Ids'
             /\ PhaseAt(g, pc[g])' /\ DueAt(g, pc[g], due[g])'
  <2>1. CASE g = h
    <3>1. /\ Old(h)' = rentals[id]
          /\ New(h)' = Updated(rentals[id], change)
      BY <1>3 DEF Old, New
    <3> QED BY <1>1, <1>3, <2>1, <3>1 DEF PhaseAt, DueAt
  <2>2. CASE g # h
    <3>1. Old(g)' = Old(g) /\ New(g)' = New(g) /\ Running(g)
      BY <1>1, <1>4, <2>2 DEF Old, New, Running
    <3>2. PhaseAt(g, pc[g]) /\ DueAt(g, pc[g], due[g])
      BY <3>1 DEF StaffTyped, HandlersTyped
    <3> QED BY <1>1, <2>2, <3>1, <3>2
            DEF StaffTyped, HandlersTyped, PhaseAt, DueAt
  <2> QED BY <2>1, <2>2
<1> QED BY <1>1, <1>3, <1>4 DEF StaffTyped, HandlersTyped

\* An UPDATE or a DELETE changes the row of the job, and no other.
LEMMA RowReplaced ==
    ASSUME TypeOK, NEW id \in Ids, NEW row \in Rows \cup {Deleted}, NEW t,
           t = [rentals EXCEPT ![id] = row]
    PROVE  /\ t \in Seq(Rows \cup {Deleted})
           /\ DOMAIN t = Ids
           /\ t[id] = row
           /\ \A i \in Ids \ {id} : t[i] = rentals[i]
<1>1. rentals \in Seq(Rows \cup {Deleted}) /\ Ids = 1 .. Len(rentals)
  BY DEF TypeOK, Ids
<1>2. t \in Seq(Rows \cup {Deleted}) /\ Len(t) = Len(rentals)
  BY <1>1, ExceptSeq
<1>3. DOMAIN t = Ids
  BY <1>1, <1>2
<1> QED BY <1>1, <1>2, <1>3

\* The row that the UPDATE leaves.
LEMMA RewrittenRow ==
    ASSUME StaffTyped, NEW h \in Staff, Running(h), rentals[job[h].id] # Deleted
    PROVE  /\ Rewritten(h) \in Rows
           /\ Rewritten(h).vehicle = rentals[job[h].id].vehicle
           /\ LET u == Updated(rentals[job[h].id], job[h].change)
              IN  /\ Rewritten(h).start = u.start
                  /\ Rewritten(h).end = u.end
                  /\ Rewritten(h).status = u.status
           /\ Rewritten(h).billed = IF Priced(h) = Keep
                                    THEN rentals[job[h].id].billed
                                    ELSE Priced(h)
<1> DEFINE row == rentals[job[h].id]
           u == Updated(row, job[h].change)
<1>1. row \in Rows /\ job[h].change \in Payloads
  BY JobTypes DEF StaffTyped, TypeOK, Ids
<1>2. u \in Rows /\ u.vehicle = row.vehicle /\ u.billed = row.billed
  BY <1>1, UpdatedRow
<1>3. Priced(h) = Keep \/ Priced(h) \in Nat \ {0}
  <2>1. New(h) \in Rows
    BY JobTypes DEF StaffTyped
  <2>2. New(h).start \in Nat /\ New(h).end \in Nat
    BY <2>1, DaysAreNumbers DEF Rows
  <2> QED BY <2>2 DEF Priced, BilledDays, Midnight
<1> HIDE DEF u
<1>4. Rewritten(h) = [u EXCEPT !.billed = IF Priced(h) = Keep THEN @ ELSE Priced(h)]
  BY DEF Rewritten, u
<1> QED BY <1>2, <1>3, <1>4 DEF Rows, u

LEMMA WriteEffect ==
    ASSUME StaffTyped, NEW h \in Staff, Running(h), rentals' = Written(h)
    PROVE  /\ rentals' \in Seq(Rows \cup {Deleted})
           /\ Ids' = Ids
           /\ rentals[job[h].id] # Deleted => rentals'[job[h].id] = Rewritten(h)
           /\ rentals[job[h].id] = Deleted => rentals' = rentals
           /\ \A i \in Ids \ {job[h].id} : rentals'[i] = rentals[i]
<1>1. job[h].id \in Ids /\ TypeOK
  BY JobTypes DEF StaffTyped
<1>2. CASE rentals[job[h].id] = Deleted
  BY <1>1, <1>2 DEF Written, TypeOK, Ids
<1>3. CASE rentals[job[h].id] # Deleted
  <2>1. rentals' = [rentals EXCEPT ![job[h].id] = Rewritten(h)]
    BY <1>3 DEF Written
  <2>2. Rewritten(h) \in Rows
    BY <1>3, RewrittenRow
  <2> QED BY <1>1, <1>3, <2>1, <2>2, RowReplaced DEF Ids
<1> QED BY <1>2, <1>3

LEMMA RemoveEffect ==
    ASSUME StaffTyped, NEW h \in Staff, Running(h), rentals' = Removed(h)
    PROVE  /\ rentals' \in Seq(Rows \cup {Deleted})
           /\ Ids' = Ids
           /\ rentals'[job[h].id] = Deleted
           /\ \A i \in Ids \ {job[h].id} : rentals'[i] = rentals[i]
<1>1. job[h].id \in Ids /\ TypeOK
  BY JobTypes DEF StaffTyped
<1> QED BY <1>1, RowReplaced DEF Removed, Ids

\* The row that the worker records.
RowOf(r) ==
    [vehicle |-> r.vehicle, start |-> r.start.day, end |-> r.end.day,
     status |-> "booked", billed |-> BilledDays(r.start, r.end)]

LEMMA RequestRow ==
    ASSUME NEW r \in Requests
    PROVE  /\ RowOf(r) \in Rows
           /\ r.vehicle \in Vehicles
           /\ SlotKeys(r) \subseteq Vehicles \X Int
           /\ r.start.day \in Nat /\ r.end.day \in Nat
           /\ r.start.day <= r.end.day
           /\ DatesOnly => /\ SlotKeys(r) = Keys(RowOf(r))
                           /\ r.start.time = 0 /\ r.end.time = 0
<1>1. /\ r \in [vehicle : Vehicles, start : Instants, end : Instants]
      /\ Leq(r.start, r.end)
  BY DatesAssumption DEF ValidRequests
<1>2. /\ r.vehicle \in Vehicles
      /\ r.start.day \in Days /\ r.end.day \in Days
      /\ r.start.time \in Times /\ r.end.time \in Times
      /\ Days \subseteq Nat /\ Times \subseteq Nat
  BY <1>1, DatesAssumption DEF Instants
<1>n. /\ r.start.day \in Nat /\ r.end.day \in Nat
      /\ r.start.time \in Nat /\ r.end.time \in Nat
  BY <1>2
<1>3. r.start.day <= r.end.day
  BY <1>1, <1>n DEF Leq
<1>4. BilledDays(r.start, r.end) \in Nat \ {0}
  BY <1>n DEF BilledDays
<1>5. RowOf(r) \in Rows
  BY <1>2, <1>4 DEF RowOf, Rows, Statuses
<1>6. SlotKeys(r) \subseteq Vehicles \X Int
  BY <1>2 DEF SlotKeys, SlotDates
<1>7. DatesOnly => /\ SlotKeys(r) = Keys(RowOf(r))
                   /\ r.start.time = 0 /\ r.end.time = 0
  BY DEF DatesOnly, SlotKeys, SlotDates, Keys, Dates, RowOf
<1> QED BY <1>2, <1>n, <1>3, <1>5, <1>6, <1>7

\* A booking that the worker records gets the next id.
LEMMA RecordEffect ==
    ASSUME TypeOK, NEW r \in Requests, rentals' = Append(rentals, RowOf(r))
    PROVE  \E id : /\ id \notin Ids /\ id \in Nat
                   /\ Ids' = Ids \cup {id}
                   /\ rentals'[id] = RowOf(r)
                   /\ \A i \in Ids : rentals'[i] = rentals[i]
                   /\ rentals' \in Seq(Rows \cup {Deleted})
<1>1. /\ rentals \in Seq(Rows \cup {Deleted})
      /\ Len(rentals) \in Nat /\ Ids = 1 .. Len(rentals)
      /\ RowOf(r) \in Rows
  BY RequestRow DEF TypeOK, Ids
<1>2. /\ rentals' \in Seq(Rows \cup {Deleted})
      /\ Len(rentals') = Len(rentals) + 1
      /\ rentals'[Len(rentals) + 1] = RowOf(r)
      /\ \A i \in 1 .. Len(rentals) : rentals'[i] = rentals[i]
  BY <1>1
<1>3. Ids' = 1 .. (Len(rentals) + 1)
  BY <1>1, <1>2 DEF Ids
<1> WITNESS Len(rentals) + 1
<1> QED BY <1>1, <1>2, <1>3

Stored ==
    /\ rentals \in Seq(Rows \cup {Deleted})
    /\ slots \subseteq Vehicles \X Int
    /\ locks \in [Vehicles \X Days \X Days -> Staff \cup {Free}]
    /\ pending \subseteq Requests
    /\ upset \subseteq {"overlap", "revival", "inversion", "failure"}

LEMMA Retyped ==
    ASSUME Stored', HandlersTyped'
    PROVE  StaffTyped'
<1>1. ASSUME NEW h \in Staff, pc'[h] # "idle"
      PROVE  job'[h] \in [id : Ids', old : Rows, change : Payloads]
  BY <1>1 DEF HandlersTyped, Running, Jobs
<1> QED BY <1>1 DEF Stored, HandlersTyped, StaffTyped, TypeOK

LEMMA Typed ==
    ASSUME StaffTyped
    PROVE  Stored /\ HandlersTyped
BY DEF StaffTyped, TypeOK, Stored

\* A handler that goes on with the dates it has to set.
LEMMA Proceeds ==
    ASSUME HandlersTyped, NEW h \in Staff, Running(h),
           NEW label \in Labels \ {"idle"}, Goto(h, label), UNCHANGED <<job, due>>,
           PhaseAt(h, label), DueAt(h, label, due[h]), Ids \subseteq Ids'
    PROVE  HandlersTyped'
<1>1. due[h] \in SUBSET Int /\ due' = [due EXCEPT ![h] = due[h]]
  BY DEF HandlersTyped
<1> QED BY <1>1, GoesOn

\* Nothing that another actor does concerns the handlers' own state.
LEMMA Bystander ==
    ASSUME HandlersTyped, UNCHANGED <<pc, job, due>>, Ids \subseteq Ids'
    PROVE  HandlersTyped'
<1>1. \A g \in Staff : /\ Old(g)' = Old(g) /\ New(g)' = New(g)
                       /\ Running(g)' = Running(g)
  BY DEF Old, New, Running
<1> QED BY <1>1 DEF HandlersTyped, PhaseAt, DueAt

LEMMA StartUpdateTyped ==
    ASSUME StaffTyped, NEW h \in Staff, NEW id \in Live, NEW p \in Payloads,
           StartUpdate(h, id, p)
    PROVE  StaffTyped'
<1> DEFINE old == rentals[id]
           new == Updated(old, p)
           label == Branch(old, new)
<1>1. /\ Begin(h, label, id, p) /\ UNCHANGED <<rentals, slots, locks, pending, due>>
      /\ upset' \subseteq upset \cup {"overlap"}
  BY DEF StartUpdate, NotesOverlap, Note
<1>2. /\ label \in {"evict", "lock", "rate", "write", "purge", "remove"}
      /\ label \in {"evict", "lock", "purge"} => old.status # "cancelled"
      /\ label = "lock" => new.status # "cancelled"
      /\ label = "evict" => new.status = "cancelled"
  BY DEF Branch, AfterSlots, Cancels
<1> HIDE DEF old, new, label
<1>3. HandlersTyped'
  BY <1>1, <1>2, Begun DEF old, new, Ids
<1> QED BY <1>1, <1>3, Typed, Retyped DEF Stored

LEMMA StartDeleteTyped ==
    ASSUME StaffTyped, NEW h \in Staff, NEW id \in Live, StartDelete(h, id)
    PROVE  StaffTyped'
<1> DEFINE old == rentals[id]
           label == PurgeIfActive(old)
<1>1. /\ Begin(h, label, id, NoChange)
      /\ UNCHANGED <<rentals, slots, locks, pending, due>>
      /\ upset' \subseteq upset \cup {"overlap"}
  BY DEF StartDelete, NotesOverlap, Note
<1>2. /\ label \in {"purge", "remove"}
      /\ label = "purge" => old.status # "cancelled"
  BY DEF PurgeIfActive
<1>3. NoChange \in Payloads
  BY DEF NoChange, Payloads
<1> HIDE DEF old, label
<1>4. HandlersTyped'
  BY <1>1, <1>2, <1>3, Begun DEF old, Ids
<1> QED BY <1>1, <1>4, Typed, Retyped DEF Stored

LEMMA ReleaseOldTyped ==
    ASSUME StaffTyped, NEW h \in Staff, ReleaseOld(h)
    PROVE  StaffTyped'
<1> USE Typed
<1>1. Running(h) /\ PhaseAt(h, pc[h]) /\ Ids \subseteq Ids'
  BY DEF ReleaseOld, Running, HandlersTyped, Ids
<1>2. PICK label \in {"rate", "write", "check", "remove"} :
         /\ Goto(h, label)
         /\ label = "check" => pc[h] = "release"
  BY DEF ReleaseOld, AfterSlots
<1>3. PhaseAt(h, label) /\ DueAt(h, label, due[h])
  BY <1>1, <1>2 DEF PhaseAt, DueAt
<1>4. HandlersTyped'
  BY <1>1, <1>2, <1>3, Proceeds DEF ReleaseOld, Labels
<1> QED BY <1>4, Retyped DEF ReleaseOld, Stored

LEMMA LockTyped ==
    ASSUME StaffTyped, NEW h \in Staff, Lock(h)
    PROVE  StaffTyped'
<1> USE Typed
<1>1. Running(h) /\ PhaseAt(h, pc[h]) /\ Ids \subseteq Ids'
  BY DEF Lock, Running, HandlersTyped, Ids
<1>2. PhaseAt(h, "release") /\ DueAt(h, "release", due[h])
  BY <1>1 DEF Lock, PhaseAt, DueAt
<1>3. HandlersTyped'
  BY <1>1, <1>2, Proceeds DEF Lock, Labels
<1>4. locks' \in [Vehicles \X Days \X Days -> Staff \cup {Free}]
  BY DEF Lock, Stored
<1> QED BY <1>3, <1>4, Retyped DEF Lock, Stored

LEMMA CheckTargetTyped ==
    ASSUME StaffTyped, NEW h \in Staff, CheckTarget(h)
    PROVE  StaffTyped'
<1> USE Typed
<1>1. Running(h) /\ PhaseAt(h, pc[h]) /\ Ids \subseteq Ids'
  BY DEF CheckTarget, Running, HandlersTyped, Ids
<1>2. Old(h) \in Rows /\ New(h) \in Rows
  BY <1>1, JobTypes
<1>3. Dates(Old(h)) \in SUBSET Int /\ Dates(New(h)) \in SUBSET Int
  BY <1>2, RowKeys
<1>4. /\ PhaseAt(h, "reserve") /\ PhaseAt(h, "restore")
      /\ PhaseAt(h, "unlock") /\ PhaseAt(h, "abort")
  BY <1>1 DEF CheckTarget, PhaseAt
<1>5. CASE Available(h)
  <2>1. PICK label \in {"reserve", "unlock"} : Goto(h, label)
    <3> USE <1>5 DEF CheckTarget
    <3>1. CASE Dates(New(h)) # {}
      BY <3>1
    <3>2. CASE Dates(New(h)) = {}
      BY <3>2
    <3> QED BY <3>1, <3>2
  <2>2. due' = [due EXCEPT ![h] = Dates(New(h))] /\ DueAt(h, label, Dates(New(h)))
    BY <1>5, <2>1 DEF CheckTarget, DueAt
  <2>3. PhaseAt(h, label) /\ label \in Labels \ {"idle"} /\ UNCHANGED job
    BY <1>4 DEF CheckTarget, Labels
  <2>4. HandlersTyped'
    BY <1>1, <1>3, <2>1, <2>2, <2>3, GoesOn
  <2> QED BY <2>4, Retyped DEF CheckTarget, Stored
<1>6. CASE ~Available(h)
  <2>1. PICK label \in {"restore", "abort"} : Goto(h, label)
    <3> USE <1>6 DEF CheckTarget
    <3>1. CASE ToRestore(h) # {}
      BY <3>1
    <3>2. CASE ToRestore(h) = {}
      BY <3>2
    <3> QED BY <3>1, <3>2
  <2>2. due' = [due EXCEPT ![h] = Dates(Old(h))] /\ DueAt(h, label, Dates(Old(h)))
    BY <1>6, <2>1 DEF CheckTarget, DueAt, ToRestore
  <2>3. PhaseAt(h, label) /\ label \in Labels \ {"idle"} /\ UNCHANGED job
    BY <1>4 DEF CheckTarget, Labels
  <2>4. HandlersTyped'
    BY <1>1, <1>3, <2>1, <2>2, <2>3, GoesOn
  <2> QED BY <2>4, Retyped DEF CheckTarget, Stored
<1> QED BY <1>5, <1>6

LEMMA FirstDueTyped ==
    ASSUME StaffTyped, NEW h \in Staff, Running(h)
    PROVE  /\ FirstDue(h) \subseteq due[h]
           /\ due[h] \subseteq Int
           /\ {Old(h).vehicle} \X FirstDue(h) \subseteq Vehicles \X Int
<1>1. due[h] \subseteq Int /\ Old(h) \in Rows
  BY Typed, JobTypes DEF HandlersTyped
<1> QED BY <1>1 DEF FirstDue, Rows

LEMMA ReserveNextTyped ==
    ASSUME StaffTyped, NEW h \in Staff, ReserveNext(h)
    PROVE  StaffTyped'
<1> USE Typed
<1>1. /\ Running(h) /\ PhaseAt(h, pc[h]) /\ DueAt(h, pc[h], due[h])
      /\ Ids \subseteq Ids' /\ pc[h] \in {"reserve", "restore"}
  BY DEF ReserveNext, Running, HandlersTyped, Ids
<1> DEFINE D == due[h] \ FirstDue(h)
<1>2. D \in SUBSET Int /\ due' = [due EXCEPT ![h] = D]
  BY <1>1, FirstDueTyped DEF ReserveNext
<1>3. PICK label \in {"reserve", "restore", "unlock", "abort"} :
         /\ Goto(h, label)
         /\ label \in {"reserve", "restore"} => label = pc[h]
  BY <1>1 DEF ReserveNext, Goto, HandlersTyped
<1>4. PhaseAt(h, label) /\ DueAt(h, label, D)
  BY <1>1, <1>3 DEF PhaseAt, DueAt
<1> HIDE DEF D
<1>5. HandlersTyped'
  BY <1>1, <1>2, <1>3, <1>4, GoesOn DEF ReserveNext, Labels
<1>6. slots' \subseteq Vehicles \X Int
  BY <1>1, FirstDueTyped DEF ReserveNext, Stored
<1> QED BY <1>5, <1>6, Retyped DEF ReserveNext, Stored

LEMMA UnlockTyped ==
    ASSUME StaffTyped, NEW h \in Staff, Unlock(h)
    PROVE  StaffTyped'
<1> USE Typed
<1>1. Running(h) /\ PhaseAt(h, pc[h]) /\ Ids \subseteq Ids'
  BY DEF Unlock, Running, HandlersTyped, Ids
<1>2. HandlersTyped'
  <2>1. CASE pc[h] = "abort" /\ Answer(h)
    BY <1>1, <2>1, Answered
  <2>2. CASE pc[h] = "unlock" /\ Goto(h, "rate") /\ UNCHANGED <<job, due>>
    <3>1. PhaseAt(h, "rate") /\ DueAt(h, "rate", due[h])
      BY DEF PhaseAt, DueAt
    <3> QED BY <1>1, <2>2, <3>1, Proceeds DEF Labels
  <2> QED BY <2>1, <2>2 DEF Unlock
<1>3. locks' \in [Vehicles \X Days \X Days -> Staff \cup {Free}]
  <2>1. LockOf(New(h)) \in Vehicles \X Days \X Days
    BY <1>1, JobTypes, RowKeys
  <2> QED BY <2>1 DEF Unlock, Stored
<1> QED BY <1>2, <1>3, Retyped DEF Unlock, Stored

LEMMA RateTyped ==
    ASSUME StaffTyped, NEW h \in Staff, Rate(h)
    PROVE  StaffTyped'
<1> USE Typed
<1>1. Running(h) /\ Ids \subseteq Ids'
  BY DEF Rate, Running, Ids
<1>2. HandlersTyped'
  <2>1. CASE Answer(h)
    BY <1>1, <2>1, Answered
  <2>2. CASE Goto(h, "write") /\ UNCHANGED <<job, due>>
    <3>1. PhaseAt(h, "write") /\ DueAt(h, "write", due[h])
      BY DEF PhaseAt, DueAt
    <3> QED BY <1>1, <2>2, <3>1, Proceeds DEF Labels
  <2> QED BY <2>1, <2>2 DEF Rate
<1> QED BY <1>2, Retyped DEF Rate, Stored, Note

LEMMA WriteTyped ==
    ASSUME StaffTyped, NEW h \in Staff, Write(h)
    PROVE  StaffTyped'
<1> USE Typed
<1>1. Running(h) /\ rentals' = Written(h)
  BY DEF Write, Running
<1>2. rentals' \in Seq(Rows \cup {Deleted}) /\ Ids' = Ids
  BY <1>1, WriteEffect
<1>3. HandlersTyped'
  BY <1>2, Answered DEF Write
<1> QED BY <1>2, <1>3, Retyped DEF Write, Stored

LEMMA DeleteRowTyped ==
    ASSUME StaffTyped, NEW h \in Staff, DeleteRow(h)
    PROVE  StaffTyped'
<1> USE Typed
<1>1. Running(h) /\ rentals' = Removed(h)
  BY DEF DeleteRow, Running
<1>2. rentals' \in Seq(Rows \cup {Deleted}) /\ Ids' = Ids
  BY <1>1, RemoveEffect
<1>3. HandlersTyped'
  BY <1>2, Answered DEF DeleteRow
<1> QED BY <1>2, <1>3, Retyped DEF DeleteRow, Stored

LEMMA FailTyped ==
    ASSUME StaffTyped, NEW h \in Staff, Fail(h)
    PROVE  StaffTyped'
<1> USE Typed
<1>1. Running(h)
  BY DEF Fail, Running
<1>2. rentals' \in Seq(Rows \cup {Deleted}) /\ Ids' = Ids
  <2>1. CASE UNCHANGED rentals
    BY <2>1 DEF Stored, Ids
  <2>2. CASE rentals' = Written(h)
    BY <1>1, <2>2, WriteEffect
  <2>3. CASE rentals' = Removed(h)
    BY <1>1, <2>3, RemoveEffect
  <2> QED BY <2>1, <2>2, <2>3 DEF Fail
<1>3. slots' \subseteq Vehicles \X Int
  BY <1>1, FirstDueTyped DEF Fail, Stored
<1>4. locks' \in [Vehicles \X Days \X Days -> Staff \cup {Free}]
  BY DEF Fail, Stored
<1>5. HandlersTyped'
  <2>1. CASE Answer(h)
    BY <1>2, <2>1, Answered
  <2>2. CASE /\ pc[h] \in {"release", "check", "reserve", "restore"}
             /\ Goto(h, "abort")
             /\ UNCHANGED <<job, due>>
    <3>1. PhaseAt(h, pc[h])
      BY <1>1 DEF HandlersTyped
    <3>2. PhaseAt(h, "abort") /\ DueAt(h, "abort", due[h])
      BY <2>2, <3>1 DEF PhaseAt, DueAt
    <3> QED BY <1>1, <1>2, <2>2, <3>2, Proceeds DEF Labels
  <2> QED BY <2>1, <2>2 DEF Fail
<1> QED BY <1>2, <1>3, <1>4, <1>5, Retyped DEF Fail, Stored, Note

LEMMA RecordTyped ==
    ASSUME StaffTyped, NEW r \in pending, Record(r)
    PROVE  StaffTyped'
<1> USE Typed
<1>1. rentals' \in Seq(Rows \cup {Deleted}) /\ Ids \subseteq Ids'
  <2>1. CASE UNCHANGED rentals
    BY <2>1 DEF Stored, Ids
  <2>2. CASE rentals' = Append(rentals, RowOf(r))
    BY <2>2, RecordEffect DEF StaffTyped, Stored
  <2> QED BY <2>1, <2>2 DEF Record, RowOf
<1>2. HandlersTyped'
  BY <1>1, Bystander DEF Record
<1>3. slots' \subseteq slots /\ pending' \subseteq pending
  BY DEF Record
<1> QED BY <1>1, <1>2, <1>3, Retyped DEF Record, Stored

LEMMA TypedStep ==
    ASSUME StaffTyped, [Next]_vars
    PROVE  StaffTyped'
<1>1. ASSUME NEW h \in Staff, Handler(h)
      PROVE  StaffTyped'
  <2>1. CASE \E id \in Live : StartDelete(h, id)
    BY <2>1, StartDeleteTyped
  <2>2. CASE \E id \in Live : \E p \in Payloads : StartUpdate(h, id, p)
    BY <2>2, StartUpdateTyped
  <2>3. CASE LockIsTaken(h)
    <3>1. HandlersTyped'
      BY <2>3, Typed, Answered DEF LockIsTaken, Ids
    <3> QED BY <2>3, <3>1, Typed, Retyped DEF LockIsTaken, Stored
  <2> QED BY <1>1, <2>1, <2>2, <2>3, ReleaseOldTyped, LockTyped, CheckTargetTyped,
             ReserveNextTyped, UnlockTyped, RateTyped, WriteTyped, DeleteRowTyped
          DEF Handler
<1>2. ASSUME NEW h \in Staff, Fail(h)
      PROVE  StaffTyped'
  BY <1>2, FailTyped
<1>3. ASSUME NEW k \in DOMAIN locks, LockExpires(k)
      PROVE  StaffTyped'
  <2>1. HandlersTyped'
    BY <1>3, Typed, Bystander DEF LockExpires, Ids
  <2>2. locks' \in [Vehicles \X Days \X Days -> Staff \cup {Free}]
    BY <1>3, Typed DEF LockExpires, Stored
  <2> QED BY <1>3, <2>1, <2>2, Typed, Retyped DEF LockExpires, Stored
<1>4. ASSUME NEW r \in Requests, Book(r)
      PROVE  StaffTyped'
  <2>1. HandlersTyped'
    BY <1>4, Typed, Bystander DEF Book, Ids
  <2>2. slots' \subseteq Vehicles \X Int
    BY <1>4, Typed, RequestRow DEF Book, Stored
  <2> QED BY <1>4, <2>1, <2>2, Typed, Retyped DEF Book, Stored, Note
<1>5. ASSUME NEW r \in pending, Record(r)
      PROVE  StaffTyped'
  BY <1>5, RecordTyped
<1>6. CASE UNCHANGED vars
  BY <1>6 DEF vars, StaffTyped, TypeOK, HandlersTyped, Ids, Running, PhaseAt,
              DueAt, Old, New
<1> QED BY <1>1, <1>2, <1>3, <1>4, <1>5, <1>6 DEF Next, Quiet

LEMMA InitTyped ==
    ASSUME Init
    PROVE  StaffTyped
<1>1. HandlersTyped
  BY DEF Init, HandlersTyped, Labels, Running
<1>2. Stored
  BY DEF Init, Stored
<1>3. \A h \in Staff : pc[h] = "idle"
  BY DEF Init
<1> QED BY <1>1, <1>2, <1>3 DEF Stored, HandlersTyped, StaffTyped, TypeOK

\* Type correctness of the staff operations: updateRental and deleteRental
\* keep every row a row, whatever they had read, and every slot and lock that
\* they write is that of a vehicle and of dates.
THEOREM StaffTypeCorrect == Spec => []TypeOK
<1>1. Init => StaffTyped
  BY InitTyped
<1>2. StaffTyped /\ [Next]_vars => StaffTyped'
  BY TypedStep
<1>3. StaffTyped => TypeOK
  BY DEF StaffTyped
<1> QED BY <1>1, <1>2, <1>3, PTL DEF Spec
-----------------------------------------------------------------------------
(***************************************************************************)
(* One request after the other on a vehicle.                               *)
(***************************************************************************)
\* No handler takes a request, and none changes its job.
Narrows == \A g \in Staff : Running(g)' => Running(g) /\ job'[g] = job[g]

LEMMA StepNarrows ==
    ASSUME HandlersTyped, NEW h \in Staff, Running(h),
           \/ Answer(h)
           \/ UNCHANGED job /\ UNCHANGED pc
           \/ UNCHANGED job /\ \E label \in Labels : Goto(h, label)
    PROVE  Narrows
BY DEF HandlersTyped, Running, Answer, Goto, Narrows

\* The handlers whose requests do not overlap are about different rentals.
LEMMA DifferentRows ==
    ASSUME OneAtATime, RowsCurrent, NEW h \in Staff, Running(h)
    PROVE  \A g \in Staff \ {h} : Running(g) => job[g].id # job[h].id
BY DEF OneAtATime, RowsCurrent

LEMMA AloneKept ==
    ASSUME StaffTyped, AloneInv, Narrows, upset \subseteq upset',
           pending' \subseteq pending,
           "overlap" \notin upset /\ OneAtATime /\ RowsCurrent =>
               \A g \in Staff :
                   Running(g)' => rentals'[job[g].id] = rentals[job[g].id],
           RowsCurrent /\ DatesOnly /\ (\A id \in Live : BilledRight(rentals[id])) =>
               \A id \in Live' : BilledRight(rentals'[id])
    PROVE  AloneInv'
<1> SUFFICES ASSUME "overlap" \notin upset'
             PROVE  /\ OneAtATime' /\ RowsCurrent'
                    /\ DatesOnly => \A id \in Live' : BilledRight(rentals'[id])
  BY DEF AloneInv, BilledRight, Dates
<1>1. "overlap" \notin upset
  OBVIOUS
<1>2. OneAtATime /\ RowsCurrent
  BY <1>1 DEF AloneInv
<1>3. \A g \in Staff : Running(g)' => Running(g) /\ Old(g)' = Old(g) /\ job'[g] = job[g]
  BY DEF Narrows, Old
<1>4. OneAtATime'
  BY <1>2, <1>3 DEF OneAtATime
<1>5. RowsCurrent'
  BY <1>1, <1>2, <1>3 DEF RowsCurrent
<1> QED BY <1>1, <1>2, <1>4, <1>5 DEF AloneInv

\* The steps that leave the table alone.
LEMMA AloneAside ==
    ASSUME StaffTyped, AloneInv, Narrows, upset \subseteq upset',
           pending' \subseteq pending, UNCHANGED rentals
    PROVE  AloneInv'
<1>1. Live' = Live
  BY DEF Live, Ids
<1> QED BY <1>1, AloneKept

\* A range of days has as many days as it is charged for.
LEMMA DaysOfRange ==
    ASSUME NEW a \in Nat, NEW b \in Nat, a <= b
    PROVE  Cardinality(a .. b) = BilledDays(Midnight(a), Midnight(b))
<1>1. Cardinality(a .. b) = b - a + 1
  BY FS_Interval
<1>2. BilledDays(Midnight(a), Midnight(b)) = b - a + 1
  BY DEF BilledDays, Midnight
<1> QED BY <1>1, <1>2

LEMMA RewrittenBilled ==
    ASSUME StaffTyped, NEW h \in Staff, Running(h), rentals[job[h].id] = Old(h),
           BilledRight(Old(h))
    PROVE  BilledRight(Rewritten(h))
<1>1. /\ Old(h) \in Rows /\ New(h) \in Rows /\ Old(h) # Deleted
      /\ New(h) = Updated(Old(h), job[h].change)
  BY Typed, JobTypes, MarksAssumption
<1>2. /\ Rewritten(h) \in Rows
      /\ Rewritten(h).start = New(h).start /\ Rewritten(h).end = New(h).end
      /\ Rewritten(h).billed = IF Priced(h) = Keep THEN Old(h).billed ELSE Priced(h)
  BY <1>1, RewrittenRow
<1>3. /\ New(h).start \in Nat /\ New(h).end \in Nat
      /\ Old(h).start \in Nat /\ Old(h).end \in Nat
  BY <1>1, DaysAreNumbers DEF Rows
<1>4. CASE Moves(Old(h), New(h))
  <2>1. Priced(h) = BilledDays(Midnight(New(h).start), Midnight(New(h).end))
    BY <1>4 DEF Priced
  <2>2. Priced(h) # Keep
    <3>1. Priced(h) \in Nat
      BY <1>3, <2>1 DEF BilledDays, Midnight
    <3> QED BY <3>1, MarksAssumption
  <2>3. CASE New(h).start > New(h).end
    BY <1>2, <2>3 DEF BilledRight
  <2>4. CASE New(h).start <= New(h).end
    <3>1. Cardinality(New(h).start .. New(h).end) = Priced(h)
      BY <1>3, <2>1, <2>4, DaysOfRange
    <3> QED BY <1>2, <2>2, <3>1 DEF BilledRight, Dates
  <2> QED BY <1>3, <2>3, <2>4
<1>5. CASE ~Moves(Old(h), New(h))
  <2>1. /\ New(h).start = Old(h).start /\ New(h).end = Old(h).end
        /\ Priced(h) = Keep
    BY <1>5 DEF Moves, Priced
  <2> QED BY <1>2, <2>1 DEF BilledRight, Dates
<1> QED BY <1>4, <1>5

LEMMA WrittenBilled ==
    ASSUME StaffTyped, NEW h \in Staff, Running(h), rentals' = Written(h),
           RowsCurrent, \A id \in Live : BilledRight(rentals[id])
    PROVE  \A id \in Live' : BilledRight(rentals'[id])
<1>1. /\ rentals[job[h].id] = Old(h) /\ job[h].id \in Ids
      /\ Old(h) # Deleted
  BY Typed, JobTypes, MarksAssumption DEF RowsCurrent
<1>2. BilledRight(Old(h))
  BY <1>1 DEF Live
<1>3. rentals'[job[h].id] = Rewritten(h) /\ BilledRight(Rewritten(h))
  BY <1>1, <1>2, WriteEffect, RewrittenBilled
<1>4. \A id \in Live' : id # job[h].id => id \in Live /\ rentals'[id] = rentals[id]
  BY WriteEffect DEF Live
<1> TAKE id \in Live'
<1>5. CASE id = job[h].id
  BY <1>3, <1>5
<1>6. CASE id # job[h].id
  BY <1>4, <1>6
<1> QED BY <1>5, <1>6

LEMMA RemovedBilled ==
    ASSUME StaffTyped, NEW h \in Staff, Running(h), rentals' = Removed(h),
           \A id \in Live : BilledRight(rentals[id])
    PROVE  \A id \in Live' : BilledRight(rentals'[id])
<1>1. \A id \in Live' : id \in Live /\ rentals'[id] = rentals[id]
  BY RemoveEffect DEF Live
<1> QED BY <1>1

\* The UPDATE or the DELETE with which a handler ends.
LEMMA AloneEnd ==
    ASSUME StaffTyped, AloneInv, NEW h \in Staff, Running(h), Answer(h),
           rentals' = Written(h) \/ rentals' = Removed(h),
           upset \subseteq upset', UNCHANGED pending
    PROVE  AloneInv'
<1>1. Narrows
  BY Typed, StepNarrows
<1>2. \A i \in Ids \ {job[h].id} : rentals'[i] = rentals[i]
  BY WriteEffect, RemoveEffect
<1>3. \A g \in Staff : Running(g)' => g # h /\ Running(g) /\ job[g].id \in Ids
  BY <1>1, Typed DEF Answer, Goto, Running, HandlersTyped, Narrows
<1>4. OneAtATime /\ RowsCurrent =>
          \A g \in Staff : Running(g)' => rentals'[job[g].id] = rentals[job[g].id]
  BY <1>2, <1>3, DifferentRows
<1>5. RowsCurrent /\ (\A id \in Live : BilledRight(rentals[id])) =>
          \A id \in Live' : BilledRight(rentals'[id])
  BY WrittenBilled, RemovedBilled
<1> QED BY <1>1, <1>4, <1>5, AloneKept

\* A request that begins.
LEMMA AloneBegin ==
    ASSUME StaffTyped, AloneInv, NEW h \in Staff, NEW id \in Live,
           NEW change, NEW label, Begin(h, label, id, change),
           NotesOverlap(rentals[id].vehicle), UNCHANGED <<rentals, pending>>
    PROVE  AloneInv'
<1> SUFFICES ASSUME "overlap" \notin upset'
             PROVE  /\ OneAtATime' /\ RowsCurrent'
                    /\ DatesOnly => \A i \in Live' : BilledRight(rentals'[i])
  BY DEF AloneInv, BilledRight, Dates
<1> DEFINE v == rentals[id].vehicle
<1>1. "overlap" \notin upset /\ ~Busy(v) /\ ~Queued(v)
  BY DEF NotesOverlap, Note
<1>2. OneAtATime /\ RowsCurrent
  BY <1>1 DEF AloneInv
<1>3. /\ ~Running(h) /\ job'[h].id = id /\ Old(h)' = rentals[id]
      /\ \A g \in Staff \ {h} : /\ Running(g)' = Running(g) /\ job'[g] = job[g]
                                /\ Old(g)' = Old(g)
  <2>1. job'[h] = [id |-> id, old |-> rentals[id], change |-> change]
    BY Typed DEF Begin, HandlersTyped
  <2> QED BY <2>1, Typed DEF Begin, Goto, HandlersTyped, Running, Old
<1>4. \A g \in Staff \ {h} : Running(g) => Old(g).vehicle # v
  BY <1>1 DEF Busy, Running
<1>5. \A r \in pending : r.vehicle # v
  BY <1>1 DEF Queued
<1> HIDE DEF v
<1>6. OneAtATime'
  BY <1>2, <1>3, <1>4, <1>5 DEF OneAtATime, v
<1>7. RowsCurrent'
  BY <1>2, <1>3 DEF RowsCurrent
<1>8. Live' = Live
  BY DEF Live, Ids
<1> QED BY <1>1, <1>6, <1>7, <1>8 DEF AloneInv

LEMMA AloneBook ==
    ASSUME StaffTyped, AloneInv, NEW r \in Requests, Book(r)
    PROVE  AloneInv'
<1> SUFFICES ASSUME "overlap" \notin upset'
             PROVE  /\ OneAtATime' /\ RowsCurrent'
                    /\ DatesOnly => \A i \in Live' : BilledRight(rentals'[i])
  BY DEF AloneInv, BilledRight, Dates
<1>1. "overlap" \notin upset /\ ~Busy(r.vehicle) /\ pending' = pending \cup {r}
  BY DEF Book, Note
<1>2. \A g \in Staff : /\ Running(g)' = Running(g) /\ job'[g] = job[g]
                       /\ Old(g)' = Old(g)
  BY DEF Book, Running, Old
<1>3. \A g \in Staff : Running(g) => Old(g).vehicle # r.vehicle
  BY <1>1 DEF Busy, Running
<1>4. OneAtATime /\ RowsCurrent
  BY <1>1 DEF AloneInv
<1>5. OneAtATime'
  BY <1>1, <1>2, <1>3, <1>4 DEF OneAtATime
<1>6. RowsCurrent' /\ Live' = Live /\ rentals' = rentals
  BY <1>2, <1>4 DEF RowsCurrent, Book, Live, Ids
<1> QED BY <1>1, <1>5, <1>6 DEF AloneInv

LEMMA AloneRecord ==
    ASSUME StaffTyped, AloneInv, NEW r \in pending, Record(r)
    PROVE  AloneInv'
<1>1. Narrows /\ upset \subseteq upset' /\ pending' \subseteq pending /\ r \in Requests
  BY Typed DEF Record, Narrows, Running, Stored
<1>2. CASE UNCHANGED rentals
  BY <1>1, <1>2, AloneAside
<1>3. CASE rentals' = Append(rentals, RowOf(r))
  <2>1. PICK id : /\ id \notin Ids /\ Ids' = Ids \cup {id}
                  /\ rentals'[id] = RowOf(r)
                  /\ \A i \in Ids : rentals'[i] = rentals[i]
    BY <1>1, <1>3, RecordEffect DEF StaffTyped
  <2>2. \A g \in Staff : Running(g)' => rentals'[job[g].id] = rentals[job[g].id]
    BY <1>1, <2>1, Typed DEF Narrows, HandlersTyped
  <2>3. ASSUME DatesOnly
        PROVE  BilledRight(RowOf(r))
    <3>1. /\ r.start.day \in Nat /\ r.end.day \in Nat
          /\ r.start.day <= r.end.day
          /\ r.start.time = 0 /\ r.end.time = 0
      BY <1>1, <2>3, RequestRow
    <3>2. BilledDays(r.start, r.end)
              = BilledDays(Midnight(r.start.day), Midnight(r.end.day))
      BY <3>1 DEF BilledDays, Midnight
    <3>3. Cardinality(r.start.day .. r.end.day) = BilledDays(r.start, r.end)
      BY <3>1, <3>2, DaysOfRange
    <3> QED BY <3>3 DEF BilledRight, RowOf, Dates
  <2>4. \A i \in Live' : i = id \/ (i \in Live /\ rentals'[i] = rentals[i])
    BY <2>1 DEF Live
  <2>5. DatesOnly /\ (\A i \in Live : BilledRight(rentals[i])) =>
            \A i \in Live' : BilledRight(rentals'[i])
    BY <2>1, <2>3, <2>4
  <2> QED BY <1>1, <2>2, <2>5, AloneKept
<1> QED BY <1>2, <1>3 DEF Record, RowOf

LEMMA AloneHandler ==
    ASSUME StaffTyped, AloneInv, NEW h \in Staff, Handler(h)
    PROVE  AloneInv'
<1>1. CASE \E id \in Live : StartDelete(h, id)
  BY <1>1, AloneBegin DEF StartDelete
<1>2. CASE \E id \in Live : \E p \in Payloads : StartUpdate(h, id, p)
  BY <1>2, AloneBegin DEF StartUpdate
<1>3. CASE Write(h)
  <2>1. Running(h) /\ upset \subseteq upset'
    BY <1>3 DEF Write, Running
  <2> QED BY <1>3, <2>1, AloneEnd DEF Write
<1>4. CASE DeleteRow(h)
  <2>1. Running(h) /\ upset \subseteq upset'
    BY <1>4 DEF DeleteRow, Running
  <2> QED BY <1>4, <2>1, AloneEnd DEF DeleteRow
<1>5. CASE \/ ReleaseOld(h) \/ Lock(h) \/ LockIsTaken(h) \/ CheckTarget(h)
           \/ ReserveNext(h) \/ Unlock(h) \/ Rate(h)
  <2>1. Running(h) /\ upset \subseteq upset' /\ UNCHANGED <<rentals, pending>>
    BY <1>5 DEF ReleaseOld, Lock, LockIsTaken, CheckTarget, ReserveNext, Unlock,
                Rate, Running, Note
  <2>2. \/ Answer(h)
        \/ UNCHANGED job /\ UNCHANGED pc
        \/ UNCHANGED job /\ \E label \in Labels : Goto(h, label)
    BY <1>5 DEF ReleaseOld, Lock, LockIsTaken, CheckTarget, ReserveNext, Unlock,
                Rate, AfterSlots, Labels
  <2> QED BY <2>1, <2>2, Typed, StepNarrows, AloneAside
<1> QED BY <1>1, <1>2, <1>3, <1>4, <1>5 DEF Handler

LEMMA AloneFail ==
    ASSUME StaffTyped, AloneInv, NEW h \in Staff, Fail(h)
    PROVE  AloneInv'
<1>1. Running(h) /\ upset \subseteq upset' /\ UNCHANGED pending
  BY DEF Fail, Running, Note
<1>2. CASE UNCHANGED rentals
  <2>1. Answer(h) \/ (UNCHANGED job /\ \E label \in Labels : Goto(h, label))
    BY DEF Fail, Labels
  <2> QED BY <1>1, <1>2, <2>1, Typed, StepNarrows, AloneAside
<1>3. CASE ~UNCHANGED rentals
  <2>1. Answer(h) /\ (rentals' = Written(h) \/ rentals' = Removed(h))
    BY <1>3 DEF Fail
  <2> QED BY <1>1, <2>1, AloneEnd
<1> QED BY <1>2, <1>3

LEMMA AloneStep ==
    ASSUME StaffTyped, AloneInv, [Next]_vars
    PROVE  AloneInv'
<1>1. ASSUME NEW k \in DOMAIN locks, LockExpires(k)
      PROVE  AloneInv'
  <2>1. Narrows /\ UNCHANGED <<rentals, pending, upset>>
    BY <1>1 DEF LockExpires, Narrows, Running
  <2> QED BY <2>1, AloneAside
<1>2. CASE UNCHANGED vars
  <2>1. Narrows /\ UNCHANGED <<rentals, pending, upset>>
    BY <1>2 DEF vars, Narrows, Running
  <2> QED BY <2>1, AloneAside
<1> QED BY <1>1, <1>2, AloneHandler, AloneFail, AloneBook, AloneRecord
        DEF Next, Quiet

\* A rental is charged for the days it has, as long as no two requests on one
\* vehicle overlap in time, whatever fails half-way: the price that the UPDATE
\* of updateRental writes, computed from the row read several awaits earlier,
\* is that of the dates in the row it writes to.
THEOREM ChargedForItsDays == Spec => []BilledByDates
<1>1. Init => StaffTyped /\ AloneInv
  <2>1. Init => AloneInv
    <3>1. Init => Live = {}
      BY DEF Init, Live, Ids
    <3>2. Init => \A h \in Staff : ~Running(h)
      BY DEF Init, Running
    <3> QED BY <3>1, <3>2 DEF AloneInv, OneAtATime, RowsCurrent
  <2> QED BY <2>1, InitTyped
<1>2. StaffTyped /\ AloneInv /\ [Next]_vars => StaffTyped' /\ AloneInv'
  BY TypedStep, AloneStep
<1>3. StaffTyped /\ AloneInv => BilledByDates
  BY DEF AloneInv, BilledByDates, BilledRight
<1> QED BY <1>1, <1>2, <1>3, PTL DEF Spec
-----------------------------------------------------------------------------
(***************************************************************************)
(* Slots and table.                                                        *)
(***************************************************************************)
Kept ==
    SlotsAccounted /\ RowsForward /\ DatesApart /\ PendingApart /\ TargetsApart

Calm == StaffTyped /\ DatesOnly /\ OneAtATime /\ RowsCurrent /\ Kept

\* Ranges of different vehicles have no key in common.
LEMMA VehiclesApart ==
    ASSUME NEW u, NEW v, u # v, NEW D, NEW E
    PROVE  ({u} \X D) \cap ({v} \X E) = {}
OBVIOUS

\* The row of a running handler, and the keys that it is about.
LEMMA RunningRow ==
    ASSUME Calm, NEW h \in Staff, Running(h)
    PROVE  /\ Old(h) \in Rows /\ New(h) \in Rows /\ Old(h) # Deleted
           /\ New(h).vehicle = Old(h).vehicle
           /\ job[h].id \in Ids /\ job[h].id \in Live
           /\ rentals[job[h].id] = Old(h)
           /\ Old(h).status # "cancelled" => job[h].id \in Active
           /\ Keys(Old(h)) = {Old(h).vehicle} \X Dates(Old(h))
           /\ Keys(New(h)) = {Old(h).vehicle} \X Dates(New(h))
           /\ PhaseAt(h, pc[h]) /\ DueAt(h, pc[h], due[h])
<1>1. HandlersTyped /\ RowsCurrent
  BY DEF Calm, StaffTyped
<1>2. /\ Old(h) \in Rows /\ New(h) \in Rows /\ Old(h) # Deleted
      /\ New(h).vehicle = Old(h).vehicle /\ job[h].id \in Ids
      /\ rentals[job[h].id] = Old(h)
      /\ PhaseAt(h, pc[h]) /\ DueAt(h, pc[h], due[h])
  BY <1>1, JobTypes, MarksAssumption DEF HandlersTyped, RowsCurrent
<1> QED BY <1>2 DEF Live, Active, Keys

\* What a handler holds, it holds for its old row or for its new one.
LEMMA HeldKeys ==
    ASSUME Calm, NEW h \in Staff
    PROVE  \/ Held(h) = {}
           \/ Running(h) /\ job[h].id \in Active /\ Held(h) \subseteq Keys(Old(h))
           \/ Running(h) /\ Aims(h) /\ Held(h) \subseteq Keys(New(h))
<1>1. CASE ~Running(h)
  BY <1>1 DEF Running, Held
<1>2. CASE Running(h)
  <2>0. /\ Keys(Old(h)) = {Old(h).vehicle} \X Dates(Old(h))
        /\ Keys(New(h)) = {Old(h).vehicle} \X Dates(New(h))
        /\ Old(h).status # "cancelled" => job[h].id \in Active
        /\ PhaseAt(h, pc[h])
    BY <1>2, RunningRow
  <2>1. CASE pc[h] \in {"evict", "lock", "release", "abort", "purge", "restore"}
    <3>1. Held(h) \subseteq Keys(Old(h))
      BY <2>0, <2>1 DEF Held
    <3> QED BY <1>2, <2>0, <2>1, <3>1 DEF PhaseAt
  <2>2. CASE pc[h] \in {"reserve", "unlock"}
    BY <1>2, <2>0, <2>2 DEF Held, Aims
  <2>3. CASE pc[h] \notin {"evict", "lock", "release", "abort", "purge", "restore",
                           "reserve", "unlock"}
    BY <1>2, <2>3 DEF Held, Aims
  <2> QED BY <2>1, <2>2, <2>3
<1> QED BY <1>1, <1>2

\* It shares no slot with a rental that nobody is working on, with a booking
\* under way or with another handler.
LEMMA HeldApart ==
    ASSUME Calm, NEW h \in Staff
    PROVE  /\ Held(h) \cap Settled = {}
           /\ Held(h) \cap Promised = {}
           /\ \A g \in Staff \ {h} : Held(h) \cap Held(g) = {}
<1>1. CASE Held(h) = {}
  BY <1>1
<1>2. CASE Held(h) # {}
  <2>1. Running(h)
    BY <1>2, HeldKeys
  <2>2. \A g \in Staff : Held(g) # {} =>
            Running(g) /\ Held(g) \subseteq {Old(g).vehicle} \X Int
    <3> TAKE g \in Staff
    <3> HAVE Held(g) # {}
    <3>1. /\ Running(g)
          /\ Held(g) \subseteq Keys(Old(g)) \/ Held(g) \subseteq Keys(New(g))
      BY HeldKeys
    <3>2. /\ Keys(Old(g)) = {Old(g).vehicle} \X Dates(Old(g))
          /\ Keys(New(g)) = {Old(g).vehicle} \X Dates(New(g))
          /\ Dates(Old(g)) \subseteq Int /\ Dates(New(g)) \subseteq Int
      BY <3>1, RunningRow, RowKeys
    <3> QED BY <3>1, <3>2
  <2>3. ASSUME NEW g \in Staff \ {h}
        PROVE  Held(h) \cap Held(g) = {}
    <3>1. CASE Held(g) = {}
      BY <3>1
    <3>2. CASE Held(g) # {}
      <4>1. Old(g).vehicle # Old(h).vehicle
        BY <2>1, <2>2, <3>2 DEF Calm, OneAtATime
      <4> QED BY <1>2, <2>2, <3>2, <4>1
    <3> QED BY <3>1, <3>2
  <2>4. Held(h) \cap Promised = {}
    <3>1. \A r \in pending : SlotKeys(r) \cap Held(h) = {}
      BY <1>2, <2>1, <2>2 DEF Calm, OneAtATime, SlotKeys
    <3> QED BY <3>1 DEF Promised
  <2>5. Held(h) \cap Settled = {}
    <3>1. ASSUME NEW id \in Active \ InHand
          PROVE  Held(h) \cap Keys(rentals[id]) = {}
      <4>1. id # job[h].id
        BY <2>1 DEF InHand
      <4>2. CASE job[h].id \in Active /\ Held(h) \subseteq Keys(Old(h))
        BY <2>1, <4>1, <4>2, RunningRow DEF Calm, Kept, DatesApart
      <4>3. CASE Aims(h) /\ Held(h) \subseteq Keys(New(h))
        BY <4>1, <4>3 DEF Calm, Kept, TargetsApart
      <4> QED BY <1>2, <4>2, <4>3, HeldKeys
    <3> QED BY <3>1 DEF Settled
  <2> QED BY <2>3, <2>4, <2>5
<1> QED BY <1>1, <1>2

\* What the rentals in hand do not have, the others do.
LEMMA KeysReserved ==
    ASSUME Calm
    PROVE  /\ \A id \in Active \ InHand : Keys(rentals[id]) \subseteq slots
           /\ \A r \in pending : SlotKeys(r) \subseteq slots
           /\ \A h \in Staff : Held(h) \subseteq slots
BY DEF Calm, Kept, SlotsAccounted, Settled, Promised

\* A handler that goes on, with other slots than before.
LEMMA Moved ==
    ASSUME Calm, NEW h \in Staff, Running(h), Running(h)',
           \A g \in Staff \ {h} : pc'[g] = pc[g] /\ due'[g] = due[g],
           UNCHANGED <<rentals, pending, job>>,
           slots' = (slots \ Held(h)) \cup Held(h)',
           Aims(h)' => \A id \in Active \ {job[h].id} :
                           Keys(New(h)) \cap Keys(rentals[id]) = {}
    PROVE  Kept'
<1>1. \A g \in Staff : Old(g)' = Old(g) /\ New(g)' = New(g) /\ job'[g] = job[g]
  BY DEF Old, New
<1>2. \A g \in Staff \ {h} : Held(g)' = Held(g)
  BY <1>1 DEF Held
<1>3. \A g \in Staff \ {h} : Aims(g)' => Aims(g)
  BY <1>1 DEF Aims
<1>4. \A g \in Staff : Running(g)' <=> Running(g)
  BY DEF Running
<1>5. Active' = Active /\ InHand' = InHand
  <2>1. Active' = Active
    BY DEF Active, Live, Ids
  <2>2. {g \in Staff : Running(g)'} = {g \in Staff : Running(g)}
    BY <1>4
  <2> QED BY <2>1, <2>2 DEF InHand
<1>6. Settled' = Settled /\ Promised' = Promised
  BY <1>5 DEF Settled, Promised
<1>7. SlotsAccounted'
  <2> DEFINE others == UNION {Held(g) : g \in Staff \ {h}}
  <2>1. UNION {Held(g) : g \in Staff} = others \cup Held(h)
    OBVIOUS
  <2>2. UNION {Held(g)' : g \in Staff} = others \cup Held(h)'
    BY <1>2
  <2>3. /\ Held(h) \cap others = {} /\ Held(h) \cap Settled = {}
        /\ Held(h) \cap Promised = {}
    BY HeldApart
  <2> HIDE DEF others
  <2>4. slots = Settled \cup Promised \cup others \cup Held(h)
    BY <2>1 DEF Calm, Kept, SlotsAccounted
  <2>5. slots' = Settled \cup Promised \cup others \cup Held(h)'
    BY <2>3, <2>4
  <2> QED BY <1>6, <2>2, <2>5 DEF SlotsAccounted
<1>8. RowsForward' /\ DatesApart' /\ PendingApart'
  <2>1. Live' = Live /\ rentals' = rentals
    BY DEF Live, Ids
  <2> QED BY <1>5, <2>1 DEF Calm, Kept, RowsForward, DatesApart, PendingApart
<1>9. TargetsApart'
  <2>1. \A g \in Staff : Aims(g)' =>
            \A id \in Active \ {job[g].id} : Keys(New(g)) \cap Keys(rentals[id]) = {}
    BY <1>3 DEF Calm, Kept, TargetsApart
  <2> QED BY <1>1, <1>5, <2>1 DEF TargetsApart
<1> QED BY <1>7, <1>8, <1>9 DEF Kept

\* A handler that answers and leaves its slots to its rental.
LEMMA Ended ==
    ASSUME Calm, NEW h \in Staff, Running(h), Answer(h),
           UNCHANGED <<slots, pending>>, Ids' = Ids,
           \A i \in Ids \ {job[h].id} : rentals'[i] = rentals[i],
           Held(h) = IF job[h].id \in Active' THEN Keys(rentals'[job[h].id]) ELSE {},
           job[h].id \in Active' =>
               /\ rentals'[job[h].id].vehicle = Old(h).vehicle
               /\ \A i \in Active \ {job[h].id} :
                     Keys(rentals'[job[h].id]) \cap Keys(rentals[i]) = {},
           job[h].id \in Live' =>
               rentals'[job[h].id].start <= rentals'[job[h].id].end
    PROVE  Kept'
<1> DEFINE id == job[h].id
<1> USE DEF Calm, Kept
<1>1. /\ pc'[h] = "idle" /\ \A g \in Staff \ {h} : /\ pc'[g] = pc[g]
                                                   /\ job'[g] = job[g]
                                                   /\ due'[g] = due[g]
  BY Typed DEF Answer, Goto, HandlersTyped
<1>2. \A g \in Staff \ {h} : /\ Old(g)' = Old(g) /\ New(g)' = New(g)
                             /\ Running(g)' <=> Running(g)
  BY <1>1 DEF Old, New, Running
<1>3. Held(h)' = {} /\ \A g \in Staff \ {h} : Held(g)' = Held(g)
  BY <1>1, <1>2 DEF Held
<1>4. ~Aims(h)' /\ \A g \in Staff \ {h} : Aims(g)' => Aims(g) /\ Running(g)
  BY <1>1, <1>2 DEF Aims, Running
<1>5. ~Running(h)'
  BY <1>1 DEF Running
<1>6. id \in Ids /\ \A g \in Staff \ {h} : Running(g) => job[g].id # id
  BY RunningRow, DifferentRows
<1>7. InHand' = InHand \ {id}
  BY <1>1, <1>2, <1>5, <1>6 DEF InHand
<1>8. \A i : i # id => /\ i \in Live' <=> i \in Live
                       /\ i \in Active' <=> i \in Active
                       /\ i \in Live => rentals'[i] = rentals[i]
                       /\ i \in Active => i \in Live
  BY DEF Live, Active
<1>9. id \in InHand
  BY DEF InHand
<1> HIDE DEF id
<1>10. Settled' = Settled \cup Held(h)
  <2>1. Settled' = UNION {Keys(rentals'[i]) : i \in Active' \ InHand'}
    BY DEF Settled, Keys, Dates
  <2>2. CASE id \in Active'
    <3>1. Active' \ InHand' = (Active \ InHand) \cup {id}
      BY <1>7, <1>8, <1>9, <2>2
    <3>2. \A i \in Active \ InHand : rentals'[i] = rentals[i]
      BY <1>8, <1>9
    <3>3. Held(h) = Keys(rentals'[id])
      BY <2>2 DEF id
    <3> QED BY <2>1, <3>1, <3>2, <3>3 DEF Settled
  <2>3. CASE id \notin Active'
    <3>1. Active' \ InHand' = Active \ InHand
      BY <1>7, <1>8, <1>9, <2>3
    <3>2. \A i \in Active \ InHand : rentals'[i] = rentals[i]
      BY <1>8, <1>9
    <3>3. Held(h) = {}
      BY <2>3 DEF id
    <3> QED BY <2>1, <3>1, <3>2, <3>3 DEF Settled
  <2> QED BY <2>2, <2>3
<1>11. SlotsAccounted'
  <2> DEFINE others == UNION {Held(g) : g \in Staff \ {h}}
  <2>1. UNION {Held(g) : g \in Staff} = others \cup Held(h)
    OBVIOUS
  <2>2. UNION {Held(g)' : g \in Staff} = others
    BY <1>3
  <2> HIDE DEF others
  <2>3. Promised' = Promised
    BY DEF Promised
  <2>4. slots' = Settled \cup Promised \cup others \cup Held(h)
    BY <2>1 DEF SlotsAccounted
  <2> QED BY <1>10, <2>2, <2>3, <2>4 DEF SlotsAccounted
<1>12. RowsForward'
  BY <1>8 DEF RowsForward, id
<1>13. DatesApart'
  <2>1. ASSUME NEW a \in Active', NEW b \in Active', a # b
        PROVE  Keys(rentals'[a]) \cap Keys(rentals'[b]) = {}
    <3>1. CASE a # id /\ b # id
      BY <1>8, <2>1, <3>1 DEF DatesApart
    <3>2. CASE a = id
      <4>1. b \in Active \ {id} /\ rentals'[b] = rentals[b]
        BY <1>8, <2>1, <3>2
      <4> QED BY <3>2, <4>1 DEF id
    <3>3. CASE b = id
      <4>1. a \in Active \ {id} /\ rentals'[a] = rentals[a]
        BY <1>8, <2>1, <3>3
      <4> QED BY <3>3, <4>1 DEF id
    <3> QED BY <3>1, <3>2, <3>3
  <2> QED BY <2>1 DEF DatesApart, Keys, Dates
<1>14. PendingApart'
  <2>1. ASSUME NEW r \in pending, NEW i \in Active'
        PROVE  SlotKeys(r) \cap Keys(rentals'[i]) = {}
    <3>1. CASE i # id
      BY <1>8, <3>1 DEF PendingApart
    <3>2. CASE i = id
      <4>1. r.vehicle # rentals'[id].vehicle
        BY <3>2 DEF OneAtATime, id
      <4> QED BY <3>2, <4>1, VehiclesApart DEF SlotKeys, Keys
    <3> QED BY <3>1, <3>2
  <2> QED BY <2>1 DEF PendingApart, Keys, Dates
<1>15. TargetsApart'
  <2>1. ASSUME NEW g \in Staff \ {h}, Aims(g)', NEW i \in Active', i # job[g].id
        PROVE  Keys(New(g)) \cap Keys(rentals'[i]) = {}
    <3>1. Aims(g) /\ Running(g)
      BY <1>4, <2>1
    <3>2. CASE i # id
      BY <1>8, <2>1, <3>1, <3>2 DEF TargetsApart
    <3>3. CASE i = id
      <4>1. Old(g).vehicle # rentals'[id].vehicle /\ New(g).vehicle = Old(g).vehicle
        BY <3>1, <3>3, RunningRow DEF OneAtATime, id
      <4> QED BY <3>3, <4>1, VehiclesApart DEF Keys
    <3> QED BY <3>2, <3>3
  <2>2. \A g \in Staff : Aims(g)' => /\ g \in Staff \ {h} /\ job'[g] = job[g]
                                     /\ New(g)' = New(g)
    BY <1>1, <1>2, <1>4
  <2>3. ASSUME NEW g \in Staff, Aims(g)', NEW i \in Active' \ {job'[g].id}
        PROVE  Keys(New(g)') \cap Keys(rentals'[i]) = {}
    BY <2>1, <2>2, <2>3
  <2> QED BY <2>3 DEF TargetsApart, Keys, Dates
<1> QED BY <1>11, <1>12, <1>13, <1>14, <1>15

\* A handler that takes a request holds the slots of the rental it has read.
LEMMA Took ==
    ASSUME Calm, NEW h \in Staff, NEW id \in Live, NEW change, NEW label,
           Begin(h, label, id, change), label # "idle",
           ~Busy(rentals[id].vehicle), UNCHANGED <<rentals, slots, pending, due>>,
           Held(h)' = IF id \in Active THEN Keys(rentals[id]) ELSE {},
           Aims(h)' => /\ Keys(New(h)') = Keys(rentals[id])
                       /\ id \in Active
    PROVE  Kept'
<1> USE DEF Calm, Kept
<1>1. /\ pc[h] = "idle" /\ pc'[h] = label
      /\ job'[h] = [id |-> id, old |-> rentals[id], change |-> change]
      /\ \A g \in Staff \ {h} : pc'[g] = pc[g] /\ job'[g] = job[g]
  BY Typed DEF Begin, Goto, HandlersTyped
<1>2. \A g \in Staff \ {h} : /\ Old(g)' = Old(g) /\ New(g)' = New(g)
                             /\ Running(g)' <=> Running(g)
  BY <1>1 DEF Old, New, Running
<1>3. Held(h) = {} /\ \A g \in Staff \ {h} : Held(g)' = Held(g)
  BY <1>1, <1>2 DEF Held
<1>4. \A g \in Staff \ {h} : Aims(g)' => Aims(g)
  BY <1>1, <1>2 DEF Aims
<1>5. Running(h)' /\ ~Running(h)
  BY <1>1 DEF Running
<1>6. InHand' = InHand \cup {id}
  BY <1>1, <1>2, <1>5 DEF InHand
<1>7. id \notin InHand
  BY <1>5 DEF InHand, Busy, Running, RowsCurrent
<1>8. Active' = Active /\ Live' = Live
  BY DEF Active, Live, Ids
<1>9. Settled = Settled' \cup Held(h)'
  <2>1. Settled' = UNION {Keys(rentals[i]) : i \in Active \ (InHand \cup {id})}
    BY <1>6, <1>8 DEF Settled, Keys, Dates
  <2>2. CASE id \in Active
    <3>1. Active \ InHand = (Active \ (InHand \cup {id})) \cup {id}
      BY <1>7, <2>2
    <3> QED BY <2>1, <2>2, <3>1 DEF Settled
  <2>3. CASE id \notin Active
    <3>1. Active \ InHand = Active \ (InHand \cup {id})
      BY <2>3
    <3> QED BY <2>1, <2>3, <3>1 DEF Settled
  <2> QED BY <2>2, <2>3
<1>10. SlotsAccounted'
  <2> DEFINE others == UNION {Held(g) : g \in Staff \ {h}}
  <2>1. UNION {Held(g) : g \in Staff} = others
    BY <1>3
  <2>2. UNION {Held(g)' : g \in Staff} = others \cup Held(h)'
    BY <1>3
  <2> HIDE DEF others
  <2>3. Promised' = Promised
    BY DEF Promised
  <2> QED BY <1>9, <2>1, <2>2, <2>3 DEF SlotsAccounted
<1>11. RowsForward' /\ DatesApart' /\ PendingApart'
  BY <1>8 DEF RowsForward, DatesApart, PendingApart
<1>12. TargetsApart'
  <2>1. ASSUME NEW g \in Staff, Aims(g)', NEW i \in Active \ {job'[g].id}
        PROVE  Keys(New(g)') \cap Keys(rentals[i]) = {}
    <3>1. CASE g = h
      BY <1>1, <2>1, <3>1 DEF DatesApart
    <3>2. CASE g # h
      BY <1>1, <1>2, <1>4, <2>1, <3>2 DEF TargetsApart
    <3> QED BY <3>1, <3>2
  <2> QED BY <1>8, <2>1 DEF TargetsApart, Keys, Dates
<1> QED BY <1>10, <1>11, <1>12

\* The rows of an update that changes no date have the same keys.
LEMMA SameKeys ==
    ASSUME NEW row \in Rows, NEW p \in Payloads, ~Moves(row, Updated(row, p))
    PROVE  Keys(Updated(row, p)) = Keys(row)
<1> DEFINE new == Updated(row, p)
<1>1. new.vehicle = row.vehicle
  BY UpdatedRow
<1>2. new.start = row.start /\ new.end = row.end
  BY DEF Moves
<1> HIDE DEF new
<1>3. Keys(new) = Keys(row)
  BY <1>1, <1>2 DEF Keys, Dates
<1> QED BY <1>3 DEF new

LEMMA StartUpdateKeeps ==
    ASSUME Calm, NEW h \in Staff, NEW id \in Live, NEW p \in Payloads,
           StartUpdate(h, id, p), upset' = {}
    PROVE  Kept'
<1> DEFINE old == rentals[id]
           new == Updated(old, p)
           label == Branch(old, new)
<1>1. /\ Begin(h, label, id, p) /\ UNCHANGED <<rentals, slots, pending, due>>
      /\ ~Busy(old.vehicle)
  BY DEF StartUpdate, NotesOverlap, Note
<1>2. /\ label \in {"evict", "lock", "rate", "write"}
      /\ label \in {"evict", "lock"} => old.status # "cancelled"
      /\ label \in {"rate", "write"} /\ old.status # "cancelled" =>
             new.status # "cancelled" /\ ~Moves(old, new)
  BY DEF Branch, AfterSlots, Cancels
<1>3. old \in Rows
  BY DEF Calm, StaffTyped, TypeOK, Live, Ids
<1>4. ~Moves(old, new) => Keys(new) = Keys(old)
  BY <1>3, SameKeys
<1>5. id \in Active <=> old.status # "cancelled"
  BY DEF Active
<1> HIDE DEF old, new, label
<1>6. /\ pc'[h] = label
      /\ job'[h] = [id |-> id, old |-> old, change |-> p]
  BY <1>1 DEF Calm, StaffTyped, HandlersTyped, Begin, Goto, old
<1>7. Old(h)' = old /\ New(h)' = new
  BY <1>6 DEF Old, New, new
<1>8. Held(h)' = IF id \in Active THEN Keys(old) ELSE {}
  <2>1. Keys(Old(h))' = Keys(old) /\ Keys(New(h))' = Keys(new)
    BY <1>7 DEF Keys, Dates
  <2> QED BY <1>2, <1>4, <1>5, <1>6, <1>7, <2>1 DEF Held
<1>9. Aims(h)' => Keys(new) = Keys(old) /\ id \in Active
  BY <1>2, <1>4, <1>5, <1>6, <1>7 DEF Aims
<1>10. label # "idle"
  BY <1>2
<1> QED BY <1>1, <1>7, <1>8, <1>9, <1>10, Took DEF old

LEMMA StartDeleteKeeps ==
    ASSUME Calm, NEW h \in Staff, NEW id \in Live, StartDelete(h, id), upset' = {}
    PROVE  Kept'
<1> DEFINE old == rentals[id]
           label == PurgeIfActive(old)
<1>1. /\ Begin(h, label, id, NoChange) /\ UNCHANGED <<rentals, slots, pending, due>>
      /\ ~Busy(old.vehicle)
  BY DEF StartDelete, NotesOverlap, Note
<1>2. label = IF old.status = "cancelled" THEN "remove" ELSE "purge"
  BY DEF PurgeIfActive
<1>3. id \in Active <=> old.status # "cancelled"
  BY DEF Active
<1> HIDE DEF old, label
<1>4. /\ pc'[h] = label
      /\ job'[h] = [id |-> id, old |-> old, change |-> NoChange]
  BY <1>1 DEF Calm, StaffTyped, HandlersTyped, Begin, Goto, old
<1>5. Old(h)' = old
  BY <1>4 DEF Old
<1>6. Held(h)' = IF id \in Active THEN Keys(old) ELSE {}
  <2>1. Keys(Old(h))' = Keys(old)
    BY <1>5 DEF Keys, Dates
  <2> QED BY <1>2, <1>3, <1>4, <2>1 DEF Held
<1>7. ~Aims(h)'
  BY <1>2, <1>4 DEF Aims
<1>8. label # "idle"
  BY <1>2
<1> QED BY <1>1, <1>6, <1>7, <1>8, Took DEF old

LEMMA ReleaseOldKeeps ==
    ASSUME Calm, NEW h \in Staff, ReleaseOld(h)
    PROVE  Kept'
<1>1. Running(h)
  BY DEF ReleaseOld, Running
<1>2. Held(h) = Keys(Old(h))
  BY DEF ReleaseOld, Held
<1>3. PICK label \in {"rate", "write", "check", "remove"} :
         /\ Goto(h, label)
         /\ label \in {"rate", "write"} => pc[h] = "evict"
  BY DEF ReleaseOld, AfterSlots
<1>4. PhaseAt(h, pc[h])
  BY <1>1, RunningRow
<1>5. /\ pc'[h] = label
      /\ \A g \in Staff \ {h} : pc'[g] = pc[g] /\ due'[g] = due[g]
  BY <1>3 DEF Calm, StaffTyped, HandlersTyped, ReleaseOld, Goto
<1>6. Old(h)' = Old(h) /\ New(h)' = New(h)
  BY DEF Old, New, ReleaseOld
<1>7. Held(h)' = {} /\ ~Aims(h)'
  BY <1>3, <1>4, <1>5, <1>6 DEF PhaseAt, Held, Aims
<1>8. Running(h)'
  BY <1>5 DEF Running
<1>9. slots' = (slots \ Held(h)) \cup Held(h)'
  BY <1>2, <1>7 DEF ReleaseOld
<1>10. UNCHANGED <<rentals, pending, job>>
  BY DEF ReleaseOld
<1> QED BY <1>1, <1>5, <1>7, <1>8, <1>9, <1>10, Moved

\* A handler that goes on and holds what it held.
LEMMA HoldsOn ==
    ASSUME Calm, NEW h \in Staff, Running(h), NEW label \in Labels \ {"idle"},
           Goto(h, label), UNCHANGED <<rentals, slots, pending, job, due>>,
           Held(h)' = Held(h), Aims(h)' => Aims(h)
    PROVE  Kept'
<1>1. /\ pc'[h] = label
      /\ \A g \in Staff \ {h} : pc'[g] = pc[g] /\ due'[g] = due[g]
  BY DEF Calm, StaffTyped, HandlersTyped, Goto
<1>2. Running(h)'
  BY <1>1 DEF Running
<1>3. Held(h) \subseteq slots
  BY KeysReserved
<1>4. slots' = (slots \ Held(h)) \cup Held(h)'
  BY <1>3
<1>5. Aims(h)' => \A id \in Active \ {job[h].id} :
                      Keys(New(h)) \cap Keys(rentals[id]) = {}
  BY DEF Calm, Kept, TargetsApart
<1> QED BY <1>1, <1>2, <1>4, <1>5, Moved

LEMMA LockKeeps ==
    ASSUME Calm, NEW h \in Staff, Lock(h)
    PROVE  Kept'
<1>1. Running(h) /\ pc[h] = "lock" /\ Goto(h, "release")
      /\ UNCHANGED <<rentals, slots, pending, job, due>>
  BY DEF Lock, Running
<1>2. pc'[h] = "release" /\ Old(h)' = Old(h)
  BY <1>1 DEF Calm, StaffTyped, HandlersTyped, Goto, Old
<1>3. Held(h)' = Held(h) /\ ~Aims(h)'
  BY <1>1, <1>2 DEF Held, Aims, Keys, Dates
<1> QED BY <1>1, <1>3, HoldsOn DEF Labels

\* The new dates are found free of the other rentals: those that somebody else
\* is working on are of other vehicles.
LEMMA FoundFree ==
    ASSUME Calm, NEW h \in Staff, Running(h), Available(h)
    PROVE  \A id \in Active \ {job[h].id} : Keys(New(h)) \cap Keys(rentals[id]) = {}
<1> TAKE id \in Active \ {job[h].id}
<1>1. CASE id \notin InHand
  BY <1>1, KeysReserved DEF Available
<1>2. CASE id \in InHand
  <2>1. PICK g \in Staff \ {h} : Running(g) /\ job[g].id = id
    BY <1>2 DEF InHand
  <2>2. rentals[id] = Old(g) /\ Old(g).vehicle # Old(h).vehicle
    BY <2>1 DEF Calm, RowsCurrent, OneAtATime
  <2>3. New(h).vehicle # rentals[id].vehicle
    BY <2>2, RunningRow
  <2> QED BY <2>3, VehiclesApart DEF Keys
<1> QED BY <1>1, <1>2

LEMMA CheckTargetKeeps ==
    ASSUME Calm, NEW h \in Staff, CheckTarget(h)
    PROVE  Kept'
<1>1. /\ Running(h) /\ Held(h) = {} /\ slots' = slots
      /\ UNCHANGED <<rentals, pending, job>>
  BY DEF CheckTarget, Running, Held
<1>2. /\ Old(h)' = Old(h) /\ New(h)' = New(h)
      /\ Keys(Old(h))' = {Old(h).vehicle} \X Dates(Old(h))
      /\ Keys(New(h))' = {New(h).vehicle} \X Dates(New(h))
      /\ Dates(Old(h))' = Dates(Old(h)) /\ Dates(New(h))' = Dates(New(h))
  BY <1>1 DEF Old, New, Keys, Dates
<1> DEFINE dates == IF Available(h) THEN Dates(New(h)) ELSE Dates(Old(h))
           label == IF dates # {} THEN IF Available(h) THEN "reserve" ELSE "restore"
                                  ELSE IF Available(h) THEN "unlock" ELSE "abort"
<1>3. /\ pc'[h] = label /\ due'[h] = dates
      /\ \A g \in Staff \ {h} : pc'[g] = pc[g] /\ due'[g] = due[g]
  BY DEF Calm, StaffTyped, HandlersTyped, CheckTarget, ToRestore, Goto
<1>4. Running(h)'
  BY <1>3 DEF Running
<1>5. Held(h)' = {}
  <2>1. CASE dates # {} /\ Available(h)
    <3>1. pc'[h] = "reserve" /\ due'[h] = Dates(New(h))
      BY <1>3, <2>1
    <3> QED BY <1>2, <3>1 DEF Held
  <2>2. CASE dates # {} /\ ~Available(h)
    <3>1. pc'[h] = "restore" /\ due'[h] = Dates(Old(h))
      BY <1>3, <2>2
    <3> QED BY <1>2, <3>1 DEF Held
  <2>3. CASE dates = {} /\ Available(h)
    <3>1. pc'[h] = "unlock" /\ Dates(New(h)) = {}
      BY <1>3, <2>3
    <3> QED BY <1>2, <3>1 DEF Held
  <2>4. CASE dates = {} /\ ~Available(h)
    <3>1. pc'[h] = "abort" /\ Dates(Old(h)) = {}
      BY <1>3, <2>4
    <3> QED BY <1>2, <3>1 DEF Held
  <2> QED BY <2>1, <2>2, <2>3, <2>4
<1>6. Aims(h)' => Available(h)
  BY <1>3 DEF Aims
<1> HIDE DEF dates, label
<1>7. slots' = (slots \ Held(h)) \cup Held(h)'
  BY <1>1, <1>5
<1>8. Aims(h)' => \A id \in Active \ {job[h].id} :
                      Keys(New(h)) \cap Keys(rentals[id]) = {}
  BY <1>1, <1>6, FoundFree
<1> QED BY <1>1, <1>3, <1>4, <1>7, <1>8, Moved

LEMMA ReserveNextKeeps ==
    ASSUME Calm, NEW h \in Staff, ReserveNext(h)
    PROVE  Kept'
<1> DEFINE F == FirstDue(h)
           v == Old(h).vehicle
<1>1. /\ Running(h) /\ pc[h] \in {"reserve", "restore"}
      /\ slots' = slots \cup ({v} \X F)
      /\ UNCHANGED <<rentals, pending, job>>
  BY DEF ReserveNext, Running
<1>2. F \subseteq due[h]
  BY DEF FirstDue
<1>3. /\ DueAt(h, pc[h], due[h]) /\ New(h).vehicle = v
      /\ Keys(Old(h)) = {v} \X Dates(Old(h))
      /\ Keys(New(h)) = {v} \X Dates(New(h))
  BY <1>1, RunningRow
<1>4. /\ Old(h)' = Old(h)
      /\ Keys(Old(h))' = Keys(Old(h)) /\ Keys(New(h))' = Keys(New(h))
      /\ Dates(Old(h))' = Dates(Old(h)) /\ Dates(New(h))' = Dates(New(h))
  BY <1>1 DEF Old, New, Keys, Dates
<1>5. /\ due'[h] = due[h] \ F
      /\ \A g \in Staff \ {h} : pc'[g] = pc[g] /\ due'[g] = due[g]
      /\ \/ due[h] # F /\ pc'[h] = pc[h]
         \/ due[h] = F /\ pc[h] = "reserve" /\ pc'[h] = "unlock"
         \/ due[h] = F /\ pc[h] = "restore" /\ pc'[h] = "abort"
  BY DEF Calm, StaffTyped, HandlersTyped, ReserveNext, Goto
<1> HIDE DEF F, v
<1>6. Held(h)' = Held(h) \cup ({v} \X F)
  <2>1. CASE pc[h] = "reserve"
    <3>1. Held(h) = {v} \X (Dates(New(h)) \ due[h])
      BY <2>1 DEF Held, v
    <3>2. due[h] \subseteq Dates(New(h))
      BY <1>3, <2>1 DEF DueAt
    <3>3. CASE due[h] # F
      <4>1. Held(h)' = {v} \X (Dates(New(h)) \ (due[h] \ F))
        BY <1>4, <1>5, <2>1, <3>3 DEF Held, v
      <4> QED BY <1>2, <3>1, <3>2, <4>1
    <3>4. CASE due[h] = F
      <4>1. Held(h)' = {v} \X Dates(New(h))
        BY <1>3, <1>4, <1>5, <2>1, <3>4 DEF Held
      <4> QED BY <3>1, <3>2, <3>4, <4>1
    <3> QED BY <3>3, <3>4
  <2>2. CASE pc[h] = "restore"
    <3>1. Held(h) = {v} \X (Dates(Old(h)) \ due[h])
      BY <2>2 DEF Held, v
    <3>2. due[h] \subseteq Dates(Old(h))
      BY <1>3, <2>2 DEF DueAt
    <3>3. CASE due[h] # F
      <4>1. Held(h)' = {v} \X (Dates(Old(h)) \ (due[h] \ F))
        BY <1>4, <1>5, <2>2, <3>3 DEF Held, v
      <4> QED BY <1>2, <3>1, <3>2, <4>1
    <3>4. CASE due[h] = F
      <4>1. Held(h)' = {v} \X Dates(Old(h))
        BY <1>3, <1>4, <1>5, <2>2, <3>4 DEF Held
      <4> QED BY <3>1, <3>2, <3>4, <4>1
    <3> QED BY <3>3, <3>4
  <2> QED BY <1>1, <2>1, <2>2
<1>7. Aims(h)' => Aims(h)
  BY <1>1, <1>5 DEF Aims
<1>8. slots' = (slots \ Held(h)) \cup Held(h)'
  <2>1. Held(h) \subseteq slots
    BY KeysReserved
  <2> QED BY <1>1, <1>6, <2>1
<1>9. Running(h)'
  BY <1>1, <1>5 DEF Running
<1>10. Aims(h)' => \A id \in Active \ {job[h].id} :
                       Keys(New(h)) \cap Keys(rentals[id]) = {}
  BY <1>7 DEF Calm, Kept, TargetsApart
<1> QED BY <1>1, <1>5, <1>8, <1>9, <1>10, Moved

\* A handler that answers and has left its rental as it was.
LEMMA GivesUp ==
    ASSUME Calm, NEW h \in Staff, Running(h), Answer(h),
           UNCHANGED <<rentals, slots, pending>>,
           pc[h] \in {"evict", "lock", "release", "abort", "purge"}
    PROVE  Kept'
<1>1. /\ Held(h) = Keys(Old(h)) /\ rentals'[job[h].id] = Old(h)
      /\ job[h].id \in Active /\ job[h].id \in Live
  BY RunningRow DEF Held, PhaseAt
<1>2. Active' = Active /\ Live' = Live /\ Ids' = Ids
  BY DEF Active, Live, Ids
<1>3. \A i \in Active \ {job[h].id} : Keys(Old(h)) \cap Keys(rentals[i]) = {}
  BY <1>1 DEF Calm, Kept, DatesApart
<1>4. Old(h).start <= Old(h).end
  BY <1>1 DEF Calm, Kept, RowsForward
<1> QED BY <1>1, <1>2, <1>3, <1>4, Ended

LEMMA UnlockKeeps ==
    ASSUME Calm, NEW h \in Staff, Unlock(h)
    PROVE  Kept'
<1>1. Running(h) /\ UNCHANGED <<rentals, slots, pending>>
  BY DEF Unlock, Running
<1>2. CASE pc[h] = "abort" /\ Answer(h)
  BY <1>1, <1>2, GivesUp
<1>3. CASE pc[h] = "unlock" /\ Goto(h, "rate") /\ UNCHANGED <<job, due>>
  <2>1. pc'[h] = "rate" /\ Old(h)' = Old(h) /\ New(h)' = New(h)
    BY <1>3 DEF Calm, StaffTyped, HandlersTyped, Goto, Old, New
  <2>2. Old(h).status # "cancelled" /\ New(h).status # "cancelled"
    BY <1>1, <1>3, RunningRow DEF PhaseAt
  <2>3. Held(h)' = Held(h) /\ Aims(h)
    BY <1>3, <2>1, <2>2 DEF Held, Aims, Keys, Dates
  <2> QED BY <1>1, <1>3, <2>3, HoldsOn DEF Labels
<1> QED BY <1>2, <1>3 DEF Unlock

LEMMA RateKeeps ==
    ASSUME Calm, NEW h \in Staff, Rate(h), upset' = {}
    PROVE  Kept'
<1>1. /\ Running(h) /\ pc[h] = "rate" /\ Goto(h, "write")
      /\ UNCHANGED <<rentals, slots, pending, job, due>>
  BY DEF Rate, Running, Note
<1>2. pc'[h] = "write" /\ Old(h)' = Old(h) /\ New(h)' = New(h)
  BY <1>1 DEF Calm, StaffTyped, HandlersTyped, Goto, Old, New
<1>3. Held(h)' = Held(h) /\ (Aims(h)' => Aims(h))
  BY <1>1, <1>2 DEF Held, Aims, Keys, Dates
<1> QED BY <1>1, <1>3, HoldsOn DEF Labels

LEMMA WriteKeeps ==
    ASSUME Calm, NEW h \in Staff, Write(h), upset' = {}
    PROVE  Kept'
<1> DEFINE id == job[h].id
<1>1. /\ Running(h) /\ pc[h] = "write" /\ Answer(h) /\ rentals' = Written(h)
      /\ UNCHANGED <<slots, pending>> /\ ~Revives(h) /\ ~Inverts(h)
  BY DEF Write, Running
<1>2. /\ rentals[id] = Old(h) /\ Old(h) # Deleted /\ id \in Ids
      /\ New(h).vehicle = Old(h).vehicle /\ New(h) \in Rows
      /\ New(h) = Updated(Old(h), job[h].change)
  BY <1>1, RunningRow, JobTypes DEF Calm, StaffTyped
<1>3. /\ Ids' = Ids /\ rentals'[id] = Rewritten(h)
      /\ \A i \in Ids \ {id} : rentals'[i] = rentals[i]
  BY <1>1, <1>2, WriteEffect DEF Calm
<1>4. /\ Rewritten(h) \in Rows /\ Rewritten(h).vehicle = Old(h).vehicle
      /\ Rewritten(h).start = New(h).start /\ Rewritten(h).end = New(h).end
      /\ Rewritten(h).status = New(h).status
  BY <1>1, <1>2, RewrittenRow DEF Calm
<1>5. Keys(Rewritten(h)) = Keys(New(h))
  BY <1>2, <1>4 DEF Keys, Dates
<1>6. id \in Active' <=> New(h).status # "cancelled"
  BY <1>2, <1>3, <1>4, MarksAssumption DEF Active, Live
<1>7. Held(h) = IF id \in Active' THEN Keys(rentals'[id]) ELSE {}
  BY <1>1, <1>3, <1>5, <1>6 DEF Held, Revives
<1>8. id \in Active' => Aims(h)
  BY <1>1, <1>6 DEF Aims, Revives
<1>9. id \in Active' => \A i \in Active \ {id} :
                            Keys(rentals'[id]) \cap Keys(rentals[i]) = {}
  BY <1>3, <1>5, <1>8 DEF Calm, Kept, TargetsApart
<1>10. rentals'[id].start <= rentals'[id].end
  <2>1. New(h).start \in Nat /\ New(h).end \in Nat
    BY <1>2, DaysAreNumbers DEF Rows
  <2> QED BY <1>1, <1>3, <1>4, <2>1 DEF Inverts
<1> QED BY <1>1, <1>3, <1>4, <1>7, <1>9, <1>10, Ended

LEMMA DeleteRowKeeps ==
    ASSUME Calm, NEW h \in Staff, DeleteRow(h)
    PROVE  Kept'
<1>1. /\ Running(h) /\ Answer(h) /\ rentals' = Removed(h)
      /\ UNCHANGED <<slots, pending>> /\ Held(h) = {}
  BY DEF DeleteRow, Running, Held
<1>2. /\ Ids' = Ids /\ rentals'[job[h].id] = Deleted
      /\ \A i \in Ids \ {job[h].id} : rentals'[i] = rentals[i]
  BY <1>1, RemoveEffect DEF Calm
<1>3. job[h].id \notin Live' /\ job[h].id \notin Active'
  BY <1>2 DEF Active, Live
<1> QED BY <1>1, <1>2, <1>3, Ended

LEMMA FailKeeps ==
    ASSUME Calm, NEW h \in Staff, Fail(h), upset' = {}
    PROVE  Kept'
<1>1. /\ Running(h) /\ pc[h] \in {"evict", "lock", "release", "purge"}
      /\ UNCHANGED <<rentals, slots, pending>>
  BY DEF Fail, Running, Note
<1>2. CASE Answer(h)
  BY <1>1, <1>2, GivesUp
<1>3. CASE /\ pc[h] \in {"release", "check", "reserve", "restore"}
           /\ Goto(h, "abort")
           /\ UNCHANGED <<job, due>>
  <2>1. pc'[h] = "abort" /\ pc[h] = "release" /\ Old(h)' = Old(h)
    BY <1>1, <1>3 DEF Calm, StaffTyped, HandlersTyped, Goto, Old
  <2>2. Held(h)' = Held(h) /\ ~Aims(h)'
    BY <2>1 DEF Held, Aims, Keys, Dates
  <2> QED BY <1>1, <1>3, <2>2, HoldsOn DEF Labels
<1> QED BY <1>2, <1>3 DEF Fail

\* What the handlers see of a step that is not theirs.
LEMMA Undisturbed ==
    ASSUME UNCHANGED <<pc, job, due>>
    PROVE  /\ \A h \in Staff : /\ Held(h)' = Held(h)
                               /\ Old(h)' = Old(h) /\ New(h)' = New(h)
                               /\ Keys(New(h))' = Keys(New(h))
                               /\ Aims(h)' <=> Aims(h)
           /\ InHand' = InHand
<1>1. \A h \in Staff : Old(h)' = Old(h) /\ New(h)' = New(h) /\ (Running(h)' <=> Running(h))
  BY DEF Old, New, Running
<1>2. \A h \in Staff : Keys(New(h))' = Keys(New(h)) /\ Keys(Old(h))' = Keys(Old(h))
  BY <1>1 DEF Keys, Dates
<1>3. \A h \in Staff : Dates(New(h))' = Dates(New(h)) /\ Dates(Old(h))' = Dates(Old(h))
  BY <1>1 DEF Dates
<1>4. \A h \in Staff : Held(h)' = Held(h)
  BY <1>1, <1>2, <1>3 DEF Held
<1>5. \A h \in Staff : Aims(h)' <=> Aims(h)
  BY <1>1 DEF Aims
<1>6. InHand' = InHand
  <2>1. {h \in Staff : Running(h)'} = {h \in Staff : Running(h)}
    BY <1>1
  <2> QED BY <2>1 DEF InHand
<1> QED BY <1>1, <1>2, <1>4, <1>5, <1>6

LEMMA BookKeeps ==
    ASSUME Calm, NEW r \in Requests, Book(r), upset' = {}
    PROVE  Kept'
<1> USE DEF Calm, Kept
<1>1. /\ SlotKeys(r) \cap slots = {} /\ slots' = slots \cup SlotKeys(r)
      /\ pending' = pending \cup {r} /\ ~Busy(r.vehicle)
      /\ UNCHANGED <<rentals, pc, job, due>>
  BY DEF Book, Note
<1>2. Active' = Active /\ Live' = Live
  BY <1>1 DEF Active, Live, Ids
<1>3. SlotsAccounted'
  <2>1. Settled' = Settled
    BY <1>1, <1>2, Undisturbed DEF Settled, Keys, Dates
  <2>2. Promised' = Promised \cup SlotKeys(r)
    BY <1>1 DEF Promised
  <2>3. UNION {Held(h)' : h \in Staff} = UNION {Held(h) : h \in Staff}
    BY <1>1, Undisturbed
  <2> QED BY <1>1, <2>1, <2>2, <2>3 DEF SlotsAccounted
<1>4. ASSUME NEW id \in Active
      PROVE  SlotKeys(r) \cap Keys(rentals[id]) = {}
  <2>1. CASE id \notin InHand
    BY <1>1, <2>1, KeysReserved
  <2>2. CASE id \in InHand
    <3>1. PICK h \in Staff : Running(h) /\ job[h].id = id
      BY <2>2 DEF InHand
    <3>2. rentals[id].vehicle # r.vehicle
      BY <1>1, <3>1 DEF RowsCurrent, Busy, Running
    <3> QED BY <3>2, VehiclesApart DEF SlotKeys, Keys
  <2> QED BY <2>1, <2>2
<1>5. \A s \in pending : SlotKeys(r) \cap SlotKeys(s) = {}
  BY <1>1, KeysReserved
<1>6. PendingApart'
  BY <1>1, <1>2, <1>4, <1>5 DEF PendingApart
<1>7. RowsForward' /\ DatesApart'
  BY <1>1, <1>2 DEF RowsForward, DatesApart
<1>8. TargetsApart'
  BY <1>1, <1>2, Undisturbed DEF TargetsApart
<1> QED BY <1>3, <1>6, <1>7, <1>8

\* The worker finds no clash: what is queued was reserved.
LEMMA NothingClashes ==
    ASSUME Calm, NEW r \in pending
    PROVE  ~TableClash(r)
<1> USE DEF Calm, Kept
<1>1. r \in Requests
  BY Typed DEF Stored
<1> SUFFICES ASSUME NEW id \in Live,
                    rentals[id].status # "cancelled",
                    rentals[id].vehicle = r.vehicle,
                    rentals[id].start <= r.end.day,
                    rentals[id].end >= r.start.day
             PROVE  FALSE
  BY DEF TableClash
<1> DEFINE row == rentals[id]
           d == IF row.start <= r.start.day THEN r.start.day ELSE row.start
<1>2. row \in Rows /\ id \in Active
  BY DEF StaffTyped, TypeOK, Live, Ids, Active
<1>3. row.start \in Nat /\ row.end \in Nat /\ row.start <= row.end
  BY <1>2, DaysAreNumbers DEF Rows, RowsForward
<1>4. /\ r.start.day \in Nat /\ r.end.day \in Nat /\ r.start.day <= r.end.day
      /\ SlotKeys(r) = Keys(RowOf(r))
  BY <1>1, RequestRow
<1>5. d \in row.start .. row.end /\ d \in r.start.day .. r.end.day
  BY <1>3, <1>4
<1>6. <<r.vehicle, d>> \in Keys(row)
  BY <1>5 DEF Keys, Dates
<1>7. <<r.vehicle, d>> \in SlotKeys(r)
  BY <1>4, <1>5 DEF Keys, Dates, RowOf
<1> QED BY <1>2, <1>6, <1>7 DEF PendingApart

LEMMA RecordKeeps ==
    ASSUME Calm, NEW r \in pending, Record(r)
    PROVE  Kept'
<1> USE DEF Calm, Kept
<1>1. /\ rentals' = Append(rentals, RowOf(r)) /\ pending' = pending \ {r}
      /\ UNCHANGED <<slots, pc, job, due>>
  BY NothingClashes DEF Record, RowOf
<1>2. r \in Requests
  BY Typed DEF Stored
<1>3. /\ RowOf(r) \in Rows /\ RowOf(r).vehicle = r.vehicle
      /\ RowOf(r).start <= RowOf(r).end /\ RowOf(r).status = "booked"
      /\ Keys(RowOf(r)) = SlotKeys(r)
  BY <1>2, RequestRow DEF RowOf
<1>4. PICK id : /\ id \notin Ids /\ Ids' = Ids \cup {id}
                /\ rentals'[id] = RowOf(r)
                /\ \A i \in Ids : rentals'[i] = rentals[i]
  BY <1>1, <1>2, RecordEffect DEF StaffTyped
<1>5. /\ Live' = Live \cup {id} /\ Active' = Active \cup {id}
      /\ id \notin Active /\ Active \subseteq Live /\ Live \subseteq Ids
  BY <1>3, <1>4, MarksAssumption DEF Live, Active
<1>6. id \notin InHand
  BY <1>4, RunningRow DEF InHand
<1>7. SlotsAccounted'
  <2>1. Settled' = Settled \cup SlotKeys(r)
    <3>1. Settled' = UNION {Keys(rentals'[i]) : i \in Active' \ InHand}
      BY <1>1, Undisturbed DEF Settled, Keys, Dates
    <3>2. Active' \ InHand = (Active \ InHand) \cup {id}
      BY <1>5, <1>6
    <3>3. \A i \in Active \ InHand : rentals'[i] = rentals[i]
      BY <1>4, <1>5
    <3>4. Keys(rentals'[id]) = SlotKeys(r)
      BY <1>3, <1>4
    <3> QED BY <3>1, <3>2, <3>3, <3>4 DEF Settled
  <2>2. Promised = Promised' \cup SlotKeys(r)
    BY <1>1 DEF Promised
  <2>3. UNION {Held(h)' : h \in Staff} = UNION {Held(h) : h \in Staff}
    BY <1>1, Undisturbed
  <2> QED BY <1>1, <2>1, <2>2, <2>3 DEF SlotsAccounted
<1>8. RowsForward'
  BY <1>3, <1>4, <1>5 DEF RowsForward
<1>9. \A i \in Active : SlotKeys(r) \cap Keys(rentals[i]) = {}
  BY DEF PendingApart
<1>10. \A i \in Active : rentals'[i] = rentals[i]
  BY <1>4, <1>5
<1>11. DatesApart'
  BY <1>3, <1>4, <1>5, <1>9, <1>10 DEF DatesApart
<1>12. PendingApart'
  <2>1. \A s \in pending \ {r} : SlotKeys(s) \cap SlotKeys(r) = {}
    BY DEF PendingApart
  <2>2. ASSUME NEW s \in pending \ {r}, NEW i \in Active \cup {id}
        PROVE  SlotKeys(s) \cap Keys(rentals'[i]) = {}
    BY <1>3, <1>4, <1>10, <2>1 DEF PendingApart
  <2> QED BY <1>1, <1>5, <2>2 DEF PendingApart, Keys, Dates
<1>13. TargetsApart'
  <2>1. ASSUME NEW h \in Staff, Aims(h), NEW i \in (Active \cup {id}) \ {job[h].id}
        PROVE  Keys(New(h)) \cap Keys(rentals'[i]) = {}
    <3>1. CASE i \in Active
      BY <1>10, <2>1, <3>1 DEF TargetsApart
    <3>2. CASE i = id
      <4>1. Running(h)
        BY <2>1 DEF Aims, Running
      <4>2. New(h).vehicle # r.vehicle
        BY <4>1, RunningRow DEF OneAtATime
      <4> QED BY <1>3, <1>4, <3>2, <4>2, VehiclesApart DEF Keys
    <3> QED BY <2>1, <3>1, <3>2
  <2> QED BY <1>1, <1>5, <2>1, Undisturbed DEF TargetsApart, Keys, Dates
<1> QED BY <1>7, <1>8, <1>11, <1>12, <1>13

LEMMA HandlerKeeps ==
    ASSUME Calm, NEW h \in Staff, Handler(h), upset' = {}
    PROVE  Kept'
<1>1. CASE \E id \in Live : StartDelete(h, id)
  BY <1>1, StartDeleteKeeps
<1>2. CASE \E id \in Live : \E p \in Payloads : StartUpdate(h, id, p)
  BY <1>2, StartUpdateKeeps
<1>3. CASE LockIsTaken(h)
  <2>1. Running(h)
    BY <1>3 DEF LockIsTaken, Running
  <2> QED BY <1>3, <2>1, GivesUp DEF LockIsTaken
<1> QED BY <1>1, <1>2, <1>3, ReleaseOldKeeps, LockKeeps, CheckTargetKeeps,
           ReserveNextKeeps, UnlockKeeps, RateKeeps, WriteKeeps, DeleteRowKeeps
        DEF Handler

LEMMA KeptAside ==
    ASSUME Calm, UNCHANGED <<rentals, slots, pending, pc, job, due>>
    PROVE  Kept'
<1>1. Active' = Active /\ Live' = Live
  BY DEF Active, Live, Ids
<1>2. SlotsAccounted'
  <2>1. Settled' = Settled /\ Promised' = Promised
    BY <1>1, Undisturbed DEF Settled, Promised, Keys, Dates
  <2>2. UNION {Held(h)' : h \in Staff} = UNION {Held(h) : h \in Staff}
    BY Undisturbed
  <2> QED BY <2>1, <2>2 DEF Calm, Kept, SlotsAccounted
<1>3. RowsForward' /\ DatesApart' /\ PendingApart'
  BY <1>1 DEF Calm, Kept, RowsForward, DatesApart, PendingApart
<1>4. TargetsApart'
  BY <1>1, Undisturbed DEF Calm, Kept, TargetsApart
<1> QED BY <1>2, <1>3, <1>4 DEF Kept

LEMMA RegularStep ==
    ASSUME StaffInv, [Next]_vars
    PROVE  RegularInv'
<1> SUFFICES ASSUME upset' = {}, DatesOnly
             PROVE  Kept'
  BY DEF RegularInv, Regular, Kept
<1>1. upset = {}
  BY DEF Next, Handler, StartDelete, StartUpdate, ReleaseOld, Lock, LockIsTaken,
         CheckTarget, ReserveNext, Unlock, Rate, Write, DeleteRow, Fail,
         LockExpires, Book, Record, Quiet, NotesOverlap, Note, vars
<1>2. Calm
  BY <1>1 DEF StaffInv, AloneInv, RegularInv, Regular, Calm, Kept
<1>3. CASE \E k \in DOMAIN locks : LockExpires(k)
  BY <1>2, <1>3, KeptAside DEF LockExpires
<1>4. CASE UNCHANGED vars
  BY <1>2, <1>4, KeptAside DEF vars
<1> QED BY <1>2, <1>3, <1>4, HandlerKeeps, FailKeeps, BookKeeps, RecordKeeps
        DEF Next, Quiet

LEMMA InitRegular ==
    ASSUME Init
    PROVE  AloneInv /\ RegularInv
<1>1. Live = {} /\ Active = {} /\ pending = {} /\ slots = {}
  BY DEF Init, Live, Active, Ids
<1>2. \A h \in Staff : ~Running(h) /\ Held(h) = {} /\ ~Aims(h)
  BY DEF Init, Running, Held, Aims
<1>3. SlotsAccounted
  BY <1>1, <1>2 DEF SlotsAccounted, Settled, Promised
<1> QED BY <1>1, <1>2, <1>3 DEF AloneInv, OneAtATime, RowsCurrent, RegularInv,
           RowsForward, DatesApart, PendingApart, TargetsApart

\* The inductive invariant of the staff operations.
THEOREM StaffInvariant == Spec => []StaffInv
<1>1. Init => StaffInv
  BY InitTyped, InitRegular DEF StaffInv
<1>2. StaffInv /\ [Next]_vars => StaffInv'
  BY TypedStep, AloneStep, RegularStep DEF StaffInv
<1> QED BY <1>1, <1>2, PTL DEF Spec

LEMMA RestMatches ==
    ASSUME StaffInv, Regular, AtRest
    PROVE  slots = UNION {Keys(rentals[id]) : id \in Active}
<1>1. \A h \in Staff : ~Running(h) /\ Held(h) = {}
  BY DEF AtRest, Running, Held
<1>2. InHand = {} /\ Promised = {} /\ UNION {Held(h) : h \in Staff} = {}
  BY <1>1 DEF InHand, Promised, AtRest
<1>3. Settled = UNION {Keys(rentals[id]) : id \in Active}
  BY <1>2 DEF Settled
<1> QED BY <1>2, <1>3 DEF StaffInv, RegularInv, SlotsAccounted

\* The Redis slots follow the rentals table: whatever changes, refusals,
\* cancellations and deletions updateRental and deleteRental have gone through
\* in a regular run, at rest exactly the dates of the active rentals are
\* reserved.
THEOREM SlotsAreThoseOfTable == Spec => []SlotsFollowTable
<1>1. StaffInv => SlotsFollowTable
  BY RestMatches DEF SlotsFollowTable
<1> QED BY <1>1, StaffInvariant, PTL

\* In a regular run, at any moment, no two active rentals share a date,
\* although updateRental asks the slots for its new dates and never the table.
THEOREM UpdatesNeverCollide == Spec => []UpdatesKeepApart
<1>1. StaffInv => UpdatesKeepApart
  BY DEF StaffInv, RegularInv, UpdatesKeepApart
<1> QED BY <1>1, StaffInvariant, PTL

=============================================================================
