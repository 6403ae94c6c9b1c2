-------------------------- MODULE RentalIngressProofs --------------------------
(***************************************************************************)
(* Proofs about RentalIngress, for every set of clients, vehicles, days    *)
(* and requests and every combination of faults.                           *)
(***************************************************************************)
EXTENDS RentalIngress, TLAPS

\* The invariant of the reservation protocol, in parts.

\* What is written to the vehicle cache was read from the table.
FillsFromRow == \A c \in Clients : pc[c] = "fill" => req[c].vehicle \in Catalog

\* reserveSlots has only dates of the request left to set.
DueWithin == \A c \in Clients : due[c] \subseteq SlotDates(req[c])

\* The try block has an outcome only once it was left, or its send failed.
OutcomeWhenLeft ==
    \A c \in Clients :
        /\ result[c] # "none" => pc[c] \in {"rollback", "unlock"} \cup Ended
        /\ pc[c] = "rollback" => result[c] = "kafka_error"

\* Every handler past acquireLock still has its lock.
HoldersOwn == \A c \in Clients : pc[c] \in Holding => locks[req[c]] = c

\* A handler that has set some dates finds them set when it sends.
ReservedSoFar ==
    \A c \in Clients :
        pc[c] \in {"reserve", "send"} =>
            \A key \in LastingKeys(req[c]) :
                key \in slots \/ (pc[c] = "reserve" /\ key[2] \in due[c])

\* No accepted booking has a date of a handler that passed the slot check
\* and has not left the try block.
CheckedIsFree ==
    \A c, d \in Clients :
        c # d /\ pc[c] \in {"reserve", "send", "rollback"} /\ d \in Accepted =>
            LastingKeys(req[c]) \cap LastingKeys(req[d]) = {}

\* The conclusions of AcceptedKeepSlots and NoDoubleAccept.
AcceptedKept == \A c \in Accepted : LastingKeys(req[c]) \subseteq slots

NoneDouble ==
    \A c, d \in Accepted :
        c # d => LastingKeys(req[c]) \cap LastingKeys(req[d]) = {}

Exclusion ==
    RangesAligned /\ ~lapsed =>
        HoldersOwn /\ ReservedSoFar /\ CheckedIsFree /\ AcceptedKept /\ NoneDouble

IngressInv ==
    /\ TypeOK
    /\ FillsFromRow
    /\ DueWithin
    /\ OutcomeWhenLeft
    /\ NoOrphanSlots
    /\ Exclusion
-----------------------------------------------------------------------------
\* The slots of a request are keys of its vehicle and of calendar days.
LEMMA RequestSlots ==
    ASSUME NEW r \in Requests
    PROVE  /\ r.vehicle \in Vehicles /\ r.start \in Instants /\ r.end \in Instants
           /\ SlotDates(r) \subseteq Nat
           /\ SlotKeys(r) \subseteq Vehicles \X Nat
<1>1. r \in [vehicle : Vehicles, start : Instants, end : Instants]
  BY DatesAssumption DEF ValidRequests
<1>2. r.start.day \in Nat /\ r.end.day \in Nat
  BY <1>1, DatesAssumption DEF Instants
<1>3. SlotDates(r) \subseteq Nat
  BY <1>2 DEF SlotDates
<1> QED BY <1>1, <1>3 DEF SlotKeys

\* Two requests that share a slot that lasts share it as a lasting one.
LEMMA LastingShared ==
    ASSUME NEW r, NEW s, NEW key \in LastingKeys(r), key \in SlotKeys(s)
    PROVE  key \in LastingKeys(r) \cap LastingKeys(s)
BY DEF LastingKeys

LEMMA LastingAreSlots ==
    ASSUME NEW r
    PROVE  LastingKeys(r) \subseteq SlotKeys(r)
BY DEF LastingKeys

\* What a handler sends is a payload.
LEMMA PayloadType ==
    ASSUME TypeOK, NEW c \in Clients
    PROVE  Payload(c) \in Payloads
<1>1. req[c] \in Requests
  BY DEF TypeOK
<1> QED BY <1>1, RequestSlots DEF Payload, Payloads

\* The types hold initially, and every step of the system keeps them.
LEMMA TypeInit ==
    ASSUME Init
    PROVE  TypeOK /\ FillsFromRow /\ DueWithin
<1>1. queue \in Seq(Payloads)
  BY DEF Init
<1> QED BY <1>1 DEF Init, TypeOK, FillsFromRow, DueWithin, Results

LEMMA TypeStep ==
    ASSUME TypeOK, FillsFromRow, DueWithin, [Next]_vars
    PROVE  TypeOK' /\ FillsFromRow'
<1> USE DEF Holding, Ended, Results
<1>0. \A c \in Clients :
        /\ req[c] \in Requests
        /\ SlotKeys(req[c]) \subseteq Vehicles \X Nat
        /\ SlotDates(req[c]) \in SUBSET Int
        /\ Payload(c) \in Payloads
        /\ \A d \in due[c] : <<req[c].vehicle, d>> \in Vehicles \X Nat
  BY RequestSlots, PayloadType DEF TypeOK, DueWithin
<1>1. ASSUME NEW c \in Clients, Acquire(c) PROVE TypeOK' /\ FillsFromRow'
  <2>1. locks' \in [Requests -> Clients \cup {Free}]
    BY <1>1, <1>0 DEF TypeOK, Acquire, Goto
  <2>2. /\ pc' \in [Clients -> {"idle"} \cup Holding \cup Ended]
        /\ result' \in [Clients -> Results]
        /\ \A d \in Clients : pc'[d] = "fill" => pc[d] = "fill"
    BY <1>1, <1>0 DEF TypeOK, Acquire, Goto
  <2> QED
    BY <1>1, <2>1, <2>2 DEF TypeOK, FillsFromRow, Acquire
<1>2. ASSUME NEW c \in Clients, AcquireFails(c) PROVE TypeOK' /\ FillsFromRow'
  BY <1>2, <1>0 DEF TypeOK, FillsFromRow, AcquireFails, Goto, Lockable
<1>3. ASSUME NEW c \in Clients, Lookup(c) PROVE TypeOK' /\ FillsFromRow'
  BY <1>3, <1>0 DEF TypeOK, FillsFromRow, Lookup, Goto
<1>4. ASSUME NEW c \in Clients, FindVehicle(c) PROVE TypeOK' /\ FillsFromRow'
  BY <1>4, <1>0 DEF TypeOK, FillsFromRow, FindVehicle, Goto, Leave
<1>5. ASSUME NEW c \in Clients, FillCache(c) PROVE TypeOK' /\ FillsFromRow'
  BY <1>5, <1>0 DEF TypeOK, FillsFromRow, FillCache, Goto
<1>6. ASSUME NEW c \in Clients, CheckSlots(c) PROVE TypeOK' /\ FillsFromRow'
  BY <1>6, <1>0 DEF TypeOK, FillsFromRow, CheckSlots, Goto, Leave
<1>7. ASSUME NEW c \in Clients, ReserveNext(c) PROVE TypeOK' /\ FillsFromRow'
  BY <1>7, <1>0 DEF TypeOK, FillsFromRow, ReserveNext, Goto, AfterSlot
<1>8. ASSUME NEW c \in Clients, RedisError(c) PROVE TypeOK' /\ FillsFromRow'
  BY <1>8, <1>0 DEF TypeOK, FillsFromRow, RedisError, Goto, Leave, ReleaseSlots
<1>9. ASSUME NEW c \in Clients, Send(c) PROVE TypeOK' /\ FillsFromRow'
  BY <1>9, <1>0 DEF TypeOK, FillsFromRow, Send, Goto, Leave
<1>10. ASSUME NEW c \in Clients, SendUnacknowledged(c) PROVE TypeOK' /\ FillsFromRow'
  BY <1>10, <1>0 DEF TypeOK, FillsFromRow, SendUnacknowledged, Goto
<1>11. ASSUME NEW c \in Clients, SendGivesUp(c) PROVE TypeOK' /\ FillsFromRow'
  BY <1>11, <1>0 DEF TypeOK, FillsFromRow, SendGivesUp, Goto
<1>12. ASSUME NEW c \in Clients, Rollback(c) PROVE TypeOK' /\ FillsFromRow'
  BY <1>12, <1>0 DEF TypeOK, FillsFromRow, Rollback, Goto, ReleaseSlots
<1>13. ASSUME NEW c \in Clients, Unlock(c) PROVE TypeOK' /\ FillsFromRow'
  BY <1>13, <1>0 DEF TypeOK, FillsFromRow, Unlock, Goto, DeleteIfOwned
<1>14. ASSUME NEW c \in Clients, UnlockFails(c) PROVE TypeOK' /\ FillsFromRow'
  BY <1>14, <1>0 DEF TypeOK, FillsFromRow, UnlockFails, Goto, DeleteIfOwned
<1>15. ASSUME NEW c \in Clients, Crash(c) PROVE TypeOK' /\ FillsFromRow'
  BY <1>15, <1>0 DEF TypeOK, FillsFromRow, Crash, Goto
<1>16. ASSUME NEW r \in Requests, LockExpires(r) PROVE TypeOK' /\ FillsFromRow'
  BY <1>16, <1>0 DEF TypeOK, FillsFromRow, LockExpires, Leased
<1>17. ASSUME NEW v \in rateCache, DetailsExpire(v) PROVE TypeOK' /\ FillsFromRow'
  BY <1>17, <1>0 DEF TypeOK, FillsFromRow, DetailsExpire
<1>18. ASSUME NEW key \in slots, SlotExpires(key) PROVE TypeOK' /\ FillsFromRow'
  BY <1>18, <1>0 DEF TypeOK, FillsFromRow, SlotExpires
<1>19. CASE UNCHANGED vars
  BY <1>19 DEF TypeOK, FillsFromRow, vars
<1> QED
  BY <1>1, <1>2, <1>3, <1>4, <1>5, <1>6, <1>7, <1>8, <1>9, <1>10, <1>11, <1>12, <1>13, <1>14, <1>15, <1>16, <1>17, <1>18, <1>19 DEF Next, Handler, Quiet

LEMMA DueStep ==
    ASSUME TypeOK, DueWithin, [Next]_vars
    PROVE  DueWithin'
<1>1. ASSUME NEW c \in Clients, Acquire(c) PROVE DueWithin'
  BY <1>1 DEF DueWithin, TypeOK, Acquire, Goto, Lockable
<1>2. ASSUME NEW c \in Clients, AcquireFails(c) PROVE DueWithin'
  BY <1>2 DEF DueWithin, TypeOK, AcquireFails, Goto, Lockable
<1>3. ASSUME NEW c \in Clients, Lookup(c) PROVE DueWithin'
  BY <1>3 DEF DueWithin, TypeOK, Lookup, Goto
<1>4. ASSUME NEW c \in Clients, FindVehicle(c) PROVE DueWithin'
  BY <1>4 DEF DueWithin, TypeOK, FindVehicle, Goto, Leave
<1>5. ASSUME NEW c \in Clients, FillCache(c) PROVE DueWithin'
  BY <1>5 DEF DueWithin, TypeOK, FillCache, Goto
<1>6. ASSUME NEW c \in Clients, CheckSlots(c) PROVE DueWithin'
  BY <1>6 DEF DueWithin, TypeOK, CheckSlots, Goto, Leave
<1>7. ASSUME NEW c \in Clients, ReserveNext(c) PROVE DueWithin'
  BY <1>7 DEF DueWithin, TypeOK, ReserveNext, Goto, AfterSlot
<1>8. ASSUME NEW c \in Clients, RedisError(c) PROVE DueWithin'
  BY <1>8 DEF DueWithin, TypeOK, RedisError, Goto, Leave, ReleaseSlots
<1>9. ASSUME NEW c \in Clients, Send(c) PROVE DueWithin'
  BY <1>9 DEF DueWithin, TypeOK, Send, Goto, Leave
<1>10. ASSUME NEW c \in Clients, SendUnacknowledged(c) PROVE DueWithin'
  BY <1>10 DEF DueWithin, TypeOK, SendUnacknowledged, Goto
<1>11. ASSUME NEW c \in Clients, SendGivesUp(c) PROVE DueWithin'
  BY <1>11 DEF DueWithin, TypeOK, SendGivesUp, Goto
<1>12. ASSUME NEW c \in Clients, Rollback(c) PROVE DueWithin'
  BY <1>12 DEF DueWithin, TypeOK, Rollback, Goto, ReleaseSlots
<1>13. ASSUME NEW c \in Clients, Unlock(c) PROVE DueWithin'
  BY <1>13 DEF DueWithin, TypeOK, Unlock, Goto, DeleteIfOwned
<1>14. ASSUME NEW c \in Clients, UnlockFails(c) PROVE DueWithin'
  BY <1>14 DEF DueWithin, TypeOK, UnlockFails, Goto, DeleteIfOwned
<1>15. ASSUME NEW c \in Clients, Crash(c) PROVE DueWithin'
  BY <1>15 DEF DueWithin, TypeOK, Crash, Goto
<1>16. ASSUME NEW r \in Requests, LockExpires(r) PROVE DueWithin'
  BY <1>16 DEF DueWithin, TypeOK, LockExpires, Leased
<1>17. ASSUME NEW v \in rateCache, DetailsExpire(v) PROVE DueWithin'
  BY <1>17 DEF DueWithin, TypeOK, DetailsExpire
<1>18. ASSUME NEW key \in slots, SlotExpires(key) PROVE DueWithin'
  BY <1>18 DEF DueWithin, TypeOK, SlotExpires
<1>19. CASE UNCHANGED vars
  BY <1>19 DEF DueWithin, TypeOK, vars
<1> QED
  BY <1>1, <1>2, <1>3, <1>4, <1>5, <1>6, <1>7, <1>8, <1>9, <1>10, <1>11, <1>12, <1>13, <1>14, <1>15, <1>16, <1>17, <1>18, <1>19 DEF Next, Handler, Quiet

LEMMA OutcomeStep ==
    ASSUME TypeOK, OutcomeWhenLeft, [Next]_vars
    PROVE  OutcomeWhenLeft'
<1> USE DEF Holding, Ended
<1>1. ASSUME NEW c \in Clients, Acquire(c) PROVE OutcomeWhenLeft'
  BY <1>1 DEF OutcomeWhenLeft, TypeOK, Acquire, Goto, Lockable
<1>2. ASSUME NEW c \in Clients, AcquireFails(c) PROVE OutcomeWhenLeft'
  BY <1>2 DEF OutcomeWhenLeft, TypeOK, AcquireFails, Goto, Lockable
<1>3. ASSUME NEW c \in Clients, Lookup(c) PROVE OutcomeWhenLeft'
  BY <1>3 DEF OutcomeWhenLeft, TypeOK, Lookup, Goto
<1>4. ASSUME NEW c \in Clients, FindVehicle(c) PROVE OutcomeWhenLeft'
  BY <1>4 DEF OutcomeWhenLeft, TypeOK, FindVehicle, Goto, Leave
<1>5. ASSUME NEW c \in Clients, FillCache(c) PROVE OutcomeWhenLeft'
  BY <1>5 DEF OutcomeWhenLeft, TypeOK, FillCache, Goto
<1>6. ASSUME NEW c \in Clients, CheckSlots(c) PROVE OutcomeWhenLeft'
  BY <1>6 DEF OutcomeWhenLeft, TypeOK, CheckSlots, Goto, Leave
<1>7. ASSUME NEW c \in Clients, ReserveNext(c) PROVE OutcomeWhenLeft'
  BY <1>7 DEF OutcomeWhenLeft, TypeOK, ReserveNext, Goto, AfterSlot
<1>8. ASSUME NEW c \in Clients, RedisError(c) PROVE OutcomeWhenLeft'
  BY <1>8 DEF OutcomeWhenLeft, TypeOK, RedisError, Goto, Leave, ReleaseSlots
<1>9. ASSUME NEW c \in Clients, Send(c) PROVE OutcomeWhenLeft'
  BY <1>9 DEF OutcomeWhenLeft, TypeOK, Send, Goto, Leave
<1>10. ASSUME NEW c \in Clients, SendUnacknowledged(c) PROVE OutcomeWhenLeft'
  BY <1>10 DEF OutcomeWhenLeft, TypeOK, SendUnacknowledged, Goto
<1>11. ASSUME NEW c \in Clients, SendGivesUp(c) PROVE OutcomeWhenLeft'
  BY <1>11 DEF OutcomeWhenLeft, TypeOK, SendGivesUp, Goto
<1>12. ASSUME NEW c \in Clients, Rollback(c) PROVE OutcomeWhenLeft'
  BY <1>12 DEF OutcomeWhenLeft, TypeOK, Rollback, Goto, ReleaseSlots
<1>13. ASSUME NEW c \in Clients, Unlock(c) PROVE OutcomeWhenLeft'
  BY <1>13 DEF OutcomeWhenLeft, TypeOK, Unlock, Goto, DeleteIfOwned
<1>14. ASSUME NEW c \in Clients, UnlockFails(c) PROVE OutcomeWhenLeft'
  BY <1>14 DEF OutcomeWhenLeft, TypeOK, UnlockFails, Goto, DeleteIfOwned
<1>15. ASSUME NEW c \in Clients, Crash(c) PROVE OutcomeWhenLeft'
  BY <1>15 DEF OutcomeWhenLeft, TypeOK, Crash, Goto
<1>16. ASSUME NEW r \in Requests, LockExpires(r) PROVE OutcomeWhenLeft'
  BY <1>16 DEF OutcomeWhenLeft, TypeOK, LockExpires, Leased
<1>17. ASSUME NEW v \in rateCache, DetailsExpire(v) PROVE OutcomeWhenLeft'
  BY <1>17 DEF OutcomeWhenLeft, TypeOK, DetailsExpire
<1>18. ASSUME NEW key \in slots, SlotExpires(key) PROVE OutcomeWhenLeft'
  BY <1>18 DEF OutcomeWhenLeft, TypeOK, SlotExpires
<1>19. CASE UNCHANGED vars
  BY <1>19 DEF OutcomeWhenLeft, TypeOK, vars
<1> QED
  BY <1>1, <1>2, <1>3, <1>4, <1>5, <1>6, <1>7, <1>8, <1>9, <1>10, <1>11, <1>12, <1>13, <1>14, <1>15, <1>16, <1>17, <1>18, <1>19 DEF Next, Handler, Quiet

\* No step leaves an orphan slot.
LEMMA OrphanStep ==
    ASSUME TypeOK, DueWithin, OutcomeWhenLeft, NoOrphanSlots, [Next]_vars
    PROVE  NoOrphanSlots'
<1> USE DEF Holding, Ended
<1>0. \A c \in Clients : \A d \in due[c] :
          <<req[c].vehicle, d>> \in SlotKeys(req[c])
  BY DEF DueWithin, SlotKeys
<1>1. ASSUME NEW c \in Clients, Acquire(c) PROVE NoOrphanSlots'
  BY <1>1 DEF NoOrphanSlots, OutcomeWhenLeft, TypeOK, Acquire, Goto, Lockable
<1>2. ASSUME NEW c \in Clients, AcquireFails(c) PROVE NoOrphanSlots'
  BY <1>2 DEF NoOrphanSlots, OutcomeWhenLeft, TypeOK, AcquireFails, Goto, Lockable
<1>3. ASSUME NEW c \in Clients, Lookup(c) PROVE NoOrphanSlots'
  BY <1>3 DEF NoOrphanSlots, OutcomeWhenLeft, TypeOK, Lookup, Goto
<1>4. ASSUME NEW c \in Clients, FindVehicle(c) PROVE NoOrphanSlots'
  BY <1>4 DEF NoOrphanSlots, OutcomeWhenLeft, TypeOK, FindVehicle, Goto, Leave
<1>5. ASSUME NEW c \in Clients, FillCache(c) PROVE NoOrphanSlots'
  BY <1>5 DEF NoOrphanSlots, OutcomeWhenLeft, TypeOK, FillCache, Goto
<1>6. ASSUME NEW c \in Clients, CheckSlots(c) PROVE NoOrphanSlots'
  BY <1>6 DEF NoOrphanSlots, OutcomeWhenLeft, TypeOK, CheckSlots, Goto, Leave
<1>7. ASSUME NEW c \in Clients, ReserveNext(c) PROVE NoOrphanSlots'
  BY <1>7, <1>0 DEF NoOrphanSlots, OutcomeWhenLeft, TypeOK, ReserveNext, Goto, AfterSlot
<1>8. ASSUME NEW c \in Clients, RedisError(c) PROVE NoOrphanSlots'
  BY <1>8, <1>0 DEF NoOrphanSlots, OutcomeWhenLeft, TypeOK, RedisError, Goto, Leave, ReleaseSlots
<1>9. ASSUME NEW c \in Clients, Send(c) PROVE NoOrphanSlots'
  BY <1>9 DEF NoOrphanSlots, OutcomeWhenLeft, TypeOK, Send, Goto, Leave
<1>10. ASSUME NEW c \in Clients, SendUnacknowledged(c) PROVE NoOrphanSlots'
  BY <1>10 DEF NoOrphanSlots, OutcomeWhenLeft, TypeOK, SendUnacknowledged, Goto
<1>11. ASSUME NEW c \in Clients, SendGivesUp(c) PROVE NoOrphanSlots'
  BY <1>11 DEF NoOrphanSlots, OutcomeWhenLeft, TypeOK, SendGivesUp, Goto
<1>12. ASSUME NEW c \in Clients, Rollback(c) PROVE NoOrphanSlots'
  BY <1>12 DEF NoOrphanSlots, OutcomeWhenLeft, TypeOK, Rollback, Goto, ReleaseSlots
<1>13. ASSUME NEW c \in Clients, Unlock(c) PROVE NoOrphanSlots'
  BY <1>13 DEF NoOrphanSlots, OutcomeWhenLeft, TypeOK, Unlock, Goto, DeleteIfOwned
<1>14. ASSUME NEW c \in Clients, UnlockFails(c) PROVE NoOrphanSlots'
  BY <1>14 DEF NoOrphanSlots, OutcomeWhenLeft, TypeOK, UnlockFails, Goto, DeleteIfOwned
<1>15. ASSUME NEW c \in Clients, Crash(c) PROVE NoOrphanSlots'
  BY <1>15 DEF NoOrphanSlots, OutcomeWhenLeft, TypeOK, Crash, Goto
<1>16. ASSUME NEW r \in Requests, LockExpires(r) PROVE NoOrphanSlots'
  BY <1>16 DEF NoOrphanSlots, OutcomeWhenLeft, TypeOK, LockExpires, Leased
<1>17. ASSUME NEW v \in rateCache, DetailsExpire(v) PROVE NoOrphanSlots'
  BY <1>17 DEF NoOrphanSlots, OutcomeWhenLeft, TypeOK, DetailsExpire
<1>18. ASSUME NEW key \in slots, SlotExpires(key) PROVE NoOrphanSlots'
  BY <1>18 DEF NoOrphanSlots, OutcomeWhenLeft, TypeOK, SlotExpires
<1>19. CASE UNCHANGED vars
  BY <1>19 DEF NoOrphanSlots, OutcomeWhenLeft, TypeOK, vars
<1> QED
  BY <1>1, <1>2, <1>3, <1>4, <1>5, <1>6, <1>7, <1>8, <1>9, <1>10, <1>11,
     <1>12, <1>13, <1>14, <1>15, <1>16, <1>17, <1>18, <1>19
  DEF Next, Handler, Quiet

\* Under aligned ranges, two handlers that own their locks want other slots.
LEMMA HoldersApart ==
    ASSUME TypeOK, RangesAligned, HoldersOwn,
           NEW c \in Clients, NEW d \in Clients, c # d,
           pc[c] \in Holding, pc[d] \in Holding
    PROVE  SlotKeys(req[c]) \cap SlotKeys(req[d]) = {}
<1>1. req[c] # req[d]
  BY DEF HoldersOwn
<1> QED BY <1>1 DEF RangesAligned, TypeOK

\* A step keeps every holder in possession of its lock, or a lease lapses.
LEMMA HoldersStep ==
    ASSUME TypeOK, HoldersOwn, [Next]_vars, ~lapsed'
    PROVE  HoldersOwn'
<1> USE DEF Holding, Ended
<1>1. ASSUME NEW c \in Clients, Acquire(c) PROVE HoldersOwn'
  <2>1. CASE locks' = [locks EXCEPT ![req[c]] = c] /\ Lockable(c)
    <3>1. /\ locks'[req[c]] = c
          /\ \A r \in Requests : r # req[c] => locks'[r] = locks[r]
          /\ \A d \in Clients : pc[d] \in Holding => req[d] # req[c]
      BY <2>1, IngressAssumption DEF TypeOK, HoldersOwn, Lockable
    <3> QED BY <1>1, <3>1 DEF HoldersOwn, TypeOK, Acquire, Goto
  <2>2. CASE ~Lockable(c)
    BY <1>1, <2>2 DEF HoldersOwn, TypeOK, Acquire, Goto
  <2> QED BY <1>1, <2>1, <2>2 DEF Acquire
<1>2. ASSUME NEW c \in Clients, AcquireFails(c) PROVE HoldersOwn'
  <2>1. CASE locks' = [locks EXCEPT ![req[c]] = c] /\ Lockable(c)
    <3>1. /\ \A r \in Requests : r # req[c] => locks'[r] = locks[r]
          /\ \A d \in Clients : pc[d] \in Holding => req[d] # req[c]
      BY <2>1, IngressAssumption DEF TypeOK, HoldersOwn, Lockable
    <3> QED BY <1>2, <3>1 DEF HoldersOwn, TypeOK, AcquireFails, Goto
  <2>2. CASE UNCHANGED locks
    BY <1>2, <2>2 DEF HoldersOwn, TypeOK, AcquireFails, Goto
  <2> QED BY <1>2, <2>1, <2>2 DEF AcquireFails
<1>3. ASSUME NEW c \in Clients, Lookup(c) PROVE HoldersOwn'
  BY <1>3 DEF HoldersOwn, TypeOK, Lookup, Goto
<1>4. ASSUME NEW c \in Clients, FindVehicle(c) PROVE HoldersOwn'
  BY <1>4 DEF HoldersOwn, TypeOK, FindVehicle, Goto, Leave
<1>5. ASSUME NEW c \in Clients, FillCache(c) PROVE HoldersOwn'
  BY <1>5 DEF HoldersOwn, TypeOK, FillCache, Goto
<1>6. ASSUME NEW c \in Clients, CheckSlots(c) PROVE HoldersOwn'
  BY <1>6 DEF HoldersOwn, TypeOK, CheckSlots, Goto, Leave
<1>7. ASSUME NEW c \in Clients, ReserveNext(c) PROVE HoldersOwn'
  BY <1>7 DEF HoldersOwn, TypeOK, ReserveNext, Goto, AfterSlot
<1>8. ASSUME NEW c \in Clients, RedisError(c) PROVE HoldersOwn'
  BY <1>8 DEF HoldersOwn, TypeOK, RedisError, Goto, Leave, ReleaseSlots
<1>9. ASSUME NEW c \in Clients, Send(c) PROVE HoldersOwn'
  BY <1>9 DEF HoldersOwn, TypeOK, Send, Goto, Leave
<1>10. ASSUME NEW c \in Clients, SendUnacknowledged(c) PROVE HoldersOwn'
  BY <1>10 DEF HoldersOwn, TypeOK, SendUnacknowledged, Goto
<1>11. ASSUME NEW c \in Clients, SendGivesUp(c) PROVE HoldersOwn'
  BY <1>11 DEF HoldersOwn, TypeOK, SendGivesUp, Goto
<1>12. ASSUME NEW c \in Clients, Rollback(c) PROVE HoldersOwn'
  BY <1>12 DEF HoldersOwn, TypeOK, Rollback, Goto, ReleaseSlots
<1>13. ASSUME NEW c \in Clients, Unlock(c) PROVE HoldersOwn'
  BY <1>13 DEF HoldersOwn, TypeOK, Unlock, Goto, DeleteIfOwned
<1>14. ASSUME NEW c \in Clients, UnlockFails(c) PROVE HoldersOwn'
  BY <1>14 DEF HoldersOwn, TypeOK, UnlockFails, Goto, DeleteIfOwned
<1>15. ASSUME NEW c \in Clients, Crash(c) PROVE HoldersOwn'
  BY <1>15 DEF HoldersOwn, TypeOK, Crash, Goto
<1>16. ASSUME NEW r \in Requests, LockExpires(r) PROVE HoldersOwn'
  BY <1>16 DEF HoldersOwn, TypeOK, LockExpires, Leased
<1>17. ASSUME NEW v \in rateCache, DetailsExpire(v) PROVE HoldersOwn'
  BY <1>17 DEF HoldersOwn, TypeOK, DetailsExpire
<1>18. ASSUME NEW key \in slots, SlotExpires(key) PROVE HoldersOwn'
  BY <1>18 DEF HoldersOwn, TypeOK, SlotExpires
<1>19. CASE UNCHANGED vars
  BY <1>19 DEF HoldersOwn, TypeOK, vars
<1> QED
  BY <1>1, <1>2, <1>3, <1>4, <1>5, <1>6, <1>7, <1>8, <1>9, <1>10, <1>11,
     <1>12, <1>13, <1>14, <1>15, <1>16, <1>17, <1>18, <1>19
  DEF Next, Handler, Quiet

\* Dates that a handler has set stay set until its send.
LEMMA ReservedStep ==
    ASSUME TypeOK, RangesAligned, HoldersOwn, ReservedSoFar, [Next]_vars
    PROVE  ReservedSoFar'
<1> USE DEF Holding, Ended
<1>0. \A c \in Clients : LastingKeys(req[c]) \subseteq SlotKeys(req[c])
  BY LastingAreSlots
<1>1. ASSUME NEW c \in Clients, Acquire(c) PROVE ReservedSoFar'
  BY <1>1, <1>0 DEF ReservedSoFar, TypeOK, Acquire, Goto, Lockable
<1>2. ASSUME NEW c \in Clients, AcquireFails(c) PROVE ReservedSoFar'
  BY <1>2, <1>0 DEF ReservedSoFar, TypeOK, AcquireFails, Goto, Lockable
<1>3. ASSUME NEW c \in Clients, Lookup(c) PROVE ReservedSoFar'
  BY <1>3, <1>0 DEF ReservedSoFar, TypeOK, Lookup, Goto
<1>4. ASSUME NEW c \in Clients, FindVehicle(c) PROVE ReservedSoFar'
  BY <1>4, <1>0 DEF ReservedSoFar, TypeOK, FindVehicle, Goto, Leave
<1>5. ASSUME NEW c \in Clients, FillCache(c) PROVE ReservedSoFar'
  BY <1>5, <1>0 DEF ReservedSoFar, TypeOK, FillCache, Goto
<1>6. ASSUME NEW c \in Clients, CheckSlots(c) PROVE ReservedSoFar'
  <2>1. \A key \in LastingKeys(req[c]) : key[2] \in SlotDates(req[c])
    BY DEF LastingKeys, SlotKeys
  <2> QED
    BY <1>6, <2>1 DEF ReservedSoFar, TypeOK, CheckSlots, Goto, Leave
<1>7. ASSUME NEW c \in Clients, ReserveNext(c) PROVE ReservedSoFar'
  <2>1. \A key \in LastingKeys(req[c]) : key = <<req[c].vehicle, key[2]>>
    BY DEF LastingKeys, SlotKeys
  <2> QED
    BY <1>7, <2>1 DEF ReservedSoFar, TypeOK, ReserveNext, Goto, AfterSlot
<1>8. ASSUME NEW c \in Clients, RedisError(c) PROVE ReservedSoFar'
  <2>1. \A d \in Clients \ {c} :
            pc[d] \in Holding => SlotKeys(req[c]) \cap SlotKeys(req[d]) = {}
    BY <1>8, HoldersApart DEF RedisError
  <2> QED
    BY <1>8, <1>0, <2>1
    DEF ReservedSoFar, TypeOK, RedisError, Goto, Leave, ReleaseSlots
<1>9. ASSUME NEW c \in Clients, Send(c) PROVE ReservedSoFar'
  BY <1>9, <1>0 DEF ReservedSoFar, TypeOK, Send, Goto, Leave
<1>10. ASSUME NEW c \in Clients, SendUnacknowledged(c) PROVE ReservedSoFar'
  BY <1>10, <1>0 DEF ReservedSoFar, TypeOK, SendUnacknowledged, Goto
<1>11. ASSUME NEW c \in Clients, SendGivesUp(c) PROVE ReservedSoFar'
  BY <1>11, <1>0 DEF ReservedSoFar, TypeOK, SendGivesUp, Goto
<1>12. ASSUME NEW c \in Clients, Rollback(c) PROVE ReservedSoFar'
  <2>1. \A d \in Clients \ {c} :
            pc[d] \in Holding => SlotKeys(req[c]) \cap SlotKeys(req[d]) = {}
    BY <1>12, HoldersApart DEF Rollback
  <2> QED
    BY <1>12, <1>0, <2>1 DEF ReservedSoFar, TypeOK, Rollback, Goto, ReleaseSlots
<1>13. ASSUME NEW c \in Clients, Unlock(c) PROVE ReservedSoFar'
  BY <1>13, <1>0 DEF ReservedSoFar, TypeOK, Unlock, Goto, DeleteIfOwned
<1>14. ASSUME NEW c \in Clients, UnlockFails(c) PROVE ReservedSoFar'
  BY <1>14, <1>0 DEF ReservedSoFar, TypeOK, UnlockFails, Goto, DeleteIfOwned
<1>15. ASSUME NEW c \in Clients, Crash(c) PROVE ReservedSoFar'
  BY <1>15, <1>0 DEF ReservedSoFar, TypeOK, Crash, Goto
<1>16. ASSUME NEW r \in Requests, LockExpires(r) PROVE ReservedSoFar'
  BY <1>16, <1>0 DEF ReservedSoFar, TypeOK, LockExpires, Leased
<1>17. ASSUME NEW v \in rateCache, DetailsExpire(v) PROVE ReservedSoFar'
  BY <1>17, <1>0 DEF ReservedSoFar, TypeOK, DetailsExpire
<1>18. ASSUME NEW key \in slots, SlotExpires(key) PROVE ReservedSoFar'
  BY <1>18 DEF ReservedSoFar, TypeOK, SlotExpires, LastingKeys
<1>19. CASE UNCHANGED vars
  BY <1>19 DEF ReservedSoFar, TypeOK, vars
<1> QED
  BY <1>1, <1>2, <1>3, <1>4, <1>5, <1>6, <1>7, <1>8, <1>9, <1>10, <1>11,
     <1>12, <1>13, <1>14, <1>15, <1>16, <1>17, <1>18, <1>19
  DEF Next, Handler, Quiet

\* The bookings accepted so far keep their slots, although handlers release.
LEMMA KeptStep ==
    ASSUME TypeOK, OutcomeWhenLeft, ReservedSoFar, CheckedIsFree, AcceptedKept,
           [Next]_vars
    PROVE  AcceptedKept'
<1> USE DEF Holding, Ended
<1>0. ASSUME NEW c \in Clients, pc[c] = "rollback"
      PROVE  \A d \in Accepted : LastingKeys(req[d]) \cap SlotKeys(req[c]) = {}
  <2>1. c \notin Accepted
    BY <1>0 DEF OutcomeWhenLeft, Accepted
  <2> QED
    BY <1>0, <2>1, LastingShared DEF CheckedIsFree, Accepted
<1>1. ASSUME NEW c \in Clients, Acquire(c) PROVE AcceptedKept'
  BY <1>1 DEF AcceptedKept, Accepted, TypeOK, Acquire, Goto, Lockable
<1>2. ASSUME NEW c \in Clients, AcquireFails(c) PROVE AcceptedKept'
  BY <1>2 DEF AcceptedKept, Accepted, TypeOK, AcquireFails, Goto, Lockable
<1>3. ASSUME NEW c \in Clients, Lookup(c) PROVE AcceptedKept'
  BY <1>3 DEF AcceptedKept, Accepted, TypeOK, Lookup, Goto
<1>4. ASSUME NEW c \in Clients, FindVehicle(c) PROVE AcceptedKept'
  BY <1>4 DEF AcceptedKept, Accepted, TypeOK, FindVehicle, Goto, Leave
<1>5. ASSUME NEW c \in Clients, FillCache(c) PROVE AcceptedKept'
  BY <1>5 DEF AcceptedKept, Accepted, TypeOK, FillCache, Goto
<1>6. ASSUME NEW c \in Clients, CheckSlots(c) PROVE AcceptedKept'
  BY <1>6 DEF AcceptedKept, Accepted, TypeOK, CheckSlots, Goto, Leave
<1>7. ASSUME NEW c \in Clients, ReserveNext(c) PROVE AcceptedKept'
  BY <1>7 DEF AcceptedKept, Accepted, TypeOK, ReserveNext, Goto, AfterSlot
<1>8. ASSUME NEW c \in Clients, RedisError(c) PROVE AcceptedKept'
  BY <1>8, <1>0
  DEF AcceptedKept, Accepted, TypeOK, RedisError, Goto, Leave, ReleaseSlots
<1>9. ASSUME NEW c \in Clients, Send(c) PROVE AcceptedKept'
  BY <1>9 DEF AcceptedKept, Accepted, ReservedSoFar, TypeOK, Send, Goto, Leave
<1>10. ASSUME NEW c \in Clients, SendUnacknowledged(c) PROVE AcceptedKept'
  BY <1>10 DEF AcceptedKept, Accepted, TypeOK, SendUnacknowledged, Goto
<1>11. ASSUME NEW c \in Clients, SendGivesUp(c) PROVE AcceptedKept'
  BY <1>11 DEF AcceptedKept, Accepted, TypeOK, SendGivesUp, Goto
<1>12. ASSUME NEW c \in Clients, Rollback(c) PROVE AcceptedKept'
  BY <1>12, <1>0 DEF AcceptedKept, Accepted, TypeOK, Rollback, ReleaseSlots
<1>13. ASSUME NEW c \in Clients, Unlock(c) PROVE AcceptedKept'
  BY <1>13 DEF AcceptedKept, Accepted, TypeOK, Unlock, Goto, DeleteIfOwned
<1>14. ASSUME NEW c \in Clients, UnlockFails(c) PROVE AcceptedKept'
  BY <1>14 DEF AcceptedKept, Accepted, TypeOK, UnlockFails, Goto, DeleteIfOwned
<1>15. ASSUME NEW c \in Clients, Crash(c) PROVE AcceptedKept'
  BY <1>15 DEF AcceptedKept, Accepted, TypeOK, Crash, Goto
<1>16. ASSUME NEW r \in Requests, LockExpires(r) PROVE AcceptedKept'
  BY <1>16 DEF AcceptedKept, Accepted, TypeOK, LockExpires, Leased
<1>17. ASSUME NEW v \in rateCache, DetailsExpire(v) PROVE AcceptedKept'
  BY <1>17 DEF AcceptedKept, Accepted, TypeOK, DetailsExpire
<1>18. ASSUME NEW key \in slots, SlotExpires(key) PROVE AcceptedKept'
  BY <1>18 DEF AcceptedKept, Accepted, TypeOK, SlotExpires, LastingKeys
<1>19. CASE UNCHANGED vars
  BY <1>19 DEF AcceptedKept, Accepted, TypeOK, vars
<1> QED
  BY <1>1, <1>2, <1>3, <1>4, <1>5, <1>6, <1>7, <1>8, <1>9, <1>10, <1>11,
     <1>12, <1>13, <1>14, <1>15, <1>16, <1>17, <1>18, <1>19
  DEF Next, Handler, Quiet

\* What a handler found free is still free of accepted bookings.
LEMMA CheckedStep ==
    ASSUME TypeOK, RangesAligned, HoldersOwn, CheckedIsFree, AcceptedKept,
           [Next]_vars
    PROVE  CheckedIsFree'
<1> USE DEF Holding, Ended
<1>0. \A c \in Clients : LastingKeys(req[c]) \subseteq SlotKeys(req[c])
  BY LastingAreSlots
<1>1. ASSUME NEW c \in Clients, Acquire(c) PROVE CheckedIsFree'
  BY <1>1 DEF CheckedIsFree, Accepted, TypeOK, Acquire, Goto, Lockable
<1>2. ASSUME NEW c \in Clients, AcquireFails(c) PROVE CheckedIsFree'
  BY <1>2 DEF CheckedIsFree, Accepted, TypeOK, AcquireFails, Goto, Lockable
<1>3. ASSUME NEW c \in Clients, Lookup(c) PROVE CheckedIsFree'
  BY <1>3 DEF CheckedIsFree, Accepted, TypeOK, Lookup, Goto
<1>4. ASSUME NEW c \in Clients, FindVehicle(c) PROVE CheckedIsFree'
  BY <1>4 DEF CheckedIsFree, Accepted, TypeOK, FindVehicle, Goto, Leave
<1>5. ASSUME NEW c \in Clients, FillCache(c) PROVE CheckedIsFree'
  BY <1>5 DEF CheckedIsFree, Accepted, TypeOK, FillCache, Goto
<1>6. ASSUME NEW c \in Clients, CheckSlots(c) PROVE CheckedIsFree'
  <2>1. SlotKeys(req[c]) \cap slots = {} =>
            \A d \in Accepted :
                LastingKeys(req[c]) \cap LastingKeys(req[d]) = {}
    BY <1>0 DEF AcceptedKept
  <2> QED
    BY <1>6, <2>1 DEF CheckedIsFree, Accepted, TypeOK, CheckSlots, Goto, Leave
<1>7. ASSUME NEW c \in Clients, ReserveNext(c) PROVE CheckedIsFree'
  BY <1>7 DEF CheckedIsFree, Accepted, TypeOK, ReserveNext, Goto, AfterSlot
<1>8. ASSUME NEW c \in Clients, RedisError(c) PROVE CheckedIsFree'
  BY <1>8 DEF CheckedIsFree, Accepted, TypeOK, RedisError, Goto, Leave, ReleaseSlots
<1>9. ASSUME NEW c \in Clients, Send(c) PROVE CheckedIsFree'
  <2>1. \A d \in Clients \ {c} :
            pc[d] \in Holding => LastingKeys(req[d]) \cap LastingKeys(req[c]) = {}
    BY <1>9, <1>0, HoldersApart DEF Send
  <2> QED
    BY <1>9, <2>1 DEF CheckedIsFree, Accepted, TypeOK, Send, Goto, Leave
<1>10. ASSUME NEW c \in Clients, SendUnacknowledged(c) PROVE CheckedIsFree'
  BY <1>10 DEF CheckedIsFree, Accepted, TypeOK, SendUnacknowledged, Goto
<1>11. ASSUME NEW c \in Clients, SendGivesUp(c) PROVE CheckedIsFree'
  BY <1>11 DEF CheckedIsFree, Accepted, TypeOK, SendGivesUp, Goto
<1>12. ASSUME NEW c \in Clients, Rollback(c) PROVE CheckedIsFree'
  BY <1>12 DEF CheckedIsFree, Accepted, TypeOK, Rollback, Goto, ReleaseSlots
<1>13. ASSUME NEW c \in Clients, Unlock(c) PROVE CheckedIsFree'
  BY <1>13 DEF CheckedIsFree, Accepted, TypeOK, Unlock, Goto, DeleteIfOwned
<1>14. ASSUME NEW c \in Clients, UnlockFails(c) PROVE CheckedIsFree'
  BY <1>14 DEF CheckedIsFree, Accepted, TypeOK, UnlockFails, Goto, DeleteIfOwned
<1>15. ASSUME NEW c \in Clients, Crash(c) PROVE CheckedIsFree'
  BY <1>15 DEF CheckedIsFree, Accepted, TypeOK, Crash, Goto
<1>16. ASSUME NEW r \in Requests, LockExpires(r) PROVE CheckedIsFree'
  BY <1>16 DEF CheckedIsFree, Accepted, TypeOK, LockExpires, Leased
<1>17. ASSUME NEW v \in rateCache, DetailsExpire(v) PROVE CheckedIsFree'
  BY <1>17 DEF CheckedIsFree, Accepted, TypeOK, DetailsExpire
<1>18. ASSUME NEW key \in slots, SlotExpires(key) PROVE CheckedIsFree'
  BY <1>18 DEF CheckedIsFree, Accepted, TypeOK, SlotExpires
<1>19. CASE UNCHANGED vars
  BY <1>19 DEF CheckedIsFree, Accepted, TypeOK, vars
<1> QED
  BY <1>1, <1>2, <1>3, <1>4, <1>5, <1>6, <1>7, <1>8, <1>9, <1>10, <1>11,
     <1>12, <1>13, <1>14, <1>15, <1>16, <1>17, <1>18, <1>19
  DEF Next, Handler, Quiet

\* One more accepted booking shares no lasting date with the earlier ones.
LEMMA DoubleStep ==
    ASSUME TypeOK, CheckedIsFree, NoneDouble, [Next]_vars
    PROVE  NoneDouble'
<1> USE DEF Holding, Ended
<1>1. ASSUME NEW c \in Clients, Acquire(c) PROVE NoneDouble'
  BY <1>1 DEF NoneDouble, Accepted, TypeOK, Acquire, Goto, Lockable
<1>2. ASSUME NEW c \in Clients, AcquireFails(c) PROVE NoneDouble'
  BY <1>2 DEF NoneDouble, Accepted, TypeOK, AcquireFails, Goto, Lockable
<1>3. ASSUME NEW c \in Clients, Lookup(c) PROVE NoneDouble'
  BY <1>3 DEF NoneDouble, Accepted, TypeOK, Lookup, Goto
<1>4. ASSUME NEW c \in Clients, FindVehicle(c) PROVE NoneDouble'
  BY <1>4 DEF NoneDouble, Accepted, TypeOK, FindVehicle, Goto, Leave
<1>5. ASSUME NEW c \in Clients, FillCache(c) PROVE NoneDouble'
  BY <1>5 DEF NoneDouble, Accepted, TypeOK, FillCache, Goto
<1>6. ASSUME NEW c \in Clients, CheckSlots(c) PROVE NoneDouble'
  BY <1>6 DEF NoneDouble, Accepted, TypeOK, CheckSlots, Goto, Leave
<1>7. ASSUME NEW c \in Clients, ReserveNext(c) PROVE NoneDouble'
  BY <1>7 DEF NoneDouble, Accepted, TypeOK, ReserveNext, Goto, AfterSlot
<1>8. ASSUME NEW c \in Clients, RedisError(c) PROVE NoneDouble'
  BY <1>8 DEF NoneDouble, Accepted, TypeOK, RedisError, Goto, Leave, ReleaseSlots
<1>9. ASSUME NEW c \in Clients, Send(c) PROVE NoneDouble'
  BY <1>9 DEF NoneDouble, CheckedIsFree, Accepted, TypeOK, Send, Goto, Leave
<1>10. ASSUME NEW c \in Clients, SendUnacknowledged(c) PROVE NoneDouble'
  BY <1>10 DEF NoneDouble, Accepted, TypeOK, SendUnacknowledged, Goto
<1>11. ASSUME NEW c \in Clients, SendGivesUp(c) PROVE NoneDouble'
  BY <1>11 DEF NoneDouble, Accepted, TypeOK, SendGivesUp, Goto
<1>12. ASSUME NEW c \in Clients, Rollback(c) PROVE NoneDouble'
  BY <1>12 DEF NoneDouble, Accepted, TypeOK, Rollback, Goto, ReleaseSlots
<1>13. ASSUME NEW c \in Clients, Unlock(c) PROVE NoneDouble'
  BY <1>13 DEF NoneDouble, Accepted, TypeOK, Unlock, Goto, DeleteIfOwned
<1>14. ASSUME NEW c \in Clients, UnlockFails(c) PROVE NoneDouble'
  BY <1>14 DEF NoneDouble, Accepted, TypeOK, UnlockFails, Goto, DeleteIfOwned
<1>15. ASSUME NEW c \in Clients, Crash(c) PROVE NoneDouble'
  BY <1>15 DEF NoneDouble, Accepted, TypeOK, Crash, Goto
<1>16. ASSUME NEW r \in Requests, LockExpires(r) PROVE NoneDouble'
  BY <1>16 DEF NoneDouble, Accepted, TypeOK, LockExpires, Leased
<1>17. ASSUME NEW v \in rateCache, DetailsExpire(v) PROVE NoneDouble'
  BY <1>17 DEF NoneDouble, Accepted, TypeOK, DetailsExpire
<1>18. ASSUME NEW key \in slots, SlotExpires(key) PROVE NoneDouble'
  BY <1>18 DEF NoneDouble, Accepted, TypeOK, SlotExpires
<1>19. CASE UNCHANGED vars
  BY <1>19 DEF NoneDouble, Accepted, TypeOK, vars
<1> QED
  BY <1>1, <1>2, <1>3, <1>4, <1>5, <1>6, <1>7, <1>8, <1>9, <1>10, <1>11,
     <1>12, <1>13, <1>14, <1>15, <1>16, <1>17, <1>18, <1>19
  DEF Next, Handler, Quiet

-----------------------------------------------------------------------------
LEMMA IngressInit == Init => IngressInv
<1> SUFFICES ASSUME Init PROVE IngressInv
  OBVIOUS
<1>1. /\ \A c \in Clients : pc[c] = "idle" /\ result[c] = "none"
      /\ slots = {}
  BY DEF Init
<1>2. HoldersOwn /\ ReservedSoFar /\ CheckedIsFree
  BY <1>1 DEF HoldersOwn, ReservedSoFar, CheckedIsFree, Holding
<1>3. Accepted = {}
  BY <1>1 DEF Accepted
<1>4. OutcomeWhenLeft /\ NoOrphanSlots /\ AcceptedKept /\ NoneDouble
  BY <1>1, <1>3 DEF OutcomeWhenLeft, NoOrphanSlots, AcceptedKept, NoneDouble
<1> QED BY <1>2, <1>4, TypeInit DEF IngressInv, Exclusion

LEMMA IngressStep == IngressInv /\ [Next]_vars => IngressInv'
<1> SUFFICES ASSUME IngressInv, [Next]_vars PROVE IngressInv'
  OBVIOUS
<1> USE DEF IngressInv
<1>1. TypeOK' /\ FillsFromRow' /\ DueWithin'
  BY TypeStep, DueStep
<1>2. OutcomeWhenLeft' /\ NoOrphanSlots'
  BY OutcomeStep, OrphanStep
<1>3. ~lapsed' => ~lapsed
  BY DEF Next, Handler, Quiet, vars, Acquire, AcquireFails, Lookup,
         FindVehicle, FillCache, CheckSlots, ReserveNext, RedisError, Send,
         SendUnacknowledged, SendGivesUp, Rollback, Unlock, UnlockFails, Crash,
         LockExpires, DetailsExpire, SlotExpires
<1>4. ASSUME RangesAligned, ~lapsed'
      PROVE  /\ HoldersOwn' /\ ReservedSoFar' /\ CheckedIsFree'
             /\ AcceptedKept' /\ NoneDouble'
  <2>1. HoldersOwn /\ ReservedSoFar /\ CheckedIsFree /\ AcceptedKept /\ NoneDouble
    BY <1>3, <1>4 DEF Exclusion
  <2> QED
    BY <1>4, <2>1, HoldersStep, ReservedStep, CheckedStep, KeptStep, DoubleStep
<1>5. Exclusion'
  BY <1>4 DEF Exclusion, RangesAligned, SlotKeys, SlotDates
<1> QED BY <1>1, <1>2, <1>5

LEMMA IngressInvariant == Spec => []IngressInv
BY IngressInit, IngressStep, PTL DEF Spec

\* Every variable of createRental, its lock, its slots and its log keeps its
\* type, for any catalogue, any requests and any combination of faults.
THEOREM IngressTypeCorrect == Spec => []TypeOK
<1>1. IngressInv => TypeOK
  BY DEF IngressInv
<1> QED BY <1>1, IngressInvariant, PTL

\* A slot is set only for a booking that is accepted, under way or cut short:
\* refusals and rolled back sends leave none, with lapsed leases or without.
THEOREM NoSlotOrphaned == Spec => []NoOrphanSlots
<1>1. IngressInv => NoOrphanSlots
  BY DEF IngressInv
<1> QED BY <1>1, IngressInvariant, PTL

\* Lock, slot check and reservation together never accept one date twice, for
\* any number of requests at once and any faults but a handler that outlives
\* its lease.
THEOREM NoDateAcceptedTwice == Spec => []NoDoubleAccept
<1>1. IngressInv => NoDoubleAccept
  BY DEF IngressInv, Exclusion, NoneDouble, NoDoubleAccept
<1> QED BY <1>1, IngressInvariant, PTL

\* No rollback, of whatever handler, frees the dates of an accepted booking.
THEOREM AcceptedStayReserved == Spec => []AcceptedKeepSlots
<1>1. IngressInv => AcceptedKeepSlots
  BY DEF IngressInv, Exclusion, AcceptedKept, AcceptedKeepSlots
<1> QED BY <1>1, IngressInvariant, PTL

\* A lock leaves a working handler by that handler's release or by the lease
\* only: a late release never takes the lock of the next holder.
THEOREM LocksReleasedByOwner == Spec => ReleasesOwnLockOnly
<1> DEFINE Kept(r, c) ==
        locks[r] = c /\ pc[c] \in Holding /\ pc'[c] \in Holding =>
            locks'[r] = c \/ (lapsed' /\ pc' = pc)
<1>1. ASSUME IngressInv, [Next]_vars, NEW r \in Requests, NEW c \in Clients
      PROVE  Kept(r, c)
  <2> SUFFICES ASSUME locks[r] = c, pc[c] \in Holding, pc'[c] \in Holding
               PROVE  locks'[r] = c \/ (lapsed' /\ pc' = pc)
    OBVIOUS
  <2>0. TypeOK /\ locks[r] # Free
    BY <1>1, IngressAssumption DEF IngressInv
  <2>1. ASSUME NEW d \in Clients, Acquire(d) \/ AcquireFails(d)
        PROVE  locks'[r] = c
    BY <2>0, <2>1 DEF TypeOK, Acquire, AcquireFails, Lockable
  <2>2. ASSUME NEW d \in Clients, Unlock(d) \/ UnlockFails(d)
        PROVE  locks'[r] = c
    <3>1. c # d
      BY <2>0, <2>2 DEF TypeOK, Unlock, UnlockFails, Goto, Holding
    <3> QED
      BY <2>0, <2>2, <3>1 DEF TypeOK, Unlock, UnlockFails, DeleteIfOwned
  <2>3. ASSUME NEW s \in Requests, LockExpires(s)
        PROVE  locks'[r] = c \/ (lapsed' /\ pc' = pc)
    BY <2>0, <2>3 DEF TypeOK, LockExpires
  <2>4. CASE UNCHANGED locks
    BY <2>4
  <2> QED
    BY <1>1, <2>1, <2>2, <2>3, <2>4
    DEF Next, Handler, Quiet, vars, Lookup, FindVehicle, FillCache, CheckSlots,
        ReserveNext, RedisError, Send, SendUnacknowledged, SendGivesUp,
        Rollback, Crash, DetailsExpire, SlotExpires
<1>2. IngressInv /\ [Next]_vars => \A r \in Requests, c \in Clients : Kept(r, c)
  BY <1>1
<1>3. IngressInv /\ [Next]_vars =>
        [\A r \in Requests, c \in Clients : Kept(r, c)]_vars
  BY <1>2
<1>4. [][IngressInv /\ [Next]_vars]_vars =>
          [][\A r \in Requests, c \in Clients : Kept(r, c)]_vars
  BY <1>3, PTL
<1> QED
  BY <1>4, IngressInvariant, PTL DEF Spec, ReleasesOwnLockOnly
=============================================================================
