--------------------------- MODULE RentalSystemProofs ---------------------------
(***************************************************************************)
(* Proofs about RentalSystem: what holds of a booking on both sides of the *)
(* queue, for every set of clients, workers, vehicles, days and requests,  *)
(* and every combination of faults.  The worker's part is what             *)
(* RentalWorkerProofs shows of RentalWorker, in the instance that reads    *)
(* the payloads of the handlers.                                           *)
(***************************************************************************)
EXTENDS RentalSystem, RentalIngressProofs, FiniteSetTheorems

P == INSTANCE RentalWorkerProofs
        WITH queue <- [o \in DOMAIN queue |-> Booking(queue[o])],
             Faults <- WorkerFaults

\* What is in the log was sent by its client, and asks for what that client
\* asked for.
QueueFaithful ==
    \A i \in DOMAIN queue : queue[i] = Payload(queue[i].requestId)

SystemInv ==
    /\ TypeOK /\ FillsFromRow /\ DueWithin
    /\ QueueFaithful
    /\ P!OnceInv
-----------------------------------------------------------------------------
\* The assumptions of the worker hold of its instance.
LEMMA WorkerAssumptions ==
    /\ P!IsFiniteSet(Workers)
    /\ Junk \notin P!ValidRequests
    /\ Unstorable \subseteq Requests
    /\ RedisConnected \in BOOLEAN
    /\ MaxQueue \in Nat
    /\ WorkerFaults \subseteq P!FaultKinds
    /\ MaxFaults \in Nat
    /\ Days \subseteq Nat
    /\ Times \subseteq Nat
    /\ Requests \subseteq P!ValidRequests
<1>1. P!ValidRequests = ValidRequests
  BY DEF P!ValidRequests, ValidRequests, P!Instants, Instants, P!Leq, Leq
<1>2. P!FaultKinds = W!FaultKinds
  BY DEF P!FaultKinds, W!FaultKinds
<1>3. P!IsFiniteSet(Workers)
  BY SystemAssumption DEF IsFiniteSet, P!IsFiniteSet
<1> QED BY <1>1, <1>2, <1>3, SystemAssumption, DatesAssumption

\* The lemmas about the worker, of its instance.
LEMMA WorkerInit ==
    ASSUME P!Init
    PROVE  P!OnceInv
BY WorkerAssumptions, P!OnceInit

LEMMA WorkerStep ==
    ASSUME P!OnceInv, [\E w \in Workers : P!Work(w) \/ P!Failure(w)]_(P!vars)
    PROVE  P!OnceInv'
BY WorkerAssumptions, P!OnceStep

LEMMA WorkerGrowth ==
    ASSUME P!OnceInv, P!LogGrows
    PROVE  P!OnceInv'
BY WorkerAssumptions, P!GrowthOnce

\* The two instances of the worker are one.
LEMMA SameCardinality ==
    ASSUME NEW S
    PROVE  /\ W!Cardinality(S) = P!Cardinality(S)
           /\ Cardinality(S) = P!Cardinality(S)
           /\ IsFiniteSet(S) <=> P!IsFiniteSet(S)
BY DEF W!Cardinality, P!Cardinality, Cardinality, P!IsFiniteSet, IsFiniteSet

LEMMA SameHelpers ==
    /\ \A S : W!BatchClash(S) <=> P!BatchClash(S)
    /\ \A S : W!TableClash(S) <=> P!TableClash(S)
    /\ \A S : W!Storable(S) <=> P!Storable(S)
    /\ \A r : W!ReleaseSlots(r) = P!ReleaseSlots(r)
    /\ \A w : W!Poison(w) = P!Poison(w)
BY DEF W!BatchClash, P!BatchClash, W!TableClash, P!TableClash,
       W!InstantsOverlap, P!InstantsOverlap, W!Leq, P!Leq, W!Storable,
       P!Storable, W!ReleaseSlots, P!ReleaseSlots, W!SlotKeys,
       P!SlotKeys, W!SlotDates, P!SlotDates, W!Poison, P!Poison

LEMMA SameMoves ==
    ASSUME NEW w
    PROVE  /\ \A label : W!Goto(w, label) <=> P!Goto(w, label)
           /\ W!Reject(w) <=> P!Reject(w)
           /\ W!Return(w) <=> P!Return(w)
           /\ \A S : W!Store(S) <=> P!Store(S)
<1>1. \A S : W!Cardinality(S) = P!Cardinality(S)
  BY SameCardinality
<1>2. \A label : W!Goto(w, label) <=> P!Goto(w, label)
  BY DEF W!Goto, P!Goto
<1>3. \A S, l, r : W!Halves(S, l, r) <=> P!Halves(S, l, r)
  BY <1>1 DEF W!Halves, P!Halves
<1>4. \A S : W!NewRows(S) = P!NewRows(S)
  BY <1>1 DEF W!NewRows, P!NewRows, W!Row, P!Row
<1>5. W!Reject(w) <=> P!Reject(w)
  BY <1>1, <1>2, <1>3 DEF W!Reject, P!Reject
<1>6. W!Return(w) <=> P!Return(w)
  BY <1>2 DEF W!Return, P!Return
<1>7. \A S : W!Store(S) <=> P!Store(S)
  BY <1>1, <1>4 DEF W!Store, P!Store
<1> QED BY <1>2, <1>5, <1>6, <1>7

LEMMA SameWork ==
    ASSUME NEW w \in Workers, W!Work(w)
    PROVE  P!Work(w)
<1>1. W!Fetch(w) => P!Fetch(w)
  BY SameMoves, SameHelpers
  DEF W!Fetch, P!Fetch, W!store, P!store, W!group, P!group
<1>2. W!Check(w) => P!Check(w)
  BY SameMoves, SameHelpers
  DEF W!Check, P!Check, W!store, P!store, W!group, P!group
<1>3. W!Insert(w) => P!Insert(w)
  BY SameMoves, SameHelpers
  DEF W!Insert, P!Insert, W!store, P!store, W!group, P!group
<1>4. W!Release(w) => P!Release(w)
  BY SameMoves, SameHelpers
  DEF W!Release, P!Release, W!store, P!store, W!group, P!group
<1>5. W!DeadLetter(w) => P!DeadLetter(w)
  BY SameMoves, SameHelpers
  DEF W!DeadLetter, P!DeadLetter, W!store, P!store, W!group, P!group
<1>6. W!Commit(w) => P!Commit(w)
  BY SameMoves, SameHelpers
  DEF W!Commit, P!Commit, W!CommitsAccepted, P!CommitsAccepted, W!Resolved,
      P!Resolved, W!store, P!store, W!group, P!group
<1> QED BY <1>1, <1>2, <1>3, <1>4, <1>5, <1>6 DEF W!Work, P!Work

LEMMA SameFailure ==
    ASSUME NEW w \in Workers, W!Failure(w)
    PROVE  P!Failure(w)
<1>0. \A kind : W!Fault(kind) <=> P!Fault(kind)
  BY DEF W!Fault, P!Fault
<1>1. W!DatabaseError(w) => P!DatabaseError(w)
  BY <1>0, SameMoves, SameHelpers
  DEF W!DatabaseError, P!DatabaseError, W!store, P!store, W!group, P!group
<1>2. W!RedisError(w) => P!RedisError(w)
  BY <1>0, SameMoves, SameHelpers
  DEF W!RedisError, P!RedisError, W!store, P!store, W!group, P!group
<1>3. W!ProducerError(w) => P!ProducerError(w)
  BY <1>0, SameMoves, SameHelpers
  DEF W!ProducerError, P!ProducerError, W!store, P!store, W!group, P!group
<1>4. W!Crash(w) => P!Crash(w)
  BY <1>0, SameMoves, SameHelpers
  DEF W!Crash, P!Crash, W!store, P!store, W!group, P!group
<1>5. W!Rebalance(w) => P!Rebalance(w)
  BY <1>0, SameMoves, SameHelpers
  DEF W!Rebalance, P!Rebalance, W!store, P!store, W!group, P!group
<1> QED BY <1>1, <1>2, <1>3, <1>4, <1>5 DEF W!Failure, P!Failure

LEMMA SameInit ==
    ASSUME W!Init
    PROVE  P!Init
BY DEF W!Init, P!Init

-----------------------------------------------------------------------------
\* What a worker reads is what the client of the message asked for.
LEMMA ReadsRequests ==
    ASSUME NEW log \in Seq(Payloads), NEW asked \in [Clients -> Requests],
           \A i \in DOMAIN log :
              LET c == log[i].requestId
              IN  log[i] = [requestId |-> c, vehicle |-> asked[c].vehicle,
                            start |-> asked[c].start, end |-> asked[c].end]
    PROVE  \A i \in DOMAIN log :
              /\ log[i].requestId \in Clients
              /\ Booking(log[i]) = asked[log[i].requestId]
              /\ Booking(log[i]) \in Requests
<1> SUFFICES ASSUME NEW i \in DOMAIN log
             PROVE  /\ log[i].requestId \in Clients
                    /\ Booking(log[i]) = asked[log[i].requestId]
                    /\ Booking(log[i]) \in Requests
  OBVIOUS
<1> DEFINE c == log[i].requestId
<1>1. c \in Clients
  BY DEF Payloads
<1>2. /\ log[i].vehicle = asked[c].vehicle /\ log[i].start = asked[c].start
      /\ log[i].end = asked[c].end
  OBVIOUS
<1>3. asked[c] \in Requests
  BY <1>1
<1>4. asked[c] = [vehicle |-> asked[c].vehicle, start |-> asked[c].start,
                  end |-> asked[c].end]
  BY <1>3, DatesAssumption DEF ValidRequests
<1> QED BY <1>1, <1>2, <1>3, <1>4 DEF Booking

\* The steps of the handlers, and of the keys in Redis that expire.
HandlerStep ==
    \/ \E c \in Clients : Handler(c) \/ Crash(c)
    \/ \E r \in Requests : LockExpires(r)
    \/ \E v \in rateCache : DetailsExpire(v)
    \/ \E key \in slots : SlotExpires(key)

\* A handler leaves the log alone or appends its payload.
LEMMA HandlerSends ==
    ASSUME HandlerStep
    PROVE  /\ UNCHANGED req
           /\ \/ UNCHANGED queue
              \/ \E c \in Clients : queue' = Append(queue, Payload(c))
BY DEF HandlerStep, Handler, Acquire, AcquireFails, Lookup, FindVehicle,
       FillCache, CheckSlots, ReserveNext, RedisError, Send,
       SendUnacknowledged, SendGivesUp, Rollback, Unlock, UnlockFails, Crash,
       LockExpires, DetailsExpire, SlotExpires

\* What a handler does is, for the workers, a longer log.
LEMMA HandlerKeeps ==
    ASSUME SystemInv, HandlerStep, UNCHANGED workerVars
    PROVE  SystemInv'
<1>1. TypeOK' /\ FillsFromRow' /\ DueWithin'
  BY TypeStep, DueStep DEF SystemInv, Next, HandlerStep
<1>2. /\ queue \in Seq(Payloads) /\ queue' \in Seq(Payloads)
      /\ Len(queue) \in Nat /\ Len(queue') \in Nat /\ Len(queue) <= Len(queue')
      /\ DOMAIN queue = 1 .. Len(queue) /\ DOMAIN queue' = 1 .. Len(queue')
      /\ \A i \in 1 .. Len(queue) : queue'[i] = queue[i]
      /\ \A i \in DOMAIN queue' : \/ i \in DOMAIN queue
                                  \/ \E c \in Clients : queue'[i] = Payload(c)
  <2>1. queue \in Seq(Payloads) /\ queue' \in Seq(Payloads)
    BY <1>1 DEF SystemInv, TypeOK
  <2>2. CASE UNCHANGED queue
    BY <2>1, <2>2
  <2>3. ASSUME NEW c \in Clients, queue' = Append(queue, Payload(c))
        PROVE  <1>2
    <3>1. Payload(c) \in Payloads
      BY PayloadType DEF SystemInv
    <3> QED BY <2>1, <2>3, <3>1
  <2> QED BY <2>2, <2>3, HandlerSends
<1>3. QueueFaithful'
  <2>1. \A c : Payload(c)' = Payload(c) /\ Payload(c).requestId = c
    BY HandlerSends DEF Payload
  <2> QED BY <1>2, <2>1 DEF SystemInv, QueueFaithful
<1>4. P!LogGrows
  <2> DEFINE log == [o \in DOMAIN queue |-> Booking(queue[o])]
  <2>1. \A i \in 1 .. Len(queue) : Booking(queue[i]) \in P!Messages
    BY <1>2, ReadsRequests
    DEF SystemInv, TypeOK, QueueFaithful, Payload, P!Messages
  <2>2. \A i \in 1 .. Len(queue') : Booking(queue'[i]) \in P!Messages
    BY <1>1, <1>2, <1>3, ReadsRequests
    DEF TypeOK, QueueFaithful, Payload, P!Messages
  <2>3. /\ log \in Seq(P!Messages) /\ Len(log) = Len(queue)
        /\ log' \in Seq(P!Messages) /\ Len(log') = Len(queue')
        /\ \A o \in 1 .. Len(queue) : log'[o] = log[o]
    BY <1>2, <2>1, <2>2 DEF Booking
  <2>4. slots' \subseteq Vehicles \X Int
    BY <1>1 DEF TypeOK
  <2> QED BY <1>2, <2>3, <2>4 DEF P!LogGrows, P!group, workerVars
<1>5. P!OnceInv'
  BY <1>4, WorkerGrowth DEF SystemInv
<1> QED BY <1>1, <1>3, <1>5 DEF SystemInv

\* A worker takes slots away, and none if its Redis client is not connected.
LEMMA WorkerSlots ==
    ASSUME NEW w \in Workers, W!Work(w) \/ W!Failure(w)
    PROVE  slots' \subseteq slots /\ (~RedisConnected => UNCHANGED slots)
<1>1. W!Work(w) => slots' \subseteq slots /\ (~RedisConnected => UNCHANGED slots)
  BY DEF W!Work, W!Fetch, W!Check, W!Insert, W!Store, W!Release, W!DeadLetter,
         W!Commit, W!ReleaseSlots, W!store
<1>2. W!Failure(w) =>
          slots' \subseteq slots /\ (~RedisConnected => UNCHANGED slots)
  BY DEF W!Failure, W!DatabaseError, W!RedisError, W!ProducerError, W!Crash,
         W!Rebalance, W!Store, W!ReleaseSlots, W!store
<1> QED BY <1>1, <1>2

LEMMA WorkerKeeps ==
    ASSUME SystemInv, UNCHANGED ingressVars, NEW w \in Workers,
           W!Work(w) \/ W!Failure(w)
    PROVE  SystemInv'
<1>1. UNCHANGED <<locks, queue, rateCache, pc, req, due, result, lapsed>>
  BY DEF ingressVars
<1>2. TypeOK' /\ FillsFromRow' /\ DueWithin'
  BY <1>1, WorkerSlots DEF SystemInv, TypeOK, FillsFromRow, DueWithin
<1>3. QueueFaithful'
  BY <1>1 DEF SystemInv, QueueFaithful, Payload
<1>4. P!OnceInv'
  BY SameWork, SameFailure, WorkerStep DEF SystemInv
<1> QED BY <1>2, <1>3, <1>4 DEF SystemInv

LEMMA RestKeeps ==
    ASSUME SystemInv, UNCHANGED systemVars
    PROVE  SystemInv'
<1>1. UNCHANGED <<vars, workerVars>>
  BY DEF systemVars
<1>2. TypeOK' /\ FillsFromRow' /\ DueWithin'
  BY <1>1, TypeStep, DueStep DEF SystemInv
<1>3. QueueFaithful'
  BY <1>1 DEF SystemInv, QueueFaithful, Payload, vars
<1>4. UNCHANGED P!vars
  BY <1>1 DEF vars, workerVars, P!vars
<1>5. P!OnceInv'
  BY <1>4, WorkerStep DEF SystemInv
<1> QED BY <1>2, <1>3, <1>5 DEF SystemInv

LEMMA SystemInitial == SystemInit => SystemInv
<1> SUFFICES ASSUME SystemInit PROVE SystemInv
  OBVIOUS
<1>1. TypeOK /\ FillsFromRow /\ DueWithin
  BY TypeInit DEF SystemInit
<1>2. QueueFaithful
  BY DEF SystemInit, Init, QueueFaithful
<1>3. P!OnceInv
  BY SameInit, WorkerInit DEF SystemInit
<1> QED BY <1>1, <1>2, <1>3 DEF SystemInv

LEMMA StepsOfSystem ==
    ASSUME [SystemNext]_systemVars
    PROVE  \/ HandlerStep /\ UNCHANGED workerVars
           \/ /\ UNCHANGED ingressVars
              /\ \E w \in Workers : W!Work(w) \/ W!Failure(w)
           \/ UNCHANGED systemVars
BY DEF SystemNext, HandlerStep, Handle, Die, Expire, Forget, Evict, Process,
       Disturb, Rest

LEMMA SystemStep == SystemInv /\ [SystemNext]_systemVars => SystemInv'
BY StepsOfSystem, HandlerKeeps, WorkerKeeps, RestKeeps

LEMMA SystemInvariant == SystemSpec => []SystemInv
BY SystemInitial, SystemStep, PTL DEF SystemSpec

\* A booking becomes one row, however often its message is sent, delivered and
\* tried again, for any handlers, workers and faults, until a rebalance has
\* overtaken a batch; after that it has no more rows than there are workers,
\* for nobody who looks when one is there lets the booking pass.
THEOREM OneRowPerBooking == SystemSpec => []RecordedOnce
<1>1. ASSUME SystemInv, NEW c \in Clients
      PROVE  /\ ~overtaken => Cardinality(RowsOf(c)) <= 1
             /\ Cardinality(RowsOf(c)) <= Cardinality(Workers)
  <2> DEFINE log == [o \in DOMAIN queue |-> Booking(queue[o])]
  <2>1. \A r \in rentals : r.src \in DOMAIN queue
    BY <1>1 DEF SystemInv, P!OnceInv, P!RowsFaithful, P!Offsets
  <2>2. \A r \in RowsOf(c) : r \in rentals /\ log[r.src] = req[c]
    BY <1>1, <2>1, ReadsRequests
    DEF RowsOf, SystemInv, TypeOK, QueueFaithful, Payload
  <2>3. CASE RowsOf(c) = {}
    BY <2>3, FS_EmptySet, SystemAssumption, FS_CardinalityType
  <2>4. ASSUME NEW r \in RowsOf(c), ~overtaken
        PROVE  Cardinality(RowsOf(c)) <= 1
    <3>1. \A s, t \in rentals : log[s.src] = log[t.src] => s = t
      BY <1>1, <2>4 DEF SystemInv, P!OnceInv, P!OneRowEach
    <3>2. RowsOf(c) = {r}
      BY <2>2, <2>4, <3>1
    <3>3. Cardinality({r}) = 1
      BY FS_Singleton
    <3> QED BY <3>2, <3>3
  <2>5. ASSUME NEW r \in RowsOf(c)
        PROVE  Cardinality(RowsOf(c)) <= Cardinality(Workers)
    <3> DEFINE rows == {row \in rentals : log[row.src] = req[c]}
    <3>1. req[c] \in Requests
      BY <1>1 DEF SystemInv, TypeOK
    <3>2. P!RowsFor(req[c]) = rows
      BY DEF P!RowsFor
    <3>3. RowsOf(c) \subseteq rows /\ rows # {}
      BY <2>2, <2>5
    <3>4. /\ P!IsFiniteSet(rows)
          /\ P!Cardinality(rows) + P!Cardinality(P!Inserting(req[c]))
                 <= P!Cardinality(Workers)
      BY <1>1, <3>1, <3>2, <3>3 DEF SystemInv, P!OnceInv, P!RowPerWorker
    <3>5. P!Cardinality(P!Inserting(req[c])) \in Nat
      BY WorkerAssumptions, P!InsertingFinite
    <3> HIDE DEF rows
    <3>6. /\ IsFiniteSet(rows) /\ Cardinality(rows) \in Nat
          /\ Cardinality(Workers) \in Nat
          /\ Cardinality(rows) + P!Cardinality(P!Inserting(req[c]))
                 <= Cardinality(Workers)
      BY <3>4, SameCardinality, SystemAssumption, FS_CardinalityType
    <3>7. /\ Cardinality(RowsOf(c)) <= Cardinality(rows)
          /\ Cardinality(RowsOf(c)) \in Nat
      BY <3>3, <3>6, FS_Subset, FS_CardinalityType
    <3> QED BY <3>5, <3>6, <3>7
  <2> QED BY <2>3, <2>4, <2>5
<1>2. SystemInv => RecordedOnce
  BY <1>1 DEF RecordedOnce
<1> QED BY <1>2, SystemInvariant, PTL

-----------------------------------------------------------------------------
(***************************************************************************)
(* The days of every row are reserved, until their TTL is over.            *)
(***************************************************************************)

\* The conditions of RecordedKeepSlots that no single client is part of.
Undisturbed ==
    /\ \A r, s \in Requests : r # s => ~DaysOverlap(r, s)
    /\ ~lapsed /\ ~RedisConnected

\* A client whose message is in the log, and not because its send failed.
Booked(c) == Copies(c) # {} /\ result[c] \in {"none", "queued"}

\* A handler that has set some slots, now or for a message already in the log,
\* finds them set when it sends, unless they have expired.
SlotsSoFar ==
    \A c \in Clients :
        pc[c] \in {"reserve", "send"} =>
            \A key \in LastingKeys(req[c]) :
                key \in slots \/ (pc[c] = "reserve" /\ key[2] \in due[c])

\* No booking in the log has a lasting day of a handler past its slot check,
\* which may yet roll its slots back.
BookedApart ==
    \A c, d \in Clients :
        c # d /\ pc[c] \in {"reserve", "send", "rollback"} /\ Booked(d) =>
            SlotKeys(req[c]) \cap LastingKeys(req[d]) = {}

BookedKept == \A c \in Clients : Booked(c) => LastingKeys(req[c]) \subseteq slots

Reserving == HoldersOwn /\ SlotsSoFar /\ BookedApart /\ BookedKept

CalendarInv ==
    /\ SystemInv
    /\ OutcomeWhenLeft
    /\ Undisturbed => Reserving

\* Requests that share no day share no slot.
LEMMA ApartAligned ==
    ASSUME \A r, s \in Requests : r # s => ~DaysOverlap(r, s)
    PROVE  RangesAligned
<1> SUFFICES ASSUME NEW r \in Requests, NEW s \in Requests, r # s,
                    NEW key \in SlotKeys(r), key \in SlotKeys(s)
             PROVE  DaysOverlap(r, s)
  BY DEF RangesAligned
<1>1. /\ r.start.day \in Nat /\ r.end.day \in Nat
      /\ s.start.day \in Nat /\ s.end.day \in Nat
  BY RequestSlots, DatesAssumption DEF Instants
<1>2. /\ key[1] = r.vehicle /\ key[1] = s.vehicle
      /\ key[2] \in SlotDates(r) /\ key[2] \in SlotDates(s)
  BY DEF SlotKeys
<1> QED BY <1>1, <1>2 DEF SlotDates, DaysOverlap

\* A message of one client is none of another's.
LEMMA OneMoreCopy ==
    ASSUME TypeOK, NEW c \in Clients, queue' = Append(queue, Payload(c)),
           NEW d \in Clients, d # c, Copies(d)' # {}
    PROVE  Copies(d) # {}
<1>1. /\ queue \in Seq(Payloads) /\ Len(queue') = Len(queue) + 1
      /\ DOMAIN queue = 1 .. Len(queue) /\ DOMAIN queue' = 1 .. Len(queue')
      /\ \A i \in 1 .. Len(queue) : queue'[i] = queue[i]
      /\ queue'[Len(queue) + 1].requestId = c
  BY PayloadType DEF TypeOK, Payload
<1>2. PICK i \in DOMAIN queue' : queue'[i].requestId = d
  BY DEF Copies
<1>3. i \in DOMAIN queue
  BY <1>1, <1>2
<1> QED BY <1>1, <1>2, <1>3 DEF Copies

\* A step that sets no slot, sends nothing and passes no check.
Aside ==
    /\ UNCHANGED <<slots, queue, req>>
    /\ \A c \in Clients :
          /\ pc'[c] \in {"reserve", "send"} => pc'[c] = pc[c] /\ due'[c] = due[c]
          /\ pc'[c] = "rollback" => pc[c] \in {"send", "rollback"}
          /\ result'[c] \in {"none", "queued"} => result'[c] = result[c]

LEMMA HandlerKinds ==
    ASSUME TypeOK, HandlerStep
    PROVE  \/ Aside
           \/ \E c \in Clients :
                 \/ CheckSlots(c) \/ ReserveNext(c) \/ Send(c)
                 \/ SendUnacknowledged(c) \/ Rollback(c)
                 \/ pc[c] \in {"reserve", "rollback"} /\ RedisError(c)
           \/ \E key \in slots : SlotExpires(key)
<1>1. ASSUME NEW c \in Clients, Acquire(c) PROVE Aside
  BY <1>1 DEF TypeOK, Acquire, Aside, Goto
<1>2. ASSUME NEW c \in Clients, AcquireFails(c) PROVE Aside
  BY <1>2 DEF TypeOK, AcquireFails, Aside, Goto
<1>3. ASSUME NEW c \in Clients, Lookup(c) PROVE Aside
  BY <1>3 DEF TypeOK, Lookup, Aside, Goto
<1>4. ASSUME NEW c \in Clients, FindVehicle(c) PROVE Aside
  BY <1>4 DEF TypeOK, FindVehicle, Aside, Goto, Leave
<1>5. ASSUME NEW c \in Clients, FillCache(c) PROVE Aside
  BY <1>5 DEF TypeOK, FillCache, Aside, Goto
<1>6. ASSUME NEW c \in Clients, pc[c] \notin {"reserve", "rollback"}, RedisError(c)
      PROVE  Aside
  BY <1>6 DEF TypeOK, RedisError, Aside, Goto, Leave
<1>7. ASSUME NEW c \in Clients, SendGivesUp(c) PROVE Aside
  BY <1>7 DEF TypeOK, SendGivesUp, Aside, Goto
<1>8. ASSUME NEW c \in Clients, Unlock(c) \/ UnlockFails(c) PROVE Aside
  BY <1>8 DEF TypeOK, Unlock, UnlockFails, Aside, Goto
<1>9. ASSUME NEW c \in Clients, Crash(c) PROVE Aside
  BY <1>9 DEF TypeOK, Crash, Aside, Goto
<1>10. ASSUME NEW r \in Requests, LockExpires(r) PROVE Aside
  BY <1>10 DEF LockExpires, Aside
<1>11. ASSUME NEW v \in rateCache, DetailsExpire(v) PROVE Aside
  BY <1>11 DEF DetailsExpire, Aside
<1> QED
  BY <1>1, <1>2, <1>3, <1>4, <1>5, <1>6, <1>7, <1>8, <1>9, <1>10, <1>11
  DEF HandlerStep, Handler

\* No step of a handler takes away a slot of a booking in the log, and no
\* expiry a lasting one.
LEMMA ReservingStep ==
    ASSUME TypeOK, DueWithin, OutcomeWhenLeft, Reserving, RangesAligned,
           HandlerStep
    PROVE  SlotsSoFar' /\ BookedApart' /\ BookedKept'
<1> USE DEF Reserving
<1>0. /\ \A c, d \in Clients :
            c # d /\ pc[c] \in Holding /\ pc[d] \in Holding =>
                SlotKeys(req[c]) \cap SlotKeys(req[d]) = {}
      /\ UNCHANGED req
      /\ \A c \in Clients : LastingKeys(req[c]) \subseteq SlotKeys(req[c])
  BY HoldersApart, HandlerSends DEF LastingKeys
<1>1. CASE Aside
  <2>1. \A c \in Clients : Booked(c)' => Booked(c)
    BY <1>1 DEF Aside, Booked, Copies
  <2>2. \A c \in Clients : pc'[c] \in {"reserve", "send", "rollback"} =>
                               pc[c] \in {"reserve", "send", "rollback"}
    BY <1>1 DEF Aside
  <2> QED BY <1>1, <2>1, <2>2 DEF Aside, SlotsSoFar, BookedApart, BookedKept
<1>2. ASSUME NEW c \in Clients, CheckSlots(c)
      PROVE  SlotsSoFar' /\ BookedApart' /\ BookedKept'
  <2>1. /\ pc'[c] = "unlock" \/ SlotKeys(req[c]) \cap slots = {}
        /\ pc'[c] \in {"unlock", "reserve"}
        /\ pc'[c] = "reserve" => due'[c] = SlotDates(req[c])
        /\ \A d \in Clients \ {c} : pc'[d] = pc[d] /\ due'[d] = due[d]
        /\ UNCHANGED <<slots, queue>>
        /\ \A d \in Clients : Booked(d)' => Booked(d)
    BY <1>2 DEF TypeOK, CheckSlots, Goto, Leave, Booked, Copies
  <2>2. \A key \in SlotKeys(req[c]) : key[2] \in SlotDates(req[c])
    BY DEF SlotKeys
  <2> QED BY <1>0, <2>1, <2>2 DEF SlotsSoFar, BookedApart, BookedKept
<1>3. ASSUME NEW c \in Clients, ReserveNext(c)
      PROVE  SlotsSoFar' /\ BookedApart' /\ BookedKept'
  <2>1. PICK e \in due[c] : /\ slots' = slots \cup {<<req[c].vehicle, e>>}
                            /\ due' = [due EXCEPT ![c] = @ \ {e}]
                            /\ Goto(c, AfterSlot(c, e))
    BY <1>3 DEF ReserveNext
  <2>2. /\ pc[c] = "reserve" /\ pc'[c] \in {"reserve", "send"}
        /\ pc'[c] = "send" => due[c] = {e}
        /\ due'[c] = due[c] \ {e}
        /\ \A d \in Clients \ {c} : pc'[d] = pc[d] /\ due'[d] = due[d]
        /\ \A d \in Clients : Booked(d)' => Booked(d)
    BY <1>3, <2>1 DEF TypeOK, ReserveNext, Goto, AfterSlot, Booked, Copies
  <2>3. \A key \in SlotKeys(req[c]) : key = <<req[c].vehicle, key[2]>>
    BY DEF SlotKeys
  <2>4. SlotsSoFar'
    BY <1>0, <2>1, <2>2, <2>3 DEF SlotsSoFar
  <2>5. BookedApart' /\ BookedKept'
    BY <1>0, <2>1, <2>2 DEF BookedApart, BookedKept
  <2> QED BY <2>4, <2>5
<1>4. ASSUME NEW c \in Clients, Send(c) \/ SendUnacknowledged(c)
      PROVE  SlotsSoFar' /\ BookedApart' /\ BookedKept'
  <2>1. /\ pc[c] = "send" /\ pc'[c] \in {"send", "unlock"}
        /\ UNCHANGED <<slots, due>>
        /\ queue' = Append(queue, Payload(c))
        /\ \A d \in Clients \ {c} : pc'[d] = pc[d] /\ result'[d] = result[d]
    BY <1>4 DEF TypeOK, Send, SendUnacknowledged, Goto, Leave
  <2>2. \A d \in Clients \ {c} : Booked(d)' => Booked(d)
    BY <2>1, OneMoreCopy DEF Booked
  <2>3. SlotsSoFar'
    BY <1>0, <2>1 DEF SlotsSoFar
  <2>4. BookedApart'
    <3>1. ASSUME NEW d \in Clients, d # c, pc[d] \in Holding
          PROVE  SlotKeys(req[d]) \cap LastingKeys(req[c]) = {}
      <4>1. SlotKeys(req[d]) \cap SlotKeys(req[c]) = {}
        BY <1>0, <2>1, <3>1 DEF Holding
      <4> QED BY <1>0, <4>1
    <3>2. \A d \in Clients : pc'[d] \in {"reserve", "send", "rollback"} =>
             pc[d] \in {"reserve", "send", "rollback"} /\ pc[d] \in Holding
      BY <2>1 DEF Holding
    <3> QED BY <1>0, <2>2, <3>1, <3>2 DEF BookedApart
  <2>5. BookedKept'
    BY <1>0, <2>1, <2>2 DEF BookedKept, SlotsSoFar
  <2> QED BY <2>3, <2>4, <2>5
<1>5. ASSUME NEW c \in Clients,
             \/ Rollback(c)
             \/ pc[c] \in {"reserve", "rollback"} /\ RedisError(c)
      PROVE  SlotsSoFar' /\ BookedApart' /\ BookedKept'
  <2>1. /\ pc[c] \in {"reserve", "rollback"} /\ pc'[c] = "unlock"
        /\ UNCHANGED queue
        /\ \A d \in Clients \ {c} : pc'[d] = pc[d] /\ due'[d] = due[d]
        /\ \A d \in Clients : Booked(d)' => Booked(d)
    BY <1>5 DEF TypeOK, Rollback, RedisError, Goto, Leave, Booked, Copies
  <2>2. /\ slots \ SlotKeys(req[c]) \subseteq slots'
        /\ pc[c] = "reserve" => slots \subseteq slots'
    BY <1>5 DEF Rollback, RedisError, ReleaseSlots
  <2>3. SlotsSoFar'
    BY <1>0, <2>1, <2>2 DEF SlotsSoFar, Holding
  <2>4. BookedApart'
    BY <1>0, <2>1 DEF BookedApart
  <2>5. BookedKept'
    <3>1. pc[c] = "rollback" => ~Booked(c)
      BY DEF OutcomeWhenLeft, Booked
    <3> QED BY <1>0, <2>1, <2>2, <3>1 DEF BookedKept, BookedApart
  <2> QED BY <2>3, <2>4, <2>5
<1>6. ASSUME NEW key \in slots, SlotExpires(key)
      PROVE  SlotsSoFar' /\ BookedApart' /\ BookedKept'
  <2>1. /\ UNCHANGED <<queue, pc, due, result>>
        /\ slots' = slots \ {key} /\ key[2] \in PastDays
        /\ \A d \in Clients : Booked(d)' => Booked(d)
    BY <1>6 DEF SlotExpires, Booked, Copies
  <2>2. \A r : key \notin LastingKeys(r)
    BY <2>1 DEF LastingKeys
  <2> QED BY <1>0, <2>1, <2>2 DEF SlotsSoFar, BookedApart, BookedKept
<1> QED BY <1>1, <1>2, <1>3, <1>4, <1>5, <1>6, HandlerKinds

LEMMA CalendarHandler ==
    ASSUME CalendarInv, HandlerStep, UNCHANGED workerVars
    PROVE  CalendarInv'
<1>1. SystemInv' /\ TypeOK /\ DueWithin /\ [Next]_vars
  BY HandlerKeeps DEF CalendarInv, SystemInv, Next, HandlerStep
<1>2. OutcomeWhenLeft'
  BY <1>1, OutcomeStep DEF CalendarInv
<1>3. ~lapsed' => ~lapsed
  BY DEF HandlerStep, Handler, Acquire, AcquireFails, Lookup, FindVehicle,
         FillCache, CheckSlots, ReserveNext, RedisError, Send,
         SendUnacknowledged, SendGivesUp, Rollback, Unlock, UnlockFails, Crash,
         LockExpires, DetailsExpire, SlotExpires
<1>4. ASSUME Undisturbed'
      PROVE  Reserving'
  <2>1. Undisturbed /\ ~lapsed'
    BY <1>3, <1>4 DEF Undisturbed, DaysOverlap
  <2>2. RangesAligned
    BY <2>1, ApartAligned DEF Undisturbed
  <2>3. Reserving
    BY <2>1 DEF CalendarInv
  <2>4. HoldersOwn'
    BY <1>1, <2>1, <2>3, HoldersStep DEF Reserving
  <2> QED
    BY <1>1, <2>2, <2>3, <2>4, ReservingStep DEF CalendarInv, Reserving
<1> QED BY <1>1, <1>2, <1>4 DEF CalendarInv

LEMMA CalendarElsewhere ==
    ASSUME CalendarInv, SystemInv',
           UNCHANGED <<locks, queue, pc, req, due, result, lapsed>>,
           ~RedisConnected => UNCHANGED slots
    PROVE  CalendarInv'
<1>1. OutcomeWhenLeft'
  BY DEF CalendarInv, OutcomeWhenLeft
<1>2. Undisturbed' => Undisturbed /\ UNCHANGED slots
  BY DEF Undisturbed, DaysOverlap
<1>3. \A c \in Clients : Booked(c)' => Booked(c)
  BY DEF Booked, Copies
<1>4. Undisturbed' => Reserving'
  BY <1>2, <1>3
  DEF CalendarInv, Reserving, HoldersOwn, SlotsSoFar, BookedApart, BookedKept,
      LastingKeys
<1> QED BY <1>1, <1>4 DEF CalendarInv

LEMMA CalendarInit == SystemInit => CalendarInv
<1> SUFFICES ASSUME SystemInit PROVE CalendarInv
  OBVIOUS
<1>1. /\ \A c \in Clients : pc[c] = "idle" /\ result[c] = "none"
      /\ queue = <<>>
  BY DEF SystemInit, Init
<1>2. OutcomeWhenLeft /\ HoldersOwn /\ SlotsSoFar
  BY <1>1 DEF OutcomeWhenLeft, HoldersOwn, SlotsSoFar, Holding
<1>3. \A c \in Clients : ~Booked(c)
  BY <1>1 DEF Booked, Copies
<1> QED
  BY <1>2, <1>3, SystemInitial DEF CalendarInv, Reserving, BookedApart, BookedKept

LEMMA CalendarStep == CalendarInv /\ [SystemNext]_systemVars => CalendarInv'
<1> SUFFICES ASSUME CalendarInv, [SystemNext]_systemVars PROVE CalendarInv'
  OBVIOUS
<1>1. SystemInv'
  BY SystemStep DEF CalendarInv
<1>2. CASE HandlerStep /\ UNCHANGED workerVars
  BY <1>2, CalendarHandler
<1>3. ASSUME UNCHANGED ingressVars, NEW w \in Workers, W!Work(w) \/ W!Failure(w)
      PROVE  CalendarInv'
  BY <1>1, <1>3, WorkerSlots, CalendarElsewhere DEF ingressVars
<1>4. CASE UNCHANGED systemVars
  BY <1>1, <1>4, CalendarElsewhere DEF systemVars, vars
<1> QED BY <1>2, <1>3, <1>4, StepsOfSystem

LEMMA CalendarInvariant == SystemSpec => []CalendarInv
BY CalendarInit, CalendarStep, PTL DEF SystemSpec

\* Every row has its days reserved, but those whose TTL may be over, whoever
\* crashed on either side of the queue and whatever the worker's failures: for
\* any customers, any ranges that share no day, and a worker whose Redis client
\* is not connected.
THEOREM RowsStayReserved == SystemSpec => []RecordedKeepSlots
<1>1. CalendarInv => RecordedKeepSlots
  <2> SUFFICES ASSUME CalendarInv, Dependable, ~RedisConnected,
                      NEW c \in Clients, NEW r \in RowsOf(c)
               PROVE  LastingKeys(req[c]) \subseteq slots
    BY DEF RecordedKeepSlots
  <2>1. Undisturbed
    BY DEF Dependable, Undisturbed
  <2>2. r.src \in DOMAIN queue /\ queue[r.src].requestId = c
    BY DEF RowsOf, CalendarInv, SystemInv, P!OnceInv, P!RowsFaithful, P!Offsets
  <2>3. Booked(c)
    BY <2>2 DEF Copies, Dependable, Booked
  <2> QED BY <2>1, <2>3 DEF CalendarInv, Reserving, BookedKept
<1> QED BY <1>1, CalendarInvariant, PTL
=============================================================================
