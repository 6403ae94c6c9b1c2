----------------------- MODULE RentalWorkerLedgerProofs ------------------------
(***************************************************************************)
(* Every step of the worker is a step of BookingLedger or changes nothing  *)
(* that the ledger shows, for every set of workers and requests and every  *)
(* bound, whatever sendToDLQ meets in Redis and Kafka.                     *)
(***************************************************************************)
EXTENDS RentalWorkerLedger, RentalWorkerProofs, WellFoundedInduction

\* What the ledger has granted or refused.
Decided == InTable \cup dlq \cup dropped

\* The lists of a worker are in log order, within its batch.
ListsSorted ==
    \A w \in Workers :
        /\ \A k, l \in DOMAIN calls[w] :
              k < l => \A i \in calls[w][k], j \in calls[w][l] : i < j
        /\ \A o \in Pending(w) : o <= upto[w]

\* Nothing is decided before its turn: not what lies beyond a pending item or
\* the batch, nor, between batches, beyond the committed offset.
NothingAhead ==
    /\ \A w \in Workers : wpc[w] # "idle" =>
          \A o \in Decided : o <= upto[w] /\ \A p \in Pending(w) : o < p
    /\ (\A w \in Workers : wpc[w] = "idle") => \A o \in Decided : o <= committed

\* What is handed to sendToDLQ could not be granted.
Refusable(o) == queue[o] \in Unstorable \/ TableClash({o})

RejectedRightly ==
    \A w \in Workers :
        wpc[w] \in {"release", "deadletter"} =>
            \A o \in Head(calls[w]) : Refusable(o)

LedgerInv ==
    /\ TypeOK /\ Shape
    /\ SoleWorker /\ ~overtaken
    /\ Checked /\ NoDoubleBooking
    /\ BatchAccounted /\ CommittedAccounted
    /\ ListsSorted /\ NothingAhead /\ RowsFaithful /\ RejectedRightly
-----------------------------------------------------------------------------
(***************************************************************************)
(* The steps of the worker by what they do to the lists and the decisions. *)
(***************************************************************************)
Elsewhere == UNCHANGED <<queue, upto, committed, owner, overtaken>>

Undecided == UNCHANGED <<rentals, dlq, dropped>>

\* A list is split, or its only item is set aside as one to be refused.
Splits(w) ==
    /\ wpc[w] \in {"check", "insert"} /\ Reject(w)
    /\ Cardinality(Head(calls[w])) = 1 => \A o \in Head(calls[w]) : Refusable(o)
    /\ Elsewhere /\ Undecided

\* A list goes on to its INSERT, or its item to rental-dlq.
GoesOn(w) ==
    /\ \/ wpc[w] = "check" /\ Goto(w, "insert")
       \/ wpc[w] = "release" /\ Goto(w, "deadletter")
    /\ UNCHANGED calls /\ Elsewhere /\ Undecided

Grants(w) ==
    /\ wpc[w] = "insert" /\ Storable(Head(calls[w])) /\ Store(Head(calls[w]))
    /\ Return(w) /\ Elsewhere

Refuses(w) ==
    /\ wpc[w] \in {"release", "deadletter"} /\ Return(w)
    /\ (dlq \cup dropped)' = dlq \cup dropped \cup {Poison(w)}
    /\ UNCHANGED rentals /\ Elsewhere

\* No step is a fault, but for those that sendToDLQ swallows.
Harmless == Faults \subseteq {"redis", "kafka"} \/ UNCHANGED faultsLeft

\* But for the other faults, there are no other steps.
LEMMA StepKinds ==
    ASSUME TypeOK, Shape, Harmless, [Next]_vars
    PROVE  \/ \E m \in Messages : Produce(m)
           \/ \E w \in Workers : \/ Fetch(w) \/ Commit(w) \/ Splits(w)
                                 \/ GoesOn(w) \/ Grants(w) \/ Refuses(w)
           \/ UNCHANGED vars
<1> USE DEF Elsewhere, Undecided
<1>1. ASSUME NEW w \in Workers, Check(w)
      PROVE  Splits(w) \/ GoesOn(w)
  <2>1. wpc[w] = "check" /\ Elsewhere /\ Undecided
    BY <1>1 DEF Check, store, group
  <2>2. CASE /\ BatchClash(Head(calls[w])) \/ TableClash(Head(calls[w]))
             /\ Reject(w)
    <3>1. ASSUME Cardinality(Head(calls[w])) = 1, NEW o \in Head(calls[w])
          PROVE  Refusable(o)
      <4>1. Head(calls[w]) \in SUBSET Offsets
        BY <2>1, HeadPending
      <4>2. Head(calls[w]) = {o}
        BY <3>1, <4>1, OffsetsFinite, FS_Singleton
      <4>3. o \in Nat
        BY <4>1 DEF Offsets, TypeOK
      <4>4. ~BatchClash({o})
        BY <4>3 DEF BatchClash
      <4> QED BY <2>2, <4>2, <4>4 DEF Refusable
    <3> QED BY <2>1, <2>2, <3>1 DEF Splits
  <2>3. CASE Goto(w, "insert") /\ UNCHANGED calls
    BY <2>1, <2>3 DEF GoesOn
  <2> QED BY <1>1, <2>2, <2>3 DEF Check
<1>2. ASSUME NEW w \in Workers, Insert(w)
      PROVE  Splits(w) \/ Grants(w)
  <2>1. wpc[w] = "insert" /\ Elsewhere
    BY <1>2 DEF Insert, group
  <2>2. CASE Storable(Head(calls[w])) /\ Store(Head(calls[w])) /\ Return(w)
    BY <2>1, <2>2 DEF Grants
  <2>3. CASE ~Storable(Head(calls[w])) /\ UNCHANGED store /\ Reject(w)
    <3>1. ASSUME Cardinality(Head(calls[w])) = 1, NEW o \in Head(calls[w])
          PROVE  Refusable(o)
      <4>1. Head(calls[w]) \in SUBSET Offsets
        BY <2>1, HeadPending
      <4>2. Head(calls[w]) = {o}
        BY <3>1, <4>1, OffsetsFinite, FS_Singleton
      <4> QED BY <2>3, <4>2 DEF Refusable, Storable
    <3> QED BY <2>1, <2>3, <3>1 DEF Splits, store
  <2> QED BY <1>2, <2>2, <2>3 DEF Insert
<1>3. ASSUME NEW w \in Workers, Release(w)
      PROVE  GoesOn(w) \/ Refuses(w)
  BY <1>3 DEF Release, GoesOn, Refuses, group
<1>4. ASSUME NEW w \in Workers,
             RedisError(w) \/ DeadLetter(w) \/ ProducerError(w)
      PROVE  Refuses(w)
  BY <1>4 DEF RedisError, DeadLetter, ProducerError, Refuses, group
<1>5. ASSUME NEW w \in Workers
      PROVE  ~DatabaseError(w) /\ ~Crash(w) /\ ~Rebalance(w)
  <2>1. faultsLeft - 1 # faultsLeft
    BY DEF TypeOK
  <2>2. ASSUME NEW kind, Fault(kind) PROVE kind \in {"redis", "kafka"}
    BY <2>1, <2>2 DEF Fault, Harmless
  <2> QED BY <2>2 DEF DatabaseError, Crash, Rebalance
<1> QED
  BY <1>1, <1>2, <1>3, <1>4, <1>5 DEF Next, Work, Failure, Quiet

-----------------------------------------------------------------------------
\* The first list comes before everything else that is pending.
LEMMA HeadFirst ==
    ASSUME TypeOK, Shape, ListsSorted,
           NEW w \in Workers, wpc[w] \notin {"idle", "commit"},
           NEW o \in Pending(w), o \notin Head(calls[w])
    PROVE  \A i \in Head(calls[w]) : i < o
<1> DEFINE s == calls[w]
<1>1. s \in Seq(SUBSET Offsets) /\ s # <<>>
  BY HeadPending
<1>2. Len(s) \in Nat /\ DOMAIN s = 1 .. Len(s) /\ 1 \in DOMAIN s /\ Head(s) = s[1]
  BY <1>1
<1>3. PICK l \in DOMAIN s : o \in s[l]
  BY DEF Pending
<1>4. l # 1 /\ 1 < l
  BY <1>2, <1>3
<1> QED BY <1>2, <1>3, <1>4 DEF ListsSorted

\* A return leaves the lists sorted, and its items are no longer pending.
LEMMA ReturnSorted ==
    ASSUME TypeOK, Shape, ListsSorted, UNCHANGED upto,
           NEW w \in Workers, wpc[w] \notin {"idle", "commit"}, Return(w)
    PROVE  /\ ListsSorted'
           /\ \A o \in Pending(w)' : o \notin Head(calls[w])
<1> DEFINE s == calls[w]
           t == calls'[w]
<1>1. s \in Seq(SUBSET Offsets) /\ s # <<>> /\ t = Tail(s)
  BY HeadPending DEF Return, TypeOK
<1>2. /\ Len(s) \in Nat /\ DOMAIN s = 1 .. Len(s) /\ Head(s) = s[1]
      /\ DOMAIN t = 1 .. (Len(s) - 1)
      /\ \A i \in DOMAIN t : t[i] = s[i + 1]
  <2> HIDE DEF s, t
  <2> QED BY <1>1, RestList
<1>3. \A k, l \in DOMAIN s : k < l => \A i \in s[k], j \in s[l] : i < j
  BY DEF ListsSorted
<1>4. \A k, l \in DOMAIN t : k < l => \A i \in t[k], j \in t[l] : i < j
  <2> HIDE DEF s, t
  <2>1. \A k \in DOMAIN t : k \in Nat /\ k + 1 \in DOMAIN s
    BY <1>2
  <2> QED BY <1>2, <1>3, <2>1
<1>5. ASSUME NEW o \in Pending(w)', o \in Head(calls[w])
      PROVE  FALSE
  <2>1. PICK l \in DOMAIN t : o \in t[l]
    BY <1>5 DEF Pending
  <2>2. o \in s[l + 1] /\ o \in s[1]
    BY <1>2, <1>5, <2>1
  <2>3. 1 \in DOMAIN s /\ l + 1 \in DOMAIN s /\ 1 < l + 1
    <3> HIDE DEF s, t
    <3> QED BY <1>2, <2>1
  <2>4. o \in Nat
    BY <1>1, <1>5, HeadPending DEF TypeOK, Offsets
  <2> QED BY <1>3, <2>2, <2>3, <2>4
<1>6. /\ \A v \in Workers \ {w} : calls'[v] = calls[v]
      /\ Pending(w)' \subseteq Pending(w)
  BY ReturnEffect
<1>7. \A v \in Workers \ {w} : Pending(v)' = Pending(v)
  BY <1>6 DEF Pending
<1>8. ListsSorted'
  BY <1>4, <1>6, <1>7 DEF ListsSorted
<1> QED BY <1>5, <1>8

\* The two halves of a list, in its place, are in its order.
LEMMA SplitSorted ==
    ASSUME TypeOK, Shape, ListsSorted, UNCHANGED upto,
           NEW w \in Workers, wpc[w] \notin {"idle", "commit"}, Reject(w)
    PROVE  ListsSorted'
<1> DEFINE s == calls[w]
           t == calls'[w]
<1>1. /\ \A v \in Workers \ {w} : calls'[v] = calls[v]
      /\ Pending(w)' = Pending(w)
  BY RejectEffect
<1>2. \A v \in Workers : Pending(v)' = Pending(v)
  BY <1>1 DEF Pending
<1>3. \A k, l \in DOMAIN s : k < l => \A i \in s[k], j \in s[l] : i < j
  BY DEF ListsSorted
<1>4. s \in Seq(SUBSET Offsets) /\ s # <<>> /\ Head(s) \in SUBSET Offsets
  BY HeadPending
<1>5. CASE UNCHANGED calls
  BY <1>2, <1>5 DEF ListsSorted
<1>6. ASSUME NEW left \in SUBSET Head(s), NEW right \in SUBSET Head(s),
             Halves(Head(s), left, right),
             calls' = [calls EXCEPT ![w] = <<left, right>> \o Tail(@)]
      PROVE  ListsSorted'
  <2>1. /\ t = <<left, right>> \o Tail(s)
        /\ left \in SUBSET Offsets /\ right \in SUBSET Offsets
    BY <1>4, <1>6 DEF TypeOK
  <2>2. /\ Len(s) \in Nat /\ Len(s) >= 1 /\ DOMAIN s = 1 .. Len(s)
        /\ DOMAIN t = 1 .. (Len(s) + 1)
        /\ t[1] = left /\ t[2] = right
        /\ \A i \in 2 .. Len(s) : t[i + 1] = s[i]
    <3> HIDE DEF s, t
    <3> QED BY <1>4, <2>1, SplitList
  <2>3. s[1] = Head(s)
    BY <1>4
  <2>4. left \subseteq s[1] /\ right \subseteq s[1]
    BY <2>3
  <2>5. \A i \in left, j \in right : i < j
    BY <1>6 DEF Halves
  <2>6. ASSUME NEW k \in DOMAIN t, NEW l \in DOMAIN t, k < l,
               NEW i \in t[k], NEW j \in t[l]
        PROVE  i < j
    <3> HIDE DEF s, t
    <3>1. CASE k = 1 /\ l = 2
      BY <2>2, <2>5, <2>6, <3>1
    <3>2. CASE k <= 2 /\ l > 2
      <4>1. i \in s[1]
        BY <2>2, <2>4, <2>6, <3>2
      <4>2. l - 1 \in 2 .. Len(s) /\ (l - 1) + 1 = l
        BY <2>2, <3>2
      <4>3. j \in s[l - 1]
        BY <2>2, <2>6, <4>2
      <4> QED BY <1>3, <2>2, <4>1, <4>2, <4>3
    <3>3. CASE k > 2
      <4>1. /\ k - 1 \in 2 .. Len(s) /\ (k - 1) + 1 = k
            /\ l - 1 \in 2 .. Len(s) /\ (l - 1) + 1 = l
            /\ k - 1 < l - 1
        BY <2>2, <2>6, <3>3
      <4>2. i \in s[k - 1] /\ j \in s[l - 1]
        BY <2>2, <2>6, <4>1
      <4> QED BY <1>3, <2>2, <4>1, <4>2
    <3> QED BY <2>2, <2>6, <3>1, <3>2, <3>3
  <2> QED BY <1>1, <1>2, <2>6 DEF ListsSorted
<1> QED BY <1>5, <1>6 DEF Reject

-----------------------------------------------------------------------------
(***************************************************************************)
(* The invariant is kept, step by step.                                    *)
(***************************************************************************)

\* While one worker is in a batch, the others are not.
LEMMA OneBatch ==
    ASSUME LedgerInv, NEW w \in Workers, wpc[w] # "idle" \/ owner = w
    PROVE  \A v \in Workers \ {w} : wpc[v] = "idle"
BY DEF LedgerInv, SoleWorker

\* A new message disturbs nothing that was fetched or decided before.
LEMMA ProduceOrder ==
    ASSUME LedgerInv, NEW m \in Messages, Produce(m)
    PROVE  ListsSorted' /\ NothingAhead' /\ RowsFaithful' /\ RejectedRightly'
<1>1. TypeOK /\ Shape
  BY DEF LedgerInv
<1>2. /\ \A o \in Offsets : o \in Offsets' /\ queue'[o] = queue[o]
      /\ UNCHANGED <<rentals, dlq, dropped, wpc, upto, calls, committed>>
  BY <1>1 DEF Produce, Offsets, TypeOK, group
<1>3. ListsSorted' /\ NothingAhead'
  BY <1>2 DEF LedgerInv, ListsSorted, NothingAhead, Pending, Decided, InTable
<1>4. RowsFaithful'
  BY <1>2 DEF LedgerInv, RowsFaithful
<1>5. ASSUME NEW w \in Workers, wpc[w] \in {"release", "deadletter"},
             NEW o \in Head(calls[w])
      PROVE  Refusable(o)'
  <2>1. o \in Offsets
    BY <1>1, <1>5, HeadPending
  <2>2. Refusable(o)
    BY <1>5 DEF LedgerInv, RejectedRightly
  <2> QED BY <1>2, <2>1, <2>2 DEF Refusable, TableClash
<1>6. RejectedRightly'
  BY <1>2, <1>5 DEF RejectedRightly
<1> QED BY <1>3, <1>4, <1>6

\* A batch begins beyond the committed offset, and so beyond all decisions.
LEMMA FetchOrder ==
    ASSUME LedgerInv, NEW w \in Workers, Fetch(w)
    PROVE  ListsSorted' /\ NothingAhead' /\ RowsFaithful' /\ RejectedRightly'
<1>1. TypeOK /\ Shape
  BY DEF LedgerInv
<1>2. PICK n \in (committed + 1) .. Len(queue) :
         LET items == {o \in (committed + 1) .. n : queue[o] # Junk}
         IN  /\ upto' = [upto EXCEPT ![w] = n]
             /\ calls' = [calls EXCEPT ![w] = IF items = {} THEN <<>>
                                                           ELSE <<items>>]
             /\ Goto(w, IF items = {} THEN "commit" ELSE "check")
  BY DEF Fetch
<1> DEFINE items == {o \in (committed + 1) .. n : queue[o] # Junk}
           list == IF items = {} THEN <<>> ELSE <<items>>
<1>3. /\ owner = w /\ wpc[w] = "idle"
      /\ UNCHANGED <<queue, rentals, dlq, dropped, committed>>
      /\ committed \in Nat /\ n \in Nat /\ committed < n
  BY <1>1 DEF Fetch, TypeOK, store, group
<1>4. \A v \in Workers : wpc[v] = "idle"
  BY <1>3, OneBatch
<1>5. /\ calls'[w] = list /\ upto'[w] = n
      /\ wpc'[w] \in {"commit", "check"}
      /\ \A v \in Workers \ {w} : /\ calls'[v] = calls[v]
                                  /\ upto'[v] = upto[v]
                                  /\ wpc'[v] = "idle"
  BY <1>1, <1>2, <1>4 DEF TypeOK, Goto
<1>6. \A k, l \in DOMAIN list : k = l /\ list[k] = items
  <2> HIDE DEF items
  <2>1. CASE items = {}
    BY <2>1
  <2>2. CASE items # {}
    <3>1. list = <<items>>
      BY <2>2
    <3> HIDE DEF list
    <3> QED BY <3>1
  <2> QED BY <2>1, <2>2
<1>7. \A o \in items : o \in Nat /\ committed < o /\ o <= n
  BY <1>3
<1> HIDE DEF items, list
<1>8. Pending(w)' \subseteq items
  BY <1>5, <1>6 DEF Pending
<1>9. ListsSorted'
  <2>1. ASSUME NEW v \in Workers \ {w}
        PROVE  Pending(v)' = Pending(v)
    BY <1>5 DEF Pending
  <2>2. \A v \in Workers \ {w} :
           /\ \A k, l \in DOMAIN calls'[v] :
                 k < l => \A i \in calls'[v][k], j \in calls'[v][l] : i < j
           /\ \A o \in Pending(v)' : o <= upto'[v]
    BY <1>5, <2>1 DEF LedgerInv, ListsSorted
  <2>3. \A k, l \in DOMAIN list : ~(k < l)
    <3>1. list = <<>> \/ list = <<items>>
      BY DEF list
    <3> QED BY <3>1
  <2> QED BY <1>5, <1>7, <1>8, <2>2, <2>3 DEF ListsSorted
<1>10. NothingAhead'
  <2>1. \A o \in Decided : o \in Nat /\ o <= committed
    <3>1. \A o \in Decided : o <= committed
      BY <1>4 DEF LedgerInv, NothingAhead
    <3>2. Decided \subseteq Nat
      BY <1>1 DEF LedgerInv, RowsFaithful, Decided, InTable, TypeOK, Offsets
    <3> QED BY <3>1, <3>2
  <2>2. Decided' = Decided
    BY <1>3 DEF Decided, InTable
  <2>3. \A o \in Decided : o <= n /\ \A p \in Pending(w)' : o < p
    BY <1>3, <1>7, <1>8, <2>1
  <2> QED BY <1>5, <2>2, <2>3 DEF NothingAhead
<1>11. RowsFaithful' /\ RejectedRightly'
  BY <1>3, <1>5 DEF LedgerInv, RowsFaithful, RejectedRightly, Offsets
<1> QED BY <1>9, <1>10, <1>11

\* The end of a batch puts all decisions before the committed offset.
LEMMA CommitOrder ==
    ASSUME LedgerInv, NEW w \in Workers, Commit(w)
    PROVE  ListsSorted' /\ NothingAhead' /\ RowsFaithful' /\ RejectedRightly'
<1>1. TypeOK /\ Shape
  BY DEF LedgerInv
<1>2. /\ wpc[w] = "commit"
      /\ UNCHANGED <<queue, rentals, dlq, dropped, upto, calls>>
      /\ wpc' = [wpc EXCEPT ![w] = "idle"]
  BY DEF Commit, Goto, store
<1>3. committed' = upto[w]
  BY <1>2 DEF Commit, CommitsAccepted, Resolved, LedgerInv, SoleWorker
<1>4. \A v \in Workers : wpc'[v] = "idle"
  BY <1>1, <1>2, OneBatch DEF TypeOK
<1>5. ListsSorted' /\ RowsFaithful' /\ RejectedRightly'
  BY <1>2, <1>4
  DEF LedgerInv, ListsSorted, Pending, RowsFaithful, RejectedRightly, Offsets
<1>6. Decided' = Decided
  BY <1>2 DEF Decided, InTable
<1>7. \A o \in Decided : o <= upto[w]
  BY <1>2 DEF LedgerInv, NothingAhead
<1>8. NothingAhead'
  BY <1>3, <1>4, <1>6, <1>7 DEF NothingAhead
<1> QED BY <1>5, <1>8

\* A list that is split, or goes on, leaves the decisions and their order.
LEMMA UndecidedOrder ==
    ASSUME LedgerInv, NEW w \in Workers, Splits(w) \/ GoesOn(w)
    PROVE  ListsSorted' /\ NothingAhead' /\ RowsFaithful' /\ RejectedRightly'
<1>1. TypeOK /\ Shape /\ ListsSorted
  BY DEF LedgerInv
<1>2. /\ wpc[w] \notin {"idle", "commit"}
      /\ UNCHANGED <<queue, upto, committed, rentals, dlq, dropped>>
  BY DEF Splits, GoesOn, Elsewhere, Undecided
<1>3. /\ wpc'[w] # "idle" /\ Pending(w)' = Pending(w)
      /\ \A v \in Workers \ {w} : wpc'[v] = wpc[v] /\ calls'[v] = calls[v]
  <2>1. CASE Splits(w)
    BY <1>1, <1>2, <2>1, RejectEffect DEF Splits
  <2>2. CASE GoesOn(w)
    BY <1>1, <2>2 DEF GoesOn, Goto, TypeOK, Pending
  <2> QED BY <2>1, <2>2
<1>4. \A v \in Workers : Pending(v)' = Pending(v)
  <2>1. \A v \in Workers \ {w} : Pending(v)' = Pending(v)
    BY <1>3 DEF Pending
  <2> QED BY <1>3, <2>1
<1>5. ListsSorted'
  <2>1. CASE Splits(w)
    BY <1>1, <1>2, <2>1, SplitSorted DEF Splits
  <2>2. CASE GoesOn(w)
    BY <1>1, <1>2, <1>4, <2>2 DEF GoesOn, ListsSorted
  <2> QED BY <2>1, <2>2
<1>6. NothingAhead'
  <2>1. Decided' = Decided
    BY <1>2 DEF Decided, InTable
  <2>2. \A v \in Workers : wpc'[v] # "idle" => wpc[v] # "idle"
    BY <1>2, <1>3
  <2> QED BY <1>2, <1>3, <1>4, <2>1, <2>2 DEF LedgerInv, NothingAhead
<1>7. RowsFaithful'
  BY <1>2 DEF LedgerInv, RowsFaithful, Offsets
<1>8. \A o : Refusable(o)' = Refusable(o)
  BY <1>2 DEF Refusable, TableClash
<1>9. wpc'[w] \in {"release", "deadletter"} =>
         \A o \in Head(calls'[w]) : Refusable(o)
  <2>1. CASE Splits(w)
    <3> SUFFICES ASSUME wpc'[w] \in {"release", "deadletter"}
                 PROVE  \A o \in Head(calls'[w]) : Refusable(o)
      OBVIOUS
    <3>1. Goto(w, "check") => wpc'[w] = "check"
      BY <1>1 DEF Goto, TypeOK
    <3>2. Cardinality(Head(calls[w])) = 1 /\ UNCHANGED calls
      BY <2>1, <3>1 DEF Splits, Reject
    <3> QED BY <2>1, <3>2 DEF Splits
  <2>2. CASE GoesOn(w)
    <3>1. UNCHANGED calls /\ (wpc[w] = "check" => wpc'[w] = "insert")
      BY <1>1, <2>2 DEF GoesOn, Goto, TypeOK
    <3>2. wpc[w] \in {"check", "release"}
      BY <2>2 DEF GoesOn
    <3> QED BY <3>1, <3>2 DEF LedgerInv, RejectedRightly
  <2> QED BY <2>1, <2>2
<1>10. RejectedRightly'
  BY <1>3, <1>8, <1>9 DEF LedgerInv, RejectedRightly
<1> QED BY <1>5, <1>6, <1>7, <1>10

\* A list that returns is decided, and what is pending lies beyond it.
LEMMA DecidedOrder ==
    ASSUME LedgerInv, NEW w \in Workers, wpc[w] \notin {"idle", "commit"},
           Return(w), Elsewhere, Decided' = Decided \cup Head(calls[w]),
           RowsFaithful'
    PROVE  ListsSorted' /\ NothingAhead' /\ RowsFaithful' /\ RejectedRightly'
<1>1. TypeOK /\ Shape /\ ListsSorted
  BY DEF LedgerInv
<1>2. /\ wpc'[w] \in {"commit", "check"}
      /\ Pending(w)' \subseteq Pending(w)
      /\ \A v \in Workers \ {w} : wpc'[v] = wpc[v] /\ calls'[v] = calls[v]
  BY <1>1, ReturnEffect
<1>3. \A v \in Workers \ {w} : wpc'[v] = "idle"
  BY <1>2, OneBatch
<1>4. ListsSorted' /\ \A o \in Pending(w)' : o \notin Head(calls[w])
  BY <1>1, ReturnSorted DEF Elsewhere
<1>5. \A i \in Head(calls[w]) : i <= upto[w]
  BY <1>1, HeadPending DEF ListsSorted
<1>6. \A i \in Head(calls[w]), o \in Pending(w)' : i < o
  BY <1>1, <1>2, <1>4, HeadFirst
<1>7. \A o \in Decided : o <= upto[w] /\ \A p \in Pending(w)' : o < p
  BY <1>2 DEF LedgerInv, NothingAhead
<1>8. NothingAhead'
  BY <1>2, <1>3, <1>5, <1>6, <1>7 DEF NothingAhead, Elsewhere
<1>9. RejectedRightly'
  BY <1>2, <1>3 DEF RejectedRightly
<1> QED BY <1>4, <1>8, <1>9

\* An INSERT grants the items of the first list, and its rows are theirs.
LEMMA GrantEffect ==
    ASSUME LedgerInv, NEW w \in Workers, Grants(w)
    PROVE  /\ InTable' = InTable \cup Head(calls[w])
           /\ RowsFaithful'
<1> DEFINE items == Head(calls[w])
           new(o) == Row(o, nextId + Cardinality({p \in items : p < o}))
<1>1. /\ wpc[w] = "insert" /\ UNCHANGED queue
      /\ rentals' = rentals \cup {new(o) : o \in items}
  BY DEF Grants, Store, NewRows, Elsewhere
<1>2. items \in SUBSET Offsets /\ \A o \in items : queue[o] \in Requests
  BY <1>1, HeadPending DEF LedgerInv
<1>3. \A o \in items : /\ new(o).src = o
                       /\ new(o).vehicle = queue[o].vehicle
                       /\ new(o).start = queue[o].start.day
                       /\ new(o).end = queue[o].end.day
                       /\ new(o).status = "booked"
  BY DEF Row
<1> HIDE DEF new, items
<1>4. InTable' = InTable \cup items
  <2>1. InTable' = {r.src : r \in rentals'}
    BY DEF InTable
  <2> QED BY <1>1, <1>3, <2>1 DEF InTable
<1>5. RowsFaithful'
  BY <1>1, <1>2, <1>3 DEF LedgerInv, RowsFaithful, Offsets
<1> QED BY <1>4, <1>5 DEF items

\* A refusal writes no row.
LEMMA RefuseEffect ==
    ASSUME LedgerInv, NEW w \in Workers, Refuses(w)
    PROVE  /\ Head(calls[w]) = {Poison(w)}
           /\ InTable' = InTable
           /\ RowsFaithful'
<1>1. wpc[w] \in {"release", "deadletter"} /\ UNCHANGED <<rentals, queue>>
  BY DEF Refuses, Elsewhere
<1>2. Head(calls[w]) = {Poison(w)}
  BY <1>1, PoisonIsHead DEF LedgerInv
<1> QED BY <1>1, <1>2 DEF InTable, LedgerInv, RowsFaithful, Offsets

LEMMA LedgerStep ==
    ASSUME LedgerInv, Harmless, [Next]_vars
    PROVE  LedgerInv'
<1>1. TypeOK /\ Shape
  BY DEF LedgerInv
<1>2. TypeOK' /\ Shape'
  BY <1>1, TypeShapeStep
<1>3. BatchAccounted' /\ CommittedAccounted'
  BY AccountedStep DEF LedgerInv
<1>4. SoleWorker' /\ Checked' /\ NoDoubleBooking'
  BY BookingStep DEF LedgerInv
<1>5. overtaken' = overtaken
  BY <1>1, StepKinds
  DEF Produce, Fetch, Commit, Splits, GoesOn, Grants, Refuses, Elsewhere, group, vars
<1>6. ListsSorted' /\ NothingAhead' /\ RowsFaithful' /\ RejectedRightly'
  <2>1. ASSUME NEW m \in Messages, Produce(m)
        PROVE  ListsSorted' /\ NothingAhead' /\ RowsFaithful' /\ RejectedRightly'
    BY <2>1, ProduceOrder
  <2>2. ASSUME NEW w \in Workers, Fetch(w) \/ Commit(w) \/ Splits(w) \/ GoesOn(w)
        PROVE  ListsSorted' /\ NothingAhead' /\ RowsFaithful' /\ RejectedRightly'
    BY <2>2, FetchOrder, CommitOrder, UndecidedOrder
  <2>3. ASSUME NEW w \in Workers, Grants(w)
        PROVE  ListsSorted' /\ NothingAhead' /\ RowsFaithful' /\ RejectedRightly'
    <3>1. InTable' = InTable \cup Head(calls[w]) /\ RowsFaithful'
      BY <2>3, GrantEffect
    <3>2. UNCHANGED <<dlq, dropped>>
      BY <2>3 DEF Grants, Store
    <3>3. Decided' = Decided \cup Head(calls[w])
      BY <3>1, <3>2 DEF Decided
    <3> QED BY <2>3, <3>1, <3>3, DecidedOrder DEF Grants
  <2>4. ASSUME NEW w \in Workers, Refuses(w)
        PROVE  ListsSorted' /\ NothingAhead' /\ RowsFaithful' /\ RejectedRightly'
    <3>1. Head(calls[w]) = {Poison(w)} /\ InTable' = InTable /\ RowsFaithful'
      BY <2>4, RefuseEffect
    <3>2. (dlq \cup dropped)' = dlq \cup dropped \cup {Poison(w)}
      BY <2>4 DEF Refuses
    <3>3. Decided' = Decided \cup Head(calls[w])
      BY <3>1, <3>2 DEF Decided
    <3> QED BY <2>4, <3>1, <3>3, DecidedOrder DEF Refuses
  <2>5. CASE UNCHANGED vars
    <3>1. UNCHANGED <<queue, rentals, dlq, dropped, wpc, upto, calls, committed>>
      BY <2>5 DEF vars
    <3> QED BY <3>1
            DEF LedgerInv, ListsSorted, NothingAhead, RowsFaithful,
                RejectedRightly, Refusable, TableClash, Pending, Decided,
                InTable, Offsets
  <2> QED BY <1>1, <2>1, <2>2, <2>3, <2>4, <2>5, StepKinds
<1> QED BY <1>2, <1>3, <1>4, <1>5, <1>6 DEF LedgerInv

LEMMA LedgerInit ==
    ASSUME Init
    PROVE  LedgerInv
<1>1. TypeOK /\ Shape
  BY TypeShapeInit
<1>2. SoleWorker /\ ~overtaken /\ Checked /\ NoDoubleBooking
  BY DEF Init, SoleWorker, Checked, NoDoubleBooking, Active
<1>3. BatchAccounted /\ CommittedAccounted
  BY DEF Init, BatchAccounted, CommittedAccounted
<1>4. ListsSorted /\ NothingAhead /\ RowsFaithful /\ RejectedRightly
  <2>1. /\ \A w \in Workers : calls[w] = <<>> /\ wpc[w] = "idle"
        /\ rentals = {} /\ dlq = {} /\ dropped = {}
    BY DEF Init
  <2>2. \A w \in Workers : DOMAIN calls[w] = {} /\ Pending(w) = {}
    BY <2>1 DEF Pending
  <2>3. Decided = {}
    BY <2>1 DEF Decided, InTable
  <2> QED BY <2>1, <2>2, <2>3
          DEF ListsSorted, NothingAhead, RowsFaithful, RejectedRightly
<1> QED BY <1>1, <1>2, <1>3, <1>4 DEF LedgerInv

-----------------------------------------------------------------------------
(***************************************************************************)
(* What each step is in the ledger.                                        *)
(***************************************************************************)

\* The least number of a set of naturals.
LEMMA LeastNumber ==
    ASSUME NEW S \in SUBSET Nat, S # {}
    PROVE  \E n \in S : \A m \in S : n <= m
<1>1. PICK n \in S : \A m \in S : <<m, n>> \notin OpToRel(<, Nat)
  BY WFMin, NatLessThanWellFounded, Zenon
<1>2. \A m \in S : ~(m < n)
  BY <1>1, Zenon DEF OpToRel
<1> QED BY <1>2

\* A set of offsets that is not empty has a last one.
LEMMA LastOffset ==
    ASSUME TypeOK, NEW S \in SUBSET Offsets, S # {}
    PROVE  \E n \in S : \A m \in S : m <= n
<1> DEFINE bounds == {n \in Nat : \A m \in S : m <= n}
<1>1. Len(queue) \in Nat /\ S \subseteq 1 .. Len(queue)
  BY DEF TypeOK, Offsets
<1>2. Len(queue) \in bounds
  BY <1>1
<1>3. PICK n \in bounds : \A k \in bounds : n <= k
  BY <1>2, LeastNumber
<1>4. n \in S
  <2> SUFFICES ASSUME n \notin S PROVE FALSE
    OBVIOUS
  <2>1. \A m \in S : m \in Nat /\ 1 <= m /\ m < n
    BY <1>1
  <2>2. n \in Nat /\ n >= 1 /\ n - 1 \in Nat
    BY <2>1
  <2>3. n - 1 \in bounds
    BY <2>1, <2>2
  <2> QED BY <1>3, <2>2, <2>3
<1> QED BY <1>4

\* What the ledger has not decided, in the batch of a worker, is pending there,
\* and the other way round.
LEMMA LedgerPending ==
    ASSUME LedgerInv, NEW w \in Workers, wpc[w] # "idle"
    PROVE  /\ Pending(w) \subseteq Ledger!Pending
           /\ \A o \in Ledger!Pending : o <= upto[w] => o \in Pending(w)
<1>1. TypeOK /\ Shape
  BY DEF LedgerInv
<1>2. Pending(w) \subseteq Offsets
  BY <1>1, PendingOffsets
<1>3. \A o \in Pending(w) : o \notin Decided
  <2>1. \A o \in Pending(w) : o \in Decided => o < o
    BY DEF LedgerInv, NothingAhead
  <2>2. \A o \in Pending(w) : o \in Nat
    BY <1>1, <1>2 DEF TypeOK, Offsets
  <2> QED BY <2>1, <2>2
<1>4. Pending(w) \subseteq Ledger!Pending
  BY <1>1, <1>2, <1>3 DEF Ledger!Pending, Offsets, Decided, Shape
<1>5. ASSUME NEW o \in Ledger!Pending, o <= upto[w]
      PROVE  o \in Pending(w)
  <2>1. o \in 1 .. upto[w] /\ queue[o] # Junk
    BY <1>1, <1>5 DEF Ledger!Pending, TypeOK, Offsets
  <2>2. ~Dealt(o)
    BY <1>5 DEF Ledger!Pending, Dealt, Recorded, InTable
  <2> QED BY <2>1, <2>2 DEF LedgerInv, BatchAccounted
<1> QED BY <1>4, <1>5

\* The first list is what the ledger decides next.
LEMMA HeadIsNext ==
    ASSUME LedgerInv, NEW w \in Workers, wpc[w] \notin {"idle", "commit"}
    PROVE  /\ Head(calls[w]) \in SUBSET Offsets
           /\ Head(calls[w]) \subseteq Ledger!Pending
           /\ \A o \in Ledger!Pending :
                 o \notin Head(calls[w]) => \A i \in Head(calls[w]) : i < o
<1>1. TypeOK /\ Shape /\ ListsSorted
  BY DEF LedgerInv
<1>2. Head(calls[w]) \in SUBSET Offsets /\ Head(calls[w]) \subseteq Pending(w)
  BY <1>1, HeadPending
<1>3. ASSUME NEW o \in Ledger!Pending, o \notin Head(calls[w]),
             NEW i \in Head(calls[w])
      PROVE  i < o
  <2>1. /\ upto[w] \in Nat /\ o \in Nat /\ i \in Nat /\ i <= upto[w]
    BY <1>1, <1>2 DEF Ledger!Pending, TypeOK, Offsets, ListsSorted
  <2>2. CASE o <= upto[w]
    BY <1>1, <1>3, <2>2, LedgerPending, HeadFirst
  <2> QED BY <2>1, <2>2
<1> QED BY <1>2, <1>3, LedgerPending

\* A message clashes with a row exactly as it clashes with the row's message.
LEMMA TableClashIsLedgerClash ==
    ASSUME LedgerInv, NEW o \in Offsets
    PROVE  TableClash({o}) <=> Ledger!ClashesWithGranted(o)
<1>1. \A r \in rentals : /\ r.src \in InTable /\ r.status # "cancelled"
                         /\ r.vehicle = queue[r.src].vehicle
                         /\ r.start = queue[r.src].start.day
                         /\ r.end = queue[r.src].end.day
  BY DEF LedgerInv, RowsFaithful, InTable
<1>2. TableClash({o}) => Ledger!ClashesWithGranted(o)
  BY <1>1 DEF TableClash, Ledger!ClashesWithGranted, DaysOverlap
<1>3. Ledger!ClashesWithGranted(o) => TableClash({o})
  BY <1>1 DEF TableClash, Ledger!ClashesWithGranted, DaysOverlap, InTable
<1> QED BY <1>2, <1>3

\* An INSERT grants what is pending up to the last item of its list.
LEMMA GrantsRefines ==
    ASSUME LedgerInv, TestsAgree, NEW w \in Workers, Grants(w)
    PROVE  [Ledger!Next]_(Ledger!ledger)
<1> DEFINE items == Head(calls[w])
<1>1. /\ wpc[w] = "insert" /\ Storable(items)
      /\ UNCHANGED <<queue, dlq, dropped>>
  BY DEF Grants, Store, Elsewhere
<1>2. /\ items \in SUBSET Offsets
      /\ items \subseteq Ledger!Pending
      /\ \A o \in Ledger!Pending : o \notin items => \A i \in items : i < o
  BY <1>1, HeadIsNext
<1>3. InTable' = InTable \cup items
  BY GrantEffect
<1>4. ~BatchClash(items) /\ ~TableClash(items)
  BY <1>1 DEF LedgerInv, Checked
<1>5. \A o \in items : queue[o] \in Requests /\ o \in Nat
  <2>1. \A o \in items : queue[o] \in Requests
    BY <1>1, HeadPending DEF LedgerInv
  <2>2. \A o \in items : o \in Nat
    BY <1>2 DEF LedgerInv, TypeOK, Offsets
  <2> QED BY <2>1, <2>2
<1> HIDE DEF items
<1>6. CASE items = {}
  BY <1>1, <1>3, <1>6 DEF Ledger!ledger
<1>7. CASE items # {}
  <2>1. PICK n \in items : \A m \in items : m <= n
    BY <1>2, <1>7, LastOffset DEF LedgerInv
  <2>2. items = {o \in Ledger!Pending : o <= n}
    <3>1. ASSUME NEW o \in Ledger!Pending, o <= n
          PROVE  o \in items
      <4>1. o \in Nat /\ n \in Nat
        BY <1>5 DEF Ledger!Pending, LedgerInv, TypeOK
      <4> QED BY <1>2, <2>1, <3>1, <4>1
    <3> QED BY <1>2, <2>1, <3>1
  <2>3. \A o \in items : CanBeStored(queue[o]) /\ ~Ledger!ClashesWithGranted(o)
    <3>1. \A o \in items : ~TableClash({o})
      BY <1>4 DEF TableClash
    <3> QED BY <1>1, <1>2, <3>1, TableClashIsLedgerClash DEF Storable, CanBeStored
  <2>4. \A o, p \in items : o < p => ~DaysOverlap(queue[o], queue[p])
    BY <1>4, <1>5 DEF BatchClash, TestsAgree
  <2>5. Ledger!Grant(n)
    BY <1>1, <1>3, <1>7, <2>2, <2>3, <2>4 DEF Ledger!Grant
  <2>6. n \in DOMAIN queue
    BY <1>2 DEF Offsets
  <2> QED BY <2>5, <2>6 DEF Ledger!Next, Ledger!Decide
<1> QED BY <1>6, <1>7

\* What is routed to rental-dlq, or given up, is refused in its turn.
LEMMA RefusesRefines ==
    ASSUME LedgerInv, NEW w \in Workers, Refuses(w)
    PROVE  [Ledger!Next]_(Ledger!ledger)
<1> DEFINE o == Poison(w)
<1>1. /\ wpc[w] \in {"release", "deadletter"} /\ UNCHANGED queue
      /\ (dlq \cup dropped)' = dlq \cup dropped \cup {o}
  BY DEF Refuses, Elsewhere
<1>2. Head(calls[w]) = {o} /\ InTable' = InTable
  BY RefuseEffect
<1>3. /\ o \in Offsets /\ o \in Ledger!Pending
      /\ \A p \in Ledger!Pending : p # o => o < p
  BY <1>1, <1>2, HeadIsNext
<1>4. Refusable(o)
  BY <1>1, <1>2 DEF LedgerInv, RejectedRightly
<1>5. ~CanBeStored(queue[o]) \/ Ledger!ClashesWithGranted(o)
  BY <1>3, <1>4, TableClashIsLedgerClash DEF Refusable, CanBeStored
<1> HIDE DEF o
<1>6. \A p \in Ledger!Pending : o <= p
  BY <1>3 DEF Ledger!Pending, LedgerInv, TypeOK, Offsets
<1>7. Ledger!Refuse(o)
  BY <1>1, <1>2, <1>3, <1>5, <1>6 DEF Ledger!Refuse
<1> QED BY <1>3, <1>7 DEF Ledger!Next, Ledger!Decide, Offsets

\* Every step is one of the ledger, or shows nothing.
LEMMA StepRefines ==
    ASSUME LedgerInv, TestsAgree, Harmless, [Next]_vars
    PROVE  [Ledger!Next]_(Ledger!ledger)
<1>1. ASSUME NEW m \in Messages, Produce(m)
      PROVE  [Ledger!Next]_(Ledger!ledger)
  <2>1. Ledger!Submit(m)
    BY <1>1 DEF Produce, Ledger!Submit, InTable
  <2> QED BY <2>1 DEF Ledger!Next
<1>2. ASSUME NEW w \in Workers, Fetch(w) \/ Commit(w) \/ Splits(w) \/ GoesOn(w)
      PROVE  [Ledger!Next]_(Ledger!ledger)
  <2>1. UNCHANGED <<queue, rentals, dlq, dropped>>
    BY <1>2 DEF Fetch, Commit, Splits, GoesOn, Elsewhere, Undecided, store
  <2> QED BY <2>1 DEF Ledger!ledger, InTable
<1>3. CASE UNCHANGED vars
  BY <1>3 DEF vars, Ledger!ledger, InTable
<1> QED
  BY <1>1, <1>2, <1>3, StepKinds, GrantsRefines, RefusesRefines DEF LedgerInv

\* The worker implements the ledger: whatever the batches, the splits and the
\* errors that sendToDLQ swallows, bookings are granted in log order, each
\* unless it cannot be stored or clashes with one granted before, and only the
\* others are refused.
THEOREM WorkerImplementsLedger ==
    ASSUME TestsAgree, Faults \subseteq {"redis", "kafka"}
    PROVE  Spec => Ledger!Init /\ [][Ledger!Next]_(Ledger!ledger)
<1>1. Init => LedgerInv
  BY LedgerInit
<1>2. LedgerInv /\ [Next]_vars => LedgerInv'
  BY LedgerStep DEF Harmless
<1>3. Init => Ledger!Init
  BY DEF Init, Ledger!Init, InTable
<1>4. LedgerInv /\ [Next]_vars => [Ledger!Next]_(Ledger!ledger)
  BY StepRefines DEF Harmless
<1> QED BY <1>1, <1>2, <1>3, <1>4, PTL DEF Spec

-----------------------------------------------------------------------------
(***************************************************************************)
(* First come, first served.                                               *)
(***************************************************************************)

\* Each decision is justified by the grants before it.
Justified ==
    /\ \A o \in InTable :
          /\ queue[o] \notin Unstorable
          /\ \A p \in InTable : p < o => ~DaysOverlap(queue[p], queue[o])
    /\ \A o \in dlq \cup dropped :
          /\ queue[o] # Junk
          /\ \/ queue[o] \in Unstorable
             \/ \E p \in InTable : p < o /\ DaysOverlap(queue[p], queue[o])

\* Decided offsets are offsets of bookings.
LEMMA DecidedOffsets ==
    ASSUME LedgerInv
    PROVE  InTable \subseteq Offsets /\ Decided \subseteq Offsets
BY DEF LedgerInv, RowsFaithful, TypeOK, InTable, Decided

\* What was decided comes before what is decided next.
LEMMA DecidedBeforeHead ==
    ASSUME LedgerInv, NEW w \in Workers, wpc[w] \notin {"idle", "commit"}
    PROVE  \A o \in Decided, i \in Head(calls[w]) : o < i
BY HeadPending DEF LedgerInv, NothingAhead

LEMMA JustifiedStep ==
    ASSUME LedgerInv, TestsAgree, Justified, Harmless, [Next]_vars
    PROVE  Justified'
<1>1. ASSUME NEW m \in Messages, Produce(m)
      PROVE  Justified'
  <2>1. UNCHANGED <<rentals, dlq, dropped>> /\ InTable' = InTable
    BY <1>1 DEF Produce, InTable
  <2>2. \A o \in Offsets : queue'[o] = queue[o]
    BY <1>1 DEF Produce, Offsets, LedgerInv, TypeOK
  <2>3. InTable \subseteq Offsets /\ dlq \cup dropped \subseteq Offsets
    BY DecidedOffsets DEF LedgerInv, TypeOK
  <2> QED BY <2>1, <2>2, <2>3 DEF Justified
<1>2. ASSUME UNCHANGED <<queue, rentals, dlq, dropped>>
      PROVE  Justified'
  BY <1>2 DEF Justified, InTable
<1>3. ASSUME NEW w \in Workers, Fetch(w) \/ Commit(w) \/ Splits(w) \/ GoesOn(w)
      PROVE  Justified'
  BY <1>2, <1>3 DEF Fetch, Commit, Splits, GoesOn, Elsewhere, Undecided, store
<1>4. ASSUME NEW w \in Workers, Grants(w)
      PROVE  Justified'
  <2> DEFINE items == Head(calls[w])
  <2>1. /\ wpc[w] = "insert" /\ Storable(items)
        /\ UNCHANGED <<queue, dlq, dropped>>
    BY <1>4 DEF Grants, Store, Elsewhere
  <2>2. InTable' = InTable \cup items
    BY <1>4, GrantEffect
  <2>3. ~BatchClash(items) /\ ~TableClash(items)
    BY <2>1 DEF LedgerInv, Checked
  <2>4. items \in SUBSET Offsets /\ \A o \in items : queue[o] \in Requests
    BY <2>1, HeadPending DEF LedgerInv
  <2>5. \A o \in InTable, i \in items : o < i
    BY <2>1, DecidedBeforeHead DEF Decided
  <2> HIDE DEF items
  <2>6. \A o \in InTable, i \in items : ~(i < o)
    <3>1. InTable \subseteq Nat /\ items \subseteq Nat
      BY <2>4, DecidedOffsets DEF LedgerInv, TypeOK, Offsets
    <3> QED BY <2>5, <3>1
  <2>7. \A i \in items, p \in InTable : ~DaysOverlap(queue[p], queue[i])
    <3>1. \A i \in items : ~TableClash({i})
      BY <2>3 DEF TableClash
    <3> QED BY <2>4, <3>1, TableClashIsLedgerClash DEF Ledger!ClashesWithGranted
  <2>8. \A i, j \in items : i < j => ~DaysOverlap(queue[i], queue[j])
    BY <2>3, <2>4 DEF BatchClash, TestsAgree
  <2>9. \A o \in InTable' :
           /\ queue[o] \notin Unstorable
           /\ \A p \in InTable' : p < o => ~DaysOverlap(queue[p], queue[o])
    BY <2>1, <2>2, <2>6, <2>7, <2>8 DEF Justified, Storable
  <2> QED BY <2>1, <2>2, <2>9 DEF Justified
<1>5. ASSUME NEW w \in Workers, Refuses(w)
      PROVE  Justified'
  <2> DEFINE i == Poison(w)
  <2>1. /\ wpc[w] \in {"release", "deadletter"} /\ UNCHANGED queue
        /\ (dlq \cup dropped)' = dlq \cup dropped \cup {i}
    BY <1>5 DEF Refuses, Elsewhere
  <2>2. Head(calls[w]) = {i} /\ InTable' = InTable
    BY <1>5, RefuseEffect
  <2>3. i \in Offsets /\ queue[i] \in Requests
    BY <2>1, <2>2, HeadPending DEF LedgerInv
  <2>4. queue[i] # Junk
    BY <2>3, DatesAssumption, WorkerAssumption
  <2>5. queue[i] \in Unstorable \/ Ledger!ClashesWithGranted(i)
    BY <2>1, <2>2, <2>3, TableClashIsLedgerClash
    DEF LedgerInv, RejectedRightly, Refusable
  <2>6. \A p \in InTable : p < i
    BY <2>1, <2>2, DecidedBeforeHead DEF Decided
  <2> HIDE DEF i
  <2>7. \/ queue[i] \in Unstorable
        \/ \E p \in InTable : p < i /\ DaysOverlap(queue[p], queue[i])
    BY <2>5, <2>6 DEF Ledger!ClashesWithGranted
  <2> QED BY <2>1, <2>2, <2>4, <2>7 DEF Justified
<1> QED
  BY <1>1, <1>2, <1>3, <1>4, <1>5, StepKinds DEF LedgerInv, vars

\* The decided bookings are the first ones of the log.
LEMMA DecidedFirst ==
    ASSUME LedgerInv, NEW o \in Decided, NEW p \in Offsets, p < o,
           queue[p] # Junk
    PROVE  p \in Decided
<1>1. /\ o \in Nat /\ p \in Nat /\ p >= 1 /\ o <= Len(queue) /\ Len(queue) \in Nat
      /\ committed \in Nat
  BY DecidedOffsets DEF LedgerInv, TypeOK, Offsets
<1>2. Dealt(p) => p \in Decided
  BY DEF Dealt, Recorded, Decided, InTable
<1>3. CASE \A w \in Workers : wpc[w] = "idle"
  <2>1. o <= committed
    BY <1>3 DEF LedgerInv, NothingAhead
  <2>2. p \in 1 .. committed
    BY <1>1, <2>1
  <2> QED BY <1>2, <2>2 DEF LedgerInv, CommittedAccounted, Dealt
<1>4. ASSUME NEW w \in Workers, wpc[w] # "idle"
      PROVE  p \in Decided
  <2>1. o <= upto[w] /\ (p \in Pending(w) => o < p)
    BY <1>4 DEF LedgerInv, NothingAhead
  <2>2. p \in 1 .. upto[w]
    BY <1>1, <2>1 DEF LedgerInv, TypeOK
  <2>3. Dealt(p) \/ p \in Pending(w)
    BY <1>4, <2>2 DEF LedgerInv, BatchAccounted
  <2> QED BY <1>1, <1>2, <2>1, <2>3
<1> QED BY <1>3, <1>4

\* What may be granted, and what shares a day with what.
Eligible == {o \in Offsets : queue[o] # Junk /\ queue[o] \notin Unstorable}

Conflicts == {c \in Offsets \X Offsets : DaysOverlap(queue[c[1]], queue[c[2]])}

\* B holds the positions up to n that are chosen in order out of A, each
\* unless it is in conflict with one chosen before.
Chosen(A, C, n, B) ==
    /\ B \subseteq A
    /\ \A o \in A : o <= n =>
          (o \in B <=> \A p \in 1 .. (o - 1) : p \in B => <<p, o>> \notin C)

\* There is such a choice up to every position.
LEMMA ChosenExists ==
    ASSUME NEW A \in SUBSET (Nat \ {0}), NEW C
    PROVE  \A n \in Nat : \E B : Chosen(A, C, n, B)
<1> DEFINE bad == {n \in Nat : ~\E B : Chosen(A, C, n, B)}
<1> SUFFICES ASSUME bad # {} PROVE FALSE
  OBVIOUS
<1>1. PICK n \in bad : \A m \in bad : n <= m
  BY LeastNumber
<1>2. n # 0
  <2>1. Chosen(A, C, 0, {})
    BY DEF Chosen
  <2> QED BY <1>1, <2>1
<1>3. n - 1 \in Nat /\ n - 1 \notin bad
  BY <1>1, <1>2
<1>4. PICK B : Chosen(A, C, n - 1, B)
  BY <1>3
<1> DEFINE D == {o \in B : o < n} \cup
                {o \in A : /\ o = n
                           /\ \A p \in 1 .. (n - 1) : p \in B => <<p, n>> \notin C}
<1>5. D \subseteq A
  BY <1>4 DEF Chosen
<1>6. \A p \in A : p < n => (p \in D <=> p \in B)
  OBVIOUS
<1>7. n \in A =>
         (n \in D <=> \A p \in 1 .. (n - 1) : p \in B => <<p, n>> \notin C)
  BY <1>1
<1> HIDE DEF D
<1>8. ASSUME NEW o \in A, o <= n
      PROVE  o \in D <=> \A p \in 1 .. (o - 1) : p \in D => <<p, o>> \notin C
  <2>1. \A p \in 1 .. (o - 1) : p < n /\ (p \in D <=> p \in B)
    BY <1>1, <1>4, <1>5, <1>6, <1>8 DEF Chosen
  <2>2. CASE o = n
    BY <1>7, <2>1, <2>2
  <2>3. CASE o < n
    <3>1. o <= n - 1
      BY <1>1, <2>3
    <3>2. o \in B <=> \A p \in 1 .. (o - 1) : p \in B => <<p, o>> \notin C
      BY <1>4, <3>1 DEF Chosen
    <3> QED BY <1>6, <2>1, <2>3, <3>2
  <2> QED BY <1>1, <1>8, <2>2, <2>3
<1>9. Chosen(A, C, n, D)
  BY <1>5, <1>8 DEF Chosen
<1> QED BY <1>1, <1>9

\* Two choices agree as far as both go.
LEMMA ChosenAgree ==
    ASSUME NEW A \in SUBSET (Nat \ {0}), NEW C, NEW n \in Nat, NEW m \in Nat,
           NEW B, NEW D, Chosen(A, C, n, B), Chosen(A, C, m, D),
           NEW o \in A, o <= n, o <= m
    PROVE  o \in B <=> o \in D
<1> DEFINE bad == {q \in A : q <= n /\ q <= m /\ ~(q \in B <=> q \in D)}
<1> SUFFICES ASSUME bad # {} PROVE FALSE
  OBVIOUS
<1>1. PICK q \in bad : \A p \in bad : q <= p
  BY LeastNumber, bad \in SUBSET Nat
<1>2. \A p \in 1 .. (q - 1) : p \in B <=> p \in D
  <2> SUFFICES ASSUME NEW p \in 1 .. (q - 1), p \in A
               PROVE  p \in B <=> p \in D
    BY DEF Chosen
  <2>1. p <= n /\ p <= m /\ ~(q <= p)
    BY <1>1
  <2> QED BY <1>1, <2>1
<1>3. /\ q \in B <=> \A p \in 1 .. (q - 1) : p \in B => <<p, q>> \notin C
      /\ q \in D <=> \A p \in 1 .. (q - 1) : p \in D => <<p, q>> \notin C
  BY <1>1 DEF Chosen
<1> QED BY <1>1, <1>2, <1>3

\* So there is a choice out of all the positions.
LEMMA ChoiceInOrder ==
    ASSUME NEW A \in SUBSET (Nat \ {0}), NEW C
    PROVE  \E G \in SUBSET A : \A o \in A :
              o \in G <=> \A p \in 1 .. (o - 1) : p \in G => <<p, o>> \notin C
<1> DEFINE G == {o \in A : \E B : Chosen(A, C, o, B) /\ o \in B}
<1>1. ASSUME NEW o \in A
      PROVE  o \in G <=> \A p \in 1 .. (o - 1) : p \in G => <<p, o>> \notin C
  <2>1. PICK B : Chosen(A, C, o, B)
    BY ChosenExists
  <2>2. ASSUME NEW p \in A, p <= o
        PROVE  p \in G <=> p \in B
    <3>1. PICK D : Chosen(A, C, p, D)
      BY ChosenExists
    <3>2. p \in D <=> p \in B
      BY <2>1, <2>2, <3>1, ChosenAgree
    <3>3. ASSUME NEW E, Chosen(A, C, p, E)
          PROVE  p \in E <=> p \in B
      BY <2>1, <2>2, <3>3, ChosenAgree
    <3> QED BY <3>1, <3>2, <3>3
  <2>3. \A p \in 1 .. (o - 1) : p \in G <=> p \in B
    <3> SUFFICES ASSUME NEW p \in 1 .. (o - 1), p \in A
                 PROVE  p \in G <=> p \in B
      BY <2>1 DEF Chosen
    <3> QED BY <2>2
  <2>4. o \in B <=> \A p \in 1 .. (o - 1) : p \in B => <<p, o>> \notin C
    BY <2>1 DEF Chosen
  <2>5. o \in G <=> o \in B
    BY <2>2
  <2> HIDE DEF G
  <2> QED BY <2>3, <2>4, <2>5
<1> QED BY <1>1

\* Granted is what its recursive definition says.
LEMMA GrantedInOrder ==
    ASSUME TypeOK
    PROVE  /\ Granted \subseteq Eligible
           /\ \A o \in Eligible :
                 o \in Granted <=>
                    \A p \in 1 .. (o - 1) :
                       p \in Granted => ~DaysOverlap(queue[p], queue[o])
<1> DEFINE g[o \in Nat] ==
              /\ o \in Offsets
              /\ queue[o] # Junk
              /\ queue[o] \notin Unstorable
              /\ \A p \in 1 .. (o - 1) :
                    g[p] => ~DaysOverlap(queue[p], queue[o])
           body(f, o) ==
              /\ o \in Offsets
              /\ queue[o] # Junk
              /\ queue[o] \notin Unstorable
              /\ \A p \in 1 .. (o - 1) :
                    f[p] => ~DaysOverlap(queue[p], queue[o])
<1>1. Offsets \subseteq Nat \ {0} /\ Eligible \in SUBSET (Nat \ {0})
  BY DEF TypeOK, Offsets, Eligible
<1>2. PICK G \in SUBSET Eligible : \A o \in Eligible :
         o \in G <=> \A p \in 1 .. (o - 1) : p \in G => <<p, o>> \notin Conflicts
  BY <1>1, ChoiceInOrder
<1> DEFINE f == [o \in Nat |-> o \in G]
<1>3. ASSUME NEW o \in Nat
      PROVE  o \in G <=> body(f, o)
  <2>1. \A p \in 1 .. (o - 1) : f[p] <=> p \in G
    <3>1. \A p \in 1 .. (o - 1) : p \in Nat
      OBVIOUS
    <3> QED BY <3>1, Zenon
  <2>2. o \in Eligible =>
           \A p \in 1 .. (o - 1) :
              p \in G => (<<p, o>> \in Conflicts <=> DaysOverlap(queue[p], queue[o]))
    BY DEF Conflicts, Eligible
  <2> QED BY <1>2, <2>1, <2>2 DEF Eligible
<1>4. f = [o \in Nat |-> body(f, o)]
  <2>1. ASSUME NEW o \in Nat
        PROVE  (o \in G) = body(f, o)
    <3>1. o \in G <=> body(f, o)
      BY <1>3
    <3>2. body(f, o) \in BOOLEAN
      BY Zenon
    <3> HIDE DEF f, body
    <3> QED BY <3>1, <3>2, SMT
  <2> HIDE DEF body
  <2>2. [o \in Nat |-> o \in G] = [o \in Nat |-> body(f, o)]
    BY <2>1, Zenon
  <2> QED BY <2>2, Zenon
<1>5. g = [o \in Nat |-> body(g, o)]
  BY <1>4
<1>6. Granted = {o \in Offsets : g[o]}
  BY DEF Granted
<1>7. \A o \in Nat : g[o] = body(g, o)
  BY <1>5
<1> HIDE DEF g
<1>8. \A o \in Offsets : o \in Granted <=> body(g, o)
  BY <1>1, <1>6, <1>7
<1>9. \A o \in Nat : g[o] => o \in Offsets
  BY <1>7
<1>10. \A o \in Offsets : \A p \in 1 .. (o - 1) : g[p] <=> p \in Granted
  BY <1>1, <1>6, <1>9
<1>11. ASSUME NEW o \in Eligible
       PROVE  o \in Granted <=>
                 \A p \in 1 .. (o - 1) :
                    p \in Granted => ~DaysOverlap(queue[p], queue[o])
  BY <1>8, <1>10 DEF Eligible
<1>12. Granted \subseteq Eligible
  BY <1>6, <1>8 DEF Eligible
<1> QED BY <1>11, <1>12

\* In a justified table the grants are those of the log served in order.
LEMMA JustifiedIsGranted ==
    ASSUME LedgerInv, Justified
    PROVE  /\ InTable \subseteq Granted
           /\ dlq \cup dropped \subseteq Offsets \ Granted
<1> DEFINE bad == {o \in Decided : ~(o \in InTable <=> o \in Granted)}
<1>1. /\ TypeOK /\ Decided \subseteq Offsets /\ Offsets \subseteq Nat \ {0}
      /\ InTable \subseteq Decided /\ dlq \cup dropped \subseteq Decided
  BY DecidedOffsets DEF LedgerInv, TypeOK, Offsets, Decided
<1>2. \A o \in InTable : o \notin dlq \cup dropped
  BY DEF Justified
<1>3. \A o \in InTable : o \in Eligible
  <2>1. \A o \in InTable : queue[o] \in Requests
    BY DEF LedgerInv, RowsFaithful, InTable
  <2> QED BY <1>1, <2>1, DatesAssumption, WorkerAssumption DEF Justified, Eligible
<1>4. bad = {}
  <2> SUFFICES ASSUME bad # {} PROVE FALSE
    OBVIOUS
  <2>1. PICK o \in bad : \A p \in bad : o <= p
    BY <1>1, LeastNumber, bad \in SUBSET Nat
  <2>2. o \in Decided /\ o \in Nat
    BY <1>1
  <2>3. ASSUME NEW p \in Offsets, p < o, queue[p] # Junk
        PROVE  p \in InTable <=> p \in Granted
    <3>1. p \in Decided
      BY <2>2, <2>3, DecidedFirst
    <3>2. p \notin bad
      BY <1>1, <2>1, <2>2, <2>3
    <3> QED BY <3>1, <3>2
  <2>4. CASE o \in InTable
    <3>1. o \in Eligible /\ o \notin Granted
      BY <1>3, <2>1, <2>4
    <3>2. PICK p \in 1 .. (o - 1) :
             p \in Granted /\ DaysOverlap(queue[p], queue[o])
      BY <1>1, <3>1, GrantedInOrder
    <3>3. p \in Offsets /\ queue[p] # Junk /\ p < o
      BY <1>1, <2>2, <3>2, GrantedInOrder DEF Eligible
    <3>4. p \in InTable
      BY <2>3, <3>2, <3>3
    <3> QED BY <2>4, <3>2, <3>3, <3>4 DEF Justified
  <2>5. CASE o \notin InTable
    <3>1. o \in dlq \cup dropped /\ o \in Granted /\ o \in Eligible
      BY <1>1, <2>1, <2>2, <2>5, GrantedInOrder DEF Decided
    <3>2. PICK p \in InTable : p < o /\ DaysOverlap(queue[p], queue[o])
      BY <3>1 DEF Justified, Eligible
    <3>3. p \in Offsets /\ queue[p] # Junk /\ p \in 1 .. (o - 1)
      BY <1>1, <1>3, <2>2, <3>2 DEF Eligible
    <3>4. p \in Granted
      BY <2>3, <3>2, <3>3
    <3> QED BY <1>1, <3>1, <3>2, <3>3, <3>4, GrantedInOrder
  <2> QED BY <2>4, <2>5
<1>5. InTable \subseteq Granted
  BY <1>1, <1>4
<1>6. \A o \in dlq \cup dropped : o \in Offsets /\ o \notin Granted
  BY <1>1, <1>2, <1>4
<1> QED BY <1>5, <1>6

\* However the log is cut into batches and the batches into lists: until the
\* first fault exactly the bookings that win when the log is served in order
\* are recorded, and exactly the others are rejected.
THEOREM ServedInOrder == Spec => []FirstComeFirstServed
<1> DEFINE Served == TestsAgree /\ faultsLeft = MaxFaults => LedgerInv /\ Justified
           IInv == TypeOK /\ Shape /\ Served
<1>1. Init => IInv
  <2>1. Init => Justified
    BY DEF Init, Justified, InTable
  <2> QED BY <2>1, TypeShapeInit, LedgerInit
<1>2. IInv /\ [Next]_vars => IInv'
  <2> SUFFICES ASSUME IInv, [Next]_vars
               PROVE  TypeOK' /\ Shape' /\ Served'
    OBVIOUS
  <2>1. TypeOK' /\ Shape'
    BY TypeShapeStep
  <2>2. ASSUME TestsAgree, faultsLeft' = MaxFaults
        PROVE  LedgerInv' /\ Justified'
    <3>1. faultsLeft' = faultsLeft
      <4>1. faultsLeft' \in {faultsLeft, faultsLeft - 1}
        BY DEF Next, Work, Failure, Quiet, vars, Fault, Produce, Fetch, Check,
               Insert, DatabaseError, Release, RedisError, DeadLetter,
               ProducerError, Commit, Crash, Rebalance
      <4>2. faultsLeft \in 0 .. MaxFaults /\ MaxFaults \in Nat
        BY WorkerAssumption DEF TypeOK
      <4> QED BY <2>2, <4>1, <4>2
    <3>2. LedgerInv /\ Justified /\ Harmless
      BY <2>2, <3>1 DEF Harmless
    <3> QED BY <2>2, <3>2, LedgerStep, JustifiedStep
  <2> QED BY <2>1, <2>2
<1>3. IInv => FirstComeFirstServed
  <2> SUFFICES ASSUME LedgerInv, Justified
               PROVE  /\ \A o \in Offsets : Recorded(o) => o \in Granted
                      /\ dlq \cup dropped \subseteq Offsets \ Granted
    BY DEF FirstComeFirstServed
  <2> QED BY JustifiedIsGranted DEF Recorded, InTable
<1> QED BY <1>1, <1>2, <1>3, PTL DEF Spec

=============================================================================
