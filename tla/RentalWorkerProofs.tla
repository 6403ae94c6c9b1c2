--------------------------- MODULE RentalWorkerProofs ---------------------------
(***************************************************************************)
(* Proofs about RentalWorker, for every set of workers, vehicles, days and *)
(* requests and every bound on the queue and on the faults.                *)
(***************************************************************************)
EXTENDS RentalWorker, SequenceTheorems, FiniteSetTheorems, TLAPS

Labels == {"idle", "check", "insert", "release", "deadletter", "commit"}

\* The items a worker has still to process in its batch.
Pending(w) == UNION {calls[w][k] : k \in DOMAIN calls[w]}

\* A worker in the middle of a batch has a list to process, until it commits;
\* a list being dead-lettered has one item, and no list holds junk.
Shape ==
    /\ \A w \in Workers : calls[w] = <<>> <=> wpc[w] \in {"idle", "commit"}
    /\ \A w \in Workers :
          wpc[w] \in {"release", "deadletter"} => Cardinality(Head(calls[w])) = 1
    /\ \A w \in Workers : \A o \in Pending(w) : queue[o] # Junk

-----------------------------------------------------------------------------
\* Two elements in the place of the first one.
LEMMA SplitList ==
    ASSUME NEW S, NEW s \in Seq(S), s # <<>>, NEW a \in S, NEW b \in S,
           NEW t, t = <<a, b>> \o Tail(s)
    PROVE  /\ t \in Seq(S)
           /\ Len(s) \in Nat /\ Len(s) >= 1 /\ DOMAIN s = 1 .. Len(s)
           /\ DOMAIN t = 1 .. (Len(s) + 1)
           /\ t[1] = a /\ t[2] = b
           /\ \A i \in 2 .. Len(s) : t[i + 1] = s[i]
<1>1. Len(s) \in Nat /\ Len(s) >= 1 /\ DOMAIN s = 1 .. Len(s)
  OBVIOUS
<1>2. /\ Tail(s) \in Seq(S)
      /\ Len(Tail(s)) = Len(s) - 1
      /\ \A i \in 1 .. Len(Tail(s)) : Tail(s)[i] = s[i + 1]
  BY HeadTailProperties
<1>3. /\ <<a, b>> \in Seq(S) /\ Len(<<a, b>>) = 2
      /\ <<a, b>>[1] = a /\ <<a, b>>[2] = b
  OBVIOUS
<1>4. /\ t \in Seq(S)
      /\ Len(t) = 2 + Len(Tail(s))
      /\ \A i \in 1 .. 2 + Len(Tail(s)) :
            t[i] = IF i <= 2 THEN <<a, b>>[i] ELSE Tail(s)[i - 2]
  BY <1>2, <1>3, ConcatProperties
<1>5. DOMAIN t = 1 .. (Len(s) + 1)
  BY <1>1, <1>2, <1>4, LenProperties
<1>6. t[1] = a /\ t[2] = b
  BY <1>1, <1>2, <1>3, <1>4
<1>7. ASSUME NEW i \in 2 .. Len(s) PROVE t[i + 1] = s[i]
  <2>1. i + 1 \in 1 .. 2 + Len(Tail(s)) /\ ~(i + 1 <= 2)
    BY <1>1, <1>2
  <2>2. t[i + 1] = Tail(s)[(i + 1) - 2]
    BY <1>4, <2>1
  <2>3. (i + 1) - 2 \in 1 .. Len(Tail(s)) /\ ((i + 1) - 2) + 1 = i
    BY <1>1, <1>2
  <2> QED BY <1>2, <2>2, <2>3
<1> QED BY <1>1, <1>4, <1>5, <1>6, <1>7

\* The rest of a list.
LEMMA RestList ==
    ASSUME NEW S, NEW s \in Seq(S), s # <<>>, NEW t, t = Tail(s)
    PROVE  /\ t \in Seq(S)
           /\ Len(s) \in Nat /\ Len(s) >= 1 /\ DOMAIN s = 1 .. Len(s)
           /\ DOMAIN t = 1 .. (Len(s) - 1)
           /\ t = <<>> <=> Len(s) = 1
           /\ Head(s) = s[1]
           /\ \A i \in DOMAIN t : t[i] = s[i + 1]
<1>1. /\ t \in Seq(S)
      /\ Len(t) = Len(s) - 1
      /\ \A i \in 1 .. Len(t) : t[i] = s[i + 1]
  BY HeadTailProperties
<1>2. Len(s) \in Nat /\ Len(s) >= 1 /\ DOMAIN s = 1 .. Len(s) /\ Head(s) = s[1]
  OBVIOUS
<1>3. DOMAIN t = 1 .. (Len(s) - 1)
  BY <1>1, <1>2, LenProperties
<1>4. t = <<>> <=> Len(s) = 1
  <2>1. \A u \in Seq(S) : u = <<>> <=> Len(u) = 0
    BY EmptySeq
  <2>2. Len(t) = 0 <=> Len(s) = 1
    BY <1>1, <1>2
  <2> QED BY <1>1, <2>1, <2>2, Zenon
<1> QED BY <1>1, <1>2, <1>3, <1>4

\* The first list is a set of offsets and is part of what is pending.
LEMMA HeadPending ==
    ASSUME TypeOK, Shape, NEW w \in Workers, wpc[w] \notin {"idle", "commit"}
    PROVE  /\ calls[w] \in Seq(SUBSET Offsets)
           /\ calls[w] # <<>>
           /\ Head(calls[w]) \in SUBSET Offsets
           /\ Head(calls[w]) \subseteq Pending(w)
           /\ \A o \in Head(calls[w]) : queue[o] \in Requests
<1>1. calls[w] \in Seq(SUBSET Offsets) /\ calls[w] # <<>>
  BY DEF TypeOK, Shape
<1>2. Head(calls[w]) \in SUBSET Offsets
  BY <1>1, HeadTailProperties
<1>3. Head(calls[w]) = calls[w][1] /\ 1 \in DOMAIN calls[w]
  BY <1>1
<1>4. Head(calls[w]) \subseteq Pending(w)
  BY <1>3 DEF Pending
<1>5. \A o \in Head(calls[w]) : queue[o] \in Requests
  <2>1. \A o \in Offsets : queue[o] \in Messages
    BY DEF TypeOK, Offsets
  <2> QED BY <2>1, <1>2, <1>4 DEF Shape, Messages
<1> QED BY <1>1, <1>2, <1>4, <1>5

\* Sets of offsets are finite.
LEMMA OffsetsFinite ==
    ASSUME TypeOK, NEW S \in SUBSET Offsets
    PROVE  IsFiniteSet(S) /\ Cardinality(S) \in Nat
<1>1. Offsets = 1 .. Len(queue) /\ Len(queue) \in Nat
  BY DEF TypeOK, Offsets
<1>2. IsFiniteSet(1 .. Len(queue))
  BY <1>1, FS_Interval
<1> QED BY <1>1, <1>2, FS_Subset, FS_CardinalityType

\* The single item that is dead-lettered is the one of the first list.
LEMMA PoisonIsHead ==
    ASSUME TypeOK, Shape, NEW w \in Workers,
           wpc[w] \in {"release", "deadletter"}
    PROVE  Poison(w) \in Offsets /\ Head(calls[w]) = {Poison(w)}
<1>1. Head(calls[w]) \in SUBSET Offsets
  BY HeadPending
<1>2. IsFiniteSet(Head(calls[w])) /\ Cardinality(Head(calls[w])) = 1
  BY <1>1, OffsetsFinite DEF Shape
<1>3. PICK o : Head(calls[w]) = {o}
  BY <1>2, FS_Singleton
<1>4. Poison(w) = o
  BY <1>3 DEF Poison
<1> QED BY <1>1, <1>3, <1>4

\* A rejected list is split without losing or adding an item, or kept for
\* the DLQ when it has one item.
LEMMA RejectEffect ==
    ASSUME TypeOK, Shape, NEW w \in Workers, wpc[w] \notin {"idle", "commit"},
           Reject(w)
    PROVE  /\ calls' \in [Workers -> Seq(SUBSET Offsets)]
           /\ wpc' \in [Workers -> Labels]
           /\ wpc'[w] \in {"release", "check"}
           /\ calls'[w] # <<>>
           /\ wpc'[w] = "release" => Cardinality(Head(calls'[w])) = 1
           /\ Pending(w)' = Pending(w)
           /\ \A v \in Workers \ {w} : wpc'[v] = wpc[v] /\ calls'[v] = calls[v]
<1> DEFINE items == Head(calls[w])
<1>0. /\ calls[w] \in Seq(SUBSET Offsets)
      /\ calls[w] # <<>>
      /\ items \in SUBSET Offsets
  BY HeadPending
<1>1. CASE Cardinality(items) = 1 /\ Goto(w, "release") /\ UNCHANGED calls
  <2>1. /\ wpc' \in [Workers -> Labels]
        /\ wpc'[w] = "release"
        /\ \A v \in Workers \ {w} : wpc'[v] = wpc[v]
    BY <1>1 DEF TypeOK, Goto, Labels
  <2>2. Pending(w)' = Pending(w)
    BY <1>1 DEF Pending
  <2> QED BY <1>0, <1>1, <2>1, <2>2 DEF TypeOK
<1>2. ASSUME NEW left \in SUBSET items, NEW right \in SUBSET items,
             Halves(items, left, right),
             calls' = [calls EXCEPT ![w] = <<left, right>> \o Tail(@)],
             Goto(w, "check")
      PROVE  /\ calls' \in [Workers -> Seq(SUBSET Offsets)]
             /\ wpc' \in [Workers -> Labels]
             /\ wpc'[w] = "check"
             /\ calls'[w] # <<>>
             /\ Pending(w)' = Pending(w)
             /\ \A v \in Workers \ {w} :
                   wpc'[v] = wpc[v] /\ calls'[v] = calls[v]
  <2> DEFINE s == calls[w]
             t == <<left, right>> \o Tail(s)
  <2>1. /\ wpc' \in [Workers -> Labels]
        /\ wpc'[w] = "check"
        /\ \A v \in Workers \ {w} : wpc'[v] = wpc[v]
    BY <1>2 DEF TypeOK, Goto, Labels
  <2>2. s \in Seq(SUBSET Offsets) /\ s # <<>> /\ s[1] = left \cup right
    BY <1>0, <1>2 DEF Halves
  <2>3. left \in SUBSET Offsets /\ right \in SUBSET Offsets
    BY <1>0
  <2>4. /\ t \in Seq(SUBSET Offsets)
        /\ Len(s) \in Nat /\ Len(s) >= 1 /\ DOMAIN s = 1 .. Len(s)
        /\ DOMAIN t = 1 .. (Len(s) + 1)
        /\ t[1] = left /\ t[2] = right
        /\ \A i \in 2 .. Len(s) : t[i + 1] = s[i]
    <3>1. t = <<left, right>> \o Tail(s)
      OBVIOUS
    <3> HIDE DEF s, t
    <3> QED BY <2>2, <2>3, <3>1, SplitList
  <2>5. calls'[w] = t /\ \A v \in Workers \ {w} : calls'[v] = calls[v]
    BY <1>2 DEF TypeOK
  <2>6. calls' \in [Workers -> Seq(SUBSET Offsets)]
    BY <1>2, <2>4 DEF TypeOK
  <2>7. s[1] = left \cup right
    BY <2>2
  <2>8. UNION {t[k] : k \in DOMAIN t} = UNION {s[k] : k \in DOMAIN s}
    <3> HIDE DEF s, t
    <3>1. ASSUME NEW k \in DOMAIN t, NEW o \in t[k]
          PROVE  \E j \in DOMAIN s : o \in s[j]
      <4>1. CASE k <= 2
        BY <4>1, <2>4, <2>7
      <4>2. CASE k > 2
        <5>1. k - 1 \in 2 .. Len(s) /\ (k - 1) + 1 = k
          BY <4>2, <2>4, <2>7
        <5> QED BY <5>1, <2>4, <2>7
      <4> QED BY <4>1, <4>2, <2>4, <2>7
    <3>2. ASSUME NEW j \in DOMAIN s, NEW o \in s[j]
          PROVE  \E k \in DOMAIN t : o \in t[k]
      <4>1. CASE j = 1
        BY <4>1, <2>4, <2>7
      <4>2. CASE j > 1
        <5>1. j \in 2 .. Len(s) /\ j + 1 \in DOMAIN t
          BY <4>2, <2>4, <2>7
        <5> QED BY <5>1, <2>4, <2>7
      <4> QED BY <4>1, <4>2, <2>4, <2>7
    <3> QED BY <3>1, <3>2
  <2>9. calls'[w] # <<>>
    <3> HIDE DEF s, t
    <3> QED BY <2>5, <2>4, <2>7
  <2> QED BY <2>1, <2>5, <2>6, <2>8, <2>9 DEF Pending
<1> QED BY <1>1, <1>2 DEF Reject

\* The call for the first list returns: only that list is no longer pending.
LEMMA ReturnEffect ==
    ASSUME TypeOK, Shape, NEW w \in Workers, wpc[w] \notin {"idle", "commit"},
           Return(w)
    PROVE  /\ calls' \in [Workers -> Seq(SUBSET Offsets)]
           /\ wpc' \in [Workers -> Labels]
           /\ wpc'[w] \in {"commit", "check"}
           /\ calls'[w] = <<>> <=> wpc'[w] = "commit"
           /\ Pending(w)' \subseteq Pending(w)
           /\ Pending(w) \subseteq Head(calls[w]) \cup Pending(w)'
           /\ \A v \in Workers \ {w} : wpc'[v] = wpc[v] /\ calls'[v] = calls[v]
<1> DEFINE s == calls[w]
           t == Tail(s)
<1>0. s \in Seq(SUBSET Offsets) /\ s # <<>>
  BY HeadPending
<1>1. /\ wpc' \in [Workers -> Labels]
      /\ wpc'[w] = (IF Len(s) = 1 THEN "commit" ELSE "check")
      /\ \A v \in Workers \ {w} : wpc'[v] = wpc[v]
  BY DEF TypeOK, Return, Goto, Labels
<1>2. /\ t \in Seq(SUBSET Offsets)
      /\ Len(s) \in Nat /\ Len(s) >= 1
      /\ DOMAIN s = 1 .. Len(s)
      /\ DOMAIN t = 1 .. (Len(s) - 1)
      /\ t = <<>> <=> Len(s) = 1
      /\ Head(s) = s[1]
      /\ \A i \in DOMAIN t : t[i] = s[i + 1]
  <2>1. t = Tail(s)
    OBVIOUS
  <2> HIDE DEF s, t
  <2> QED BY <1>0, <2>1, RestList
<1>3. calls'[w] = t /\ \A v \in Workers \ {w} : calls'[v] = calls[v]
  BY DEF TypeOK, Return
<1>4. calls' \in [Workers -> Seq(SUBSET Offsets)]
  BY <1>2 DEF TypeOK, Return
<1> HIDE DEF s, t
<1>6. ASSUME NEW k \in DOMAIN t, NEW o \in t[k]
      PROVE  \E j \in DOMAIN s : o \in s[j]
  BY <1>2
<1>7. ASSUME NEW j \in DOMAIN s, NEW o \in s[j], o \notin Head(s)
      PROVE  \E k \in DOMAIN t : o \in t[k]
  <2>1. j > 1 /\ j - 1 \in DOMAIN t /\ (j - 1) + 1 = j
    BY <1>2, <1>7
  <2>2. t[j - 1] = s[j]
    BY <2>1, <1>2
  <2> QED BY <2>1, <2>2
<1>8. /\ UNION {t[k] : k \in DOMAIN t} \subseteq UNION {s[k] : k \in DOMAIN s}
      /\ UNION {s[k] : k \in DOMAIN s}
            \subseteq Head(s) \cup UNION {t[k] : k \in DOMAIN t}
  BY <1>6, <1>7
<1> USE DEF s
<1> QED BY <1>1, <1>2, <1>3, <1>4, <1>8 DEF Pending

-----------------------------------------------------------------------------
\* A step that changes the lists and the label of one worker keeps the shape.
LEMMA WorkerShape ==
    ASSUME TypeOK, Shape, NEW w \in Workers, UNCHANGED queue,
           calls'[w] = <<>> <=> wpc'[w] \in {"idle", "commit"},
           wpc'[w] \in {"release", "deadletter"} =>
               Cardinality(Head(calls'[w])) = 1,
           \A o \in Pending(w)' : queue[o] # Junk,
           \A v \in Workers \ {w} : wpc'[v] = wpc[v] /\ calls'[v] = calls[v]
    PROVE  Shape'
<1>1. \A v \in Workers : calls'[v] = <<>> <=> wpc'[v] \in {"idle", "commit"}
  BY DEF Shape
<1>2. \A v \in Workers :
         wpc'[v] \in {"release", "deadletter"} =>
             Cardinality(Head(calls'[v])) = 1
  BY DEF Shape
<1>3. ASSUME NEW v \in Workers, NEW o \in Pending(v)'
      PROVE  queue'[o] # Junk
  <2>1. CASE v = w
    BY <2>1, <1>3
  <2>2. CASE v # w
    <3>1. Pending(v)' = Pending(v)
      BY <2>2 DEF Pending
    <3> QED BY <3>1, <1>3 DEF Shape
  <2> QED BY <2>1, <2>2
<1> QED BY <1>1, <1>2, <1>3 DEF Shape

\* What a rejection leaves is well typed and well shaped.
LEMMA RejectKeeps ==
    ASSUME TypeOK, Shape, NEW w \in Workers, wpc[w] \notin {"idle", "commit"},
           Reject(w), UNCHANGED queue
    PROVE  /\ calls' \in [Workers -> Seq(SUBSET Offsets')]
           /\ wpc' \in [Workers -> Labels]
           /\ Shape'
<1>1. Offsets' = Offsets
  BY DEF Offsets
<1>2. \A o \in Pending(w)' : queue[o] # Junk
  BY RejectEffect DEF Shape
<1>3. Shape'
  BY <1>2, RejectEffect, WorkerShape
<1> QED BY <1>1, <1>3, RejectEffect

\* So is what a return leaves.
LEMMA ReturnKeeps ==
    ASSUME TypeOK, Shape, NEW w \in Workers, wpc[w] \notin {"idle", "commit"},
           Return(w), UNCHANGED queue
    PROVE  /\ calls' \in [Workers -> Seq(SUBSET Offsets')]
           /\ wpc' \in [Workers -> Labels]
           /\ Shape'
<1>1. Offsets' = Offsets
  BY DEF Offsets
<1>2. \A o \in Pending(w)' : queue[o] # Junk
  BY ReturnEffect DEF Shape
<1>3. Shape'
  BY <1>2, ReturnEffect, WorkerShape
<1> QED BY <1>1, <1>3, ReturnEffect

\* A request names a vehicle and days, and its slots are slots.
LEMMA RequestTypes ==
    ASSUME NEW r \in Requests
    PROVE  /\ r.vehicle \in Vehicles
           /\ r.start.day \in Days /\ r.end.day \in Days
           /\ Days \subseteq Nat
           /\ SlotKeys(r) \subseteq Vehicles \X Int
<1>1. /\ r \in [vehicle : Vehicles, start : Instants, end : Instants]
      /\ Days \subseteq Nat
  BY DatesAssumption DEF ValidRequests
<1>2. /\ r.vehicle \in Vehicles
      /\ r.start.day \in Days /\ r.end.day \in Days
  BY <1>1 DEF Instants
<1>3. SlotDates(r) \subseteq Int
  BY DEF SlotDates
<1> QED BY <1>1, <1>2, <1>3 DEF SlotKeys

\* An INSERT of a list of offsets leaves a well-typed table.
LEMMA StoreKeeps ==
    ASSUME TypeOK, NEW items \in SUBSET Offsets, Store(items),
           \A o \in items : queue[o] \in Requests
    PROVE  rentals' \subseteq Rows /\ nextId' \in Nat \ {0}
<1>1. Offsets = 1 .. Len(queue) /\ Len(queue) \in Nat
  BY DEF TypeOK, Offsets
<1>2. ASSUME NEW o \in items
      PROVE  Row(o, nextId + Cardinality({p \in items : p < o})) \in Rows
  <2>1. Cardinality({p \in items : p < o}) \in Nat
    BY OffsetsFinite, {p \in items : p < o} \in SUBSET Offsets
  <2>2. nextId + Cardinality({p \in items : p < o}) \in Nat \ {0}
    BY <2>1 DEF TypeOK
  <2>3. o \in Nat \ {0}
    BY <1>1
  <2>4. /\ queue[o].vehicle \in Vehicles
        /\ queue[o].start.day \in Days /\ queue[o].end.day \in Days
    BY RequestTypes
  <2> QED BY <2>2, <2>3, <2>4 DEF Row, Rows, Statuses
<1>3. NewRows(items) \subseteq Rows
  BY <1>2 DEF NewRows
<1>4. Cardinality(items) \in Nat
  BY OffsetsFinite
<1> QED BY <1>3, <1>4 DEF Store, TypeOK

\* Pending items are offsets of the log.
LEMMA PendingOffsets ==
    ASSUME TypeOK, NEW w \in Workers
    PROVE  Pending(w) \subseteq Offsets
<1>1. calls[w] \in Seq(SUBSET Offsets)
  BY DEF TypeOK
<1>2. \A k \in DOMAIN calls[w] : calls[w][k] \in SUBSET Offsets
  BY <1>1, LenProperties, ElementOfSeq
<1> QED BY <1>2 DEF Pending

\* A new message disturbs neither the types nor the lists.
LEMMA ProduceKeeps ==
    ASSUME TypeOK, Shape, NEW m \in Messages, Produce(m)
    PROVE  TypeOK' /\ Shape'
<1>1. /\ queue \in Seq(Messages)
      /\ queue' \in Seq(Messages)
      /\ Len(queue') = Len(queue) + 1
      /\ Len(queue) \in Nat
      /\ \A o \in 1 .. Len(queue) : queue'[o] = queue[o]
  BY DEF TypeOK, Produce
<1>2. /\ Offsets = 1 .. Len(queue)
      /\ Offsets' = 1 .. Len(queue')
      /\ Offsets \subseteq Offsets'
      /\ \A o \in Offsets : queue'[o] = queue[o]
  BY <1>1 DEF Offsets
<1>3. calls' \in [Workers -> Seq(SUBSET Offsets')]
  <2>1. SUBSET Offsets \subseteq SUBSET Offsets'
    BY <1>2
  <2>2. \A w \in Workers : calls[w] \in Seq(SUBSET Offsets')
    BY <2>1, SeqMonotonic DEF TypeOK
  <2> QED BY <2>2 DEF Produce, TypeOK
<1>4. slots' \subseteq Vehicles \X Int
  <2>1. m # Junk => SlotKeys(m) \subseteq Vehicles \X Int
    BY RequestTypes DEF Messages
  <2> QED BY <2>1 DEF Produce, TypeOK
<1>5. dlq' \subseteq Offsets' /\ dropped' \subseteq Offsets'
  BY <1>2 DEF Produce, TypeOK
<1>6. /\ committed' \in 0 .. Len(queue')
      /\ \A w \in Workers : upto'[w] <= Len(queue')
      /\ upto' \in [Workers -> Nat]
  BY <1>1 DEF Produce, TypeOK, group
<1>7. TypeOK'
  BY <1>1, <1>3, <1>4, <1>5, <1>6 DEF Produce, TypeOK, group
<1>8. Shape'
  <2>1. \A w \in Workers : Pending(w)' = Pending(w) /\ Pending(w) \subseteq Offsets
    BY PendingOffsets DEF Pending, Produce
  <2> QED BY <2>1, <1>2 DEF Shape, Produce
<1> QED BY <1>7, <1>8

\* Types and shape are inductive.
LEMMA TypeShapeStep ==
    ASSUME TypeOK, Shape, [Next]_vars
    PROVE  TypeOK' /\ Shape'
<1> USE DEF Labels
<1>1. ASSUME NEW m \in Messages, Produce(m)
      PROVE  TypeOK' /\ Shape'
  BY <1>1, ProduceKeeps
<1>2. ASSUME NEW w \in Workers, Fetch(w)
      PROVE  TypeOK' /\ Shape'
  <2>1. PICK n \in (committed + 1) .. Len(queue) :
           LET items == {o \in (committed + 1) .. n : queue[o] # Junk}
           IN  /\ upto' = [upto EXCEPT ![w] = n]
               /\ calls' = [calls EXCEPT ![w] = IF items = {} THEN <<>>
                                                             ELSE <<items>>]
               /\ Goto(w, IF items = {} THEN "commit" ELSE "check")
    BY <1>2 DEF Fetch
  <2> DEFINE items == {o \in (committed + 1) .. n : queue[o] # Junk}
             list == IF items = {} THEN <<>> ELSE <<items>>
  <2>2. /\ Offsets = 1 .. Len(queue) /\ Offsets' = Offsets
        /\ Len(queue) \in Nat /\ committed \in Nat
        /\ n \in Nat /\ n <= Len(queue)
        /\ queue' = queue
    BY <1>2 DEF Fetch, TypeOK, Offsets
  <2>3. items \in SUBSET Offsets
    BY <2>2
  <2>4. /\ list \in Seq(SUBSET Offsets)
        /\ list = <<>> <=> items = {}
        /\ items # {} => Len(list) = 1 /\ list[1] = items
    <3> HIDE DEF items
    <3>1. CASE items = {}
      <4>1. list = <<>>
        BY <3>1
      <4> QED BY <3>1, <4>1, EmptySeq
    <3>2. CASE items # {}
      <4>1. list = <<items>>
        BY <3>2
      <4> HIDE DEF list
      <4>2. list # <<>> /\ Len(list) = 1 /\ list[1] = items
        BY <4>1
      <4>3. list \in Seq(SUBSET Offsets)
        BY <4>1, <2>3
      <4> QED BY <3>2, <4>2, <4>3
    <3> QED BY <3>1, <3>2
  <2>5. /\ calls'[w] = list
        /\ \A v \in Workers \ {w} : calls'[v] = calls[v]
        /\ calls' \in [Workers -> Seq(SUBSET Offsets)]
    BY <2>1, <2>4 DEF TypeOK
  <2>6. /\ wpc' \in [Workers -> Labels]
        /\ wpc'[w] = (IF items = {} THEN "commit" ELSE "check")
        /\ \A v \in Workers \ {w} : wpc'[v] = wpc[v]
    BY <2>1 DEF TypeOK, Goto
  <2>7. /\ upto' \in [Workers -> Nat]
        /\ \A v \in Workers : upto'[v] <= Len(queue)
    BY <2>1, <2>2 DEF TypeOK
  <2>8. TypeOK'
    BY <1>2, <2>2, <2>5, <2>6, <2>7 DEF Fetch, TypeOK, store, group
  <2>9. \A o \in Pending(w)' : queue[o] # Junk
    <3>1. Pending(w)' = UNION {list[k] : k \in DOMAIN list}
      BY <2>5 DEF Pending
    <3>2. ASSUME NEW k \in DOMAIN list, NEW o \in list[k]
          PROVE  o \in items
      <4>1. list = <<items>>
        BY <3>2
      <4> HIDE DEF items, list
      <4> QED BY <3>2, <4>1
    <3> QED BY <3>1, <3>2
  <2>10. Shape'
    <3>1. calls'[w] = <<>> <=> wpc'[w] \in {"idle", "commit"}
      BY <2>4, <2>5, <2>6
    <3>2. wpc'[w] \notin {"release", "deadletter"}
      BY <2>6
    <3> HIDE DEF items, list
    <3> QED BY <2>2, <2>5, <2>6, <2>9, <3>1, <3>2, WorkerShape
  <2> QED BY <2>8, <2>10
<1>3. ASSUME NEW w \in Workers, Check(w)
      PROVE  TypeOK' /\ Shape'
  <2>1. wpc[w] = "check" /\ queue' = queue /\ Offsets' = Offsets
    BY <1>3 DEF Check, Offsets
  <2>2. CASE Reject(w)
    <3>1. /\ calls' \in [Workers -> Seq(SUBSET Offsets')]
          /\ wpc' \in [Workers -> Labels]
          /\ Shape'
      BY <2>1, <2>2, RejectKeeps
    <3> QED BY <1>3, <2>1, <3>1 DEF Check, TypeOK, store, group
  <2>3. CASE Goto(w, "insert") /\ UNCHANGED calls
    <3>1. /\ wpc' \in [Workers -> Labels]
          /\ wpc'[w] = "insert"
          /\ \A v \in Workers \ {w} : wpc'[v] = wpc[v] /\ calls'[v] = calls[v]
      BY <2>3 DEF TypeOK, Goto
    <3>2. TypeOK'
      BY <1>3, <2>1, <2>3, <3>1 DEF Check, TypeOK, store, group
    <3>3. Pending(w)' = Pending(w) /\ calls'[w] # <<>>
      BY <2>1, <2>3 DEF Pending, Shape
    <3>4. \A o \in Pending(w)' : queue[o] # Junk
      BY <3>3 DEF Shape
    <3>5. Shape'
      BY <2>1, <3>1, <3>3, <3>4, WorkerShape
    <3> QED BY <3>2, <3>5
  <2> QED BY <1>3, <2>2, <2>3 DEF Check
<1>4. ASSUME NEW w \in Workers, Insert(w)
      PROVE  TypeOK' /\ Shape'
  <2>1. wpc[w] = "insert" /\ queue' = queue /\ Offsets' = Offsets
    BY <1>4 DEF Insert, Offsets
  <2>2. CASE Store(Head(calls[w])) /\ Return(w)
    <3>1. /\ calls' \in [Workers -> Seq(SUBSET Offsets')]
          /\ wpc' \in [Workers -> Labels]
          /\ Shape'
      BY <2>1, <2>2, ReturnKeeps
    <3>2. rentals' \subseteq Rows /\ nextId' \in Nat \ {0}
      BY <2>1, <2>2, HeadPending, StoreKeeps
    <3> QED BY <1>4, <2>1, <2>2, <3>1, <3>2 DEF Insert, Store, TypeOK, group
  <2>3. CASE UNCHANGED store /\ Reject(w)
    <3>1. /\ calls' \in [Workers -> Seq(SUBSET Offsets')]
          /\ wpc' \in [Workers -> Labels]
          /\ Shape'
      BY <2>1, <2>3, RejectKeeps
    <3> QED BY <1>4, <2>1, <2>3, <3>1 DEF Insert, TypeOK, store, group
  <2> QED BY <1>4, <2>2, <2>3 DEF Insert
<1>5. ASSUME NEW w \in Workers, DatabaseError(w)
      PROVE  TypeOK' /\ Shape'
  <2>1. /\ wpc[w] \in {"check", "insert"} /\ queue' = queue
        /\ Offsets' = Offsets /\ Reject(w)
    BY <1>5 DEF DatabaseError, Offsets
  <2>2. /\ calls' \in [Workers -> Seq(SUBSET Offsets')]
        /\ wpc' \in [Workers -> Labels]
        /\ Shape'
    BY <2>1, RejectKeeps
  <2>3. faultsLeft' \in 0 .. MaxFaults
    BY <1>5, WorkerAssumption DEF DatabaseError, Fault, TypeOK
  <2>4. CASE UNCHANGED store
    BY <1>5, <2>1, <2>2, <2>3, <2>4 DEF DatabaseError, TypeOK, store, group
  <2>5. CASE Store(Head(calls[w]))
    <3>1. rentals' \subseteq Rows /\ nextId' \in Nat \ {0}
      BY <2>1, <2>5, HeadPending, StoreKeeps
    <3> QED BY <1>5, <2>1, <2>2, <2>3, <2>5, <3>1
            DEF DatabaseError, Store, TypeOK, group
  <2> QED BY <1>5, <2>4, <2>5 DEF DatabaseError
<1>6. ASSUME NEW w \in Workers, Release(w)
      PROVE  TypeOK' /\ Shape'
  <2>1. wpc[w] = "release" /\ queue' = queue /\ Offsets' = Offsets
    BY <1>6 DEF Release, Offsets
  <2>2. Poison(w) \in Offsets
    BY <2>1, PoisonIsHead
  <2>3. CASE /\ slots' = ReleaseSlots(queue[Poison(w)])
             /\ Goto(w, "deadletter")
             /\ UNCHANGED <<calls, dropped>>
    <3>1. /\ wpc' \in [Workers -> Labels]
          /\ wpc'[w] = "deadletter"
          /\ \A v \in Workers \ {w} : wpc'[v] = wpc[v] /\ calls'[v] = calls[v]
      BY <2>3 DEF TypeOK, Goto
    <3>2. slots' \subseteq Vehicles \X Int
      BY <2>3 DEF TypeOK, ReleaseSlots
    <3>3. TypeOK'
      BY <1>6, <2>1, <2>3, <3>1, <3>2 DEF Release, TypeOK, group
    <3>4. Pending(w)' = Pending(w) /\ calls'[w] # <<>>
      BY <2>1, <2>3 DEF Pending, Shape
    <3>5. \A o \in Pending(w)' : queue[o] # Junk
      BY <3>4 DEF Shape
    <3>6. Cardinality(Head(calls'[w])) = 1
      BY <2>1, <2>3 DEF Shape
    <3>7. Shape'
      BY <2>1, <3>1, <3>4, <3>5, <3>6, WorkerShape
    <3> QED BY <3>3, <3>7
  <2>4. CASE /\ dropped' = dropped \cup {Poison(w)}
             /\ Return(w)
             /\ UNCHANGED slots
    <3>1. /\ calls' \in [Workers -> Seq(SUBSET Offsets')]
          /\ wpc' \in [Workers -> Labels]
          /\ Shape'
      BY <2>1, <2>4, ReturnKeeps
    <3> QED BY <1>6, <2>1, <2>2, <2>4, <3>1 DEF Release, TypeOK, group
  <2> QED BY <1>6, <2>3, <2>4 DEF Release
<1>7. ASSUME NEW w \in Workers, RedisError(w)
      PROVE  TypeOK' /\ Shape'
  <2>1. /\ wpc[w] = "release" /\ queue' = queue /\ Offsets' = Offsets
        /\ Return(w)
    BY <1>7 DEF RedisError, Offsets
  <2>2. Poison(w) \in Offsets
    BY <2>1, PoisonIsHead
  <2>3. /\ calls' \in [Workers -> Seq(SUBSET Offsets')]
        /\ wpc' \in [Workers -> Labels]
        /\ Shape'
    BY <2>1, ReturnKeeps
  <2>4. faultsLeft' \in 0 .. MaxFaults /\ slots' \subseteq Vehicles \X Int
    BY <1>7, WorkerAssumption DEF RedisError, ReleaseSlots, Fault, TypeOK
  <2> QED BY <1>7, <2>1, <2>2, <2>3, <2>4 DEF RedisError, TypeOK, group
<1>8. ASSUME NEW w \in Workers, DeadLetter(w)
      PROVE  TypeOK' /\ Shape'
  <2>1. /\ wpc[w] = "deadletter" /\ queue' = queue /\ Offsets' = Offsets
        /\ Return(w)
    BY <1>8 DEF DeadLetter, Offsets
  <2>2. Poison(w) \in Offsets
    BY <2>1, PoisonIsHead
  <2>3. /\ calls' \in [Workers -> Seq(SUBSET Offsets')]
        /\ wpc' \in [Workers -> Labels]
        /\ Shape'
    BY <2>1, ReturnKeeps
  <2> QED BY <1>8, <2>1, <2>2, <2>3 DEF DeadLetter, TypeOK, group
<1>9. ASSUME NEW w \in Workers, ProducerError(w)
      PROVE  TypeOK' /\ Shape'
  <2>1. /\ wpc[w] = "deadletter" /\ queue' = queue /\ Offsets' = Offsets
        /\ Return(w)
    BY <1>9 DEF ProducerError, Offsets
  <2>2. Poison(w) \in Offsets
    BY <2>1, PoisonIsHead
  <2>3. /\ calls' \in [Workers -> Seq(SUBSET Offsets')]
        /\ wpc' \in [Workers -> Labels]
        /\ Shape'
    BY <2>1, ReturnKeeps
  <2>4. faultsLeft' \in 0 .. MaxFaults
    BY <1>9, WorkerAssumption DEF ProducerError, Fault, TypeOK
  <2> QED BY <1>9, <2>1, <2>2, <2>3, <2>4 DEF ProducerError, TypeOK, group
<1>10. ASSUME NEW w \in Workers, Commit(w)
       PROVE  TypeOK' /\ Shape'
  <2>1. /\ wpc[w] = "commit" /\ queue' = queue /\ Offsets' = Offsets
        /\ calls[w] = <<>>
    BY <1>10 DEF Commit, Offsets, Shape
  <2>2. committed' \in 0 .. Len(queue)
    BY <1>10 DEF Commit, Resolved, TypeOK
  <2>3. /\ wpc' \in [Workers -> Labels]
        /\ wpc'[w] = "idle"
        /\ \A v \in Workers \ {w} : wpc'[v] = wpc[v] /\ calls'[v] = calls[v]
        /\ calls' = calls
    BY <1>10 DEF Commit, Goto, TypeOK
  <2>4. TypeOK'
    BY <1>10, <2>1, <2>2, <2>3 DEF Commit, TypeOK, store
  <2>5. \A o \in Pending(w)' : queue[o] # Junk
    BY <2>3 DEF Pending, Shape
  <2>6. Shape'
    BY <2>1, <2>3, <2>5, WorkerShape
  <2> QED BY <2>4, <2>6
<1>11. ASSUME NEW w \in Workers, Crash(w)
       PROVE  TypeOK' /\ Shape'
  <2>1. queue' = queue /\ Offsets' = Offsets
    BY <1>11 DEF Crash, Offsets
  <2>2. /\ wpc' \in [Workers -> Labels]
        /\ wpc'[w] = "idle"
        /\ calls'[w] = <<>>
        /\ calls' \in [Workers -> Seq(SUBSET Offsets)]
        /\ \A v \in Workers \ {w} : wpc'[v] = wpc[v] /\ calls'[v] = calls[v]
    BY <1>11 DEF Crash, Goto, TypeOK
  <2>3. faultsLeft' \in 0 .. MaxFaults
    BY <1>11, WorkerAssumption DEF Crash, Fault, TypeOK
  <2>4. TypeOK'
    BY <1>11, <2>1, <2>2, <2>3 DEF Crash, TypeOK, store, group
  <2>5. \A o \in Pending(w)' : queue[o] # Junk
    BY <2>2 DEF Pending
  <2>6. Shape'
    BY <2>1, <2>2, <2>5, WorkerShape
  <2> QED BY <2>4, <2>6
<1>12. ASSUME NEW w \in Workers, Rebalance(w)
       PROVE  TypeOK' /\ Shape'
  <2>1. TypeOK'
    BY <1>12, WorkerAssumption DEF Rebalance, Fault, TypeOK, Offsets, store
  <2>2. Shape'
    BY <1>12 DEF Rebalance, Shape, Pending
  <2> QED BY <2>1, <2>2
<1>13. CASE UNCHANGED vars
  <2>1. TypeOK'
    BY <1>13 DEF vars, TypeOK, Offsets
  <2>2. Shape'
    BY <1>13 DEF vars, Shape, Pending
  <2> QED BY <2>1, <2>2
<1> QED
  BY <1>1, <1>2, <1>3, <1>4, <1>5, <1>6, <1>7, <1>8, <1>9, <1>10, <1>11,
     <1>12, <1>13
  DEF Next, Work, Failure, Quiet

\* The types and the shape hold initially.
LEMMA TypeShapeInit ==
    ASSUME Init
    PROVE  TypeOK /\ Shape
<1>1. TypeOK
  <2>1. queue \in Seq(Messages) /\ Len(queue) = 0
    BY DEF Init
  <2>2. \A w \in Workers : calls[w] \in Seq(SUBSET Offsets)
    BY EmptySeq DEF Init
  <2>3. calls \in [Workers -> Seq(SUBSET Offsets)]
    BY <2>2 DEF Init
  <2>4. committed \in 0 .. Len(queue) /\ \A w \in Workers : upto[w] <= Len(queue)
    BY <2>1 DEF Init
  <2>5. faultsLeft \in 0 .. MaxFaults
    BY WorkerAssumption DEF Init
  <2>6. /\ wpc \in [Workers -> {"idle", "check", "insert", "release",
                                "deadletter", "commit"}]
        /\ upto \in [Workers -> Nat]
    BY DEF Init
  <2>7. /\ slots \subseteq Vehicles \X Int
        /\ rentals \subseteq Rows
        /\ nextId \in Nat \ {0}
        /\ dlq \subseteq Offsets
        /\ dropped \subseteq Offsets
        /\ owner \in Workers
    BY DEF Init
  <2>8. overtaken \in BOOLEAN
    BY DEF Init
  <2> QED BY <2>1, <2>3, <2>4, <2>5, <2>6, <2>7, <2>8 DEF TypeOK
<1>2. Shape
  BY DEF Init, Shape, Pending
<1> QED BY <1>1, <1>2

\* The lists of the workers keep their shape.
LEMMA ShapeInvariant == Spec => [](TypeOK /\ Shape)
<1>1. Init => TypeOK /\ Shape
  BY TypeShapeInit
<1>2. TypeOK /\ Shape /\ [Next]_vars => TypeOK' /\ Shape'
  BY TypeShapeStep
<1> QED BY <1>1, <1>2, PTL DEF Spec

\* Every variable keeps its type: in particular every pending item is an
\* offset of the log, and committed offsets never exceed its length.
THEOREM TypeCorrect == Spec => []TypeOK
BY ShapeInvariant, PTL

-----------------------------------------------------------------------------
(***************************************************************************)
(* Every consumed booking is accounted for.                                *)
(***************************************************************************)
Dealt(o) == Recorded(o) \/ o \in dlq \/ o \in dropped

\* What a worker has fetched is dealt with or still pending.
BatchAccounted ==
    \A w \in Workers : wpc[w] # "idle" =>
        \A o \in 1 .. upto[w] :
            queue[o] # Junk => Dealt(o) \/ o \in Pending(w)

\* What the workers write is never taken back.
Grows ==
    /\ rentals \subseteq rentals'
    /\ dlq \subseteq dlq'
    /\ dropped \subseteq dropped'

\* A step of one worker that only adds to the stores, and deals with each
\* item that it takes off its lists, keeps the account of all the batches.
LEMMA BatchStep ==
    ASSUME TypeOK, BatchAccounted, Grows, UNCHANGED <<queue, upto>>,
           NEW w \in Workers, wpc[w] # "idle",
           \A v \in Workers \ {w} : wpc'[v] = wpc[v] /\ calls'[v] = calls[v],
           \A o \in Pending(w) : o \in Pending(w)' \/ Dealt(o)'
    PROVE  BatchAccounted'
<1> SUFFICES ASSUME NEW v \in Workers, wpc'[v] # "idle",
                    NEW o \in 1 .. upto[v], queue[o] # Junk
             PROVE  Dealt(o)' \/ o \in Pending(v)'
  BY DEF BatchAccounted
<1>1. Dealt(o) => Dealt(o)'
  BY DEF Dealt, Grows, Recorded
<1>2. CASE v = w
  BY <1>1, <1>2 DEF BatchAccounted
<1>3. CASE v # w
  <2>1. Pending(v)' = Pending(v) /\ wpc[v] # "idle"
    BY <1>3 DEF Pending
  <2> QED BY <2>1, <1>1 DEF BatchAccounted
<1> QED BY <1>2, <1>3

\* The account of the committed offsets is kept while nothing is committed.
LEMMA CommittedStep ==
    ASSUME TypeOK, CommittedAccounted, Grows, UNCHANGED <<queue, committed>>
    PROVE  CommittedAccounted'
BY DEF CommittedAccounted, Grows, Recorded

\* An INSERT records each item of the list.
LEMMA StoreDeals ==
    ASSUME NEW items, Store(items)
    PROVE  Grows /\ \A o \in items : Dealt(o)'
<1>1. Grows
  BY DEF Store, Grows
<1>2. ASSUME NEW o \in items
      PROVE  Dealt(o)'
  <2>1. Row(o, nextId + Cardinality({p \in items : p < o})) \in rentals'
    BY DEF Store, NewRows
  <2>2. Row(o, nextId + Cardinality({p \in items : p < o})).src = o
    BY DEF Row
  <2> QED BY <2>1, <2>2 DEF Dealt, Recorded
<1> QED BY <1>1, <1>2

\* A rejection keeps every account, whether or not its rows were stored.
LEMMA RejectAccounted ==
    ASSUME TypeOK, Shape, BatchAccounted, CommittedAccounted, Grows,
           UNCHANGED <<queue, upto, committed>>,
           NEW w \in Workers, wpc[w] \notin {"idle", "commit"}, Reject(w)
    PROVE  BatchAccounted' /\ CommittedAccounted'
BY RejectEffect, BatchStep, CommittedStep

\* A return keeps every account if the items of its list are dealt with.
LEMMA ReturnAccounted ==
    ASSUME TypeOK, Shape, BatchAccounted, CommittedAccounted, Grows,
           UNCHANGED <<queue, upto, committed>>,
           NEW w \in Workers, wpc[w] \notin {"idle", "commit"}, Return(w),
           \A o \in Head(calls[w]) : Dealt(o)'
    PROVE  BatchAccounted' /\ CommittedAccounted'
<1>1. \A o \in Pending(w) : o \in Pending(w)' \/ Dealt(o)'
  BY ReturnEffect
<1> QED BY <1>1, ReturnEffect, BatchStep, CommittedStep

\* Every step keeps both accounts.
LEMMA AccountedStep ==
    ASSUME TypeOK, Shape, BatchAccounted, CommittedAccounted, [Next]_vars
    PROVE  BatchAccounted' /\ CommittedAccounted'
<1>1. ASSUME NEW m \in Messages, Produce(m)
      PROVE  BatchAccounted' /\ CommittedAccounted'
  <2>1. /\ Len(queue) \in Nat
        /\ \A o \in 1 .. Len(queue) : queue'[o] = queue[o]
        /\ committed <= Len(queue) /\ committed \in Nat
        /\ \A w \in Workers : upto[w] <= Len(queue) /\ upto[w] \in Nat
    BY <1>1 DEF TypeOK, Produce
  <2>2. \A o : Dealt(o)' = Dealt(o)
    BY <1>1 DEF Produce, Dealt, Recorded
  <2>3. \A w \in Workers : Pending(w)' = Pending(w)
    BY <1>1 DEF Produce, Pending
  <2>4. BatchAccounted'
    BY <1>1, <2>1, <2>2, <2>3 DEF Produce, BatchAccounted
  <2>5. CommittedAccounted'
    BY <1>1, <2>1, <2>2 DEF Produce, CommittedAccounted, Dealt, group
  <2> QED BY <2>4, <2>5
<1>2. ASSUME NEW w \in Workers, Fetch(w)
      PROVE  BatchAccounted' /\ CommittedAccounted'
  <2>1. PICK n \in (committed + 1) .. Len(queue) :
           LET items == {o \in (committed + 1) .. n : queue[o] # Junk}
           IN  /\ upto' = [upto EXCEPT ![w] = n]
               /\ calls' = [calls EXCEPT ![w] = IF items = {} THEN <<>>
                                                             ELSE <<items>>]
               /\ Goto(w, IF items = {} THEN "commit" ELSE "check")
    BY <1>2 DEF Fetch
  <2> DEFINE items == {o \in (committed + 1) .. n : queue[o] # Junk}
             list == IF items = {} THEN <<>> ELSE <<items>>
  <2>2. /\ queue' = queue /\ committed' = committed
        /\ UNCHANGED <<rentals, dlq, dropped>>
        /\ committed \in Nat /\ n \in Nat
    BY <1>2 DEF Fetch, store, group, TypeOK
  <2>3. CommittedAccounted'
    BY <2>2, CommittedStep DEF Grows
  <2>4. \A o : Dealt(o)' = Dealt(o)
    BY <2>2 DEF Dealt, Recorded
  <2>5. \A v \in Workers \ {w} :
           /\ wpc'[v] = wpc[v] /\ upto'[v] = upto[v]
           /\ Pending(v)' = Pending(v)
    BY <2>1 DEF TypeOK, Goto, Pending
  <2>6. upto'[w] = n /\ calls'[w] = list
    BY <2>1 DEF TypeOK
  <2>7. items \subseteq Pending(w)'
    <3>1. CASE items # {}
      <4>1. list = <<items>>
        BY <3>1
      <4> HIDE DEF items, list
      <4>2. list[1] = items /\ 1 \in DOMAIN list
        BY <4>1
      <4> QED BY <4>2, <2>6 DEF Pending
    <3> QED BY <3>1
  <2>8. ASSUME NEW o \in 1 .. n, queue[o] # Junk
        PROVE  Dealt(o) \/ o \in items
    <3>1. CASE o <= committed
      BY <3>1, <2>2, <2>8 DEF CommittedAccounted, Dealt
    <3>2. CASE o > committed
      BY <3>2, <2>2, <2>8
    <3> QED BY <2>2, <3>1, <3>2
  <2>9. BatchAccounted'
    <3> SUFFICES ASSUME NEW v \in Workers, wpc'[v] # "idle",
                        NEW o \in 1 .. upto'[v], queue[o] # Junk
                 PROVE  Dealt(o)' \/ o \in Pending(v)'
      BY <2>2 DEF BatchAccounted
    <3> HIDE DEF items
    <3>1. CASE v = w
      BY <3>1, <2>4, <2>6, <2>7, <2>8
    <3>2. CASE v # w
      BY <3>2, <2>4, <2>5 DEF BatchAccounted
    <3> QED BY <3>1, <3>2
  <2> QED BY <2>3, <2>9
<1>3. ASSUME NEW w \in Workers, Check(w)
      PROVE  BatchAccounted' /\ CommittedAccounted'
  <2>1. /\ wpc[w] = "check" /\ Grows
        /\ UNCHANGED <<queue, upto, committed>>
    BY <1>3 DEF Check, Grows, store, group
  <2>2. CASE Reject(w)
    BY <2>1, <2>2, RejectAccounted
  <2>3. CASE Goto(w, "insert") /\ UNCHANGED calls
    <3>1. \A v \in Workers \ {w} : wpc'[v] = wpc[v] /\ calls'[v] = calls[v]
      BY <2>3 DEF TypeOK, Goto
    <3>2. Pending(w)' = Pending(w)
      BY <2>3 DEF Pending
    <3> QED BY <2>1, <3>1, <3>2, BatchStep, CommittedStep
  <2> QED BY <1>3, <2>2, <2>3 DEF Check
<1>4. ASSUME NEW w \in Workers, Insert(w)
      PROVE  BatchAccounted' /\ CommittedAccounted'
  <2>1. wpc[w] = "insert" /\ UNCHANGED <<queue, upto, committed>>
    BY <1>4 DEF Insert, group
  <2>2. CASE Store(Head(calls[w])) /\ Return(w)
    BY <2>1, <2>2, StoreDeals, ReturnAccounted
  <2>3. CASE UNCHANGED store /\ Reject(w)
    <3>1. Grows
      BY <2>3 DEF Grows, store
    <3> QED BY <2>1, <2>3, <3>1, RejectAccounted
  <2> QED BY <1>4, <2>2, <2>3 DEF Insert
<1>5. ASSUME NEW w \in Workers, DatabaseError(w)
      PROVE  BatchAccounted' /\ CommittedAccounted'
  <2>1. /\ wpc[w] \in {"check", "insert"} /\ Reject(w)
        /\ UNCHANGED <<queue, upto, committed>>
    BY <1>5 DEF DatabaseError, group
  <2>2. Grows
    BY <1>5, StoreDeals DEF DatabaseError, Grows, store
  <2> QED BY <2>1, <2>2, RejectAccounted
<1>6. ASSUME NEW w \in Workers, Release(w)
      PROVE  BatchAccounted' /\ CommittedAccounted'
  <2>1. /\ wpc[w] = "release" /\ UNCHANGED <<queue, upto, committed>>
        /\ Head(calls[w]) = {Poison(w)}
    BY <1>6, PoisonIsHead DEF Release, group
  <2>2. Grows
    BY <1>6 DEF Release, Grows
  <2>3. CASE Goto(w, "deadletter") /\ UNCHANGED <<calls, dropped>>
    <3>1. \A v \in Workers \ {w} : wpc'[v] = wpc[v] /\ calls'[v] = calls[v]
      BY <2>3 DEF TypeOK, Goto
    <3>2. Pending(w)' = Pending(w)
      BY <2>3 DEF Pending
    <3> QED BY <2>1, <2>2, <3>1, <3>2, BatchStep, CommittedStep
  <2>4. CASE dropped' = dropped \cup {Poison(w)} /\ Return(w)
    <3>1. \A o \in Head(calls[w]) : Dealt(o)'
      BY <2>1, <2>4 DEF Dealt
    <3> QED BY <2>1, <2>2, <2>4, <3>1, ReturnAccounted
  <2> QED BY <1>6, <2>3, <2>4 DEF Release
<1>7. ASSUME NEW w \in Workers,
             RedisError(w) \/ DeadLetter(w) \/ ProducerError(w)
      PROVE  BatchAccounted' /\ CommittedAccounted'
  <2>1. /\ wpc[w] \in {"release", "deadletter"} /\ Return(w)
        /\ UNCHANGED <<queue, upto, committed>>
    BY <1>7 DEF RedisError, DeadLetter, ProducerError, group
  <2>2. Head(calls[w]) = {Poison(w)}
    BY <2>1, PoisonIsHead
  <2>3. Grows
    BY <1>7 DEF RedisError, DeadLetter, ProducerError, Grows
  <2>4. \A o \in Head(calls[w]) : o \in dlq' \/ o \in dropped'
    BY <1>7, <2>2 DEF RedisError, DeadLetter, ProducerError
  <2>5. \A o \in Head(calls[w]) : Dealt(o)'
    BY <2>4 DEF Dealt
  <2> QED BY <2>1, <2>3, <2>5, ReturnAccounted
<1>8. ASSUME NEW w \in Workers, Commit(w)
      PROVE  BatchAccounted' /\ CommittedAccounted'
  <2>1. /\ wpc[w] = "commit"
        /\ UNCHANGED <<queue, upto, calls, rentals, dlq, dropped>>
        /\ committed' \in {committed, upto[w]}
    BY <1>8 DEF Commit, Resolved, store
  <2>2. \A v \in Workers : wpc'[v] # "idle" => wpc[v] # "idle"
    BY <1>8 DEF Commit, Goto, TypeOK
  <2>3. \A o : Dealt(o)' = Dealt(o)
    BY <2>1 DEF Dealt, Recorded
  <2>4. \A v \in Workers : Pending(v)' = Pending(v)
    BY <2>1 DEF Pending
  <2>5. BatchAccounted'
    BY <2>1, <2>2, <2>3, <2>4 DEF BatchAccounted
  <2>6. Pending(w) = {}
    BY <2>1 DEF Pending, Shape
  <2>7. \A o \in 1 .. upto[w] : queue[o] # Junk => Dealt(o)
    BY <2>1, <2>6 DEF BatchAccounted
  <2>8. \A o \in 1 .. committed : queue[o] # Junk => Dealt(o)
    BY DEF CommittedAccounted, Dealt
  <2>9. \A o \in 1 .. committed' : queue'[o] # Junk => Dealt(o)'
    BY <2>1, <2>3, <2>7, <2>8
  <2>10. CommittedAccounted'
    BY <2>9 DEF CommittedAccounted, Dealt
  <2> QED BY <2>5, <2>10
<1>9. ASSUME NEW w \in Workers, Crash(w)
      PROVE  BatchAccounted' /\ CommittedAccounted'
  <2>1. /\ UNCHANGED <<queue, upto, rentals, dlq, dropped, committed>>
        /\ wpc'[w] = "idle"
        /\ \A v \in Workers \ {w} : wpc'[v] = wpc[v] /\ calls'[v] = calls[v]
    BY <1>9 DEF Crash, Goto, store, group, TypeOK
  <2>2. \A o : Dealt(o)' = Dealt(o)
    BY <2>1 DEF Dealt, Recorded
  <2>3. \A v \in Workers \ {w} : Pending(v)' = Pending(v)
    BY <2>1 DEF Pending
  <2>4. BatchAccounted'
    BY <2>1, <2>2, <2>3 DEF BatchAccounted
  <2>5. CommittedAccounted'
    BY <2>1, CommittedStep DEF Grows
  <2> QED BY <2>4, <2>5
<1>10. ASSUME NEW w \in Workers, Rebalance(w)
       PROVE  BatchAccounted' /\ CommittedAccounted'
  <2>1. UNCHANGED <<queue, upto, wpc, calls, rentals, dlq, dropped, committed>>
    BY <1>10 DEF Rebalance, store
  <2> QED BY <2>1 DEF BatchAccounted, CommittedAccounted, Dealt, Recorded, Pending
<1>11. CASE UNCHANGED vars
  <2>1. UNCHANGED <<queue, upto, wpc, calls, rentals, dlq, dropped, committed>>
    BY <1>11 DEF vars
  <2> QED BY <2>1 DEF BatchAccounted, CommittedAccounted, Dealt, Recorded, Pending
<1> QED
  BY <1>1, <1>2, <1>3, <1>4, <1>5, <1>6, <1>7, <1>8, <1>9, <1>10, <1>11
  DEF Next, Work, Failure, Quiet

\* Every consumed booking is in the table, in the DLQ, or was given up with a
\* reported error: a crash, a rebalance or a redelivery loses none.
THEOREM NothingSilentlyLost == Spec => []CommittedAccounted
<1> DEFINE IInv == TypeOK /\ Shape /\ BatchAccounted /\ CommittedAccounted
<1>1. Init => IInv
  <2>1. Init => BatchAccounted /\ CommittedAccounted
    BY DEF Init, BatchAccounted, CommittedAccounted
  <2> QED BY <2>1, TypeShapeInit
<1>2. IInv /\ [Next]_vars => IInv'
  BY TypeShapeStep, AccountedStep
<1>3. IInv => CommittedAccounted
  OBVIOUS
<1> QED BY <1>1, <1>2, <1>3, PTL DEF Spec

-----------------------------------------------------------------------------
(***************************************************************************)
(* The group is never set back.                                            *)
(***************************************************************************)

\* The batch of the worker that has the partition begins where the group is:
\* whoever commits in the meantime has lost the partition, and is refused.
OwnerAhead == wpc[owner] # "idle" => committed <= upto[owner]

\* Only a Fetch, of the owner, or a Commit, of anyone, moves an offset.
LEMMA OffsetSteps ==
    ASSUME TypeOK, Next
    PROVE  \/ \E w \in Workers : Fetch(w) \/ Commit(w) \/ Rebalance(w)
           \/ /\ UNCHANGED <<committed, owner, upto>>
              /\ \A v \in Workers : wpc[v] = "idle" => wpc'[v] = "idle"
<1>1. ASSUME NEW m \in Messages, Produce(m)
      PROVE  UNCHANGED <<committed, owner, upto, wpc>>
  BY <1>1 DEF Produce, group
<1>2. ASSUME NEW w \in Workers,
             \/ Check(w) \/ Insert(w) \/ Release(w) \/ DeadLetter(w)
             \/ DatabaseError(w) \/ RedisError(w) \/ ProducerError(w) \/ Crash(w)
      PROVE  /\ UNCHANGED <<committed, owner, upto>>
             /\ \A v \in Workers : wpc[v] = "idle" => wpc'[v] = "idle"
  <2>1. /\ UNCHANGED <<committed, owner, upto>>
        /\ wpc[w] # "idle" /\ \E label : Goto(w, label)
    BY <1>2 DEF Check, Insert, Release, DeadLetter, DatabaseError, RedisError,
                ProducerError, Crash, Reject, Return, group
  <2> QED BY <2>1 DEF Goto, TypeOK
<1>3. CASE Quiet
  BY <1>3 DEF Quiet, vars
<1> QED BY <1>1, <1>2, <1>3 DEF Next, Work, Failure

LEMMA OffsetStep ==
    ASSUME TypeOK, OwnerAhead, [Next]_vars
    PROVE  OwnerAhead' /\ committed' >= committed
<1>0. committed \in Nat /\ owner \in Workers /\ upto \in [Workers -> Nat]
  BY DEF TypeOK
<1>1. ASSUME NEW w \in Workers, Fetch(w)
      PROVE  OwnerAhead' /\ committed' >= committed
  <2>1. PICK n \in (committed + 1) .. Len(queue) : upto' = [upto EXCEPT ![w] = n]
    BY <1>1 DEF Fetch
  <2>2. owner = w /\ UNCHANGED <<committed, owner>>
    BY <1>1 DEF Fetch, group
  <2>3. Len(queue) \in Nat
    BY DEF TypeOK
  <2> QED BY <1>0, <2>1, <2>2, <2>3 DEF OwnerAhead
<1>2. ASSUME NEW w \in Workers, Commit(w)
      PROVE  OwnerAhead' /\ committed' >= committed
  <2>1. /\ wpc[w] = "commit" /\ Goto(w, "idle")
        /\ UNCHANGED <<upto, owner>>
        /\ committed' = IF owner = w THEN upto[w] ELSE committed
    BY <1>2 DEF Commit, CommitsAccepted, Resolved
  <2>2. CASE owner = w
    <3>1. committed <= upto[w]
      BY <2>1, <2>2 DEF OwnerAhead
    <3> QED BY <1>0, <2>1, <2>2, <3>1 DEF OwnerAhead, Goto, TypeOK
  <2>3. CASE owner # w
    BY <1>0, <2>1, <2>3 DEF OwnerAhead, Goto, TypeOK
  <2> QED BY <2>2, <2>3
<1>3. ASSUME NEW w \in Workers, Rebalance(w)
      PROVE  OwnerAhead' /\ committed' >= committed
  BY <1>0, <1>3 DEF Rebalance, OwnerAhead
<1>4. CASE /\ UNCHANGED <<committed, owner, upto>>
           /\ \A v \in Workers : wpc[v] = "idle" => wpc'[v] = "idle"
  BY <1>0, <1>4 DEF OwnerAhead
<1>5. CASE UNCHANGED vars
  BY <1>0, <1>5 DEF vars, OwnerAhead
<1> QED BY <1>1, <1>2, <1>3, <1>4, <1>5, OffsetSteps

\* A late commit never takes back what another worker has consumed since.
THEOREM OffsetsNeverFall == Spec => CommitsOnlyGrow
<1>1. Init => TypeOK /\ OwnerAhead
  BY TypeShapeInit DEF Init, OwnerAhead
<1>2. TypeOK /\ OwnerAhead /\ [Next]_vars => OwnerAhead' /\ committed' >= committed
  BY OffsetStep
<1>3. TypeOK /\ OwnerAhead /\ [Next]_vars => [committed' >= committed]_vars
  BY <1>2
<1> QED
  BY <1>1, <1>2, <1>3, TypeCorrect, PTL DEF Spec, CommitsOnlyGrow

-----------------------------------------------------------------------------
(***************************************************************************)
(* No vehicle is booked twice for a day.                                   *)
(***************************************************************************)

\* Until a rebalance overtakes a batch, only the owner is in a batch.
SoleWorker ==
    ~overtaken => \A w \in Workers : wpc[w] # "idle" => owner = w

\* Between the SELECT and the INSERT, what the SELECT saw stays true.
Checked ==
    ~overtaken => \A w \in Workers : wpc[w] = "insert" =>
        ~BatchClash(Head(calls[w])) /\ ~TableClash(Head(calls[w]))

\* Requests that carry dates only are compared alike by both checks.
LEMMA DatesOnlyAgree == DatesOnly => TestsAgree
<1> SUFFICES ASSUME DatesOnly, NEW r \in Requests, NEW s \in Requests,
                    DaysOverlap(r, s)
             PROVE  InstantsOverlap(r, s)
  BY DEF TestsAgree
<1>1. /\ r.start.day \in Nat /\ r.end.day \in Nat
      /\ s.start.day \in Nat /\ s.end.day \in Nat
  BY RequestTypes
<1>2. /\ r.start.time = 0 /\ r.end.time = 0
      /\ s.start.time = 0 /\ s.end.time = 0
  BY DEF DatesOnly
<1> QED BY <1>1, <1>2 DEF DaysOverlap, InstantsOverlap, Leq

\* An INSERT of a list that passed both checks adds no collision.
LEMMA StoreKeepsApart ==
    ASSUME TypeOK, TestsAgree, NEW items \in SUBSET Offsets, Store(items),
           \A o \in items : queue[o] \in Requests,
           ~BatchClash(items), ~TableClash(items),
           \A r, s \in Active : r # s => ~RowsCollide(r, s)
    PROVE  \A r, s \in Active' : r # s => ~RowsCollide(r, s)
<1> DEFINE new(o) == Row(o, nextId + Cardinality({p \in items : p < o}))
<1>1. /\ \A o \in items : /\ new(o).vehicle = queue[o].vehicle
                           /\ new(o).start = queue[o].start.day
                           /\ new(o).end = queue[o].end.day
      /\ \A o \in items : o \in Nat
  BY DEF Row, TypeOK, Offsets
<1>2. \A r \in Active' : r \in Active \/ \E o \in items : r = new(o)
  BY DEF Active, Store, NewRows
<1> HIDE DEF new
<1>3. ASSUME NEW i \in items, NEW j \in items, new(i) # new(j),
             RowsCollide(new(i), new(j))
      PROVE  FALSE
  <2>1. DaysOverlap(queue[i], queue[j]) /\ DaysOverlap(queue[j], queue[i])
    BY <1>1, <1>3 DEF RowsCollide, DaysOverlap
  <2>2. InstantsOverlap(queue[i], queue[j]) /\ InstantsOverlap(queue[j], queue[i])
    BY <2>1 DEF TestsAgree
  <2>3. i < j \/ j < i
    BY <1>1, <1>3
  <2> QED BY <2>2, <2>3 DEF BatchClash
<1>4. ASSUME NEW i \in items, NEW r \in Active,
             RowsCollide(new(i), r) \/ RowsCollide(r, new(i))
      PROVE  FALSE
  <2>1. /\ r \in rentals /\ r.status # "cancelled"
        /\ r.start \in Nat /\ r.end \in Nat
    BY DatesAssumption DEF Active, TypeOK, Rows
  <2>2. queue[i].start.day \in Nat /\ queue[i].end.day \in Nat
    BY RequestTypes
  <2> QED BY <1>1, <1>4, <2>1, <2>2 DEF RowsCollide, TableClash
<1> SUFFICES ASSUME NEW r \in Active', NEW s \in Active', r # s
             PROVE  ~RowsCollide(r, s)
  OBVIOUS
<1>5. CASE r \in Active /\ s \in Active
  BY <1>5
<1>6. CASE r \in Active /\ \E o \in items : s = new(o)
  BY <1>4, <1>6
<1>7. CASE s \in Active /\ \E o \in items : r = new(o)
  BY <1>4, <1>7
<1>8. CASE (\E o \in items : r = new(o)) /\ \E o \in items : s = new(o)
  BY <1>3, <1>8
<1> QED BY <1>2, <1>5, <1>6, <1>7, <1>8

\* A step that writes no row keeps the table free of collisions.
LEMMA SameTable ==
    ASSUME NoDoubleBooking, UNCHANGED rentals, overtaken' \/ ~overtaken
    PROVE  NoDoubleBooking'
BY DEF NoDoubleBooking, Active

\* Every step keeps the owner alone, its check valid and the table apart.
LEMMA BookingStep ==
    ASSUME TypeOK, Shape, SoleWorker, Checked, NoDoubleBooking, [Next]_vars
    PROVE  SoleWorker' /\ Checked' /\ NoDoubleBooking'
<1>1. ASSUME NEW m \in Messages, Produce(m)
      PROVE  SoleWorker' /\ Checked' /\ NoDoubleBooking'
  <2>1. /\ \A o \in Offsets : queue'[o] = queue[o]
        /\ UNCHANGED <<rentals, wpc, calls, owner, overtaken>>
    BY <1>1 DEF Produce, Offsets, TypeOK, group
  <2>2. Checked'
    <3> SUFFICES ASSUME ~overtaken, NEW w \in Workers, wpc[w] = "insert"
                 PROVE  /\ ~BatchClash(Head(calls[w]))'
                        /\ ~TableClash(Head(calls[w]))'
      BY <2>1 DEF Checked
    <3>1. Head(calls[w]) \in SUBSET Offsets
      BY HeadPending
    <3>2. ~BatchClash(Head(calls[w])) /\ ~TableClash(Head(calls[w]))
      BY DEF Checked
    <3> QED BY <2>1, <3>1, <3>2 DEF BatchClash, TableClash
  <2>3. SoleWorker'
    BY <2>1 DEF SoleWorker
  <2>4. NoDoubleBooking'
    BY <2>1, SameTable
  <2> QED BY <2>2, <2>3, <2>4
<1>2. ASSUME NEW w \in Workers, Fetch(w)
      PROVE  SoleWorker' /\ Checked' /\ NoDoubleBooking'
  <2>1. /\ owner = w /\ UNCHANGED <<rentals, queue, owner, overtaken>>
        /\ wpc'[w] \in {"check", "commit"}
        /\ \A v \in Workers \ {w} : wpc'[v] = wpc[v]
    BY <1>2 DEF Fetch, Goto, TypeOK, store, group
  <2>2. SoleWorker' /\ Checked'
    BY <2>1 DEF SoleWorker, Checked
  <2>3. NoDoubleBooking'
    BY <2>1, SameTable
  <2> QED BY <2>2, <2>3
<1>3. ASSUME NEW w \in Workers, Check(w)
      PROVE  SoleWorker' /\ Checked' /\ NoDoubleBooking'
  <2>1. /\ wpc[w] = "check"
        /\ UNCHANGED <<rentals, queue, owner, overtaken>>
    BY <1>3 DEF Check, store, group
  <2>2. CASE Reject(w)
    <3>1. /\ wpc'[w] # "insert"
          /\ \A v \in Workers \ {w} : wpc'[v] = wpc[v]
      BY <2>1, <2>2, RejectEffect
    <3>2. SoleWorker' /\ Checked'
      BY <2>1, <3>1 DEF SoleWorker, Checked
    <3> QED BY <2>1, <3>2, SameTable
  <2>3. CASE /\ ~BatchClash(Head(calls[w])) /\ ~TableClash(Head(calls[w]))
             /\ Goto(w, "insert") /\ UNCHANGED calls
    <3>1. \A v \in Workers \ {w} : wpc'[v] = wpc[v]
      BY <2>3 DEF Goto, TypeOK
    <3>2. ~BatchClash(Head(calls[w]))' /\ ~TableClash(Head(calls[w]))'
      BY <2>1, <2>3 DEF BatchClash, TableClash
    <3>3. SoleWorker'
      BY <2>1, <3>1 DEF SoleWorker
    <3>4. Checked'
      <4> SUFFICES ASSUME ~overtaken, NEW v \in Workers, wpc'[v] = "insert"
                   PROVE  /\ ~BatchClash(Head(calls[v]))'
                          /\ ~TableClash(Head(calls[v]))'
        BY <2>1 DEF Checked
      <4>1. v = w
        BY <2>1, <3>1 DEF SoleWorker
      <4> QED BY <3>2, <4>1
    <3> QED BY <2>1, <3>3, <3>4, SameTable
  <2> QED BY <1>3, <2>2, <2>3 DEF Check
<1>4. ASSUME NEW w \in Workers,
             /\ wpc[w] \in {"check", "insert", "release", "deadletter"}
             /\ Reject(w) \/ Return(w)
             /\ UNCHANGED <<queue, owner, overtaken>>
             /\ \/ UNCHANGED rentals
                \/ wpc[w] = "insert" /\ Store(Head(calls[w]))
      PROVE  SoleWorker' /\ Checked' /\ NoDoubleBooking'
  <2>1. /\ wpc'[w] # "insert"
        /\ \A v \in Workers \ {w} : wpc'[v] = wpc[v]
    BY <1>4, RejectEffect, ReturnEffect
  <2>2. SoleWorker' /\ Checked'
    BY <1>4, <2>1 DEF SoleWorker, Checked
  <2>3. CASE UNCHANGED rentals
    BY <1>4, <2>2, <2>3, SameTable
  <2>4. CASE wpc[w] = "insert" /\ Store(Head(calls[w]))
    <3> SUFFICES ASSUME TestsAgree, ~overtaken
                 PROVE  \A r, s \in Active' : r # s => ~RowsCollide(r, s)
      BY <1>4, <2>2 DEF NoDoubleBooking, RowsCollide
    <3>1. ~BatchClash(Head(calls[w])) /\ ~TableClash(Head(calls[w]))
      BY <2>4 DEF Checked
    <3>2. \A r, s \in Active : r # s => ~RowsCollide(r, s)
      BY DEF NoDoubleBooking
    <3> QED BY <2>4, <3>1, <3>2, HeadPending, StoreKeepsApart
  <2> QED BY <1>4, <2>2, <2>3, <2>4
<1>5. ASSUME NEW w \in Workers, Insert(w)
      PROVE  SoleWorker' /\ Checked' /\ NoDoubleBooking'
  BY <1>4, <1>5 DEF Insert, store, group
<1>6. ASSUME NEW w \in Workers, DatabaseError(w)
      PROVE  SoleWorker' /\ Checked' /\ NoDoubleBooking'
  BY <1>4, <1>6 DEF DatabaseError, store, group
<1>7. ASSUME NEW w \in Workers,
             RedisError(w) \/ DeadLetter(w) \/ ProducerError(w)
      PROVE  SoleWorker' /\ Checked' /\ NoDoubleBooking'
  BY <1>4, <1>7 DEF RedisError, DeadLetter, ProducerError, group
<1>8. ASSUME NEW w \in Workers, Release(w)
      PROVE  SoleWorker' /\ Checked' /\ NoDoubleBooking'
  <2>1. /\ wpc[w] = "release"
        /\ UNCHANGED <<rentals, queue, owner, overtaken>>
    BY <1>8 DEF Release, group
  <2>2. CASE Return(w)
    BY <1>4, <2>1, <2>2
  <2>3. CASE Goto(w, "deadletter") /\ UNCHANGED calls
    <3>1. /\ wpc'[w] = "deadletter"
          /\ \A v \in Workers \ {w} : wpc'[v] = wpc[v]
      BY <2>3 DEF Goto, TypeOK
    <3>2. SoleWorker' /\ Checked'
      BY <2>1, <3>1 DEF SoleWorker, Checked
    <3> QED BY <2>1, <3>2, SameTable
  <2> QED BY <1>8, <2>2, <2>3 DEF Release
<1>9. ASSUME NEW w \in Workers, Commit(w) \/ Crash(w)
      PROVE  SoleWorker' /\ Checked' /\ NoDoubleBooking'
  <2>1. /\ wpc[w] # "idle" /\ wpc'[w] = "idle"
        /\ UNCHANGED <<rentals, queue, owner, overtaken>>
        /\ \A v \in Workers \ {w} : wpc'[v] = wpc[v]
    BY <1>9 DEF Commit, Crash, Goto, TypeOK, store, group
  <2>2. SoleWorker' /\ Checked'
    BY <2>1 DEF SoleWorker, Checked
  <2> QED BY <2>1, <2>2, SameTable
<1>10. ASSUME NEW w \in Workers, Rebalance(w)
       PROVE  SoleWorker' /\ Checked' /\ NoDoubleBooking'
  <2>1. /\ UNCHANGED <<rentals, queue, wpc, calls>>
        /\ owner' = w
        /\ overtaken' = (overtaken \/ wpc[owner] # "idle")
    BY <1>10 DEF Rebalance, store
  <2>2. ~overtaken' => ~overtaken /\ \A v \in Workers : wpc[v] = "idle"
    BY <2>1 DEF SoleWorker
  <2>3. SoleWorker' /\ Checked'
    BY <2>1, <2>2 DEF SoleWorker, Checked
  <2> QED BY <2>1, <2>2, <2>3, SameTable
<1>11. CASE UNCHANGED vars
  <2>1. UNCHANGED <<rentals, queue, owner, overtaken, wpc, calls>>
    BY <1>11 DEF vars
  <2>2. SoleWorker' /\ Checked'
    BY <2>1 DEF SoleWorker, Checked, BatchClash, TableClash
  <2> QED BY <2>1, <2>2, SameTable
<1> QED
  BY <1>1, <1>2, <1>3, <1>5, <1>6, <1>7, <1>8, <1>9, <1>10, <1>11
  DEF Next, Work, Failure, Quiet

\* The table never holds two active rentals of one vehicle that share a day,
\* while no rebalance overtakes a batch and the two collision tests agree.
THEOREM TableFreeOfCollisions == Spec => []NoDoubleBooking
<1> DEFINE IInv == TypeOK /\ Shape /\ SoleWorker /\ Checked /\ NoDoubleBooking
<1>1. Init => IInv
  <2>1. Init => SoleWorker /\ Checked /\ NoDoubleBooking
    BY DEF Init, SoleWorker, Checked, NoDoubleBooking, Active
  <2> QED BY <2>1, TypeShapeInit
<1>2. IInv /\ [Next]_vars => IInv'
  BY TypeShapeStep, BookingStep
<1>3. IInv => NoDoubleBooking
  OBVIOUS
<1> QED BY <1>1, <1>2, <1>3, PTL DEF Spec
-----------------------------------------------------------------------------
(***************************************************************************)
(* A booking that is in the log more than once gets one row, or as many as *)
(* a rebalance has put workers side by side.                               *)
(***************************************************************************)

\* A row is the image of its message.
RowsFaithful ==
    \A r \in rentals :
        /\ r.src \in Offsets /\ queue[r.src] \in Requests
        /\ r.vehicle = queue[r.src].vehicle
        /\ r.start = queue[r.src].start.day
        /\ r.end = queue[r.src].end.day
        /\ r.status = "booked"

\* Messages that ask for the same have one row, even where the two collision
\* tests differ: in both of them a booking collides with itself.
OneRowEach ==
    ~overtaken => \A r, s \in rentals : queue[r.src] = queue[s.src] => r = s

\* The workers that are about to insert a row for r.
Inserting(r) ==
    {w \in Workers : wpc[w] = "insert" /\ \E o \in Head(calls[w]) : queue[o] = r}

ListsApart == \A w \in Workers : wpc[w] = "insert" => ~BatchClash(Head(calls[w]))

\* Overtaken or not, a booking that is in the table is let in by nobody else
\* than those who have looked before: one row for each of them at most.
RowPerWorker ==
    \A r \in Requests :
        /\ IsFiniteSet(RowsFor(r))
        /\ RowsFor(r) # {} =>
               Cardinality(RowsFor(r)) + Cardinality(Inserting(r))
                   <= Cardinality(Workers)

OnceInv ==
    /\ TypeOK /\ Shape
    /\ SoleWorker /\ Checked /\ NoDoubleBooking
    /\ RowsFaithful /\ OneRowEach
    /\ ListsApart /\ RowPerWorker

\* The log has grown, and no worker has moved.
LogGrows ==
    /\ queue' \in Seq(Messages)
    /\ Len(queue) <= Len(queue')
    /\ \A o \in 1 .. Len(queue) : queue'[o] = queue[o]
    /\ slots' \subseteq Vehicles \X Int
    /\ UNCHANGED <<rentals, nextId, dlq, dropped, wpc, upto, calls, faultsLeft>>
    /\ UNCHANGED group

\* A booking collides with itself, in memory and in the table.
LEMMA SelfCollision ==
    ASSUME NEW r \in Requests
    PROVE  InstantsOverlap(r, r) /\ r.start.day <= r.end.day
<1>1. Leq(r.start, r.end)
  BY DatesAssumption DEF ValidRequests
<1>2. r.start.day \in Nat /\ r.end.day \in Nat
  BY RequestTypes
<1> QED BY <1>1, <1>2 DEF InstantsOverlap, Leq

\* An INSERT of a list that passed both checks writes the image of each of its
\* messages, and none of a message that has its row.
LEMMA StoreOnce ==
    ASSUME OnceInv, UNCHANGED <<queue, overtaken>>,
           NEW items \in SUBSET Offsets, Store(items),
           \A o \in items : queue[o] \in Requests,
           ~overtaken => ~BatchClash(items) /\ ~TableClash(items)
    PROVE  RowsFaithful' /\ OneRowEach'
<1> DEFINE new(o) == Row(o, nextId + Cardinality({p \in items : p < o}))
<1>1. \A o \in items : /\ new(o).src = o
                       /\ new(o).vehicle = queue[o].vehicle
                       /\ new(o).start = queue[o].start.day
                       /\ new(o).end = queue[o].end.day
                       /\ new(o).status = "booked"
  BY DEF Row
<1>2. rentals' = rentals \cup {new(o) : o \in items}
  BY DEF Store, NewRows
<1> HIDE DEF new
<1>3. RowsFaithful'
  BY <1>1, <1>2 DEF OnceInv, RowsFaithful, Offsets
<1>4. ASSUME ~overtaken, NEW i \in items, NEW j \in items, queue[i] = queue[j]
      PROVE  i = j
  <2>1. i \in Nat /\ j \in Nat
    BY DEF OnceInv, TypeOK, Offsets
  <2>2. InstantsOverlap(queue[i], queue[j]) /\ InstantsOverlap(queue[j], queue[i])
    BY <1>4, SelfCollision
  <2> QED BY <1>4, <2>1, <2>2 DEF BatchClash
<1>5. ASSUME ~overtaken, NEW i \in items, NEW r \in rentals
      PROVE  queue[i] # queue[r.src]
  <2>1. /\ r.vehicle = queue[r.src].vehicle /\ r.status = "booked"
        /\ r.start = queue[r.src].start.day /\ r.end = queue[r.src].end.day
    BY DEF OnceInv, RowsFaithful
  <2>2. queue[i].start.day <= queue[i].end.day
    BY SelfCollision
  <2> QED BY <1>5, <2>1, <2>2 DEF TableClash
<1>6. OneRowEach'
  <2> SUFFICES ASSUME ~overtaken, NEW r \in rentals', NEW s \in rentals',
                      queue[r.src] = queue[s.src]
               PROVE  r = s
    BY DEF OneRowEach
  <2>1. CASE r \in rentals /\ s \in rentals
    BY <2>1 DEF OnceInv, OneRowEach
  <2>2. CASE r \in rentals /\ \E o \in items : s = new(o)
    BY <1>1, <1>5, <2>2
  <2>3. CASE s \in rentals /\ \E o \in items : r = new(o)
    BY <1>1, <1>5, <2>3
  <2>4. CASE (\E o \in items : r = new(o)) /\ \E o \in items : s = new(o)
    BY <1>1, <1>4, <2>4
  <2> QED BY <1>2, <2>1, <2>2, <2>3, <2>4
<1> QED BY <1>3, <1>6

\* What a step of a worker does to the rows and to the lists to be inserted.
LEMMA InsertKinds ==
    ASSUME TypeOK, Shape, [\E w \in Workers : Work(w) \/ Failure(w)]_vars
    PROVE  /\ UNCHANGED queue
           /\ \/ /\ UNCHANGED rentals
                 /\ \A v \in Workers : wpc'[v] = "insert" =>
                       \/ wpc[v] = "insert" /\ Head(calls'[v]) = Head(calls[v])
                       \/ ~BatchClash(Head(calls'[v])) /\ ~TableClash(Head(calls'[v]))
              \/ \E w \in Workers :
                    /\ wpc[w] = "insert" /\ wpc'[w] # "insert"
                    /\ Store(Head(calls[w]))
                    /\ \A v \in Workers \ {w} :
                          wpc'[v] = wpc[v] /\ calls'[v] = calls[v]
<1> DEFINE Kept == /\ UNCHANGED <<queue, rentals>>
                   /\ \A v \in Workers : wpc'[v] = "insert" =>
                         wpc[v] = "insert" /\ calls'[v] = calls[v]
           Stored(w) == /\ UNCHANGED queue
                        /\ wpc[w] = "insert" /\ wpc'[w] # "insert"
                        /\ Store(Head(calls[w]))
                        /\ \A v \in Workers \ {w} :
                              wpc'[v] = wpc[v] /\ calls'[v] = calls[v]
<1>1. ASSUME NEW w \in Workers, Fetch(w) PROVE Kept
  BY <1>1 DEF Fetch, Goto, TypeOK, store
<1>2. ASSUME NEW w \in Workers, Check(w), Reject(w) PROVE Kept
  BY <1>2, RejectEffect DEF Check, store
<1>3. ASSUME NEW w \in Workers, Check(w), ~Reject(w)
      PROVE  /\ UNCHANGED <<queue, rentals>>
             /\ ~BatchClash(Head(calls'[w])) /\ ~TableClash(Head(calls'[w]))
             /\ \A v \in Workers \ {w} : wpc'[v] = wpc[v] /\ calls'[v] = calls[v]
  BY <1>3 DEF Check, Goto, TypeOK, store
<1>4. ASSUME NEW w \in Workers, wpc[w] \notin {"idle", "commit"},
             UNCHANGED <<queue, rentals>>, Reject(w) \/ Return(w)
      PROVE  Kept
  BY <1>4, RejectEffect, ReturnEffect
<1>5. ASSUME NEW w \in Workers, wpc[w] = "insert", UNCHANGED queue,
             Store(Head(calls[w])), Reject(w) \/ Return(w)
      PROVE  Stored(w)
  BY <1>5, RejectEffect, ReturnEffect
<1>6. ASSUME NEW w \in Workers, Insert(w) PROVE Kept \/ Stored(w)
  BY <1>4, <1>5, <1>6 DEF Insert, store
<1>7. ASSUME NEW w \in Workers, DatabaseError(w) PROVE Kept \/ Stored(w)
  BY <1>4, <1>5, <1>7 DEF DatabaseError, store
<1>8. ASSUME NEW w \in Workers, Release(w) PROVE Kept
  <2>1. CASE Return(w)
    BY <1>4, <1>8, <2>1 DEF Release
  <2>2. CASE Goto(w, "deadletter") /\ UNCHANGED calls
    BY <1>8, <2>2 DEF Release, Goto, TypeOK
  <2> QED BY <1>8, <2>1, <2>2 DEF Release
<1>9. ASSUME NEW w \in Workers, RedisError(w) \/ DeadLetter(w) \/ ProducerError(w)
      PROVE  Kept
  BY <1>4, <1>9 DEF RedisError, DeadLetter, ProducerError
<1>10. ASSUME NEW w \in Workers, Commit(w) \/ Crash(w) \/ Rebalance(w) PROVE Kept
  BY <1>10 DEF Commit, Crash, Rebalance, Goto, TypeOK, store
<1>11. ASSUME UNCHANGED vars PROVE Kept
  BY <1>11 DEF vars
<1>12. \/ Kept
       \/ \E w \in Workers : Stored(w)
       \/ \E w \in Workers : Check(w) /\ ~Reject(w)
  <2> HIDE DEF Kept, Stored
  <2>1. ASSUME NEW w \in Workers, Work(w)
        PROVE  <1>12
    BY <1>1, <1>2, <1>6, <1>8, <1>9, <1>10, <2>1 DEF Work
  <2>2. ASSUME NEW w \in Workers, Failure(w)
        PROVE  <1>12
    BY <1>7, <1>9, <1>10, <2>2 DEF Failure
  <2> QED BY <1>11, <2>1, <2>2
<1> QED BY <1>3, <1>12

\* The workers that insert a booking are some of the workers.
LEMMA InsertingFinite ==
    ASSUME NEW r
    PROVE  /\ IsFiniteSet(Inserting(r)) /\ Inserting(r) \subseteq Workers
           /\ Cardinality(Inserting(r)) \in Nat /\ Cardinality(Workers) \in Nat
           /\ Cardinality(Inserting(r)) <= Cardinality(Workers)
<1>1. Inserting(r) \subseteq Workers
  BY DEF Inserting
<1> QED BY <1>1, WorkerAssumption, FS_Subset, FS_CardinalityType

\* Who looks when the row is there does not let the booking pass.
LEMMA RecordedClashes ==
    ASSUME TypeOK, RowsFaithful, NEW r \in Requests, RowsFor(r) # {},
           NEW items, NEW o \in items, queue[o] = r
    PROVE  TableClash(items)
<1>1. PICK row \in rentals : queue[row.src] = r
  BY DEF RowsFor
<1>2. /\ row.vehicle = r.vehicle /\ row.status = "booked"
      /\ row.start = r.start.day /\ row.end = r.end.day
  BY <1>1 DEF RowsFaithful
<1>3. r.start.day <= r.end.day
  BY SelfCollision
<1> QED BY <1>1, <1>2, <1>3 DEF TableClash

\* An INSERT moves its worker from those that insert the booking to a row.
LEMMA StoreRowPerWorker ==
    ASSUME TypeOK, Shape, RowsFaithful, RowsFaithful', ListsApart, RowPerWorker,
           UNCHANGED queue,
           NEW w \in Workers, wpc[w] = "insert", wpc'[w] # "insert",
           Store(Head(calls[w])),
           \A v \in Workers \ {w} : wpc'[v] = wpc[v] /\ calls'[v] = calls[v]
    PROVE  ListsApart' /\ RowPerWorker'
<1> DEFINE items == Head(calls[w])
           new(o) == Row(o, nextId + Cardinality({p \in items : p < o}))
<1>0. /\ items \in SUBSET Offsets
      /\ \A o \in items : o \in Nat /\ queue[o] \in Requests
  <2>1. items \in SUBSET Offsets /\ \A o \in items : queue[o] \in Requests
    BY HeadPending
  <2>2. \A o \in Offsets : o \in Nat
    BY DEF TypeOK, Offsets
  <2> QED BY <2>1, <2>2
<1>1. rentals' = rentals \cup {new(o) : o \in items}
  BY DEF Store, NewRows
<1>2. \A o \in items : new(o).src = o
  BY DEF Row
<1> HIDE DEF new
<1>3. ListsApart'
  BY DEF ListsApart, BatchClash
<1>4. ASSUME NEW r \in Requests
      PROVE  /\ IsFiniteSet(RowsFor(r)')
             /\ RowsFor(r)' # {} =>
                    Cardinality(RowsFor(r)') + Cardinality(Inserting(r)')
                        <= Cardinality(Workers)
  <2>1. Inserting(r)' = Inserting(r) \ {w}
    BY DEF Inserting
  <2>2. /\ IsFiniteSet(RowsFor(r)) /\ Cardinality(RowsFor(r)) \in Nat
        /\ RowsFor(r) # {} => Cardinality(RowsFor(r)) + Cardinality(Inserting(r))
                                  <= Cardinality(Workers)
    BY FS_CardinalityType DEF RowPerWorker
  <2>3. CASE w \notin Inserting(r)
    <3>1. RowsFor(r)' = RowsFor(r)
      BY <1>1, <1>2, <2>3 DEF RowsFor, Inserting
    <3>2. Inserting(r)' = Inserting(r)
      BY <2>1, <2>3
    <3> QED BY <2>2, <3>1, <3>2
  <2>4. CASE w \in Inserting(r)
    <3>1. PICK o \in items : queue[o] = r
      BY <2>4 DEF Inserting
    <3>2. \A p \in items : queue[p] = r => p = o
      <4>1. InstantsOverlap(r, r)
        BY SelfCollision
      <4> QED BY <1>0, <3>1, <4>1 DEF ListsApart, BatchClash
    <3>3. RowsFor(r)' = RowsFor(r) \cup {new(o)}
      BY <1>1, <1>2, <3>1, <3>2 DEF RowsFor
    <3>4. /\ IsFiniteSet(RowsFor(r)')
          /\ Cardinality(RowsFor(r)') \in Nat
          /\ Cardinality(RowsFor(r)') <= Cardinality(RowsFor(r)) + 1
      <4>1. /\ IsFiniteSet(RowsFor(r)')
            /\ \/ Cardinality(RowsFor(r)') = Cardinality(RowsFor(r))
               \/ Cardinality(RowsFor(r)') = Cardinality(RowsFor(r)) + 1
        BY <2>2, <3>3, FS_AddElement
      <4> QED BY <2>2, <4>1
    <3>5. Cardinality(Inserting(r)') = Cardinality(Inserting(r)) - 1
      BY <2>1, <2>4, InsertingFinite, FS_RemoveElement
    <3>6. Cardinality(RowsFor(r)) = 0 \/ RowsFor(r) # {}
      BY FS_EmptySet
    <3> QED BY <2>2, <3>4, <3>5, <3>6, InsertingFinite
  <2> QED BY <2>3, <2>4
<1>5. RowPerWorker'
  BY <1>4 DEF RowPerWorker
<1> QED BY <1>3, <1>5

\* No step of a worker gives a booking more rows than there are workers.
LEMMA RowPerWorkerStep ==
    ASSUME TypeOK, Shape, RowsFaithful, RowsFaithful', ListsApart, RowPerWorker,
           [\E w \in Workers : Work(w) \/ Failure(w)]_vars
    PROVE  ListsApart' /\ RowPerWorker'
<1>1. ASSUME UNCHANGED <<queue, rentals>>,
             \A v \in Workers : wpc'[v] = "insert" =>
                \/ wpc[v] = "insert" /\ Head(calls'[v]) = Head(calls[v])
                \/ ~BatchClash(Head(calls'[v])) /\ ~TableClash(Head(calls'[v]))
      PROVE  ListsApart' /\ RowPerWorker'
  <2>1. ListsApart'
    BY <1>1 DEF ListsApart, BatchClash
  <2>2. ASSUME NEW r \in Requests
        PROVE  /\ IsFiniteSet(RowsFor(r)')
               /\ RowsFor(r)' # {} =>
                      Cardinality(RowsFor(r)') + Cardinality(Inserting(r)')
                          <= Cardinality(Workers)
    <3>1. RowsFor(r)' = RowsFor(r)
      BY <1>1 DEF RowsFor
    <3>2. IsFiniteSet(RowsFor(r)) /\ Cardinality(RowsFor(r)) \in Nat
      BY FS_CardinalityType DEF RowPerWorker
    <3>3. ASSUME RowsFor(r) # {}
          PROVE  Inserting(r)' \subseteq Inserting(r)
      BY <1>1, <3>3, RecordedClashes DEF Inserting
    <3>4. ASSUME RowsFor(r) # {}
          PROVE  /\ Cardinality(Inserting(r)') \in Nat
                 /\ Cardinality(Inserting(r)') <= Cardinality(Inserting(r))
      BY <3>3, <3>4, InsertingFinite, FS_Subset, FS_CardinalityType
    <3> QED BY <3>1, <3>2, <3>4, InsertingFinite DEF RowPerWorker
  <2> QED BY <2>1, <2>2 DEF RowPerWorker
<1> QED BY <1>1, StoreRowPerWorker, InsertKinds

\* Messages, of whomever, disturb nothing of what the worker keeps.
LEMMA GrowthOnce ==
    ASSUME OnceInv, LogGrows
    PROVE  OnceInv'
<1>1. /\ queue \in Seq(Messages) /\ queue' \in Seq(Messages)
      /\ Len(queue) \in Nat /\ Len(queue') \in Nat
      /\ Offsets = 1 .. Len(queue) /\ Offsets' = 1 .. Len(queue')
  BY DEF OnceInv, TypeOK, LogGrows, Offsets
<1>2. Offsets \subseteq Offsets' /\ \A o \in Offsets : queue'[o] = queue[o]
  BY <1>1 DEF LogGrows
<1>3. calls' \in [Workers -> Seq(SUBSET Offsets')]
  <2>1. SUBSET Offsets \subseteq SUBSET Offsets'
    BY <1>2
  <2>2. \A w \in Workers : calls[w] \in Seq(SUBSET Offsets')
    BY <2>1, SeqMonotonic DEF OnceInv, TypeOK
  <2> QED BY <2>2 DEF LogGrows, OnceInv, TypeOK
<1>4. TypeOK'
  <2>1. dlq' \subseteq Offsets' /\ dropped' \subseteq Offsets'
    BY <1>2 DEF LogGrows, OnceInv, TypeOK
  <2>2. /\ committed' \in 0 .. Len(queue')
        /\ upto' \in [Workers -> Nat] /\ \A w \in Workers : upto'[w] <= Len(queue')
    BY <1>1 DEF LogGrows, OnceInv, TypeOK, group
  <2> QED BY <1>1, <1>3, <2>1, <2>2 DEF LogGrows, OnceInv, TypeOK, group
<1>5. Shape'
  <2>1. \A w \in Workers : Pending(w)' = Pending(w) /\ Pending(w) \subseteq Offsets
    BY PendingOffsets DEF OnceInv, Pending, LogGrows
  <2> QED BY <2>1, <1>2 DEF OnceInv, Shape, LogGrows
<1>6. SoleWorker' /\ NoDoubleBooking'
  <2>1. UNCHANGED <<rentals, wpc, owner, overtaken>>
    BY DEF LogGrows, group
  <2> QED BY <2>1, SameTable DEF OnceInv, SoleWorker
<1>7. Checked'
  <2> SUFFICES ASSUME ~overtaken, NEW w \in Workers, wpc[w] = "insert"
               PROVE  /\ ~BatchClash(Head(calls[w]))'
                      /\ ~TableClash(Head(calls[w]))'
    BY DEF Checked, LogGrows, group
  <2>1. Head(calls[w]) \in SUBSET Offsets
    BY HeadPending DEF OnceInv
  <2>2. ~BatchClash(Head(calls[w])) /\ ~TableClash(Head(calls[w]))
    BY DEF OnceInv, Checked
  <2> QED BY <1>2, <2>1, <2>2 DEF BatchClash, TableClash, LogGrows
<1>8. RowsFaithful' /\ OneRowEach'
  BY <1>2 DEF OnceInv, RowsFaithful, OneRowEach, LogGrows, group
<1>9. ListsApart' /\ RowPerWorker'
  <2>1. \A w \in Workers : wpc[w] = "insert" => Head(calls[w]) \in SUBSET Offsets
    BY HeadPending DEF OnceInv
  <2>2. ListsApart'
    BY <1>2, <2>1 DEF OnceInv, ListsApart, BatchClash, LogGrows
  <2>3. \A r : RowsFor(r)' = RowsFor(r)
    BY <1>2 DEF OnceInv, RowsFaithful, RowsFor, LogGrows
  <2>4. \A r : Inserting(r)' = Inserting(r)
    BY <1>2, <2>1 DEF Inserting, LogGrows
  <2> QED BY <2>2, <2>3, <2>4 DEF OnceInv, RowPerWorker
<1> QED BY <1>4, <1>5, <1>6, <1>7, <1>8, <1>9 DEF OnceInv

\* No step of a worker gives a booking a second row, but for a rebalance.
LEMMA OnceStep ==
    ASSUME OnceInv, [\E w \in Workers : Work(w) \/ Failure(w)]_vars
    PROVE  OnceInv'
<1>1. [Next]_vars
  BY DEF Next
<1>2. TypeOK' /\ Shape' /\ SoleWorker' /\ Checked' /\ NoDoubleBooking'
  BY <1>1, TypeShapeStep, BookingStep DEF OnceInv
<1>3. UNCHANGED queue /\ (overtaken => overtaken')
  <2>1. UNCHANGED queue
    BY DEF Work, Failure, Fetch, Check, Insert, Release, DeadLetter, Commit,
           DatabaseError, RedisError, ProducerError, Crash, Rebalance, vars
  <2>2. UNCHANGED overtaken \/ \E w \in Workers : Rebalance(w)
    BY DEF Work, Failure, Fetch, Check, Insert, Release, DeadLetter, Commit,
           DatabaseError, RedisError, ProducerError, Crash, group, vars
  <2>3. ASSUME NEW w \in Workers, Rebalance(w)
        PROVE  overtaken => overtaken'
    BY <2>3, Zenon DEF Rebalance
  <2> QED BY <2>1, <2>2, <2>3
<1>4. \/ UNCHANGED rentals
      \/ \E w \in Workers : /\ wpc[w] = "insert" /\ UNCHANGED overtaken
                            /\ Store(Head(calls[w]))
  BY DEF Work, Failure, Fetch, Check, Insert, Release, DeadLetter, Commit,
         DatabaseError, RedisError, ProducerError, Crash, Rebalance, store,
         group, vars
<1>5. ASSUME UNCHANGED rentals
      PROVE  RowsFaithful' /\ OneRowEach'
  BY <1>2, <1>3, <1>5 DEF OnceInv, RowsFaithful, OneRowEach, Offsets
<1>6. ASSUME NEW w \in Workers, wpc[w] = "insert", UNCHANGED overtaken,
             Store(Head(calls[w]))
      PROVE  RowsFaithful' /\ OneRowEach'
  <2>1. /\ Head(calls[w]) \in SUBSET Offsets
        /\ \A o \in Head(calls[w]) : queue[o] \in Requests
    BY <1>6, HeadPending DEF OnceInv
  <2>2. ~overtaken => ~BatchClash(Head(calls[w])) /\ ~TableClash(Head(calls[w]))
    BY <1>6 DEF OnceInv, Checked
  <2> QED BY <1>3, <1>6, <2>1, <2>2, StoreOnce
<1>7. RowsFaithful' /\ OneRowEach'
  BY <1>4, <1>5, <1>6
<1>8. ListsApart' /\ RowPerWorker'
  BY <1>7, RowPerWorkerStep DEF OnceInv
<1> QED BY <1>2, <1>7, <1>8 DEF OnceInv

\* A message is a growth of the log.
LEMMA ProduceGrows ==
    ASSUME TypeOK, Shape, NEW m \in Messages, Produce(m)
    PROVE  LogGrows
<1>1. queue \in Seq(Messages) /\ queue' = Append(queue, m)
  BY DEF TypeOK, Produce
<1>2. /\ queue' \in Seq(Messages) /\ Len(queue) <= Len(queue')
      /\ \A o \in 1 .. Len(queue) : queue'[o] = queue[o]
  BY <1>1
<1>3. slots' \subseteq Vehicles \X Int
  BY ProduceKeeps DEF TypeOK
<1> QED BY <1>2, <1>3 DEF Produce, LogGrows, group

LEMMA OnceInit ==
    ASSUME Init
    PROVE  OnceInv
<1>1. TypeOK /\ Shape
  BY TypeShapeInit
<1>2. ListsApart /\ RowPerWorker
  BY FS_EmptySet DEF Init, ListsApart, RowPerWorker, RowsFor
<1> QED
  BY <1>1, <1>2 DEF Init, OnceInv, SoleWorker, Checked, NoDoubleBooking, Active,
                    RowsFaithful, OneRowEach

\* A car and its dates get one row, however often they are asked for and
\* whatever fails or crashes, until a rebalance overtakes a batch; and then one
\* row for each worker at most.
THEOREM RowsBounded == Spec => []RowsPerRequest
<1>1. ASSUME OnceInv, [Next]_vars
      PROVE  OnceInv'
  <2>1. ASSUME NEW m \in Messages, Produce(m)
        PROVE  OnceInv'
    BY <1>1, <2>1, ProduceGrows, GrowthOnce DEF OnceInv
  <2>2. \/ \E m \in Messages : Produce(m)
        \/ [\E w \in Workers : Work(w) \/ Failure(w)]_vars
    BY <1>1 DEF Next, Quiet
  <2>3. CASE [\E w \in Workers : Work(w) \/ Failure(w)]_vars
    BY <1>1, <2>3, OnceStep
  <2> QED BY <2>1, <2>2, <2>3
<1>2. ASSUME OnceInv, NEW r \in Requests
      PROVE  Cardinality(RowsFor(r)) <= IF overtaken THEN Cardinality(Workers) ELSE 1
  <2>1. Cardinality(RowsFor(r)) = 0 \/ RowsFor(r) # {}
    BY FS_EmptySet
  <2> Cardinality(Workers) \in Nat
    BY WorkerAssumption, FS_CardinalityType
  <2>2. ASSUME NEW row \in RowsFor(r), ~overtaken
        PROVE  Cardinality(RowsFor(r)) = 1
    <3>1. RowsFor(r) = {row}
      BY <1>2, <2>2 DEF RowsFor, OnceInv, OneRowEach
    <3> QED BY <3>1, FS_Singleton
  <2>3. ASSUME RowsFor(r) # {}
        PROVE  Cardinality(RowsFor(r)) <= Cardinality(Workers)
    BY <1>2, <2>3, InsertingFinite, WorkerAssumption, FS_CardinalityType
    DEF OnceInv, RowPerWorker
  <2>4. CASE overtaken
    BY <2>1, <2>3, <2>4
  <2>5. CASE ~overtaken
    <3>1. Cardinality(RowsFor(r)) \in {0, 1}
      BY <2>1, <2>2, <2>5
    <3> QED BY <2>5, <3>1
  <2> QED BY <2>4, <2>5
<1>3. OnceInv => RowsPerRequest
  BY <1>2 DEF RowsPerRequest
<1> QED BY <1>1, <1>3, OnceInit, PTL DEF Spec
=============================================================================
