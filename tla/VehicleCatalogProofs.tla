-------------------------- MODULE VehicleCatalogProofs -------------------------
(***************************************************************************)
(* Proofs about VehicleCatalog: that its stores agree and its lists are    *)
(* complete, for every set of requests, plates and categories, every page  *)
(* size and every size of the fleet.                                       *)
(***************************************************************************)
EXTENDS VehicleCatalog, FiniteSetTheorems, WellFoundedInduction, TLAPS

Ops == Writes \cup {"get", "list", "search"}

Tables == UNION {[S -> Rows] : S \in SUBSET Slots}

Jobs ==
    [op : Ops, id : Slots \cup {0, None}, row : Rows \cup {None},
     change : Payloads \cup {None}, todo : Seq({"add", "rem"} \X Keys),
     ids : SUBSET Slots, missing : SUBSET Slots, rows : Tables \cup {None}]

Owing == {"set", "evict", "index", "change", "doc"}

Stitching == {"stitch", "rows", "cache", "fallback"}

\* The awaits that a request can be at, and what its handler then has; `ids`
\* are the rows there are and `w` is the walk.
Placed(label, j, ids, w) ==
    \/ /\ j.op = "create" /\ j.row \in Rows
       /\ \/ label \in {"plate", "insert"} /\ j.id = 0
          \/ label \in {"set", "index", "change", "doc"} /\ j.id \in ids
    \/ /\ j.op = "update" /\ j.row \in Rows /\ j.id \in ids
       /\ \/ label \in {"plate", "write"} /\ j.change \in Payloads
          \/ label \in {"set", "index", "change", "doc"}
    \/ /\ j.op = "delete" /\ j.row \in Rows /\ j.id \in ids
       /\ label \in {"retire", "evict", "index", "change", "doc"}
    \/ /\ j.op = "get" /\ j.id \in ids
       /\ label \in {"get", "load", "fill"}
       /\ label = "fill" => j.row \in Rows
    \/ /\ j.op = "list" /\ j.id = None /\ w \in Walks
       /\ label \in {"exists", "ids", "zadd", "expire", "range"} \cup Stitching
       /\ label = "zadd" => j.ids \subseteq ids
    \/ /\ j.op = "search" /\ j.id = None
       /\ label \in {"hits"} \cup Stitching

\* What a handler has still to do to an index or to the cached details.
Pending(label, j) ==
    /\ j.todo # <<>> => label \in Owing
    /\ label = "change" => j.todo # <<>>
    /\ label = "cache" => j.rows \in Tables /\ j.missing \subseteq DOMAIN j.rows

JobsTyped ==
    /\ job \in [Handlers -> Jobs \cup {None}]
    /\ \A h \in Busy : /\ job[h] \in Jobs
                       /\ Placed(pc[h], job[h], Ids, walk)
                       /\ Pending(pc[h], job[h])

Creating == {g \in Busy : job[g].id = 0}

\* A request that is let in finds a free id.
Room == Len(vehicles) + Cardinality(Creating) <= MaxVehicles

OneList ==
    \A g, h \in Busy : job[g].op = "list" /\ job[h].op = "list" => g = h

Typed == TypeOK /\ JobsTyped /\ Room /\ OneList
-----------------------------------------------------------------------------
(***************************************************************************)
(* Finite sets of ids and the pages cut out of them.                       *)
(***************************************************************************)
LEMMA SlotsAreNumbers ==
    /\ MaxVehicles \in Nat
    /\ \A i : i \in Slots <=> i \in Nat /\ 1 <= i /\ i <= MaxVehicles
<1>1. MaxVehicles \in Nat
  BY CatalogAssumption
<1> QED BY <1>1 DEF Slots

LEMMA IdsFinite ==
    ASSUME NEW S \in SUBSET Slots
    PROVE  /\ IsFiniteSet(S)
           /\ Cardinality(S) \in Nat
<1>1. IsFiniteSet(Slots)
  BY FS_Interval, SlotsAreNumbers DEF Slots
<1> QED BY <1>1, FS_Subset, FS_CardinalityType

LEMMA Least ==
    ASSUME NEW S \in SUBSET Slots, S # {}
    PROVE  \E i \in S : \A j \in S : i <= j
<1>1. S \in SUBSET Nat
  BY SlotsAreNumbers
<1>2. PICK i \in S : \A j \in S : <<j, i>> \notin OpToRel(<, Nat)
  BY <1>1, WFMin, NatLessThanWellFounded, Zenon
<1>3. \A j \in S : ~(j < i)
  BY <1>1, <1>2 DEF OpToRel
<1> QED BY <1>1, <1>3

LEMMA Greatest ==
    ASSUME NEW S \in SUBSET Slots, S # {}
    PROVE  \E i \in S : \A j \in S : j <= i
<1> DEFINE T == {MaxVehicles + 1 - i : i \in S}
<1>0. \A i \in S : MaxVehicles + 1 - i \in Slots
  BY SlotsAreNumbers
<1>1. T \in SUBSET Slots /\ T # {}
  BY <1>0
<1> HIDE DEF T
<1>2. PICK t \in T : \A u \in T : t <= u
  BY <1>1, Least
<1>3. PICK i \in S : t = MaxVehicles + 1 - i
  BY DEF T
<1>4. \A j \in S : t <= MaxVehicles + 1 - j
  BY <1>2 DEF T
<1>5. \A j \in S : j <= i
  BY <1>3, <1>4, SlotsAreNumbers
<1> QED BY <1>5

\* Who is on a page has everybody above on it, too.
LEMMA TopClosed ==
    ASSUME NEW S \in SUBSET Slots, NEW n \in Nat,
           NEW i \in Top(S, n), NEW j \in S, j > i
    PROVE  j \in Top(S, n)
<1> DEFINE A == {k \in S : k > i}
           B == {k \in S : k > j}
<1>0. i \in S
  BY DEF Top
<1>1. B \subseteq A
  BY <1>0, SlotsAreNumbers
<1>2. Cardinality(A) < n
  BY DEF Top
<1>3. Cardinality(B) <= Cardinality(A)
  BY <1>1, IdsFinite, FS_Subset
<1>4. Cardinality(A) \in Nat /\ Cardinality(B) \in Nat
  BY IdsFinite
<1>5. Cardinality(B) < n
  BY <1>2, <1>3, <1>4
<1> QED BY <1>5 DEF Top

LEMMA TopNonEmpty ==
    ASSUME NEW S \in SUBSET Slots, S # {}, NEW n \in Nat \ {0}
    PROVE  Top(S, n) # {}
<1>1. PICK i \in S : \A j \in S : j <= i
  BY Greatest
<1>2. {j \in S : j > i} = {}
  BY <1>1, SlotsAreNumbers
<1>3. Cardinality({j \in S : j > i}) = 0
  BY <1>2, FS_EmptySet
<1>4. i \in Top(S, n)
  BY <1>3 DEF Top
<1> QED BY <1>4

\* If a set does not fit on a page of n + 1, what is on it does not fit on a
\* page of n.
LEMMA NextIsSeen ==
    ASSUME NEW S \in SUBSET Slots, NEW n \in Nat,
           Top(Top(S, n + 1), n) = Top(S, n + 1)
    PROVE  Top(S, n + 1) = S
<1> DEFINE T == Top(S, n + 1)
<1>1. T \subseteq S
  BY DEF Top
<1> SUFFICES ASSUME S \ T # {}
             PROVE  FALSE
  BY <1>1
<1>2. PICK m \in S \ T : \A j \in S \ T : j <= m
  BY Greatest
<1>3. {j \in S : j > m} = T
  <2>1. \A j \in S : j > m => j \in T
    BY <1>2, SlotsAreNumbers
  <2>2. ASSUME NEW t \in T, ~(t > m)
        PROVE  FALSE
    <3>1. t # m /\ t \in S
      BY <1>1, <1>2
    <3>2. m > t
      BY <2>2, <3>1, SlotsAreNumbers
    <3>3. m \in T
      BY <1>2, <3>2, TopClosed
    <3> QED BY <1>2, <3>3
  <2> QED BY <1>1, <2>1, <2>2
<1>4. ~(Cardinality(T) < n + 1)
  <2>1. m \in S /\ m \notin Top(S, n + 1)
    BY <1>2
  <2>2. ~(Cardinality({j \in S : j > m}) < n + 1)
    BY <2>1 DEF Top
  <2> QED BY <1>3, <2>2
<1>5. IsFiniteSet(T) /\ Cardinality(T) \in Nat
  BY <1>1, IdsFinite
<1>6. T # {}
  BY <1>4, <1>5, FS_EmptySet
<1>7. PICK i \in T : \A j \in T : i <= j
  BY <1>1, <1>6, Least
<1>8. {j \in T : j > i} = T \ {i}
  BY <1>1, <1>7, SlotsAreNumbers
<1>9. Cardinality(T \ {i}) = Cardinality(T) - 1
  BY <1>5, FS_RemoveElement
<1>10. i \in Top(T, n)
  BY <1>7
<1>11. Cardinality({j \in T : j > i}) < n
  BY <1>10 DEF Top
<1> QED BY <1>4, <1>5, <1>8, <1>9, <1>11
-----------------------------------------------------------------------------
(***************************************************************************)
(* Type correctness.                                                       *)
(***************************************************************************)
StoresTyped ==
    /\ vehicles \in Seq(Rows)
    /\ retired \subseteq Ids
    /\ details \in [Slots -> Rows \cup {None}]
    /\ index \in [Keys -> SUBSET Ids]
    /\ leased \subseteq {k \in Keys : index[k] # {}}
    /\ docs \in [Slots -> Rows \cup {None}]

HistoryTyped ==
    /\ walk \in Walks \cup {None}
    /\ walk # None => walk.owed \subseteq Live
    /\ missed \subseteq Slots
    /\ upset \subseteq {"conflict", "lapse", "failure"}

LEMMA TypedInit == Init => Typed
<1> SUFFICES ASSUME Init
             PROVE  Typed
  OBVIOUS
<1>1. Busy = {} /\ Creating = {}
  BY DEF Init, Busy, Creating
<1>2. Ids = {} /\ Len(vehicles) = 0
  BY DEF Init, Ids
<1>3. TypeOK
  <2>1. vehicles \in Seq(Rows)
    BY DEF Init
  <2>2. pc \in [Handlers -> Labels]
    BY DEF Init, Labels
  <2>3. details \in [Slots -> Rows \cup {None}] /\ docs \in [Slots -> Rows \cup {None}]
    BY DEF Init
  <2>4. index \in [Keys -> SUBSET Ids] /\ leased \subseteq {k \in Keys : index[k] # {}}
    BY DEF Init
  <2> QED BY <1>1, <2>1, <2>2, <2>3, <2>4 DEF Init, TypeOK
<1>4. JobsTyped
  BY <1>1 DEF Init, JobsTyped
<1>5. Room
  BY <1>1, <1>2, FS_EmptySet, SlotsAreNumbers DEF Room
<1>6. OneList
  BY <1>1 DEF OneList
<1> QED BY <1>3, <1>4, <1>5, <1>6 DEF Typed

LEMMA IdsAreSlots ==
    ASSUME Typed
    PROVE  /\ Ids \subseteq Slots
           /\ Ids = 1 .. Len(vehicles) /\ Len(vehicles) \in Nat
           /\ Live \subseteq Ids
           /\ \A i \in Ids : vehicles[i] \in Rows
           /\ IsFiniteSet(Creating)
<1>1. vehicles \in Seq(Rows)
  BY DEF Typed, TypeOK
<1>2. Creating \subseteq Handlers
  BY DEF Creating, Busy
<1>3. IsFiniteSet(Creating) /\ Cardinality(Creating) \in Nat
  BY <1>2, CatalogAssumption, FS_Subset, FS_CardinalityType
<1>4. Len(vehicles) \in Nat /\ Ids = 1 .. Len(vehicles)
  BY <1>1 DEF Ids
<1>5. Len(vehicles) <= MaxVehicles
  BY <1>3, <1>4, SlotsAreNumbers DEF Typed, Room
<1>6. \A i \in Ids : vehicles[i] \in Rows
  BY <1>1, <1>4
<1> QED BY <1>3, <1>4, <1>5, <1>6, SlotsAreNumbers DEF Live

LEMMA PlacedStill ==
    ASSUME NEW label, NEW j, NEW ids, NEW w, NEW ids2, NEW w2,
           Placed(label, j, ids, w), ids \subseteq ids2,
           j.op = "list" => w2 \in Walks
    PROVE  Placed(label, j, ids2, w2)
BY DEF Placed

\* A handler goes on to another await, with what it has by then.
LEMMA HandlerMoves ==
    ASSUME Typed, NEW h \in Handlers, NEW label \in Labels, NEW j \in Jobs \cup {None},
           pc' = [pc EXCEPT ![h] = label], job' = [job EXCEPT ![h] = j],
           StoresTyped', HistoryTyped', Ids \subseteq Ids',
           label # "idle" => /\ j \in Jobs
                             /\ Placed(label, j, Ids', walk')
                             /\ Pending(label, j),
           label # "idle" /\ j.op = "list" =>
               \A g \in Busy \ {h} : job[g].op # "list",
           \A g \in Busy \ {h} : job[g].op = "list" => walk' \in Walks
    PROVE  TypeOK' /\ JobsTyped' /\ OneList'
<1>1. pc \in [Handlers -> Labels] /\ job \in [Handlers -> Jobs \cup {None}]
  BY DEF Typed, TypeOK, JobsTyped
<1>2. \A g \in Handlers \ {h} : pc'[g] = pc[g] /\ job'[g] = job[g]
  BY <1>1
<1>3. pc'[h] = label /\ job'[h] = j
  BY <1>1
<1>4. pc' \in [Handlers -> Labels] /\ job' \in [Handlers -> Jobs \cup {None}]
  BY <1>1
<1>5. \A g \in Busy' : g # h => g \in Busy
  BY <1>2 DEF Busy
<1>6. \A g \in Busy' : job'[g] \in Jobs
  BY <1>2, <1>3, <1>5 DEF Typed, JobsTyped, Busy
<1>7. \A g \in Busy' : job'[g].op \in Ops
  BY <1>6 DEF Jobs
<1>8. ASSUME NEW g \in Busy'
      PROVE  Placed(pc'[g], job'[g], Ids', walk') /\ Pending(pc'[g], job'[g])
  <2>1. CASE g = h
    BY <2>1, <1>3 DEF Busy
  <2>2. CASE g # h
    <3>1. g \in Busy /\ pc'[g] = pc[g] /\ job'[g] = job[g]
      BY <1>2, <1>5, <1>8, <2>2 DEF Busy
    <3>2. Placed(pc[g], job[g], Ids, walk) /\ Pending(pc[g], job[g])
      BY <3>1 DEF Typed, JobsTyped
    <3>3. Placed(pc[g], job[g], Ids', walk')
      BY <3>1, <3>2, <2>2, PlacedStill
    <3> QED BY <3>1, <3>2, <3>3
  <2> QED BY <2>1, <2>2
<1>9. TypeOK'
  BY <1>4, <1>7 DEF TypeOK, StoresTyped, HistoryTyped, Ops
<1>10. JobsTyped'
  BY <1>4, <1>6, <1>8 DEF JobsTyped
<1>11. OneList'
  BY <1>2, <1>3, <1>5 DEF Typed, OneList, Busy
<1> QED BY <1>9, <1>10, <1>11

\* Nobody takes up room who had none before.
LEMMA RoomStays ==
    ASSUME Typed, NEW h \in Handlers, NEW label, NEW j,
           pc' = [pc EXCEPT ![h] = label], job' = [job EXCEPT ![h] = j],
           Len(vehicles') = Len(vehicles),
           label # "idle" /\ j.id = 0 => h \in Creating
    PROVE  Room'
<1>1. pc \in [Handlers -> Labels] /\ job \in [Handlers -> Jobs \cup {None}]
  BY DEF Typed, TypeOK, JobsTyped
<1>2. Creating' \subseteq Creating
  BY <1>1 DEF Creating, Busy
<1>3. IsFiniteSet(Creating) /\ Len(vehicles) \in Nat
  BY IdsAreSlots
<1>4. Cardinality(Creating') <= Cardinality(Creating)
  BY <1>2, <1>3, FS_Subset
<1>5. Cardinality(Creating) \in Nat /\ Cardinality(Creating') \in Nat
  BY <1>2, <1>3, FS_Subset, FS_CardinalityType
<1> QED BY <1>3, <1>4, <1>5, SlotsAreNumbers DEF Typed, Room

\* What most steps are: a handler goes on, and nothing is added or forgotten.
LEMMA GoesOn ==
    ASSUME Typed, NEW h \in Busy, NEW label \in Labels \ {"idle"}, NEW j \in Jobs,
           pc' = [pc EXCEPT ![h] = label], job' = [job EXCEPT ![h] = j],
           StoresTyped', UNCHANGED vehicles, HistoryTyped',
           walk \in Walks => walk' \in Walks,
           j.op = job[h].op, j.id = job[h].id,
           Placed(label, j, Ids, walk), Pending(label, j)
    PROVE  Typed'
<1>1. h \in Handlers /\ Ids' = Ids
  BY DEF Busy, Ids
<1>2. \A g \in Busy : job[g].op = "list" => walk \in Walks
  BY DEF Typed, JobsTyped, Placed
<1>3. j.op = "list" => \A g \in Busy \ {h} : job[g].op # "list"
  BY DEF Typed, OneList
<1>4. Placed(label, j, Ids', walk')
  BY <1>1, <1>2, PlacedStill
<1>5. TypeOK' /\ JobsTyped' /\ OneList'
  BY <1>1, <1>2, <1>3, <1>4, HandlerMoves
<1>6. j.id = 0 => h \in Creating
  BY DEF Creating
<1>7. Room'
  BY <1>1, <1>6, RoomStays
<1> QED BY <1>5, <1>7 DEF Typed

\* A handler answers its request.
LEMMA Answers ==
    ASSUME Typed, NEW h \in Busy, Answer(h),
           StoresTyped', HistoryTyped', Ids \subseteq Ids',
           \/ walk \in Walks => walk' \in Walks
           \/ job[h].op = "list"
    PROVE  TypeOK' /\ JobsTyped' /\ OneList' /\ (UNCHANGED vehicles => Typed')
<1>1. h \in Handlers /\ "idle" \in Labels
  BY DEF Busy, Labels
<1>2. \A g \in Busy \ {h} : job[g].op = "list" => walk' \in Walks
  BY DEF Typed, JobsTyped, Placed, OneList
<1>3. TypeOK' /\ JobsTyped' /\ OneList'
  BY <1>1, <1>2, HandlerMoves DEF Answer, Goto
<1>4. ASSUME UNCHANGED vehicles
      PROVE  Room'
  BY <1>1, <1>4, RoomStays DEF Answer, Goto
<1> QED BY <1>3, <1>4 DEF Typed

LEMMA NothingWritten ==
    ASSUME Typed, UNCHANGED <<table, caches, walking, upset>>
    PROVE  /\ StoresTyped' /\ HistoryTyped'
           /\ Ids' = Ids /\ Live' = Live
<1>1. Ids' = Ids /\ Live' = Live
  BY DEF table, Ids, Live
<1>2. StoresTyped'
  BY <1>1 DEF Typed, TypeOK, StoresTyped, table, caches
<1>3. HistoryTyped'
  BY <1>1 DEF Typed, TypeOK, HistoryTyped, walking
<1> QED BY <1>1, <1>2, <1>3

LEMMA HasPlace ==
    ASSUME Typed, NEW h \in Busy
    PROVE  /\ h \in Handlers /\ pc[h] \in Labels \ {"idle"}
           /\ job[h] \in Jobs /\ Placed(pc[h], job[h], Ids, walk)
           /\ Pending(pc[h], job[h])
BY DEF Typed, TypeOK, JobsTyped, Busy

\* The await at which a handler is tells which request it serves.
LEMMA AtLabel ==
    ASSUME Typed, NEW h \in Handlers, NEW labels, At(h, labels), "idle" \notin labels
    PROVE  /\ h \in Busy /\ pc[h] \in labels
           /\ job[h] \in Jobs /\ Placed(pc[h], job[h], Ids, walk)
           /\ Pending(pc[h], job[h])
<1>1. h \in Busy /\ pc[h] \in labels
  BY DEF At, Busy
<1> QED BY <1>1, HasPlace

LEMMA SameJob ==
    ASSUME Typed, NEW h \in Busy, UNCHANGED job
    PROVE  job' = [job EXCEPT ![h] = job[h]]
BY DEF Typed, JobsTyped

LEMMA SamePlace ==
    ASSUME Typed, NEW h \in Busy, UNCHANGED pc
    PROVE  pc' = [pc EXCEPT ![h] = pc[h]]
BY DEF Typed, TypeOK

LEMMA CheckPlateTyped ==
    ASSUME Typed, NEW h \in Handlers, CheckPlate(h)
    PROVE  Typed'
<1>1. h \in Busy /\ pc[h] = "plate" /\ job[h] \in Jobs
      /\ Placed(pc[h], job[h], Ids, walk) /\ Pending(pc[h], job[h])
  BY AtLabel DEF CheckPlate
<1>2. StoresTyped' /\ HistoryTyped' /\ UNCHANGED <<vehicles, walk>> /\ Ids' = Ids
  BY NothingWritten DEF CheckPlate, table, walking
<1>3. CASE Answer(h)
  BY <1>1, <1>2, <1>3, Answers
<1>4. CASE ~Answer(h)
  <2> DEFINE label == IF job[h].op = "create" THEN "insert" ELSE "write"
  <2>1. Goto(h, label) /\ UNCHANGED job
    BY <1>4 DEF CheckPlate
  <2>2. Placed(label, job[h], Ids, walk) /\ Pending(label, job[h])
    BY <1>1 DEF Placed, Pending, Owing, Stitching
  <2>3. label \in Labels \ {"idle"}
    BY DEF Labels
  <2> HIDE DEF label
  <2> QED BY <1>1, <1>2, <2>1, <2>2, <2>3, SameJob, GoesOn DEF Goto
<1> QED BY <1>3, <1>4

LEMMA GetTyped ==
    ASSUME Typed, NEW h \in Handlers, Get(h)
    PROVE  Typed'
<1>1. h \in Busy /\ pc[h] = "get" /\ job[h] \in Jobs
      /\ Placed(pc[h], job[h], Ids, walk) /\ Pending(pc[h], job[h])
  BY AtLabel DEF Get
<1>2. StoresTyped' /\ HistoryTyped' /\ UNCHANGED <<vehicles, walk>> /\ Ids' = Ids
  BY NothingWritten DEF Get, table, walking
<1>3. CASE Answer(h)
  BY <1>1, <1>2, <1>3, Answers
<1>4. CASE Goto(h, "load") /\ UNCHANGED job
  <2>1. Placed("load", job[h], Ids, walk) /\ Pending("load", job[h])
    BY <1>1 DEF Placed, Pending, Owing, Stitching
  <2>2. "load" \in Labels \ {"idle"}
    BY DEF Labels
  <2> QED BY <1>1, <1>2, <1>4, <2>1, <2>2, SameJob, GoesOn DEF Goto
<1> QED BY <1>3, <1>4 DEF Get

LEMMA LoadTyped ==
    ASSUME Typed, NEW h \in Handlers, Load(h)
    PROVE  Typed'
<1>1. h \in Busy /\ pc[h] = "load" /\ job[h] \in Jobs
      /\ Placed(pc[h], job[h], Ids, walk) /\ Pending(pc[h], job[h])
  BY AtLabel DEF Load
<1>2. StoresTyped' /\ HistoryTyped' /\ UNCHANGED <<vehicles, walk>> /\ Ids' = Ids
  BY NothingWritten DEF Load, table, walking
<1>3. CASE Answer(h)
  BY <1>1, <1>2, <1>3, Answers
<1>4. CASE ~Answer(h)
  <2> DEFINE j == [job[h] EXCEPT !.row = vehicles[job[h].id]]
  <2>1. Goto(h, "fill") /\ job' = [job EXCEPT ![h] = j] /\ job[h].id \in Live
    BY <1>4 DEF Load
  <2>2. vehicles[job[h].id] \in Rows
    BY <2>1, IdsAreSlots
  <2>3. j \in Jobs /\ j.op = job[h].op /\ j.id = job[h].id
    BY <1>1, <2>2 DEF Jobs
  <2>4. Placed("fill", j, Ids, walk) /\ Pending("fill", j)
    BY <1>1, <2>2 DEF Jobs, Placed, Pending, Owing, Stitching
  <2>5. "fill" \in Labels \ {"idle"}
    BY DEF Labels
  <2> HIDE DEF j
  <2> QED BY <1>1, <1>2, <2>1, <2>3, <2>4, <2>5, GoesOn DEF Goto
<1> QED BY <1>3, <1>4

LEMMA IndexExistsTyped ==
    ASSUME Typed, NEW h \in Handlers, IndexExists(h)
    PROVE  Typed'
<1>1. h \in Busy /\ pc[h] = "index" /\ job[h] \in Jobs
      /\ Placed(pc[h], job[h], Ids, walk) /\ Pending(pc[h], job[h])
  BY AtLabel DEF IndexExists
<1>2. StoresTyped' /\ HistoryTyped' /\ UNCHANGED <<vehicles, walk>> /\ Ids' = Ids
  BY NothingWritten DEF IndexExists, table, walking
<1>3. {"doc", "change", "index"} \subseteq Labels \ {"idle"}
  BY DEF Labels
<1>4. CASE job[h].todo = <<>> /\ Goto(h, "doc") /\ UNCHANGED job
  <2>1. Placed("doc", job[h], Ids, walk) /\ Pending("doc", job[h])
    BY <1>1 DEF Placed, Pending, Owing, Stitching
  <2> QED BY <1>1, <1>2, <1>3, <1>4, <2>1, SameJob, GoesOn DEF Goto
<1>5. CASE job[h].todo # <<>> /\ Goto(h, "change") /\ UNCHANGED job
  <2>1. Placed("change", job[h], Ids, walk) /\ Pending("change", job[h])
    BY <1>1, <1>5 DEF Placed, Pending, Owing, Stitching
  <2> QED BY <1>1, <1>2, <1>3, <1>5, <2>1, SameJob, GoesOn DEF Goto
<1>6. CASE job[h].todo # <<>> /\ job' = Drop(h) /\ UNCHANGED pc
  <2> DEFINE j == [job[h] EXCEPT !.todo = Tail(job[h].todo)]
  <2>1. job' = [job EXCEPT ![h] = j]
    BY <1>6 DEF Drop
  <2>2. job[h].todo \in Seq({"add", "rem"} \X Keys)
    BY <1>1 DEF Jobs
  <2>3. Tail(job[h].todo) \in Seq({"add", "rem"} \X Keys)
    BY <1>6, <2>2
  <2>4. j \in Jobs /\ j.op = job[h].op /\ j.id = job[h].id
    BY <1>1, <2>3 DEF Jobs
  <2>5. Placed("index", j, Ids, walk) /\ Pending("index", j)
    BY <1>1 DEF Jobs, Placed, Pending, Owing, Stitching
  <2> HIDE DEF j
  <2> QED BY <1>1, <1>2, <1>3, <1>6, <2>1, <2>4, <2>5, SamePlace, GoesOn
<1> QED BY <1>4, <1>5, <1>6 DEF IndexExists

LEMMA HydrateExistsTyped ==
    ASSUME Typed, NEW h \in Handlers, HydrateExists(h)
    PROVE  Typed'
<1>1. h \in Busy /\ pc[h] = "exists" /\ job[h] \in Jobs
      /\ Placed(pc[h], job[h], Ids, walk) /\ Pending(pc[h], job[h])
  BY AtLabel DEF HydrateExists
<1>2. StoresTyped' /\ HistoryTyped' /\ UNCHANGED <<vehicles, walk>> /\ Ids' = Ids
  BY NothingWritten DEF HydrateExists, table, walking
<1>3. PICK label \in {"range", "ids"} : Goto(h, label)
  BY DEF HydrateExists
<1>4. Placed(label, job[h], Ids, walk) /\ Pending(label, job[h])
  BY <1>1 DEF Placed, Pending, Owing, Stitching
<1>5. label \in Labels \ {"idle"}
  BY DEF Labels
<1> QED BY <1>1, <1>2, <1>3, <1>4, <1>5, SameJob, GoesOn DEF Goto, HydrateExists

LEMMA FindActiveIdsTyped ==
    ASSUME Typed, NEW h \in Handlers, FindActiveIds(h)
    PROVE  Typed'
<1>1. h \in Busy /\ pc[h] = "ids" /\ job[h] \in Jobs
      /\ Placed(pc[h], job[h], Ids, walk) /\ Pending(pc[h], job[h])
  BY AtLabel DEF FindActiveIds
<1>2. StoresTyped' /\ HistoryTyped' /\ UNCHANGED <<vehicles, walk>> /\ Ids' = Ids
  BY NothingWritten DEF FindActiveIds, table, walking
<1> DEFINE j == [job[h] EXCEPT !.ids = ActiveIds(walk.list)]
<1>3. job' = [job EXCEPT ![h] = j]
  BY DEF FindActiveIds
<1>4. PICK label \in {"range", "zadd"} : Goto(h, label)
  BY DEF FindActiveIds
<1>5. ActiveIds(walk.list) \subseteq Ids /\ ActiveIds(walk.list) \subseteq Slots
  BY IdsAreSlots DEF ActiveIds
<1>6. j \in Jobs /\ j.op = job[h].op /\ j.id = job[h].id
  BY <1>1, <1>5 DEF Jobs
<1>7. Placed(label, j, Ids, walk) /\ Pending(label, j)
  BY <1>1, <1>5 DEF Jobs, Placed, Pending, Owing, Stitching
<1>8. label \in Labels \ {"idle"}
  BY DEF Labels
<1> HIDE DEF j
<1> QED BY <1>1, <1>2, <1>3, <1>4, <1>6, <1>7, <1>8, GoesOn DEF Goto

LEMMA PagesOfSlots ==
    ASSUME NEW S \in SUBSET Slots, NEW cursor
    PROVE  PageFrom(S, cursor) \in SUBSET S
BY DEF PageFrom, Top, Below

LEMMA WalkKey ==
    ASSUME walk \in Walks
    PROVE  IndexOf(walk.list) \in Keys
BY DEF Walks, Keys, IndexOf

LEMMA ZRangeTyped ==
    ASSUME Typed, NEW h \in Handlers, ZRange(h)
    PROVE  Typed'
<1>1. h \in Busy /\ pc[h] = "range" /\ job[h] \in Jobs
      /\ Placed(pc[h], job[h], Ids, walk) /\ Pending(pc[h], job[h])
  BY AtLabel DEF ZRange
<1>2. StoresTyped' /\ HistoryTyped' /\ UNCHANGED <<vehicles, walk>> /\ Ids' = Ids
  BY NothingWritten DEF ZRange, table, walking
<1> DEFINE S == Page(index[IndexOf(walk.list)])
           j == [job[h] EXCEPT !.ids = S]
<1>3. job' = [job EXCEPT ![h] = j] /\ Goto(h, "stitch")
  BY DEF ZRange
<1>4. IndexOf(walk.list) \in Keys
  BY <1>1, WalkKey DEF Placed, Stitching
<1>5. index[IndexOf(walk.list)] \in SUBSET Slots
  BY <1>4, IdsAreSlots DEF Typed, TypeOK
<1>6. S \in SUBSET Slots
  BY <1>5, PagesOfSlots DEF Page
<1> HIDE DEF S
<1>7. j \in Jobs /\ j.op = job[h].op /\ j.id = job[h].id
  BY <1>1, <1>6 DEF Jobs
<1>8. Placed("stitch", j, Ids, walk) /\ Pending("stitch", j)
  BY <1>1 DEF Jobs, Placed, Pending, Owing, Stitching
<1>9. "stitch" \in Labels \ {"idle"}
  BY DEF Labels
<1> HIDE DEF j
<1> QED BY <1>1, <1>2, <1>3, <1>7, <1>8, <1>9, GoesOn DEF Goto

LEMMA HitsTyped ==
    ASSUME Typed, NEW h \in Handlers, Hits(h)
    PROVE  Typed'
<1>1. h \in Busy /\ pc[h] = "hits" /\ job[h] \in Jobs
      /\ Placed(pc[h], job[h], Ids, walk) /\ Pending(pc[h], job[h])
  BY AtLabel DEF Hits
<1>2. StoresTyped' /\ HistoryTyped' /\ UNCHANGED <<vehicles, walk>> /\ Ids' = Ids
  BY NothingWritten DEF Hits, table, walking
<1>3. PICK S \in SUBSET Slots : job' = [job EXCEPT ![h].ids = S]
  BY DEF Hits
<1> DEFINE j == [job[h] EXCEPT !.ids = S]
<1>4. job' = [job EXCEPT ![h] = j] /\ Goto(h, "stitch")
  BY <1>3 DEF Hits
<1>5. j \in Jobs /\ j.op = job[h].op /\ j.id = job[h].id
  BY <1>1 DEF Jobs
<1>6. Placed("stitch", j, Ids, walk) /\ Pending("stitch", j)
  BY <1>1 DEF Jobs, Placed, Pending, Owing, Stitching
<1>7. "stitch" \in Labels \ {"idle"}
  BY DEF Labels
<1> HIDE DEF j
<1> QED BY <1>1, <1>2, <1>4, <1>5, <1>6, <1>7, GoesOn DEF Goto

\* The end of a list: an answer, and the walk goes on or is over.
LEMMA Responds ==
    ASSUME Typed, NEW h \in Busy, NEW S \in SUBSET Slots, Respond(h, S),
           StoresTyped', UNCHANGED <<table, upset>>,
           job[h].op \in {"list", "search"}
    PROVE  Typed'
<1> DEFINE page == Top(S, Limit)
<1>1. Answer(h) /\ UNCHANGED vehicles /\ Ids' = Ids /\ Live' = Live
  BY DEF Respond, table, Ids, Live
<1>2. HistoryTyped
  BY DEF Typed, TypeOK, HistoryTyped
<1>3. job[h].op = "list" => walk \in Walks
  BY HasPlace DEF Placed
<1>4. page \in SUBSET Slots
  BY DEF Top
<1>5. CASE UNCHANGED walking
  <2>1. HistoryTyped' /\ UNCHANGED walk
    BY <1>1, <1>2, <1>5 DEF HistoryTyped, walking
  <2> QED BY <1>1, <2>1, Answers
<1>6. CASE /\ job[h].op = "list" /\ walk' = None
           /\ missed' = missed \cup (walk.owed \ page)
  <2>1. walk.owed \subseteq Slots
    BY <1>3, <1>6 DEF Walks
  <2>2. HistoryTyped'
    BY <1>1, <1>2, <1>6, <2>1 DEF HistoryTyped
  <2> QED BY <1>1, <1>6, <2>2, Answers
<1>7. CASE /\ job[h].op = "list" /\ S # page /\ UNCHANGED missed
           /\ walk' = [walk EXCEPT
                          !.cursor = CHOOSE i \in page : \A j \in page : i <= j,
                          !.owed = walk.owed \ page]
  <2>1. S # {}
    BY <1>7 DEF Top
  <2>2. page # {}
    BY <2>1, TopNonEmpty, CatalogAssumption
  <2>3. (CHOOSE i \in page : \A j \in page : i <= j) \in Slots
    BY <1>4, <2>2, Least
  <2>4. walk' \in Walks /\ walk'.owed \subseteq walk.owed
    BY <1>3, <1>7, <2>3 DEF Walks
  <2>5. walk # None
    BY <1>3, <1>7, CatalogAssumption
  <2>6. HistoryTyped'
    BY <1>1, <1>2, <1>7, <2>4, <2>5 DEF HistoryTyped
  <2> QED BY <1>1, <2>4, <2>6, Answers
<1> QED BY <1>5, <1>6, <1>7 DEF Respond

LEMMA StitchTyped ==
    ASSUME Typed, NEW h \in Handlers, Stitch(h)
    PROVE  Typed'
<1>1. h \in Busy /\ pc[h] = "stitch" /\ job[h] \in Jobs
      /\ Placed(pc[h], job[h], Ids, walk) /\ Pending(pc[h], job[h])
  BY AtLabel DEF Stitch
<1>2. StoresTyped' /\ UNCHANGED <<table, upset>>
  BY DEF Stitch, Typed, TypeOK, StoresTyped, table, caches, Ids
<1>3. job[h].ids \in SUBSET Slots
  BY <1>1 DEF Jobs
<1>4. CASE Respond(h, job[h].ids)
  <2>1. job[h].op \in {"list", "search"}
    BY <1>1 DEF Placed, Stitching
  <2> QED BY <1>1, <1>2, <1>3, <1>4, <2>1, Responds
<1>5. CASE ~Respond(h, job[h].ids)
  <2> DEFINE missing == {id \in job[h].ids : details[id] = None}
             j == [job[h] EXCEPT !.missing = missing]
  <2>1. job' = [job EXCEPT ![h] = j] /\ Goto(h, "rows") /\ UNCHANGED walking
    BY <1>5 DEF Stitch
  <2>2. missing \in SUBSET Slots
    BY <1>3
  <2> HIDE DEF missing
  <2>3. j \in Jobs /\ j.op = job[h].op /\ j.id = job[h].id
    BY <1>1, <2>2 DEF Jobs
  <2>4. Placed("rows", j, Ids, walk) /\ Pending("rows", j)
    BY <1>1 DEF Jobs, Placed, Pending, Owing, Stitching
  <2>5. "rows" \in Labels \ {"idle"}
    BY DEF Labels
  <2>6. HistoryTyped' /\ UNCHANGED <<vehicles, walk>>
    BY <2>1, NothingWritten DEF Stitch, table, walking
  <2> HIDE DEF j
  <2> QED BY <1>1, <1>2, <2>1, <2>3, <2>4, <2>5, <2>6, GoesOn DEF Goto
<1> QED BY <1>4, <1>5

LEMMA FindRowsTyped ==
    ASSUME Typed, NEW h \in Handlers, FindRows(h)
    PROVE  Typed'
<1>1. h \in Busy /\ pc[h] = "rows" /\ job[h] \in Jobs
      /\ Placed(pc[h], job[h], Ids, walk) /\ Pending(pc[h], job[h])
  BY AtLabel DEF FindRows
<1>2. StoresTyped' /\ UNCHANGED <<table, upset>>
  BY DEF FindRows, Typed, TypeOK, StoresTyped, table, caches, Ids
<1> DEFINE found == job[h].missing \cap Live
           listed == (job[h].ids \ job[h].missing) \cup found
<1>3. found \in SUBSET Slots /\ listed \in SUBSET Slots
  BY <1>1 DEF Jobs
<1>4. CASE Respond(h, listed)
  <2>1. job[h].op \in {"list", "search"}
    BY <1>1 DEF Placed, Stitching
  <2> QED BY <1>1, <1>2, <1>3, <1>4, <2>1, Responds
<1>5. CASE ~Respond(h, listed)
  <2> DEFINE rows == [id \in found |-> vehicles[id]]
             j == [job[h] EXCEPT !.ids = listed, !.missing = found, !.rows = rows]
  <2>1. job' = [job EXCEPT ![h] = j] /\ Goto(h, "cache") /\ UNCHANGED walking
    BY <1>5 DEF FindRows
  <2>2. rows \in [found -> Rows] /\ DOMAIN rows = found
    BY IdsAreSlots
  <2>3. rows \in Tables
    BY <1>3, <2>2 DEF Tables
  <2> HIDE DEF rows, found, listed
  <2>4. j \in Jobs /\ j.op = job[h].op /\ j.id = job[h].id
    BY <1>1, <1>3, <2>3 DEF Jobs
  <2>5. Placed("cache", j, Ids, walk) /\ Pending("cache", j)
    BY <1>1, <2>2, <2>3 DEF Jobs, Placed, Pending, Owing, Stitching
  <2>6. "cache" \in Labels \ {"idle"}
    BY DEF Labels
  <2>7. HistoryTyped' /\ UNCHANGED <<vehicles, walk>>
    BY <2>1, NothingWritten DEF FindRows, table, walking
  <2> HIDE DEF j
  <2> QED BY <1>1, <1>2, <2>1, <2>4, <2>5, <2>6, <2>7, GoesOn DEF Goto
<1> QED BY <1>4, <1>5

LEMMA FallBackTyped ==
    ASSUME Typed, NEW h \in Handlers, FallBack(h)
    PROVE  Typed'
<1>1. h \in Busy /\ pc[h] = "fallback" /\ job[h] \in Jobs
      /\ Placed(pc[h], job[h], Ids, walk) /\ Pending(pc[h], job[h])
  BY AtLabel DEF FallBack
<1>2. StoresTyped' /\ UNCHANGED <<table, upset>>
  BY DEF FallBack, Typed, TypeOK, StoresTyped, table, caches, Ids
<1>3. job[h].op \in {"list", "search"}
  BY <1>1 DEF Placed, Stitching
<1>4. Top(Live, Limit + 1) \in SUBSET Slots
  BY IdsAreSlots DEF Top
<1>5. ActiveIds(walk.list) \in SUBSET Slots
  BY IdsAreSlots DEF ActiveIds
<1>6. Page(ActiveIds(walk.list)) \in SUBSET Slots
  BY <1>5, PagesOfSlots DEF Page
<1>7. PICK S \in SUBSET Slots : Respond(h, S)
  BY <1>4, <1>6 DEF FallBack
<1> QED BY <1>1, <1>2, <1>3, <1>7, Responds

(***************************************************************************)
(* What the statements and commands do to the types of what they write.    *)
(***************************************************************************)
UpsetTyped == upset \subseteq {"conflict", "lapse", "failure"}

LEMMA NoteTyped ==
    ASSUME Typed, NEW kind \in {"conflict", "lapse", "failure"}, NEW happens,
           Note(kind, happens)
    PROVE  UpsetTyped'
BY DEF Note, UpsetTyped, Typed, TypeOK

LEMMA InsertedTyped ==
    ASSUME Typed, NEW h \in Busy, pc[h] = "insert", Inserted(h), UpsetTyped',
           UNCHANGED <<retired, caches, walking>>
    PROVE  /\ StoresTyped' /\ HistoryTyped'
           /\ Ids' = Ids \cup {Len(vehicles) + 1} /\ Live \subseteq Live'
           /\ Len(vehicles') = Len(vehicles) + 1
           /\ Len(vehicles) + 1 \in Slots
           /\ h \in Creating /\ job[h].op = "create"
<1>1. job[h].row \in Rows /\ job[h].id = 0 /\ job[h].op = "create"
  BY HasPlace DEF Placed, Stitching
<1>2. vehicles \in Seq(Rows) /\ Ids = 1 .. Len(vehicles) /\ Len(vehicles) \in Nat
  BY IdsAreSlots DEF Typed, TypeOK
<1>3. /\ vehicles' \in Seq(Rows)
      /\ Len(vehicles') = Len(vehicles) + 1
      /\ Ids' = 1 .. (Len(vehicles) + 1)
  BY <1>1, <1>2 DEF Inserted, Ids
<1>4. Ids' = Ids \cup {Len(vehicles) + 1}
  BY <1>2, <1>3
<1>5. Live \subseteq Live'
  BY <1>4 DEF Live
<1>6. h \in Creating
  BY <1>1 DEF Creating
<1>7. Cardinality(Creating) \in Nat /\ Cardinality(Creating) # 0
  BY <1>6, IdsAreSlots, FS_CardinalityType, FS_EmptySet
<1>8. Len(vehicles) + 1 \in Slots
  BY <1>2, <1>7, SlotsAreNumbers DEF Typed, Room
<1>9. StoresTyped'
  BY <1>3, <1>4 DEF Typed, TypeOK, StoresTyped, caches
<1>10. HistoryTyped'
  BY <1>5 DEF Typed, TypeOK, HistoryTyped, UpsetTyped, walking
<1> QED BY <1>1, <1>3, <1>4, <1>5, <1>6, <1>8, <1>9, <1>10

LEMMA RoomFilled ==
    ASSUME Typed, NEW h \in Creating, NEW label, NEW j,
           pc' = [pc EXCEPT ![h] = label], job' = [job EXCEPT ![h] = j],
           Len(vehicles') = Len(vehicles) + 1,
           label = "idle" \/ j.id # 0
    PROVE  Room'
<1>1. pc \in [Handlers -> Labels] /\ job \in [Handlers -> Jobs \cup {None}]
  BY DEF Typed, TypeOK, JobsTyped
<1>2. Creating' \subseteq Creating \ {h}
  BY <1>1 DEF Creating, Busy
<1>3. IsFiniteSet(Creating) /\ Len(vehicles) \in Nat
  BY IdsAreSlots
<1>4. /\ IsFiniteSet(Creating \ {h})
      /\ Cardinality(Creating \ {h}) = Cardinality(Creating) - 1
  BY <1>3, FS_RemoveElement
<1>5. Cardinality(Creating') <= Cardinality(Creating \ {h})
  BY <1>2, <1>4, FS_Subset
<1>6. Cardinality(Creating) \in Nat /\ Cardinality(Creating') \in Nat
  BY <1>2, <1>3, <1>4, FS_Subset, FS_CardinalityType
<1> QED BY <1>3, <1>4, <1>5, <1>6, SlotsAreNumbers DEF Typed, Room

LEMMA ChangedIsRow ==
    ASSUME NEW row \in Rows, NEW p \in Payloads
    PROVE  Changed(row, p) \in Rows
BY DEF Changed, Rows, Payloads

LEMMA LeavesTyped ==
    ASSUME Typed, NEW id, Leaves(id)
    PROVE  /\ walk \in Walks => walk' \in Walks
           /\ walk' \in Walks \cup {None}
           /\ walk' # None => walk # None /\ walk'.owed = walk.owed \ {id}
BY DEF Leaves, Walks, Typed, TypeOK

LEMMA WrittenTyped ==
    ASSUME Typed, NEW h \in Busy, pc[h] = "write", Writable(h), Written(h),
           UpsetTyped', UNCHANGED <<retired, caches, missed>>
    PROVE  /\ StoresTyped' /\ HistoryTyped'
           /\ Ids' = Ids /\ Live' = Live /\ Len(vehicles') = Len(vehicles)
           /\ walk \in Walks => walk' \in Walks
           /\ Target(h) \in Rows
<1>1. job[h].change \in Payloads /\ job[h].id \in Ids
  BY HasPlace DEF Placed, Stitching
<1>2. Target(h) \in Rows
  BY <1>1, IdsAreSlots, ChangedIsRow DEF Target
<1>3. vehicles \in Seq(Rows) /\ Ids = 1 .. Len(vehicles) /\ Len(vehicles) \in Nat
  BY IdsAreSlots DEF Typed, TypeOK
<1>4. vehicles' \in Seq(Rows) /\ Len(vehicles') = Len(vehicles) /\ Ids' = Ids
  BY <1>1, <1>2, <1>3 DEF Written, Ids
<1>5. Live' = Live
  BY <1>4 DEF Live
<1>6. StoresTyped'
  BY <1>4 DEF Typed, TypeOK, StoresTyped, caches
<1>7. CASE UNCHANGED walk
  <2>1. HistoryTyped'
    BY <1>5, <1>7 DEF Typed, TypeOK, HistoryTyped, UpsetTyped
  <2> QED BY <1>2, <1>4, <1>5, <1>6, <1>7, <2>1
<1>8. CASE Leaves(job[h].id)
  <2>1. HistoryTyped'
    BY <1>5, <1>8, LeavesTyped DEF Typed, TypeOK, HistoryTyped, UpsetTyped
  <2> QED BY <1>2, <1>4, <1>5, <1>6, <1>8, <2>1, LeavesTyped
<1> QED BY <1>7, <1>8 DEF Written

LEMMA RetiredTyped ==
    ASSUME Typed, NEW h \in Busy, pc[h] = "retire", Retired(h),
           UpsetTyped', UNCHANGED <<vehicles, caches, missed>>
    PROVE  /\ StoresTyped' /\ HistoryTyped' /\ Ids' = Ids
           /\ walk \in Walks => walk' \in Walks
<1>1. job[h].id \in Ids
  BY HasPlace DEF Placed, Stitching
<1>2. Ids' = Ids
  BY DEF Ids
<1>3. Live' = Live \ {job[h].id}
  BY <1>2 DEF Live, Retired
<1>4. StoresTyped'
  BY <1>1, <1>2 DEF Typed, TypeOK, StoresTyped, caches, Retired
<1>5. HistoryTyped'
  BY <1>3, LeavesTyped DEF Typed, TypeOK, HistoryTyped, UpsetTyped, Retired
<1> QED BY <1>2, <1>4, <1>5, LeavesTyped DEF Retired

LEMMA HistoryKept ==
    ASSUME Typed, UNCHANGED <<table, walk, missed>>, UpsetTyped'
    PROVE  HistoryTyped'
<1>1. Live' = Live
  BY DEF table, Live, Ids
<1> QED BY <1>1 DEF Typed, TypeOK, HistoryTyped, UpsetTyped

LEMMA StoredTyped ==
    ASSUME Typed, NEW h \in Busy, pc[h] \in {"set", "fill", "evict"}, Stored(h),
           UNCHANGED <<table, index, leased, docs>>
    PROVE  StoresTyped'
<1>1. pc[h] = "evict" \/ job[h].row \in Rows
  BY HasPlace DEF Placed, Stitching
<1>2. details' \in [Slots -> Rows \cup {None}]
  BY <1>1 DEF Stored, Typed, TypeOK
<1> QED BY <1>2 DEF Typed, TypeOK, StoresTyped, table, Ids

\* What is at the head of the list of changes.
LEMMA NextChange ==
    ASSUME Typed, NEW h \in Busy, job[h].todo # <<>>
    PROVE  /\ Op(h) \in {"add", "rem"} /\ Key(h) \in Keys
           /\ job[h].id \in Ids
           /\ Tail(job[h].todo) \in Seq({"add", "rem"} \X Keys)
<1>1. job[h].todo \in Seq({"add", "rem"} \X Keys)
  BY HasPlace DEF Jobs
<1>2. pc[h] \in Owing
  BY HasPlace DEF Pending
<1>3. job[h].id \in Ids
  BY <1>2, HasPlace DEF Placed, Owing, Stitching
<1>4. Head(job[h].todo) \in {"add", "rem"} \X Keys
  BY <1>1
<1> QED BY <1>1, <1>3, <1>4 DEF Op, Key

LEMMA IndexChangedTyped ==
    ASSUME Typed, NEW h \in Busy, pc[h] = "change", IndexChanged(h),
           UNCHANGED <<table, details, docs>>
    PROVE  StoresTyped'
<1>1. Key(h) \in Keys /\ job[h].id \in Ids
  BY HasPlace, NextChange DEF Pending
<1> DEFINE members == IF Op(h) = "add" THEN index[Key(h)] \cup {job[h].id}
                                      ELSE index[Key(h)] \ {job[h].id}
<1>2. index \in [Keys -> SUBSET Ids] /\ leased \subseteq {k \in Keys : index[k] # {}}
  BY DEF Typed, TypeOK
<1>3. members \in SUBSET Ids
  BY <1>1, <1>2
<1>4. /\ index' = [index EXCEPT ![Key(h)] = members]
      /\ leased' = IF members = {} THEN leased \ {Key(h)} ELSE leased
  BY DEF IndexChanged
<1> HIDE DEF members
<1>5. Ids' = Ids
  BY DEF table, Ids
<1>6. index' \in [Keys -> SUBSET Ids]
  BY <1>2, <1>3, <1>4
<1>7. leased' \subseteq {k \in Keys : index'[k] # {}}
  BY <1>1, <1>2, <1>4
<1> QED BY <1>5, <1>6, <1>7 DEF Typed, TypeOK, StoresTyped, table

LEMMA PublishedTyped ==
    ASSUME Typed, NEW h \in Busy, pc[h] = "doc", Published(h),
           UNCHANGED <<table, details, index, leased>>
    PROVE  StoresTyped'
<1>1. job[h].row \in Rows
  BY HasPlace DEF Placed, Stitching
<1>2. docs' \in [Slots -> Rows \cup {None}]
  BY <1>1 DEF Published, Typed, TypeOK
<1> QED BY <1>2 DEF Typed, TypeOK, StoresTyped, table, Ids

LEMMA HydratedTyped ==
    ASSUME Typed, NEW h \in Busy, pc[h] = "zadd", Hydrated(h),
           UNCHANGED <<table, details, leased, docs>>
    PROVE  StoresTyped'
<1>1. job[h].ids \subseteq Ids /\ walk \in Walks
  BY HasPlace DEF Placed, Stitching
<1> DEFINE k == IndexOf(walk.list)
<1>2. k \in Keys
  BY <1>1, WalkKey
<1> HIDE DEF k
<1>3. index \in [Keys -> SUBSET Ids] /\ leased \subseteq {l \in Keys : index[l] # {}}
  BY DEF Typed, TypeOK
<1>4. index' = [index EXCEPT ![k] = index[k] \cup job[h].ids]
  BY DEF Hydrated, k
<1>5. index' \in [Keys -> SUBSET Ids]
  BY <1>1, <1>2, <1>3, <1>4
<1>6. \A l \in Keys : index[l] # {} => index'[l] # {}
  BY <1>1, <1>2, <1>3, <1>4
<1>7. Ids' = Ids
  BY DEF table, Ids
<1> QED BY <1>3, <1>5, <1>6, <1>7 DEF Typed, TypeOK, StoresTyped, table

LEMMA InsertTyped ==
    ASSUME Typed, NEW h \in Handlers, Insert(h)
    PROVE  Typed'
<1>1. h \in Busy /\ pc[h] = "insert" /\ job[h] \in Jobs
      /\ Placed(pc[h], job[h], Ids, walk) /\ Pending(pc[h], job[h])
  BY AtLabel DEF Insert
<1>2. UpsetTyped'
  BY DEF Insert, Typed, TypeOK, UpsetTyped
<1>3. CASE UNCHANGED vehicles /\ Answer(h)
  <2>1. StoresTyped' /\ HistoryTyped' /\ Ids' = Ids /\ UNCHANGED walk
    BY <1>3, NothingWritten DEF Insert, table, walking
  <2> QED BY <1>1, <1>3, <2>1, Answers
<1>4. CASE Inserted(h) /\ job' = InsertBoth(h) /\ Goto(h, "set")
  <2> DEFINE id == Len(vehicles) + 1
             todo == <<<<"add", All>>, <<"add", LowerCase[job[h].row.category]>>>>
             j == [job[h] EXCEPT !.id = id, !.todo = todo]
  <2>1. /\ StoresTyped' /\ HistoryTyped' /\ UNCHANGED walk
        /\ Ids' = Ids \cup {id} /\ Len(vehicles') = Len(vehicles) + 1
        /\ id \in Slots /\ h \in Creating /\ job[h].op = "create"
    BY <1>1, <1>2, <1>4, InsertedTyped DEF Insert, walking
  <2>2. id # 0
    BY <2>1, SlotsAreNumbers
  <2>3. job' = [job EXCEPT ![h] = j]
    BY <1>4 DEF InsertBoth
  <2>4. job[h].row \in Rows
    BY <1>1, <2>1 DEF Placed
  <2>5. All \in Keys /\ LowerCase[job[h].row.category] \in Keys
    BY <2>4 DEF Keys, Rows
  <2>6. todo \in Seq({"add", "rem"} \X Keys)
    BY <2>5
  <2> HIDE DEF todo, id
  <2>7. j \in Jobs /\ j.op = job[h].op /\ j.id = id
    BY <1>1, <2>1, <2>6 DEF Jobs
  <2>8. Placed("set", j, Ids', walk') /\ Pending("set", j)
    BY <1>1, <2>1, <2>7 DEF Jobs, Placed, Pending, Owing, Stitching
  <2>9. "set" \in Labels
    BY DEF Labels
  <2>10. h \in Handlers /\ \A g \in Busy \ {h} : job[g].op = "list" => walk' \in Walks
    BY <2>1 DEF Typed, JobsTyped, Placed, Busy, Creating
  <2>11. j.op # "list"
    BY <2>1, <2>7
  <2> HIDE DEF j
  <2>12. TypeOK' /\ JobsTyped' /\ OneList'
    BY <1>4, <2>1, <2>3, <2>7, <2>8, <2>9, <2>10, <2>11, HandlerMoves DEF Goto
  <2>13. Room'
    BY <1>4, <2>1, <2>2, <2>3, <2>7, RoomFilled DEF Goto
  <2> QED BY <2>12, <2>13 DEF Typed
<1> QED BY <1>3, <1>4 DEF Insert

LEMMA MovesTyped ==
    ASSUME NEW old \in Rows, NEW p \in Payloads
    PROVE  Moves(old, p) \in Seq({"add", "rem"} \X Keys)
<1>1. CASE Moves(old, p) = <<>>
  BY <1>1
<1>2. CASE Moves(old, p) # <<>>
  <2>0. p.category # Keep
    BY <1>2 DEF Moves
  <2>1. p.category \in Categories /\ old.category \in Categories
    BY <2>0 DEF Rows, Payloads
  <2>2. LowerCase[p.category] \in Keys /\ LowerCase[old.category] \in Keys
    BY <2>1 DEF Keys
  <2>3. /\ <<"rem", LowerCase[old.category]>> \in {"add", "rem"} \X Keys
        /\ <<"add", LowerCase[p.category]>> \in {"add", "rem"} \X Keys
    BY <2>2
  <2>4. Moves(old, p) = <<<<"rem", LowerCase[old.category]>>,
                          <<"add", LowerCase[p.category]>>>>
    BY <1>2 DEF Moves
  <2> QED BY <2>3, <2>4
<1> QED BY <1>1, <1>2

LEMMA UpdateTyped ==
    ASSUME Typed, NEW h \in Handlers, Update(h)
    PROVE  Typed'
<1>1. h \in Busy /\ pc[h] = "write" /\ job[h] \in Jobs
      /\ Placed(pc[h], job[h], Ids, walk) /\ Pending(pc[h], job[h])
  BY AtLabel DEF Update
<1>2. UpsetTyped'
  BY DEF Update, Typed, TypeOK, UpsetTyped
<1>3. CASE Answer(h) /\ UNCHANGED <<vehicles, walk>>
  <2>1. StoresTyped' /\ HistoryTyped' /\ Ids' = Ids
    BY <1>3, NothingWritten DEF Update, table, walking
  <2> QED BY <1>1, <1>3, <2>1, Answers
<1>4. CASE /\ Writable(h) /\ Written(h)
           /\ job' = [job EXCEPT ![h].row = Target(h), ![h].change = None,
                                 ![h].todo = Moves(job[h].row, job[h].change)]
           /\ Goto(h, "set")
  <2> DEFINE todo == Moves(job[h].row, job[h].change)
             j == [job[h] EXCEPT !.row = Target(h), !.change = None, !.todo = todo]
  <2>1. job' = [job EXCEPT ![h] = j]
    BY <1>4
  <2>2. /\ StoresTyped' /\ HistoryTyped' /\ Ids' = Ids
        /\ Len(vehicles') = Len(vehicles)
        /\ walk \in Walks => walk' \in Walks
        /\ Target(h) \in Rows
    BY <1>1, <1>2, <1>4, WrittenTyped DEF Update
  <2>3. job[h].op = "update" /\ job[h].change \in Payloads /\ job[h].row \in Rows
        /\ job[h].id \in Ids
    BY <1>1 DEF Placed, Stitching
  <2>4. todo \in Seq({"add", "rem"} \X Keys)
    BY <2>3, MovesTyped
  <2> HIDE DEF todo
  <2>5. j \in Jobs /\ j.op = job[h].op /\ j.id = job[h].id /\ j.row = Target(h)
    BY <1>1, <2>2, <2>4 DEF Jobs
  <2>6. Placed("set", j, Ids', walk') /\ Pending("set", j)
    BY <1>1, <2>2, <2>3, <2>5 DEF Placed, Pending, Owing
  <2>7. "set" \in Labels
    BY DEF Labels
  <2>8. \A g \in Busy \ {h} : job[g].op = "list" => walk' \in Walks
    BY <2>2 DEF Typed, JobsTyped, Placed
  <2>9. j.op # "list" /\ j.id # 0
    BY <2>3, <2>5, IdsAreSlots, SlotsAreNumbers
  <2> HIDE DEF j
  <2>10. TypeOK' /\ JobsTyped' /\ OneList'
    BY <1>4, <2>1, <2>2, <2>5, <2>6, <2>7, <2>8, <2>9, HandlerMoves DEF Goto
  <2>11. Room'
    BY <1>4, <2>1, <2>2, <2>9, RoomStays DEF Goto
  <2> QED BY <2>10, <2>11 DEF Typed
<1> QED BY <1>3, <1>4 DEF Update

LEMMA RetireTyped ==
    ASSUME Typed, NEW h \in Handlers, Retire(h)
    PROVE  Typed'
<1>1. h \in Busy /\ pc[h] = "retire" /\ job[h] \in Jobs
      /\ Placed(pc[h], job[h], Ids, walk) /\ Pending(pc[h], job[h])
  BY AtLabel DEF Retire
<1>2. UpsetTyped'
  BY DEF Retire, Typed, TypeOK, UpsetTyped
<1> DEFINE todo == <<<<"rem", All>>, <<"rem", LowerCase[job[h].row.category]>>>>
           j == [job[h] EXCEPT !.todo = todo]
<1>3. job' = [job EXCEPT ![h] = j] /\ Goto(h, "evict") /\ UNCHANGED vehicles
  BY DEF Retire
<1>4. StoresTyped' /\ HistoryTyped' /\ (walk \in Walks => walk' \in Walks)
  BY <1>1, <1>2, RetiredTyped DEF Retire
<1>5. job[h].row \in Rows /\ job[h].op = "delete"
  BY <1>1 DEF Placed, Stitching
<1>6. All \in Keys /\ LowerCase[job[h].row.category] \in Keys
  BY <1>5 DEF Keys, Rows
<1>7. todo \in Seq({"add", "rem"} \X Keys)
  BY <1>6
<1> HIDE DEF todo
<1>8. j \in Jobs /\ j.op = job[h].op /\ j.id = job[h].id
  BY <1>1, <1>7 DEF Jobs
<1>9. Placed("evict", j, Ids, walk) /\ Pending("evict", j)
  BY <1>1, <1>5, <1>8 DEF Jobs, Placed, Pending, Owing, Stitching
<1>10. "evict" \in Labels \ {"idle"}
  BY DEF Labels
<1> HIDE DEF j
<1> QED BY <1>1, <1>3, <1>4, <1>8, <1>9, <1>10, GoesOn DEF Goto

LEMMA StoreTyped ==
    ASSUME Typed, NEW h \in Handlers, Store(h)
    PROVE  Typed'
<1>1. h \in Busy /\ pc[h] \in {"set", "fill", "evict"} /\ job[h] \in Jobs
      /\ Placed(pc[h], job[h], Ids, walk) /\ Pending(pc[h], job[h])
  BY AtLabel DEF Store
<1>2. StoresTyped'
  BY <1>1, StoredTyped DEF Store
<1>3. HistoryTyped' /\ UNCHANGED <<vehicles, walk>> /\ Ids' = Ids
  BY HistoryKept DEF Store, table, walking, Ids, UpsetTyped, Typed, TypeOK
<1>4. CASE Answer(h)
  BY <1>1, <1>2, <1>3, <1>4, Answers
<1>5. CASE pc[h] # "fill" /\ Goto(h, "index") /\ UNCHANGED job
  <2>1. Placed("index", job[h], Ids, walk) /\ Pending("index", job[h])
    BY <1>1, <1>5 DEF Placed, Pending, Owing, Stitching
  <2>2. "index" \in Labels \ {"idle"}
    BY DEF Labels
  <2> QED BY <1>1, <1>2, <1>3, <1>5, <2>1, <2>2, SameJob, GoesOn DEF Goto
<1> QED BY <1>4, <1>5 DEF Store

LEMMA ChangeIndexTyped ==
    ASSUME Typed, NEW h \in Handlers, ChangeIndex(h)
    PROVE  Typed'
<1>1. h \in Busy /\ pc[h] = "change" /\ job[h] \in Jobs
      /\ Placed(pc[h], job[h], Ids, walk) /\ Pending(pc[h], job[h])
  BY AtLabel DEF ChangeIndex
<1>2. StoresTyped'
  BY <1>1, IndexChangedTyped DEF ChangeIndex
<1>3. HistoryTyped' /\ UNCHANGED <<vehicles, walk>>
  BY HistoryKept, NoteTyped DEF ChangeIndex, table, walking
<1> DEFINE j == [job[h] EXCEPT !.todo = Tail(job[h].todo)]
<1>4. job' = [job EXCEPT ![h] = j] /\ Goto(h, "index")
  BY DEF ChangeIndex, Drop
<1>5. Tail(job[h].todo) \in Seq({"add", "rem"} \X Keys)
  BY <1>1, NextChange DEF Pending
<1>6. j \in Jobs /\ j.op = job[h].op /\ j.id = job[h].id
  BY <1>1, <1>5 DEF Jobs
<1>7. Placed("index", j, Ids, walk) /\ Pending("index", j)
  BY <1>1 DEF Jobs, Placed, Pending, Owing, Stitching
<1>8. "index" \in Labels \ {"idle"}
  BY DEF Labels
<1> HIDE DEF j
<1> QED BY <1>1, <1>2, <1>3, <1>4, <1>6, <1>7, <1>8, GoesOn DEF Goto

LEMMA PublishTyped ==
    ASSUME Typed, NEW h \in Handlers, Publish(h)
    PROVE  Typed'
<1>1. h \in Busy /\ pc[h] = "doc"
  BY AtLabel DEF Publish
<1>2. StoresTyped'
  BY <1>1, PublishedTyped DEF Publish
<1>3. HistoryTyped' /\ UNCHANGED <<vehicles, walk>> /\ Ids' = Ids
  BY HistoryKept DEF Publish, table, walking, Ids, UpsetTyped, Typed, TypeOK
<1> QED BY <1>1, <1>2, <1>3, Answers DEF Publish

LEMMA HydrateTyped ==
    ASSUME Typed, NEW h \in Handlers, Hydrate(h)
    PROVE  Typed'
<1>1. h \in Busy /\ pc[h] = "zadd" /\ job[h] \in Jobs
      /\ Placed(pc[h], job[h], Ids, walk) /\ Pending(pc[h], job[h])
  BY AtLabel DEF Hydrate
<1>2. StoresTyped'
  BY <1>1, HydratedTyped DEF Hydrate
<1>3. HistoryTyped' /\ UNCHANGED <<vehicles, walk>>
  BY HistoryKept DEF Hydrate, table, walking, UpsetTyped, Typed, TypeOK
<1>4. Placed("expire", job[h], Ids, walk) /\ Pending("expire", job[h])
  BY <1>1 DEF Placed, Pending, Owing, Stitching
<1>5. "expire" \in Labels \ {"idle"}
  BY DEF Labels
<1> QED BY <1>1, <1>2, <1>3, <1>4, <1>5, SameJob, GoesOn DEF Goto, Hydrate

LEMMA ExpireIndexTyped ==
    ASSUME Typed, NEW h \in Handlers, ExpireIndex(h)
    PROVE  Typed'
<1>1. h \in Busy /\ pc[h] = "expire" /\ job[h] \in Jobs
      /\ Placed(pc[h], job[h], Ids, walk) /\ Pending(pc[h], job[h])
  BY AtLabel DEF ExpireIndex
<1>2. IndexOf(walk.list) \in Keys
  BY <1>1, WalkKey DEF Placed, Stitching
<1>3. StoresTyped'
  BY <1>2 DEF ExpireIndex, Lease, Typed, TypeOK, StoresTyped, table, Ids
<1>4. HistoryTyped' /\ UNCHANGED <<vehicles, walk>>
  BY HistoryKept DEF ExpireIndex, table, walking, UpsetTyped, Typed, TypeOK
<1>5. Placed("range", job[h], Ids, walk) /\ Pending("range", job[h])
  BY <1>1 DEF Placed, Pending, Owing, Stitching
<1>6. "range" \in Labels \ {"idle"}
  BY DEF Labels
<1> QED BY <1>1, <1>3, <1>4, <1>5, <1>6, SameJob, GoesOn DEF Goto, ExpireIndex

LEMMA CacheRowTyped ==
    ASSUME Typed, NEW h \in Handlers, CacheRow(h)
    PROVE  Typed'
<1>1. h \in Busy /\ pc[h] = "cache" /\ job[h] \in Jobs
      /\ Placed(pc[h], job[h], Ids, walk) /\ Pending(pc[h], job[h])
  BY AtLabel DEF CacheRow
<1>2. PICK id \in job[h].missing :
          /\ details' = [details EXCEPT ![id] = job[h].rows[id]]
          /\ \/ job[h].missing = {id} /\ Respond(h, job[h].ids)
             \/ /\ job[h].missing # {id}
                /\ job' = [job EXCEPT ![h].missing = @ \ {id}]
                /\ UNCHANGED <<pc, walking>>
  BY DEF CacheRow
<1>3. job[h].rows[id] \in Rows
  BY <1>1 DEF Pending, Tables
<1>4. details' \in [Slots -> Rows \cup {None}]
  BY <1>2, <1>3 DEF Typed, TypeOK
<1>5. StoresTyped' /\ UNCHANGED <<table, upset>>
  BY <1>4 DEF CacheRow, Typed, TypeOK, StoresTyped, table, Ids
<1>6. CASE Respond(h, job[h].ids)
  <2>1. job[h].op \in {"list", "search"} /\ job[h].ids \in SUBSET Slots
    BY <1>1 DEF Placed, Stitching, Jobs
  <2> QED BY <1>1, <1>5, <1>6, <2>1, Responds
<1>7. CASE job' = [job EXCEPT ![h].missing = @ \ {id}] /\ UNCHANGED <<pc, walking>>
  <2> DEFINE j == [job[h] EXCEPT !.missing = job[h].missing \ {id}]
  <2>1. job' = [job EXCEPT ![h] = j]
    BY <1>7
  <2>2. j \in Jobs /\ j.op = job[h].op /\ j.id = job[h].id
    BY <1>1 DEF Jobs
  <2>3. Placed("cache", j, Ids, walk) /\ Pending("cache", j)
    BY <1>1 DEF Jobs, Placed, Pending, Owing, Stitching
  <2>4. "cache" \in Labels \ {"idle"}
    BY DEF Labels
  <2>5. HistoryTyped' /\ UNCHANGED <<vehicles, walk>>
    BY <1>5, <1>7, HistoryKept DEF table, walking, UpsetTyped, Typed, TypeOK
  <2> HIDE DEF j
  <2> QED BY <1>1, <1>5, <1>7, <2>1, <2>2, <2>3, <2>4, <2>5, SamePlace, GoesOn
<1> QED BY <1>2, <1>6, <1>7

(***************************************************************************)
(* Requests arrive.                                                        *)
(***************************************************************************)
NewJob(op, id, row, change) ==
    [op |-> op, id |-> id, row |-> row, change |-> change,
     todo |-> <<>>, ids |-> {}, missing |-> {}, rows |-> None]

LEMMA RoomTaken ==
    ASSUME Typed, NEW h \in Handlers, NEW label, NEW j,
           pc' = [pc EXCEPT ![h] = label], job' = [job EXCEPT ![h] = j],
           UNCHANGED vehicles, Len(vehicles) + Cardinality(Creating) < MaxVehicles
    PROVE  Room'
<1>1. pc \in [Handlers -> Labels] /\ job \in [Handlers -> Jobs \cup {None}]
  BY DEF Typed, TypeOK, JobsTyped
<1>2. Creating' \subseteq Creating \cup {h}
  BY <1>1 DEF Creating, Busy
<1>3. IsFiniteSet(Creating) /\ Len(vehicles) \in Nat
  BY IdsAreSlots
<1>4. Cardinality(Creating) \in Nat
  BY <1>3, FS_CardinalityType
<1>5. /\ IsFiniteSet(Creating \cup {h})
      /\ Cardinality(Creating \cup {h}) <= Cardinality(Creating) + 1
  <2>1. /\ IsFiniteSet(Creating \cup {h})
        /\ Cardinality(Creating \cup {h}) =
              IF h \in Creating THEN Cardinality(Creating) ELSE Cardinality(Creating) + 1
    BY <1>3, FS_AddElement
  <2> QED BY <1>4, <2>1
<1>6. Cardinality(Creating') <= Cardinality(Creating \cup {h})
  BY <1>2, <1>5, FS_Subset
<1>7. Cardinality(Creating \cup {h}) \in Nat /\ Cardinality(Creating') \in Nat
  BY <1>2, <1>5, FS_Subset, FS_CardinalityType
<1> QED BY <1>3, <1>4, <1>5, <1>6, <1>7, SlotsAreNumbers DEF Room

\* A handler that is idle takes on a job.
LEMMA JobTaken ==
    ASSUME Typed, NEW h \in Handlers, NEW label \in Labels \ {"idle"}, NEW j \in Jobs,
           pc' = [pc EXCEPT ![h] = label], job' = [job EXCEPT ![h] = j],
           UNCHANGED <<table, caches, missed>>, UpsetTyped',
           walk' \in Walks \cup {None}, walk' # None => walk'.owed \subseteq Live,
           walk \in Walks => walk' \in Walks,
           j.op = "list" => \A g \in Busy : job[g].op # "list",
           Placed(label, j, Ids, walk'), Pending(label, j),
           j.id = 0 => Len(vehicles) + Cardinality(Creating) < MaxVehicles
    PROVE  Typed'
<1>1. Ids' = Ids /\ Live' = Live /\ UNCHANGED vehicles
  BY DEF table, Ids, Live
<1>2. HistoryTyped'
  BY <1>1 DEF HistoryTyped, UpsetTyped, Typed, TypeOK
<1>3. StoresTyped'
  BY <1>1 DEF Typed, TypeOK, StoresTyped, table, caches
<1>4. \A g \in Busy : job[g].op = "list" => walk' \in Walks
  BY DEF Typed, JobsTyped, Placed
<1>5. TypeOK' /\ JobsTyped' /\ OneList'
  BY <1>1, <1>2, <1>3, <1>4, HandlerMoves
<1>6. Room'
  BY <1>1, RoomStays, RoomTaken
<1> QED BY <1>5, <1>6 DEF Typed

LEMMA BeginTyped ==
    ASSUME Typed, NEW h \in Handlers, NEW label \in Labels \ {"idle"}, NEW op \in Ops,
           NEW id \in Slots \cup {0, None}, NEW row \in Rows \cup {None},
           NEW change \in Payloads \cup {None},
           Begin(h, label, op, id, row, change),
           walk' \in Walks \cup {None}, UNCHANGED missed,
           walk' # None => walk'.owed \subseteq Live,
           walk \in Walks => walk' \in Walks,
           op = "list" => \A g \in Busy : job[g].op # "list",
           Placed(label, NewJob(op, id, row, change), Ids, walk'),
           label \notin {"change", "cache"},
           id = 0 => Len(vehicles) + Cardinality(Creating) < MaxVehicles
    PROVE  Typed'
<1> DEFINE j == NewJob(op, id, row, change)
<1>1. pc' = [pc EXCEPT ![h] = label] /\ job' = [job EXCEPT ![h] = j]
  BY DEF Begin, NewJob, Goto
<1>2. UNCHANGED <<table, caches>>
  BY DEF Begin
<1>3. UpsetTyped'
  BY NoteTyped DEF Begin
<1>4. <<>> \in Seq({"add", "rem"} \X Keys)
  OBVIOUS
<1>5. j \in Jobs /\ j.op = op /\ j.id = id /\ Pending(label, j)
  BY <1>4 DEF Jobs, NewJob, Pending
<1> HIDE DEF j
<1>6. Placed(label, j, Ids, walk')
  BY DEF j
<1> QED BY <1>1, <1>2, <1>3, <1>5, <1>6, JobTaken

LEMMA WalkHistory ==
    ASSUME Typed, UNCHANGED walking
    PROVE  /\ walk' \in Walks \cup {None} /\ UNCHANGED missed
           /\ walk' # None => walk'.owed \subseteq Live
           /\ walk \in Walks => walk' \in Walks
BY DEF Typed, TypeOK, walking

LEMMA StartLabels ==
    /\ {"plate", "write", "retire", "get", "exists", "hits"} \subseteq Labels \ {"idle"}
    /\ {"create", "update", "delete", "get", "list", "search"} \subseteq Ops
BY DEF Labels, Ops, Writes

LEMMA StartCreateTyped ==
    ASSUME Typed, NEW h \in Handlers, NEW row \in Rows, StartCreate(h, row)
    PROVE  Typed'
<1>1. Begin(h, "plate", "create", 0, row, None) /\ UNCHANGED walking
  BY DEF StartCreate
<1>2. Len(vehicles) + Cardinality(Creating) < MaxVehicles
  BY DEF StartCreate, Creating
<1>3. Placed("plate", NewJob("create", 0, row, None), Ids, walk')
  BY DEF Placed, NewJob
<1> QED BY <1>1, <1>2, <1>3, StartLabels, WalkHistory, BeginTyped

LEMMA StartUpdateTyped ==
    ASSUME Typed, NEW h \in Handlers, NEW id \in Live, NEW p \in Payloads,
           StartUpdate(h, id, p)
    PROVE  Typed'
<1>1. PICK label \in {"plate", "write"} :
          Begin(h, label, "update", id, vehicles[id], p) /\ UNCHANGED walking
  BY DEF StartUpdate
<1>2. id \in Ids /\ id \in Slots /\ id # 0 /\ vehicles[id] \in Rows
  BY IdsAreSlots, SlotsAreNumbers
<1>3. Placed(label, NewJob("update", id, vehicles[id], p), Ids, walk')
  BY <1>2 DEF Placed, NewJob
<1> QED BY <1>1, <1>2, <1>3, StartLabels, WalkHistory, BeginTyped

LEMMA StartDeleteTyped ==
    ASSUME Typed, NEW h \in Handlers, NEW id \in Live, StartDelete(h, id)
    PROVE  Typed'
<1>1. Begin(h, "retire", "delete", id, vehicles[id], None) /\ UNCHANGED walking
  BY DEF StartDelete
<1>2. id \in Ids /\ id \in Slots /\ id # 0 /\ vehicles[id] \in Rows
  BY IdsAreSlots, SlotsAreNumbers
<1>3. Placed("retire", NewJob("delete", id, vehicles[id], None), Ids, walk')
  BY <1>2 DEF Placed, NewJob
<1> QED BY <1>1, <1>2, <1>3, StartLabels, WalkHistory, BeginTyped

LEMMA StartGetTyped ==
    ASSUME Typed, NEW h \in Handlers, NEW id \in Ids, StartGet(h, id)
    PROVE  Typed'
<1>1. Begin(h, "get", "get", id, None, None) /\ UNCHANGED walking
  BY DEF StartGet
<1>2. id \in Ids /\ id \in Slots /\ id # 0
  BY IdsAreSlots, SlotsAreNumbers
<1>3. Placed("get", NewJob("get", id, None, None), Ids, walk')
  BY <1>2 DEF Placed, NewJob
<1> QED BY <1>1, <1>2, <1>3, StartLabels, WalkHistory, BeginTyped

LEMMA NoneIsNoNumber == None # 0
BY CatalogAssumption

LEMMA StartListTyped ==
    ASSUME Typed, NEW h \in Handlers, NEW list \in {All} \cup Categories,
           StartList(h, list)
    PROVE  Typed'
<1>1. /\ Begin(h, "exists", "list", None, None, None)
      /\ \A g \in Busy : job[g].op # "list"
  BY DEF StartList
<1>2. /\ walk' \in Walks /\ UNCHANGED missed
      /\ walk' # None => walk'.owed \subseteq Live
  <2>1. CASE walk # None /\ UNCHANGED walking
    BY <2>1 DEF Typed, TypeOK, walking
  <2>2. CASE /\ walk' = [list |-> list, cursor |-> None, owed |-> ActiveIds(list)]
             /\ UNCHANGED missed
    <3>1. ActiveIds(list) \subseteq Live /\ ActiveIds(list) \subseteq Slots
      BY IdsAreSlots DEF ActiveIds
    <3> QED BY <2>2, <3>1 DEF Walks
  <2> QED BY <2>1, <2>2 DEF StartList
<1>3. Placed("exists", NewJob("list", None, None, None), Ids, walk')
  BY <1>2 DEF Placed, NewJob
<1> QED BY <1>1, <1>2, <1>3, StartLabels, NoneIsNoNumber, BeginTyped

LEMMA StartSearchTyped ==
    ASSUME Typed, NEW h \in Handlers, StartSearch(h)
    PROVE  Typed'
<1>1. Begin(h, "hits", "search", None, None, None) /\ UNCHANGED walking
  BY DEF StartSearch
<1>2. Placed("hits", NewJob("search", None, None, None), Ids, walk')
  BY DEF Placed, NewJob
<1> QED BY <1>1, <1>2, StartLabels, NoneIsNoNumber, WalkHistory, BeginTyped

(***************************************************************************)
(* Errors, process death and expiry.                                       *)
(***************************************************************************)

\* What a failed command may have done.
Applied(h) ==
    \/ UNCHANGED <<table, caches, walk>>
    \/ /\ pc[h] = "insert" /\ Inserted(h)
       /\ UNCHANGED <<retired, caches, walk>>
    \/ /\ pc[h] = "write" /\ Writable(h) /\ Written(h)
       /\ UNCHANGED <<retired, caches>>
    \/ /\ pc[h] = "retire" /\ Retired(h)
       /\ UNCHANGED <<vehicles, caches>>
    \/ /\ pc[h] \in {"set", "fill", "evict"} /\ Stored(h)
       /\ UNCHANGED <<table, index, leased, docs, walk>>
    \/ /\ pc[h] = "change" /\ IndexChanged(h)
       /\ UNCHANGED <<table, details, docs, walk>>
    \/ /\ pc[h] = "zadd" /\ Hydrated(h)
       /\ UNCHANGED <<table, details, leased, docs, walk>>
    \/ /\ pc[h] = "doc" /\ Published(h)
       /\ UNCHANGED <<table, details, index, leased, walk>>

LEMMA Fails ==
    ASSUME Typed, NEW h \in Handlers, Fail(h)
    PROVE  /\ h \in Busy /\ Applied(h) /\ UNCHANGED missed
           /\ Answer(h) \/ (Swallow(h) /\ UNCHANGED job)
           /\ Note("failure", pc[h] \notin Harmless)
BY AtLabel DEF Fail, Applied

LEMMA AppliedTyped ==
    ASSUME Typed, NEW h \in Busy, Applied(h), UNCHANGED missed, UpsetTyped'
    PROVE  /\ StoresTyped' /\ HistoryTyped' /\ Ids \subseteq Ids'
           /\ walk \in Walks => walk' \in Walks
           /\ \/ UNCHANGED vehicles
              \/ pc[h] = "write" /\ Len(vehicles') = Len(vehicles)
              \/ pc[h] = "insert" /\ h \in Creating /\ Len(vehicles') = Len(vehicles) + 1
<1>1. CASE UNCHANGED <<table, caches, walk>>
  BY <1>1, HistoryKept DEF Typed, TypeOK, StoresTyped, table, caches, Ids
<1>2. CASE pc[h] = "insert" /\ Inserted(h) /\ UNCHANGED <<retired, caches, walk>>
  BY <1>2, InsertedTyped DEF walking
<1>3. CASE pc[h] = "write" /\ Writable(h) /\ Written(h) /\ UNCHANGED <<retired, caches>>
  BY <1>3, WrittenTyped
<1>4. CASE pc[h] = "retire" /\ Retired(h) /\ UNCHANGED <<vehicles, caches>>
  BY <1>4, RetiredTyped
<1>5. CASE /\ UNCHANGED <<table, walk>>
           /\ \/ /\ pc[h] \in {"set", "fill", "evict"} /\ Stored(h)
                 /\ UNCHANGED <<index, leased, docs>>
              \/ /\ pc[h] = "change" /\ IndexChanged(h)
                 /\ UNCHANGED <<details, docs>>
              \/ /\ pc[h] = "zadd" /\ Hydrated(h)
                 /\ UNCHANGED <<details, leased, docs>>
              \/ /\ pc[h] = "doc" /\ Published(h)
                 /\ UNCHANGED <<details, index, leased>>
  <2>1. StoresTyped'
    BY <1>5, StoredTyped, IndexChangedTyped, HydratedTyped, PublishedTyped
  <2>2. HistoryTyped' /\ Ids' = Ids /\ UNCHANGED vehicles
    BY <1>5, HistoryKept DEF table, Ids
  <2> QED BY <1>5, <2>1, <2>2
<1> QED BY <1>1, <1>2, <1>3, <1>4, <1>5 DEF Applied

\* After an error that is swallowed a handler goes on, though it may be done
\* with its caches.
LEMMA Swallows ==
    ASSUME Typed, NEW h \in Busy, Swallow(h)
    PROVE  \E label \in Labels \ {"idle"} :
              /\ Goto(h, label) /\ pc[h] \notin {"insert", "write"}
              /\ Placed(label, job[h], Ids, walk) /\ Pending(label, job[h])
<1>1. Placed(pc[h], job[h], Ids, walk) /\ Pending(pc[h], job[h])
  BY HasPlace
<1>2. CASE pc[h] = "set"
  <2>1. PICK label \in {"index", "doc"} : Goto(h, label)
    BY <1>2 DEF Swallow
  <2>2. /\ Placed(label, job[h], Ids, walk) /\ Pending(label, job[h])
        /\ label \in Labels \ {"idle"}
    BY <1>1, <1>2 DEF Placed, Pending, Owing, Stitching, Labels
  <2> QED BY <1>2, <2>1, <2>2
<1>3. CASE pc[h] \in {"evict", "index", "change"}
  <2>1. Goto(h, "doc")
    BY <1>3 DEF Swallow
  <2>2. /\ Placed("doc", job[h], Ids, walk) /\ Pending("doc", job[h])
        /\ "doc" \in Labels \ {"idle"}
    BY <1>1, <1>3 DEF Placed, Pending, Owing, Stitching, Labels
  <2> QED BY <1>3, <2>1, <2>2
<1>4. CASE pc[h] = "get"
  <2>1. Goto(h, "load")
    BY <1>4 DEF Swallow
  <2>2. /\ Placed("load", job[h], Ids, walk) /\ Pending("load", job[h])
        /\ "load" \in Labels \ {"idle"}
    BY <1>1, <1>4 DEF Placed, Pending, Owing, Stitching, Labels
  <2> QED BY <1>4, <2>1, <2>2
<1>5. CASE pc[h] \in {"hits", "exists", "ids", "zadd", "expire", "range"}
  <2>1. Goto(h, "fallback")
    BY <1>5 DEF Swallow
  <2>2. /\ Placed("fallback", job[h], Ids, walk) /\ Pending("fallback", job[h])
        /\ "fallback" \in Labels \ {"idle"}
    BY <1>1, <1>5 DEF Placed, Pending, Owing, Stitching, Labels
  <2> QED BY <1>5, <2>1, <2>2
<1> QED BY <1>2, <1>3, <1>4, <1>5 DEF Swallow

LEMMA FailTyped ==
    ASSUME Typed, NEW h \in Handlers, Fail(h)
    PROVE  Typed'
<1>1. /\ h \in Busy /\ Applied(h) /\ UNCHANGED missed
      /\ Answer(h) \/ (Swallow(h) /\ UNCHANGED job)
      /\ UpsetTyped'
  BY Fails, NoteTyped
<1>2. /\ StoresTyped' /\ HistoryTyped' /\ Ids \subseteq Ids'
      /\ walk \in Walks => walk' \in Walks
      /\ \/ UNCHANGED vehicles
         \/ pc[h] = "write" /\ Len(vehicles') = Len(vehicles)
         \/ pc[h] = "insert" /\ h \in Creating /\ Len(vehicles') = Len(vehicles) + 1
  BY <1>1, AppliedTyped
<1>3. CASE Answer(h)
  <2>1. TypeOK' /\ JobsTyped' /\ OneList'
    BY <1>1, <1>2, <1>3, Answers
  <2>2. Room'
    BY <1>2, <1>3, RoomStays, RoomFilled DEF Answer, Goto
  <2> QED BY <2>1, <2>2 DEF Typed
<1>4. CASE Swallow(h) /\ UNCHANGED job
  <2>1. PICK label \in Labels \ {"idle"} :
              /\ Goto(h, label) /\ pc[h] \notin {"insert", "write"}
              /\ Placed(label, job[h], Ids, walk) /\ Pending(label, job[h])
    BY <1>1, <1>4, Swallows
  <2>2. UNCHANGED vehicles /\ job[h] \in Jobs
    BY <1>1, <1>2, <2>1, HasPlace
  <2> QED BY <1>1, <1>2, <1>4, <2>1, <2>2, SameJob, GoesOn DEF Goto
<1> QED BY <1>1, <1>3, <1>4

LEMMA NobodyMoves ==
    ASSUME Typed, StoresTyped', HistoryTyped', UNCHANGED <<vehicles, pc, job, walk>>
    PROVE  Typed'
BY DEF Typed, TypeOK, StoresTyped, HistoryTyped, JobsTyped, Room, OneList, Busy,
       Creating, Ids

LEMMA ExpiryTyped ==
    ASSUME Typed,
           \/ \E id \in Slots : DetailsExpire(id)
           \/ \E key \in Keys : IndexExpires(key)
           \/ UNCHANGED vars
    PROVE  Typed'
<1>1. ASSUME NEW id \in Slots, DetailsExpire(id)
      PROVE  Typed'
  <2>1. StoresTyped'
    BY <1>1 DEF DetailsExpire, Typed, TypeOK, StoresTyped, table, Ids
  <2>2. HistoryTyped' /\ UNCHANGED <<vehicles, pc, job, walk>>
    BY <1>1, HistoryKept DEF DetailsExpire, table, walking, UpsetTyped, Typed, TypeOK
  <2> QED BY <2>1, <2>2, NobodyMoves
<1>2. ASSUME NEW key \in Keys, IndexExpires(key)
      PROVE  Typed'
  <2>1. StoresTyped'
    BY <1>2 DEF IndexExpires, Typed, TypeOK, StoresTyped, table, Ids
  <2>2. HistoryTyped' /\ UNCHANGED <<vehicles, pc, job, walk>>
    BY <1>2, HistoryKept, NoteTyped DEF IndexExpires, table, walking
  <2> QED BY <2>1, <2>2, NobodyMoves
<1>3. CASE UNCHANGED vars
  <2>1. StoresTyped' /\ HistoryTyped'
    BY <1>3 DEF vars, Typed, TypeOK, StoresTyped, HistoryTyped, Ids, Live
  <2> QED BY <1>3, <2>1, NobodyMoves DEF vars
<1> QED BY <1>1, <1>2, <1>3

LEMMA TypedStep == Typed /\ [Next]_vars => Typed'
<1> SUFFICES ASSUME Typed, [Next]_vars
             PROVE  Typed'
  OBVIOUS
<1>1. ASSUME NEW h \in Handlers, Start(h)
      PROVE  Typed'
  BY <1>1, StartCreateTyped, StartUpdateTyped, StartDeleteTyped, StartGetTyped,
     StartListTyped, StartSearchTyped DEF Start
<1>2. ASSUME NEW h \in Handlers, Step(h)
      PROVE  Typed'
  BY <1>2, CheckPlateTyped, InsertTyped, UpdateTyped, RetireTyped, StoreTyped,
     IndexExistsTyped, ChangeIndexTyped, PublishTyped, GetTyped, LoadTyped,
     HydrateExistsTyped, FindActiveIdsTyped, HydrateTyped, ExpireIndexTyped,
     ZRangeTyped, HitsTyped, StitchTyped, FindRowsTyped, CacheRowTyped,
     FallBackTyped DEF Step
<1>3. ASSUME NEW h \in Handlers, Fail(h)
      PROVE  Typed'
  BY <1>3, FailTyped
<1> QED BY <1>1, <1>2, <1>3, ExpiryTyped DEF Next, Quiet

LEMMA TypedInvariant == Spec => []Typed
BY TypedInit, TypedStep, PTL DEF Spec

\* The table, the caches, the documents and the walk keep their types in every
\* run: a row stays a row under updates that leave fields out, an index holds
\* vehicles that exist, a key that has a TTL exists, and what is owed to a walk
\* is live, whatever the requests, failures and expiries.
THEOREM CatalogTypeCorrect == Spec => []TypeOK
<1>1. Typed => TypeOK
  BY DEF Typed
<1> QED BY <1>1, TypedInvariant, PTL
-----------------------------------------------------------------------------
(***************************************************************************)
(* The stores agree, and the lists are complete, in regular histories.     *)
(*                                                                         *)
(* Neither is true between the steps of a request.  What is true at every  *)
(* step is that a store differs from the table only for a vehicle of which *)
(* a handler has a change of that store still to make, and that what this  *)
(* handler has in hand is what the table says.                             *)
(***************************************************************************)
Apart == \A g, h \in Busy : g # h => ~Conflict(job[g], job[h])

\* A handler that writes vehicle `id` is at one of these awaits.
Unsettled(id, labels) ==
    \E h \in Busy : job[h].op \in Writes /\ job[h].id = id /\ pc[h] \in labels

\* The handler has still to move the vehicle in or out of this index.
Owes(h, id, key) ==
    /\ job[h].id = id
    /\ \E n \in DOMAIN job[h].todo : job[h].todo[n][2] = key

Lists == {All} \cup Categories

\* What a handler has read of its vehicle is what the table says.
Current(h) ==
    /\ pc[h] \in {"plate", "write", "retire"} /\ job[h].op # "create" =>
           job[h].id \in Live /\ job[h].row = vehicles[job[h].id]
    /\ pc[h] \in {"set", "fill", "index", "change", "doc"} /\ job[h].op # "delete" =>
           job[h].id \in Live /\ job[h].row = vehicles[job[h].id]
    /\ pc[h] \in {"evict", "index", "change", "doc"} /\ job[h].op = "delete" =>
           job[h].id \in retired
    /\ pc[h] = "cache" =>
           /\ job[h].missing \subseteq Live
           /\ \A id \in job[h].missing : job[h].rows[id] = vehicles[id]

\* The moves that a handler has still to make are the right ones.
TodoRight(h) ==
    /\ pc[h] = "doc" => job[h].todo = <<>>
    /\ \A n \in DOMAIN job[h].todo : \A list \in Lists :
          job[h].todo[n][2] = IndexOf(list) =>
              (job[h].todo[n][1] = "add" <=> job[h].id \in ActiveIds(list))

\* A page that is being made is one of the list as the table has it, from
\* whichever store it comes.
Listing(h) ==
    job[h].op = "list" =>
        /\ pc[h] \in {"ids", "zadd"} => index[IndexOf(walk.list)] = {}
        /\ pc[h] = "zadd" =>
              job[h].ids = ActiveIds(walk.list) /\ ActiveIds(walk.list) # {}
        /\ pc[h] = "expire" =>
              index[IndexOf(walk.list)] # {} /\ IndexOf(walk.list) \notin leased
        /\ pc[h] = "range" =>
              index[IndexOf(walk.list)] # {} \/ ActiveIds(walk.list) = {}
        /\ pc[h] \in {"stitch", "rows", "cache"} =>
              job[h].ids = Page(ActiveIds(walk.list))
        /\ pc[h] = "rows" => job[h].missing \subseteq job[h].ids

HandlerRight(h) == Current(h) /\ TodoRight(h) /\ Listing(h)

DetailsRight ==
    \A id \in Slots :
        details[id] # None =>
            \/ id \in Live /\ details[id] = vehicles[id]
            \/ Unsettled(id, {"set", "evict"})

DocsRight ==
    \A id \in Slots :
        \/ docs[id] = IF id \in Live THEN vehicles[id] ELSE None
        \/ Unsettled(id, Owing)

IndexRight ==
    \A list \in Lists : \A id \in Ids :
        index[IndexOf(list)] # {} =>
            \/ id \in index[IndexOf(list)] <=> id \in ActiveIds(list)
            \/ \E h \in Busy : Owes(h, id, IndexOf(list))

LeasesRight ==
    \A key \in Keys :
        index[key] # {} /\ key \notin leased =>
            \E h \in Busy : pc[h] = "expire" /\ IndexOf(walk.list) = key

\* What is owed to the customer is still on the list, below the cursor.
WalkRight ==
    /\ missed = {}
    /\ walk # None =>
          walk.owed \subseteq Below(ActiveIds(walk.list), walk.cursor)

Agreeing ==
    /\ Apart
    /\ \A h \in Busy : HandlerRight(h)
    /\ DetailsRight /\ DocsRight /\ IndexRight /\ LeasesRight
    /\ WalkRight

CatalogInv == Typed /\ (Regular => Agreeing)

LEMMA AgreeingInit == Init => Agreeing
<1> SUFFICES ASSUME Init
             PROVE  Agreeing
  OBVIOUS
<1>1. Busy = {} /\ Ids = {} /\ Live = {}
  BY DEF Init, Busy, Ids, Live
<1>2. \A key \in Keys : index[key] = {}
  BY DEF Init
<1>3. DetailsRight /\ DocsRight
  BY <1>1 DEF Init, DetailsRight, DocsRight
<1>4. IndexRight /\ LeasesRight
  BY <1>1, <1>2 DEF IndexRight, LeasesRight
<1>5. WalkRight
  BY DEF Init, WalkRight
<1> QED BY <1>1, <1>3, <1>4, <1>5 DEF Agreeing, Apart

-----------------------------------------------------------------------------
(***************************************************************************)
(* Who gets in whose way.                                                  *)
(***************************************************************************)
LEMMA WriterAlone ==
    ASSUME Typed, Apart, NEW h \in Busy, job[h].op \in Writes
    PROVE  \A g \in Busy \ {h} :
              /\ job[g].op \notin {"list", "search"}
              /\ job[h].id \in Ids => job[g].id # job[h].id
<1> SUFFICES ASSUME NEW g \in Busy \ {h}
             PROVE  /\ job[g].op \notin {"list", "search"}
                    /\ job[h].id \in Ids => job[g].id # job[h].id
  OBVIOUS
<1>1. ~Conflict(job[g], job[h])
  BY DEF Apart
<1>2. job[h].id \in Ids => job[h].id # 0
  BY IdsAreSlots, SlotsAreNumbers
<1> QED BY <1>1, <1>2 DEF Conflict

LEMMA ListsAmongReaders ==
    ASSUME Typed, Apart, NEW h \in Busy, job[h].op \in {"list", "search"}
    PROVE  \A g \in Busy : job[g].op \notin Writes
<1> SUFFICES ASSUME NEW g \in Busy, job[g].op \in Writes
             PROVE  FALSE
  OBVIOUS
<1>1. job[h].op \notin Writes
  BY DEF Writes
<1>2. g # h
  BY <1>1
<1> QED BY <1>2, WriterAlone

\* Only writers have anything to do to an index.
LEMMA OnlyWritersOwe ==
    ASSUME Typed, NEW h \in Busy, job[h].todo # <<>>
    PROVE  job[h].op \in Writes /\ pc[h] \in Owing /\ job[h].id \in Ids
<1>1. pc[h] \in Owing
  BY HasPlace DEF Pending
<1> QED BY <1>1, HasPlace DEF Placed, Owing, Stitching, Writes

LEMMA OwesMeansWrites ==
    ASSUME Typed, NEW h \in Busy, NEW id, NEW key, Owes(h, id, key)
    PROVE  job[h].op \in Writes /\ pc[h] \in Owing /\ job[h].id = id
<1>1. job[h].todo # <<>>
  BY DEF Owes
<1> QED BY <1>1, OnlyWritersOwe DEF Owes

\* While a list or a search is made, the stores are as they should be.
LEMMA SettledForLists ==
    ASSUME Typed, Agreeing, NEW h \in Busy, job[h].op \in {"list", "search"},
           NEW list \in Lists, index[IndexOf(list)] # {}
    PROVE  index[IndexOf(list)] = ActiveIds(list)
<1>1. \A g \in Busy : job[g].op \notin Writes
  BY ListsAmongReaders DEF Agreeing
<1>2. \A id \in Ids : id \in index[IndexOf(list)] <=> id \in ActiveIds(list)
  BY <1>1, OwesMeansWrites DEF Agreeing, IndexRight
<1>3. IndexOf(list) \in Keys
  BY DEF Lists, IndexOf, Keys
<1>4. index[IndexOf(list)] \subseteq Ids
  BY <1>3 DEF Typed, TypeOK
<1>5. ActiveIds(list) \subseteq Ids
  BY IdsAreSlots DEF ActiveIds
<1> QED BY <1>2, <1>4, <1>5

\* Different lists have different indexes.
LEMMA OneIndexEach ==
    ASSUME Regular, NEW k \in Lists, NEW l \in Lists, IndexOf(k) = IndexOf(l)
    PROVE  k = l
BY CatalogAssumption DEF Regular, Lists, IndexOf

-----------------------------------------------------------------------------
(***************************************************************************)
(* What a step of one handler leaves as it is.                             *)
(***************************************************************************)
Others(h) ==
    \A g \in Handlers \ {h} : pc'[g] = pc[g] /\ job'[g] = job[g]

\* The rows are what they were, but perhaps for one.
RowsStay(id) ==
    /\ Ids \subseteq Ids' /\ Ids' \subseteq Ids \cup {id}
    /\ \A i \in Ids \ {id} : /\ vehicles'[i] = vehicles[i]
                             /\ i \in retired' <=> i \in retired

LEMMA OthersStay ==
    ASSUME Typed, NEW h \in Handlers, NEW label, NEW j,
           pc' = [pc EXCEPT ![h] = label], job' = [job EXCEPT ![h] = j]
    PROVE  Others(h) /\ pc'[h] = label /\ job'[h] = j
BY DEF Others, Typed, TypeOK, JobsTyped

LEMMA OthersBusy ==
    ASSUME NEW h \in Handlers, Others(h)
    PROVE  \A g \in Handlers \ {h} : g \in Busy' <=> g \in Busy
BY DEF Others, Busy

LEMMA RowsUnchanged ==
    ASSUME Typed, UNCHANGED table, NEW id
    PROVE  RowsStay(id) /\ Live' = Live /\ Ids' = Ids
           /\ \A list : ActiveIds(list)' = ActiveIds(list)
BY DEF table, RowsStay, Live, Ids, ActiveIds

LEMMA ActiveElsewhere ==
    ASSUME Typed, NEW id, RowsStay(id), NEW i \in Ids, i # id
    PROVE  /\ i \in Ids' /\ vehicles'[i] = vehicles[i]
           /\ i \in Live' <=> i \in Live
           /\ i \in retired' <=> i \in retired
           /\ \A list : i \in ActiveIds(list)' <=> i \in ActiveIds(list)
BY DEF RowsStay, Live, ActiveIds

\* A handler that is not stepping, and whose vehicle nobody touches.
LEMMA BystanderRight ==
    ASSUME Typed, NEW g \in Busy, HandlerRight(g),
           pc'[g] = pc[g], job'[g] = job[g], NEW id, RowsStay(id),
           UNCHANGED table \/ job[g].id # id,
           job[g].op \in {"list", "search"} => UNCHANGED table,
           job[g].op = "list" => UNCHANGED <<index, leased, walk>>
    PROVE  HandlerRight(g)'
<1>1. Placed(pc[g], job[g], Ids, walk) /\ Pending(pc[g], job[g])
  BY HasPlace
<1>2. CASE UNCHANGED table
  <2>1. Live' = Live /\ UNCHANGED <<vehicles, retired>>
        /\ \A list : ActiveIds(list)' = ActiveIds(list)
    BY <1>2, RowsUnchanged DEF table
  <2>2. Current(g)'
    BY <2>1 DEF HandlerRight, Current
  <2>3. TodoRight(g)'
    BY <2>1 DEF HandlerRight, TodoRight
  <2>4. Listing(g)'
    <3> SUFFICES ASSUME job[g].op = "list"
                 PROVE  Listing(g)'
      BY DEF Listing
    <3>1. /\ UNCHANGED <<index, leased, walk>>
          /\ ActiveIds(walk.list)' = ActiveIds(walk.list)
      BY <2>1
    <3>2. Page(ActiveIds(walk.list))' = Page(ActiveIds(walk.list))
      BY <3>1 DEF Page
    <3> QED BY <3>1, <3>2 DEF HandlerRight, Listing
  <2> QED BY <2>2, <2>3, <2>4 DEF HandlerRight
<1>3. CASE job[g].id # id /\ job[g].op \notin {"list", "search"}
  <2>1. job[g].id \in Ids =>
           /\ vehicles'[job[g].id] = vehicles[job[g].id]
           /\ job[g].id \in Live' <=> job[g].id \in Live
           /\ job[g].id \in retired' <=> job[g].id \in retired
           /\ \A list : job[g].id \in ActiveIds(list)' <=> job[g].id \in ActiveIds(list)
    BY <1>3, ActiveElsewhere
  <2>2. Current(g)'
    BY <1>1, <1>3, <2>1 DEF HandlerRight, Current, Placed, Stitching
  <2>3. TodoRight(g)'
    <3>1. CASE job[g].todo = <<>>
      BY <3>1 DEF TodoRight
    <3>2. CASE job[g].todo # <<>>
      BY <2>1, <3>2, OnlyWritersOwe DEF HandlerRight, TodoRight
    <3> QED BY <3>1, <3>2
  <2>4. Listing(g)'
    BY <1>3 DEF Listing
  <2> QED BY <2>2, <2>3, <2>4 DEF HandlerRight
<1> QED BY <1>2, <1>3

LEMMA ApartStays ==
    ASSUME Typed, Apart, NEW h \in Busy, Others(h),
           h \in Busy' => job'[h].op = job[h].op /\ job'[h].id = job[h].id
    PROVE  Apart'
<1>1. \A g \in Busy' : /\ g \in Busy
                       /\ job'[g].op = job[g].op /\ job'[g].id = job[g].id
  BY OthersBusy DEF Others, Busy
<1>2. ASSUME NEW f \in Busy', NEW g \in Busy', f # g
      PROVE  ~Conflict(job'[f], job'[g])
  <2>1. ~Conflict(job[f], job[g])
    BY <1>1, <1>2 DEF Apart
  <2> QED BY <1>1, <2>1 DEF Conflict
<1> QED BY <1>2 DEF Apart

\* The cached details of all vehicles but one stay right.
LEMMA DetailsStay ==
    ASSUME Typed, DetailsRight, NEW h \in Handlers, Others(h), NEW id, RowsStay(id),
           \A i \in Slots \ {id} : details'[i] = details[i],
           h \in Busy /\ job[h].op \in Writes /\ pc[h] \in {"set", "evict"} =>
               job[h].id = id,
           id \in Slots /\ details'[id] # None =>
               \/ id \in Live' /\ details'[id] = vehicles'[id]
               \/ Unsettled(id, {"set", "evict"})'
    PROVE  DetailsRight'
<1> SUFFICES ASSUME NEW i \in Slots, i # id, details'[i] # None
             PROVE  \/ i \in Live' /\ details'[i] = vehicles'[i]
                    \/ Unsettled(i, {"set", "evict"})'
  BY DEF DetailsRight
<1>1. CASE i \in Live /\ details[i] = vehicles[i]
  BY <1>1, ActiveElsewhere, IdsAreSlots
<1>2. CASE Unsettled(i, {"set", "evict"})
  <2>1. PICK g \in Busy : /\ job[g].op \in Writes /\ job[g].id = i
                          /\ pc[g] \in {"set", "evict"}
    BY <1>2 DEF Unsettled
  <2>2. g # h /\ g \in Handlers
    BY <2>1 DEF Busy
  <2>3. g \in Busy' /\ pc'[g] = pc[g] /\ job'[g] = job[g]
    BY <2>2, OthersBusy DEF Others
  <2> QED BY <2>1, <2>3 DEF Unsettled
<1> QED BY <1>1, <1>2 DEF DetailsRight

\* So do their documents.
LEMMA DocsStay ==
    ASSUME Typed, DocsRight, NEW h \in Handlers, Others(h), NEW id, RowsStay(id),
           \A i \in Slots \ {id} : docs'[i] = docs[i],
           h \in Busy /\ job[h].op \in Writes /\ pc[h] \in Owing => job[h].id = id,
           id \in Slots => \/ docs'[id] = IF id \in Live' THEN vehicles'[id] ELSE None
                           \/ Unsettled(id, Owing)'
    PROVE  DocsRight'
<1> SUFFICES ASSUME NEW i \in Slots, i # id
             PROVE  \/ docs'[i] = IF i \in Live' THEN vehicles'[i] ELSE None
                    \/ Unsettled(i, Owing)'
  BY DEF DocsRight
<1>1. CASE docs[i] = IF i \in Live THEN vehicles[i] ELSE None
  <2>1. CASE i \in Ids
    BY <1>1, <2>1, ActiveElsewhere
  <2>2. CASE i \notin Ids
    BY <1>1, <2>2 DEF RowsStay, Live
  <2> QED BY <2>1, <2>2
<1>2. CASE Unsettled(i, Owing)
  <2>1. PICK g \in Busy : job[g].op \in Writes /\ job[g].id = i /\ pc[g] \in Owing
    BY <1>2 DEF Unsettled
  <2>2. g # h /\ g \in Handlers
    BY <2>1 DEF Busy
  <2>3. g \in Busy' /\ pc'[g] = pc[g] /\ job'[g] = job[g]
    BY <2>2, OthersBusy DEF Others
  <2> QED BY <2>1, <2>3 DEF Unsettled
<1> QED BY <1>1, <1>2 DEF DocsRight

\* And their places in the indexes.
LEMMA IndexStays ==
    ASSUME Typed, IndexRight, NEW h \in Handlers, Others(h), NEW id, RowsStay(id),
           \A list \in Lists : index'[IndexOf(list)] # {} =>
               /\ index[IndexOf(list)] # {}
               /\ \A i \in Ids \ {id} :
                     i \in index'[IndexOf(list)] <=> i \in index[IndexOf(list)],
           h \in Busy /\ job[h].todo # <<>> => job[h].id = id,
           \A list \in Lists : id \in Ids' /\ index'[IndexOf(list)] # {} =>
               \/ id \in index'[IndexOf(list)] <=> id \in ActiveIds(list)'
               \/ \E g \in Busy' : Owes(g, id, IndexOf(list))'
    PROVE  IndexRight'
<1> SUFFICES ASSUME NEW list \in Lists, NEW i \in Ids', i # id,
                    index'[IndexOf(list)] # {}
             PROVE  \/ i \in index'[IndexOf(list)] <=> i \in ActiveIds(list)'
                    \/ \E g \in Busy' : Owes(g, i, IndexOf(list))'
  BY DEF IndexRight, IndexOf
<1>0. i \in Ids
  BY DEF RowsStay
<1>1. CASE i \in index[IndexOf(list)] <=> i \in ActiveIds(list)
  BY <1>0, <1>1, ActiveElsewhere
<1>2. CASE \E g \in Busy : Owes(g, i, IndexOf(list))
  <2>1. PICK g \in Busy : Owes(g, i, IndexOf(list))
    BY <1>2
  <2>2. g # h /\ g \in Handlers
    BY <2>1 DEF Owes, Busy
  <2>3. g \in Busy' /\ job'[g] = job[g]
    BY <2>2, OthersBusy DEF Others
  <2>4. Owes(g, i, IndexOf(list))'
    BY <2>1, <2>3 DEF Owes, IndexOf
  <2> QED BY <2>3, <2>4
<1> QED BY <1>0, <1>1, <1>2 DEF IndexRight

LEMMA LeasesStay ==
    ASSUME Typed, LeasesRight, NEW h \in Handlers, Others(h),
           h \in Busy => pc[h] # "expire",
           walk' = walk \/ walk'.list = walk.list
               \/ \A g \in Busy \ {h} : job[g].op # "list",
           \A key \in Keys : index'[key] # {} /\ key \notin leased' =>
               index[key] # {} /\ key \notin leased
    PROVE  LeasesRight'
<1> SUFFICES ASSUME NEW key \in Keys, index'[key] # {}, key \notin leased'
             PROVE  \E g \in Busy' : pc'[g] = "expire" /\ IndexOf(walk'.list) = key
  BY DEF LeasesRight, IndexOf
<1>1. PICK g \in Busy : pc[g] = "expire" /\ IndexOf(walk.list) = key
  BY DEF LeasesRight
<1>2. g # h /\ g \in Handlers
  BY <1>1 DEF Busy
<1>3. g \in Busy' /\ pc'[g] = pc[g]
  BY <1>2, OthersBusy DEF Others
<1>4. job[g].op = "list"
  BY <1>1, HasPlace DEF Placed, Stitching
<1>5. walk' = walk \/ walk'.list = walk.list
  BY <1>2, <1>4
<1>6. IndexOf(walk'.list) = IndexOf(walk.list)
  BY <1>5 DEF IndexOf
<1> QED BY <1>1, <1>3, <1>6

\* The same vehicles are owed, of a list that has lost none of them.
LEMMA WalkStays ==
    ASSUME Typed, WalkRight, UNCHANGED walking, NEW id, RowsStay(id),
           id \in Ids => id \in Live' /\ vehicles'[id].category = vehicles[id].category
    PROVE  WalkRight'
<1>1. \A list : ActiveIds(list) \subseteq ActiveIds(list)'
  <2> SUFFICES ASSUME NEW list, NEW i \in ActiveIds(list)
               PROVE  i \in ActiveIds(list)'
    OBVIOUS
  <2>1. i \in Live /\ i \in Ids /\ (list # All => vehicles[i].category = list)
    BY IdsAreSlots DEF ActiveIds
  <2>2. i \in Live' /\ vehicles'[i].category = vehicles[i].category
    BY <2>1, ActiveElsewhere
  <2> QED BY <2>1, <2>2 DEF ActiveIds
<1>2. missed' = missed /\ walk' = walk
  BY DEF walking
<1>3. ActiveIds(walk.list) \subseteq ActiveIds(walk.list)'
  BY <1>1, <1>2 DEF ActiveIds
<1> QED BY <1>2, <1>3 DEF WalkRight, Below

LEMMA WalkUnchanged ==
    ASSUME Typed, WalkRight, UNCHANGED <<table, walking>>
    PROVE  WalkRight'
BY RowsUnchanged DEF WalkRight, walking, Below

-----------------------------------------------------------------------------
(***************************************************************************)
(* Steps that only read.                                                   *)
(***************************************************************************)
LEMMA ReaderRegular ==
    ASSUME Typed, Agreeing, NEW h \in Handlers, Others(h),
           UNCHANGED <<table, caches>>,
           h \in Busy => pc[h] \notin Owing \cup {"expire"},
           walk' = walk \/ \A g \in Busy \ {h} : job[g].op # "list",
           Apart', h \in Busy' => HandlerRight(h)', WalkRight'
    PROVE  Agreeing'
<1>1. RowsStay(0) /\ 0 \notin Slots /\ 0 \notin Ids /\ Ids' = Ids
  BY RowsUnchanged, SlotsAreNumbers, IdsAreSlots
<1>2. UNCHANGED <<details, docs, index, leased>>
  BY DEF caches
<1>3. ASSUME NEW g \in Busy', g # h
      PROVE  HandlerRight(g)'
  <2>1. g \in Busy /\ pc'[g] = pc[g] /\ job'[g] = job[g] /\ HandlerRight(g)
    BY <1>3, OthersBusy DEF Others, Agreeing, Busy
  <2> QED BY <1>1, <1>2, <1>3, <2>1, BystanderRight
<1>4. DetailsRight'
  BY <1>1, <1>2, DetailsStay DEF Agreeing, Owing
<1>5. DocsRight'
  BY <1>1, <1>2, DocsStay DEF Agreeing
<1>6. h \in Busy => job[h].todo = <<>>
  BY OnlyWritersOwe
<1>7. IndexRight'
  BY <1>1, <1>2, <1>6, IndexStays DEF Agreeing
<1>8. LeasesRight'
  BY <1>2, LeasesStay DEF Agreeing
<1> QED BY <1>3, <1>4, <1>5, <1>7, <1>8 DEF Agreeing

\* A handler that reads goes on, or answers.
LEMMA ReaderGoesOn ==
    ASSUME Typed, Agreeing, NEW h \in Busy, NEW label, NEW j,
           pc' = [pc EXCEPT ![h] = label], job' = [job EXCEPT ![h] = j],
           UNCHANGED <<table, caches, walking>>,
           pc[h] \notin Owing \cup {"expire"},
           label # "idle" => j.op = job[h].op /\ j.id = job[h].id /\ HandlerRight(h)'
    PROVE  Agreeing'
<1>1. h \in Handlers /\ Others(h) /\ pc'[h] = label /\ job'[h] = j
  BY OthersStay DEF Busy
<1>2. h \in Busy' <=> label # "idle"
  BY <1>1 DEF Busy
<1>3. Apart'
  BY <1>1, <1>2, ApartStays DEF Agreeing
<1>4. WalkRight' /\ walk' = walk
  BY WalkUnchanged DEF Agreeing, walking
<1> QED BY <1>1, <1>2, <1>3, <1>4, ReaderRegular

LEMMA ReaderAnswers ==
    ASSUME Typed, Agreeing, NEW h \in Busy, Answer(h),
           UNCHANGED <<table, caches, walking>>,
           pc[h] \notin Owing \cup {"expire"}
    PROVE  Agreeing'
BY ReaderGoesOn DEF Answer, Goto

\* The page that ends a list's request, and what is owed after it.
LEMMA RespondWalk ==
    ASSUME Typed, Agreeing, NEW h \in Busy, NEW S, Respond(h, S), UNCHANGED table,
           job[h].op \in {"list", "search"},
           job[h].op = "list" => S = Page(ActiveIds(walk.list))
    PROVE  WalkRight'
<1>1. CASE job[h].op = "search"
  <2>1. UNCHANGED walking
    BY <1>1 DEF Respond
  <2> QED BY <2>1, WalkUnchanged DEF Agreeing
<1>2. CASE job[h].op = "list"
  <2> DEFINE A == ActiveIds(walk.list)
             B == Below(A, walk.cursor)
             page == Top(S, Limit)
  <2>1. walk \in Walks /\ walk # None
    BY <1>2, HasPlace, CatalogAssumption DEF Placed
  <2>2. A \in SUBSET Slots /\ B \in SUBSET Slots /\ B \subseteq A
    BY IdsAreSlots DEF ActiveIds, Below
  <2>3. walk.owed \subseteq B /\ missed = {}
    BY <2>1 DEF Agreeing, WalkRight
  <2>4. S = Top(B, Limit + 1) /\ S \subseteq B
    BY <1>2 DEF Page, PageFrom, Top
  <2>5. Limit \in Nat \ {0} /\ Limit + 1 \in Nat
    BY CatalogAssumption
  <2>6. page \subseteq S
    BY DEF Top
  <2>7. CASE S = page /\ walk' = None /\ missed' = missed \cup (walk.owed \ page)
    <3>1. S = B
      BY <2>2, <2>4, <2>5, <2>7, NextIsSeen
    <3> QED BY <2>3, <2>7, <3>1 DEF WalkRight
  <2>8. CASE /\ S # page /\ UNCHANGED missed
             /\ walk' = [walk EXCEPT
                           !.cursor = CHOOSE i \in page : \A j \in page : i <= j,
                           !.owed = walk.owed \ page]
    <3> DEFINE c == CHOOSE i \in page : \A j \in page : i <= j
    <3>1. S # {} /\ S \in SUBSET Slots
      BY <2>2, <2>4, <2>6, <2>8
    <3>2. page # {} /\ page \in SUBSET Slots
      BY <2>5, <2>6, <3>1, TopNonEmpty
    <3>3. c \in page /\ \A j \in page : c <= j
      BY <3>2, Least
    <3> HIDE DEF c
    <3>4. ASSUME NEW id \in walk.owed \ page
          PROVE  id < c
      <4>1. id \in B /\ id \in Slots /\ c \in S /\ c \in Slots /\ id # c
        BY <2>2, <2>3, <2>6, <3>1, <3>3
      <4>2. ASSUME id > c
            PROVE  FALSE
        <5>1. id \in S
          BY <2>2, <2>4, <2>5, <4>1, <4>2, TopClosed
        <5>2. id \in page
          BY <2>5, <3>1, <3>3, <4>2, <5>1, TopClosed
        <5> QED BY <5>2
      <4> QED BY <4>1, <4>2, SlotsAreNumbers
    <3>5. /\ walk'.list = walk.list /\ walk'.cursor = c
          /\ walk'.owed = walk.owed \ page
      BY <2>1, <2>8 DEF c, Walks
    <3>6. ActiveIds(walk.list)' = A
      BY <3>5 DEF ActiveIds, Live, Ids, table
    <3>7. walk'.owed \subseteq Below(A, c)
      BY <2>2, <2>3, <3>4, <3>5 DEF Below
    <3>8. missed' = {}
      BY <2>3, <2>8
    <3>9. (walk.owed \subseteq Below(ActiveIds(walk.list), walk.cursor))'
      BY <3>5, <3>6, <3>7 DEF Below
    <3> QED BY <3>8, <3>9 DEF WalkRight
  <2> QED BY <1>2, <2>7, <2>8 DEF Respond
<1> QED BY <1>1, <1>2

LEMMA ReaderResponds ==
    ASSUME Typed, Agreeing, NEW h \in Busy, NEW S, Respond(h, S),
           UNCHANGED <<table, caches>>, pc[h] \notin Owing \cup {"expire"},
           job[h].op \in {"list", "search"},
           job[h].op = "list" => S = Page(ActiveIds(walk.list))
    PROVE  Agreeing'
<1>1. Answer(h)
  BY DEF Respond
<1>2. h \in Handlers /\ Others(h) /\ pc'[h] = "idle"
  BY <1>1, OthersStay DEF Busy, Answer, Goto
<1>3. h \notin Busy'
  BY <1>2 DEF Busy
<1>4. Apart'
  BY <1>2, <1>3, ApartStays DEF Agreeing
<1>5. WalkRight'
  BY RespondWalk
<1>6. walk' = walk \/ \A g \in Busy \ {h} : job[g].op # "list"
  BY DEF Respond, walking, Typed, OneList
<1> QED BY <1>2, <1>3, <1>4, <1>5, <1>6, ReaderRegular

LEMMA CheckPlateRegular ==
    ASSUME Typed, Agreeing, NEW h \in Handlers, CheckPlate(h)
    PROVE  Agreeing'
<1>1. h \in Busy /\ pc[h] = "plate" /\ job[h] \in Jobs
      /\ Placed(pc[h], job[h], Ids, walk) /\ Pending(pc[h], job[h])
  BY AtLabel DEF CheckPlate
<1>2. UNCHANGED <<table, caches, walking>> /\ pc[h] \notin Owing \cup {"expire"}
  BY <1>1 DEF CheckPlate, Owing
<1>3. CASE Answer(h)
  BY <1>1, <1>2, <1>3, ReaderAnswers
<1>4. CASE ~Answer(h)
  <2> DEFINE label == IF job[h].op = "create" THEN "insert" ELSE "write"
  <2>1. Goto(h, label) /\ UNCHANGED job
    BY <1>4 DEF CheckPlate
  <2>2. pc' = [pc EXCEPT ![h] = label] /\ job' = [job EXCEPT ![h] = job[h]]
    BY <1>1, <2>1, SameJob DEF Goto
  <2>3. pc'[h] = label /\ job'[h] = job[h]
    BY <1>1, <2>2, OthersStay DEF Busy
  <2>4. job[h].todo = <<>> /\ job[h].op \in {"create", "update"}
    BY <1>1 DEF Pending, Owing, Placed, Stitching
  <2>5. Current(h) /\ Live' = Live /\ UNCHANGED vehicles
    BY <1>1, <1>2, RowsUnchanged DEF Agreeing, HandlerRight, table
  <2>6. HandlerRight(h)'
    BY <1>1, <2>3, <2>4, <2>5 DEF HandlerRight, Current, TodoRight, Listing
  <2> HIDE DEF label
  <2> QED BY <1>1, <1>2, <2>2, <2>6, ReaderGoesOn
<1> QED BY <1>3, <1>4

LEMMA GetRegular ==
    ASSUME Typed, Agreeing, NEW h \in Handlers, Get(h)
    PROVE  Agreeing'
<1>1. h \in Busy /\ pc[h] = "get" /\ job[h] \in Jobs
      /\ Placed(pc[h], job[h], Ids, walk) /\ Pending(pc[h], job[h])
  BY AtLabel DEF Get
<1>2. UNCHANGED <<table, caches, walking>> /\ pc[h] \notin Owing \cup {"expire"}
  BY <1>1 DEF Get, Owing
<1>3. CASE Answer(h)
  BY <1>1, <1>2, <1>3, ReaderAnswers
<1>4. CASE Goto(h, "load") /\ UNCHANGED job
  <2>1. pc' = [pc EXCEPT ![h] = "load"] /\ job' = [job EXCEPT ![h] = job[h]]
    BY <1>1, <1>4, SameJob DEF Goto
  <2>2. pc'[h] = "load" /\ job'[h] = job[h]
    BY <1>1, <2>1, OthersStay DEF Busy
  <2>3. job[h].todo = <<>> /\ job[h].op # "list"
    BY <1>1 DEF Pending, Owing, Placed, Stitching
  <2>4. HandlerRight(h)'
    BY <2>2, <2>3 DEF HandlerRight, Current, TodoRight, Listing
  <2> QED BY <1>1, <1>2, <2>1, <2>4, ReaderGoesOn
<1> QED BY <1>3, <1>4 DEF Get

LEMMA LoadRegular ==
    ASSUME Typed, Agreeing, NEW h \in Handlers, Load(h)
    PROVE  Agreeing'
<1>1. h \in Busy /\ pc[h] = "load" /\ job[h] \in Jobs
      /\ Placed(pc[h], job[h], Ids, walk) /\ Pending(pc[h], job[h])
  BY AtLabel DEF Load
<1>2. UNCHANGED <<table, caches, walking>> /\ pc[h] \notin Owing \cup {"expire"}
  BY <1>1 DEF Load, Owing
<1>3. CASE Answer(h)
  BY <1>1, <1>2, <1>3, ReaderAnswers
<1>4. CASE ~Answer(h)
  <2> DEFINE j == [job[h] EXCEPT !.row = vehicles[job[h].id]]
  <2>1. Goto(h, "fill") /\ job' = [job EXCEPT ![h] = j] /\ job[h].id \in Live
    BY <1>4 DEF Load
  <2>2. pc' = [pc EXCEPT ![h] = "fill"] /\ pc'[h] = "fill" /\ job'[h] = j
    BY <1>1, <2>1, OthersStay DEF Goto, Busy
  <2>3. /\ j.op = job[h].op /\ j.id = job[h].id /\ j.row = vehicles[job[h].id]
        /\ j.todo = <<>> /\ j.op = "get"
    BY <1>1 DEF Jobs, Pending, Owing, Placed, Stitching
  <2>4. Live' = Live /\ UNCHANGED vehicles
    BY <1>2, RowsUnchanged DEF table
  <2> HIDE DEF j
  <2>5. HandlerRight(h)'
    BY <2>1, <2>2, <2>3, <2>4 DEF HandlerRight, Current, TodoRight, Listing
  <2> QED BY <1>1, <1>2, <2>1, <2>2, <2>3, <2>5, ReaderGoesOn
<1> QED BY <1>3, <1>4

LEMMA HydrateExistsRegular ==
    ASSUME Typed, Agreeing, NEW h \in Handlers, HydrateExists(h)
    PROVE  Agreeing'
<1>1. h \in Busy /\ pc[h] = "exists" /\ job[h] \in Jobs
      /\ Placed(pc[h], job[h], Ids, walk) /\ Pending(pc[h], job[h])
  BY AtLabel DEF HydrateExists
<1>2. UNCHANGED <<table, caches, walking>> /\ pc[h] \notin Owing \cup {"expire"}
  BY <1>1 DEF HydrateExists, Owing
<1> DEFINE label == IF index[IndexOf(walk.list)] # {} THEN "range" ELSE "ids"
<1>3. pc' = [pc EXCEPT ![h] = label] /\ job' = [job EXCEPT ![h] = job[h]]
  BY <1>1, SameJob DEF HydrateExists, Goto
<1>4. pc'[h] = label /\ job'[h] = job[h]
  BY <1>1, <1>3, OthersStay DEF Busy
<1>5. job[h].todo = <<>>
  BY <1>1 DEF Pending, Owing
<1>6. index' = index /\ walk' = walk
  BY <1>2 DEF caches, walking
<1>7. HandlerRight(h)'
  BY <1>4, <1>5, <1>6 DEF HandlerRight, Current, TodoRight, Listing, IndexOf
<1> HIDE DEF label
<1> QED BY <1>1, <1>2, <1>3, <1>7, ReaderGoesOn

LEMMA FindActiveIdsRegular ==
    ASSUME Typed, Agreeing, NEW h \in Handlers, FindActiveIds(h)
    PROVE  Agreeing'
<1>1. h \in Busy /\ pc[h] = "ids" /\ job[h] \in Jobs
      /\ Placed(pc[h], job[h], Ids, walk) /\ Pending(pc[h], job[h])
  BY AtLabel DEF FindActiveIds
<1>2. UNCHANGED <<table, caches, walking>> /\ pc[h] \notin Owing \cup {"expire"}
  BY <1>1 DEF FindActiveIds, Owing
<1> DEFINE active == ActiveIds(walk.list)
           label == IF active = {} THEN "range" ELSE "zadd"
           j == [job[h] EXCEPT !.ids = active]
<1>3. pc' = [pc EXCEPT ![h] = label] /\ job' = [job EXCEPT ![h] = j]
  BY DEF FindActiveIds, Goto
<1>4. pc'[h] = label /\ job'[h] = j
  BY <1>1, <1>3, OthersStay DEF Busy
<1>5. /\ j.op = job[h].op /\ j.id = job[h].id /\ j.ids = active /\ j.todo = <<>>
      /\ job[h].op = "list"
  BY <1>1 DEF Jobs, Pending, Owing, Placed, Stitching
<1>6. index' = index /\ walk' = walk
  BY <1>2 DEF caches, walking
<1>7. ActiveIds(walk.list)' = active
  BY <1>2, <1>6 DEF ActiveIds, Live, Ids, table
<1>8. index[IndexOf(walk.list)] = {}
  BY <1>1, <1>5 DEF Agreeing, HandlerRight, Listing
<1>9. (index[IndexOf(walk.list)] = {})'
  BY <1>6, <1>8 DEF IndexOf
<1> HIDE DEF active, j
<1>10. HandlerRight(h)'
  BY <1>4, <1>5, <1>7, <1>9 DEF HandlerRight, Current, TodoRight, Listing
<1> HIDE DEF label
<1> QED BY <1>1, <1>2, <1>3, <1>5, <1>10, ReaderGoesOn

\* ActiveIds and Page of the walk in a step that leaves table and walk alone.
LEMMA SamePage ==
    ASSUME UNCHANGED <<table, walking>>
    PROVE  /\ ActiveIds(walk.list)' = ActiveIds(walk.list)
           /\ Page(ActiveIds(walk.list))' = Page(ActiveIds(walk.list))
<1>1. walk' = walk /\ vehicles' = vehicles /\ retired' = retired
  BY DEF table, walking
<1>2. ActiveIds(walk.list)' = ActiveIds(walk.list)
  BY <1>1 DEF ActiveIds, Live, Ids
<1> QED BY <1>1, <1>2 DEF Page

LEMMA ZRangeRegular ==
    ASSUME Typed, Agreeing, NEW h \in Handlers, ZRange(h)
    PROVE  Agreeing'
<1>1. h \in Busy /\ pc[h] = "range" /\ job[h] \in Jobs
      /\ Placed(pc[h], job[h], Ids, walk) /\ Pending(pc[h], job[h])
  BY AtLabel DEF ZRange
<1>2. UNCHANGED <<table, caches, walking>> /\ pc[h] \notin Owing \cup {"expire"}
  BY <1>1 DEF ZRange, Owing
<1>3. job[h].op = "list" /\ walk.list \in Lists
  BY <1>1 DEF Placed, Stitching, Walks, Lists
<1>4. index[IndexOf(walk.list)] = ActiveIds(walk.list)
  <2>1. CASE index[IndexOf(walk.list)] # {}
    BY <1>1, <1>3, <2>1, SettledForLists
  <2>2. CASE index[IndexOf(walk.list)] = {}
    BY <1>1, <1>3, <2>2 DEF Agreeing, HandlerRight, Listing
  <2> QED BY <2>1, <2>2
<1> DEFINE S == Page(index[IndexOf(walk.list)])
           j == [job[h] EXCEPT !.ids = S]
<1>5. pc' = [pc EXCEPT ![h] = "stitch"] /\ job' = [job EXCEPT ![h] = j]
  BY DEF ZRange, Goto
<1>6. pc'[h] = "stitch" /\ job'[h] = j
  BY <1>1, <1>5, OthersStay DEF Busy
<1>7. S = Page(ActiveIds(walk.list))
  BY <1>4
<1> HIDE DEF S
<1>8. j.op = job[h].op /\ j.id = job[h].id /\ j.ids = S /\ j.todo = <<>>
  BY <1>1 DEF Jobs, Pending, Owing
<1> HIDE DEF j
<1>9. Page(ActiveIds(walk.list))' = S
  BY <1>2, <1>7, SamePage
<1>10. HandlerRight(h)'
  BY <1>6, <1>8, <1>9 DEF HandlerRight, Current, TodoRight, Listing
<1> QED BY <1>1, <1>2, <1>5, <1>8, <1>10, ReaderGoesOn

LEMMA HitsRegular ==
    ASSUME Typed, Agreeing, NEW h \in Handlers, Hits(h)
    PROVE  Agreeing'
<1>1. h \in Busy /\ pc[h] = "hits" /\ job[h] \in Jobs
      /\ Placed(pc[h], job[h], Ids, walk) /\ Pending(pc[h], job[h])
  BY AtLabel DEF Hits
<1>2. UNCHANGED <<table, caches, walking>> /\ pc[h] \notin Owing \cup {"expire"}
  BY <1>1 DEF Hits, Owing
<1>3. PICK S : job' = [job EXCEPT ![h].ids = S]
  BY DEF Hits
<1> DEFINE j == [job[h] EXCEPT !.ids = S]
<1>4. pc' = [pc EXCEPT ![h] = "stitch"] /\ job' = [job EXCEPT ![h] = j]
  BY <1>3 DEF Hits, Goto
<1>5. pc'[h] = "stitch" /\ job'[h] = j
  BY <1>1, <1>4, OthersStay DEF Busy
<1>6. j.op = job[h].op /\ j.id = job[h].id /\ j.todo = <<>> /\ j.op # "list"
  BY <1>1 DEF Jobs, Pending, Owing, Placed, Stitching
<1> HIDE DEF j
<1>7. HandlerRight(h)'
  BY <1>5, <1>6 DEF HandlerRight, Current, TodoRight, Listing
<1> QED BY <1>1, <1>2, <1>4, <1>6, <1>7, ReaderGoesOn

LEMMA StitchRegular ==
    ASSUME Typed, Agreeing, NEW h \in Handlers, Stitch(h)
    PROVE  Agreeing'
<1>1. h \in Busy /\ pc[h] = "stitch" /\ job[h] \in Jobs
      /\ Placed(pc[h], job[h], Ids, walk) /\ Pending(pc[h], job[h])
  BY AtLabel DEF Stitch
<1>2. UNCHANGED <<table, caches>> /\ pc[h] \notin Owing \cup {"expire"}
  BY <1>1 DEF Stitch, Owing
<1>3. job[h].op \in {"list", "search"}
  BY <1>1 DEF Placed, Stitching
<1>4. job[h].op = "list" => job[h].ids = Page(ActiveIds(walk.list))
  BY <1>1 DEF Agreeing, HandlerRight, Listing
<1>5. CASE Respond(h, job[h].ids)
  BY <1>1, <1>2, <1>3, <1>4, <1>5, ReaderResponds
<1>6. CASE ~Respond(h, job[h].ids)
  <2> DEFINE missing == {id \in job[h].ids : details[id] = None}
             j == [job[h] EXCEPT !.missing = missing]
  <2>1. /\ pc' = [pc EXCEPT ![h] = "rows"] /\ job' = [job EXCEPT ![h] = j]
        /\ UNCHANGED walking
    BY <1>6 DEF Stitch, Goto
  <2>2. pc'[h] = "rows" /\ job'[h] = j
    BY <1>1, <2>1, OthersStay DEF Busy
  <2>3. missing \subseteq job[h].ids
    OBVIOUS
  <2> HIDE DEF missing
  <2>4. /\ j.op = job[h].op /\ j.id = job[h].id /\ j.todo = <<>>
        /\ j.ids = job[h].ids /\ j.missing = missing
    BY <1>1 DEF Jobs, Pending, Owing
  <2> HIDE DEF j
  <2>5. Page(ActiveIds(walk.list))' = Page(ActiveIds(walk.list))
    BY <1>2, <2>1, SamePage
  <2>6. HandlerRight(h)'
    BY <1>4, <2>2, <2>3, <2>4, <2>5 DEF HandlerRight, Current, TodoRight, Listing
  <2> QED BY <1>1, <1>2, <2>1, <2>4, <2>6, ReaderGoesOn
<1> QED BY <1>5, <1>6

LEMMA FindRowsRegular ==
    ASSUME Typed, Agreeing, NEW h \in Handlers, FindRows(h)
    PROVE  Agreeing'
<1>1. h \in Busy /\ pc[h] = "rows" /\ job[h] \in Jobs
      /\ Placed(pc[h], job[h], Ids, walk) /\ Pending(pc[h], job[h])
  BY AtLabel DEF FindRows
<1>2. UNCHANGED <<table, caches>> /\ pc[h] \notin Owing \cup {"expire"}
  BY <1>1 DEF FindRows, Owing
<1>3. job[h].op \in {"list", "search"}
  BY <1>1 DEF Placed, Stitching
<1> DEFINE found == job[h].missing \cap Live
           listed == (job[h].ids \ job[h].missing) \cup found
<1>4. job[h].op = "list" => listed = Page(ActiveIds(walk.list))
  <2> SUFFICES ASSUME job[h].op = "list"
               PROVE  listed = Page(ActiveIds(walk.list))
    OBVIOUS
  <2>1. /\ job[h].ids = Page(ActiveIds(walk.list))
        /\ job[h].missing \subseteq job[h].ids
    BY <1>1 DEF Agreeing, HandlerRight, Listing
  <2>2. job[h].ids \subseteq Live
    BY <2>1 DEF Page, PageFrom, Top, Below, ActiveIds
  <2> QED BY <2>1, <2>2
<1>5. CASE Respond(h, listed)
  BY <1>1, <1>2, <1>3, <1>4, <1>5, ReaderResponds
<1>6. CASE ~Respond(h, listed)
  <2> DEFINE rows == [id \in found |-> vehicles[id]]
             j == [job[h] EXCEPT !.ids = listed, !.missing = found, !.rows = rows]
  <2>1. /\ pc' = [pc EXCEPT ![h] = "cache"] /\ job' = [job EXCEPT ![h] = j]
        /\ UNCHANGED walking
    BY <1>6 DEF FindRows, Goto
  <2>2. pc'[h] = "cache" /\ job'[h] = j
    BY <1>1, <2>1, OthersStay DEF Busy
  <2>3. found \subseteq Live /\ \A id \in found : rows[id] = vehicles[id]
    OBVIOUS
  <2> HIDE DEF found, listed, rows
  <2>4. /\ j.op = job[h].op /\ j.id = job[h].id /\ j.todo = <<>>
        /\ j.ids = listed /\ j.missing = found /\ j.rows = rows
    BY <1>1 DEF Jobs, Pending, Owing
  <2> HIDE DEF j
  <2>5. Page(ActiveIds(walk.list))' = Page(ActiveIds(walk.list))
    BY <1>2, <2>1, SamePage
  <2>6. Live' = Live /\ UNCHANGED vehicles
    BY <1>2, RowsUnchanged DEF table
  <2>7. HandlerRight(h)'
    BY <1>4, <2>2, <2>3, <2>4, <2>5, <2>6
    DEF HandlerRight, Current, TodoRight, Listing
  <2> QED BY <1>1, <1>2, <2>1, <2>4, <2>7, ReaderGoesOn
<1> QED BY <1>5, <1>6

LEMMA FallBackRegular ==
    ASSUME Typed, Agreeing, NEW h \in Handlers, FallBack(h)
    PROVE  Agreeing'
<1>1. h \in Busy /\ pc[h] = "fallback" /\ job[h] \in Jobs
      /\ Placed(pc[h], job[h], Ids, walk) /\ Pending(pc[h], job[h])
  BY AtLabel DEF FallBack
<1>2. UNCHANGED <<table, caches>> /\ pc[h] \notin Owing \cup {"expire"}
  BY <1>1 DEF FallBack, Owing
<1>3. job[h].op \in {"list", "search"}
  BY <1>1 DEF Placed, Stitching
<1>4. PICK S : Respond(h, S) /\ (job[h].op = "list" => S = Page(ActiveIds(walk.list)))
  BY DEF FallBack
<1> QED BY <1>1, <1>2, <1>3, <1>4, ReaderResponds

-----------------------------------------------------------------------------
(***************************************************************************)
(* Steps that change a store, but not the table.                           *)
(***************************************************************************)
LEMMA HandlerRegular ==
    ASSUME Typed, Agreeing, NEW h \in Busy, Others(h), UNCHANGED table,
           \A g \in Busy \ {h} : job[g].op = "list" =>
               UNCHANGED <<index, leased, walk>>,
           h \in Busy' => /\ job'[h].op = job[h].op /\ job'[h].id = job[h].id
                          /\ HandlerRight(h)',
           DetailsRight', DocsRight', IndexRight', LeasesRight', WalkRight'
    PROVE  Agreeing'
<1>1. h \in Handlers /\ RowsStay(0)
  BY RowsUnchanged DEF Busy
<1>2. Apart'
  BY ApartStays DEF Agreeing
<1>3. ASSUME NEW g \in Busy', g # h
      PROVE  HandlerRight(g)'
  <2>1. g \in Busy /\ pc'[g] = pc[g] /\ job'[g] = job[g] /\ HandlerRight(g)
    BY <1>1, <1>3, OthersBusy DEF Others, Agreeing, Busy
  <2> QED BY <1>1, <1>3, <2>1, BystanderRight
<1> QED BY <1>2, <1>3 DEF Agreeing

\* A request that writes, once its row is written, has no list beside it.
LEMMA WriterRegular ==
    ASSUME Typed, Agreeing, NEW h \in Busy, NEW label, NEW j,
           pc' = [pc EXCEPT ![h] = label], job' = [job EXCEPT ![h] = j],
           job[h].op \in Writes, UNCHANGED <<table, walking>>,
           pc[h] \in Owing,
           label # "idle" => j.op = job[h].op /\ j.id = job[h].id /\ HandlerRight(h)',
           DetailsRight', DocsRight', IndexRight',
           \A key \in Keys : index'[key] # {} /\ key \notin leased' =>
               index[key] # {} /\ key \notin leased
    PROVE  Agreeing'
<1>1. h \in Handlers /\ Others(h) /\ pc'[h] = label /\ job'[h] = j
  BY OthersStay DEF Busy
<1>2. \A g \in Busy \ {h} : job[g].op \notin {"list", "search"}
  BY WriterAlone DEF Agreeing
<1>3. WalkRight' /\ walk' = walk
  BY WalkUnchanged DEF Agreeing, walking
<1>4. LeasesRight'
  BY <1>1, <1>3, LeasesStay DEF Agreeing, Owing
<1>5. h \in Busy' <=> label # "idle"
  BY <1>1 DEF Busy
<1> QED BY <1>1, <1>2, <1>3, <1>4, <1>5, HandlerRegular

LEMMA StillUnsettled ==
    ASSUME NEW h \in Handlers, NEW id, NEW labels, "idle" \notin labels,
           pc'[h] \in labels, job'[h].op \in Writes, job'[h].id = id
    PROVE  Unsettled(id, labels)'
BY DEF Unsettled, Busy

\* The details and the documents of every vehicle, in a step that leaves the
\* table alone.
LEMMA DetailsKept ==
    ASSUME Typed, DetailsRight, NEW h \in Handlers, Others(h),
           UNCHANGED <<table, details>>,
           h \in Busy /\ job[h].op \in Writes => pc[h] \notin {"set", "evict"}
    PROVE  DetailsRight'
<1>1. RowsStay(0) /\ 0 \notin Slots
  BY RowsUnchanged, SlotsAreNumbers
<1> QED BY <1>1, DetailsStay

LEMMA DocsKept ==
    ASSUME Typed, DocsRight, NEW h \in Handlers, Others(h), NEW id,
           UNCHANGED <<table, docs>>,
           h \in Busy /\ job[h].op \in Writes /\ pc[h] \in Owing =>
               job[h].id = id /\ Unsettled(id, Owing)'
    PROVE  DocsRight'
<1>1. RowsStay(0) /\ 0 \notin Slots /\ RowsStay(id)
  BY RowsUnchanged, SlotsAreNumbers
<1>2. CASE h \in Busy /\ job[h].op \in Writes /\ pc[h] \in Owing
  BY <1>1, <1>2, DocsStay
<1>3. CASE ~(h \in Busy /\ job[h].op \in Writes /\ pc[h] \in Owing)
  BY <1>1, <1>3, DocsStay
<1> QED BY <1>2, <1>3

\* An index that nobody touches, while what the handler has to do to it stays.
LEMMA IndexKept ==
    ASSUME Typed, IndexRight, NEW h \in Busy, Others(h), NEW list \in Lists,
           NEW id \in Ids, UNCHANGED table,
           index[IndexOf(list)] # {}, index'[IndexOf(list)] = index[IndexOf(list)],
           Owes(h, id, IndexOf(list)) => h \in Busy' /\ Owes(h, id, IndexOf(list))'
    PROVE  \/ id \in index'[IndexOf(list)] <=> id \in ActiveIds(list)'
           \/ \E g \in Busy' : Owes(g, id, IndexOf(list))'
<1>1. CASE id \in index[IndexOf(list)] <=> id \in ActiveIds(list)
  BY <1>1, RowsUnchanged
<1>2. CASE \E g \in Busy : Owes(g, id, IndexOf(list))
  <2>1. PICK g \in Busy : Owes(g, id, IndexOf(list))
    BY <1>2
  <2>2. CASE g = h
    BY <2>1, <2>2
  <2>3. CASE g # h
    <3>1. g \in Busy' /\ job'[g] = job[g]
      BY <2>3, OthersBusy DEF Others, Busy
    <3>2. Owes(g, id, IndexOf(list))'
      BY <2>1, <3>1 DEF Owes, IndexOf
    <3> QED BY <3>1, <3>2
  <2> QED BY <2>2, <2>3
<1> QED BY <1>1, <1>2 DEF IndexRight

\* No index is touched, and the handler has still to do what it had to do.
LEMMA IndexesKept ==
    ASSUME Typed, IndexRight, NEW h \in Busy, Others(h),
           UNCHANGED <<table, index>>,
           job[h].todo # <<>> =>
               h \in Busy' /\ job'[h].todo = job[h].todo /\ job'[h].id = job[h].id
    PROVE  IndexRight'
<1> SUFFICES ASSUME NEW list \in Lists, NEW id \in Ids', index'[IndexOf(list)] # {}
             PROVE  \/ id \in index'[IndexOf(list)] <=> id \in ActiveIds(list)'
                    \/ \E g \in Busy' : Owes(g, id, IndexOf(list))'
  BY DEF IndexRight, IndexOf
<1>1. id \in Ids
  BY RowsUnchanged
<1>2. Owes(h, id, IndexOf(list)) => h \in Busy' /\ Owes(h, id, IndexOf(list))'
  BY DEF Owes, IndexOf
<1> QED BY <1>1, <1>2, IndexKept

LEMMA StoreRegular ==
    ASSUME Typed, Agreeing, NEW h \in Handlers, At(h, {"set", "evict"}), Stored(h),
           Goto(h, "index"), UNCHANGED job,
           UNCHANGED <<table, index, leased, docs, walking>>
    PROVE  Agreeing'
<1>1. h \in Busy /\ pc[h] \in {"set", "evict"} /\ job[h] \in Jobs
      /\ Placed(pc[h], job[h], Ids, walk) /\ Pending(pc[h], job[h])
  BY AtLabel
<1>2. job[h].op \in Writes /\ job[h].id \in Ids /\ pc[h] \in Owing
      /\ (pc[h] = "set" => job[h].op # "delete")
      /\ (pc[h] = "evict" => job[h].op = "delete")
  BY <1>1 DEF Placed, Owing, Stitching, Writes
<1>3. pc' = [pc EXCEPT ![h] = "index"] /\ job' = [job EXCEPT ![h] = job[h]]
  BY <1>1, SameJob DEF Goto
<1>4. Others(h) /\ pc'[h] = "index" /\ job'[h] = job[h]
  BY <1>3, OthersStay
<1>5. h \in Busy'
  BY <1>4 DEF Busy
<1>6. RowsStay(job[h].id) /\ Live' = Live /\ vehicles' = vehicles /\ retired' = retired
      /\ \A list : ActiveIds(list)' = ActiveIds(list)
  BY RowsUnchanged DEF table
<1>7. HandlerRight(h)
  BY <1>1 DEF Agreeing
<1>8. HandlerRight(h)'
  BY <1>1, <1>2, <1>4, <1>6, <1>7 DEF HandlerRight, Current, TodoRight, Listing, Writes
<1>9. DetailsRight'
  <2>1. details' = [details EXCEPT ![job[h].id] =
                       IF pc[h] = "evict" THEN None ELSE job[h].row]
    BY DEF Stored
  <2>2. job[h].id \in Slots /\ details \in [Slots -> Rows \cup {None}]
    BY <1>2, IdsAreSlots DEF Typed, TypeOK
  <2>3. pc[h] = "set" => job[h].id \in Live /\ job[h].row = vehicles[job[h].id]
    BY <1>2, <1>7 DEF HandlerRight, Current
  <2>4. details'[job[h].id] # None =>
           job[h].id \in Live' /\ details'[job[h].id] = vehicles'[job[h].id]
    BY <1>1, <1>6, <2>1, <2>2, <2>3
  <2> QED BY <1>4, <1>6, <2>1, <2>2, <2>4, DetailsStay DEF Agreeing
<1>10. DocsRight'
  <2>1. PICK id : id = job[h].id
    OBVIOUS
  <2>2. Unsettled(id, Owing)'
    BY <1>2, <1>4, <2>1, StillUnsettled DEF Owing
  <2> QED BY <1>4, <2>1, <2>2, DocsKept DEF Agreeing
<1>11. IndexRight'
  BY <1>1, <1>4, <1>5, IndexesKept DEF Agreeing
<1> QED BY <1>1, <1>2, <1>3, <1>8, <1>9, <1>10, <1>11, WriterRegular

\* What getVehicleById caches is the row as it is.
LEMMA FillRegular ==
    ASSUME Typed, Agreeing, NEW h \in Busy, pc[h] = "fill", Stored(h), Answer(h),
           UNCHANGED <<table, index, leased, docs, walking>>
    PROVE  Agreeing'
<1>1. h \in Handlers /\ Placed(pc[h], job[h], Ids, walk) /\ Pending(pc[h], job[h])
  BY HasPlace
<1>2. job[h].op = "get" /\ job[h].id \in Ids /\ job[h].todo = <<>>
  BY <1>1 DEF Placed, Pending, Owing, Stitching
<1>3. Others(h) /\ pc'[h] = "idle"
  BY <1>1, OthersStay DEF Answer, Goto
<1>4. h \notin Busy'
  BY <1>3 DEF Busy
<1>5. RowsStay(job[h].id) /\ Live' = Live /\ vehicles' = vehicles
  BY RowsUnchanged DEF table
<1>6. job[h].id \in Live /\ job[h].row = vehicles[job[h].id]
  BY <1>2 DEF Agreeing, HandlerRight, Current
<1>7. DetailsRight'
  <2>1. details' = [details EXCEPT ![job[h].id] = job[h].row]
    BY DEF Stored
  <2>2. job[h].id \in Slots /\ details \in [Slots -> Rows \cup {None}]
    BY <1>2, IdsAreSlots DEF Typed, TypeOK
  <2> QED BY <1>1, <1>3, <1>5, <1>6, <2>1, <2>2, DetailsStay DEF Agreeing
<1>8. DocsRight'
  BY <1>1, <1>2, <1>3, DocsKept DEF Agreeing, Writes
<1>9. IndexRight'
  BY <1>2, <1>3, IndexesKept DEF Agreeing
<1>10. LeasesRight'
  BY <1>1, <1>3, LeasesStay DEF Agreeing, walking
<1>11. WalkRight' /\ walk' = walk
  BY WalkUnchanged DEF Agreeing, walking
<1> QED BY <1>3, <1>4, <1>7, <1>8, <1>9, <1>10, <1>11, HandlerRegular

\* What is still to be done after the first of a handler's index changes.
LEMMA OwesTheRest ==
    ASSUME Typed, NEW h \in Busy, job[h].todo # <<>>,
           job'[h].todo = Tail(job[h].todo), job'[h].id = job[h].id,
           NEW id, NEW key, Owes(h, id, key), key # Key(h)
    PROVE  Owes(h, id, key)'
<1>1. job[h].todo \in Seq({"add", "rem"} \X Keys)
  BY HasPlace DEF Jobs
<1>2. PICK n \in DOMAIN job[h].todo : job[h].todo[n][2] = key
  BY DEF Owes
<1>3. job[h].todo[1][2] = Key(h)
  BY <1>1 DEF Key
<1>4. n \in 2 .. Len(job[h].todo)
  BY <1>1, <1>2, <1>3
<1>5. n - 1 \in DOMAIN Tail(job[h].todo) /\ Tail(job[h].todo)[n - 1] = job[h].todo[n]
  BY <1>1, <1>4
<1>6. \E m \in DOMAIN job'[h].todo : job'[h].todo[m][2] = key
  BY <1>2, <1>5
<1>7. job'[h].id = id
  BY DEF Owes
<1> QED BY <1>6, <1>7 DEF Owes

\* What is right of all changes is right of those after the first.
LEMMA RestIsRight ==
    ASSUME Typed, NEW h \in Busy, job[h].todo # <<>>, TodoRight(h), UNCHANGED table,
           job'[h].todo = Tail(job[h].todo), job'[h].id = job[h].id, pc'[h] # "doc"
    PROVE  TodoRight(h)'
<1>1. job[h].todo \in Seq({"add", "rem"} \X Keys)
  BY HasPlace DEF Jobs
<1> SUFFICES ASSUME NEW n \in DOMAIN job'[h].todo, NEW list \in Lists,
                    job'[h].todo[n][2] = IndexOf(list)
             PROVE  job'[h].todo[n][1] = "add" <=> job'[h].id \in ActiveIds(list)'
  BY DEF TodoRight, IndexOf
<1>2. n + 1 \in DOMAIN job[h].todo /\ job'[h].todo[n] = job[h].todo[n + 1]
  BY <1>1
<1>3. job[h].todo[n + 1][1] = "add" <=> job[h].id \in ActiveIds(list)
  BY <1>2 DEF TodoRight
<1> QED BY <1>2, <1>3, RowsUnchanged

LEMMA IndexExistsRegular ==
    ASSUME Typed, Agreeing, NEW h \in Handlers, IndexExists(h)
    PROVE  Agreeing'
<1>1. h \in Busy /\ pc[h] = "index" /\ job[h] \in Jobs
      /\ Placed(pc[h], job[h], Ids, walk) /\ Pending(pc[h], job[h])
  BY AtLabel DEF IndexExists
<1>2. job[h].op \in Writes /\ job[h].id \in Ids /\ pc[h] \in Owing
  BY <1>1 DEF Placed, Owing, Stitching, Writes
<1>3. UNCHANGED <<table, details, docs, index, leased, walking>>
  BY DEF IndexExists, caches
<1>4. Live' = Live /\ vehicles' = vehicles /\ retired' = retired
      /\ \A list : ActiveIds(list)' = ActiveIds(list)
  BY <1>3, RowsUnchanged DEF table
<1>5. HandlerRight(h)
  BY <1>1 DEF Agreeing
<1>6. PICK id : id = job[h].id
  OBVIOUS
<1>7. CASE ~(job[h].todo # <<>> /\ index[Key(h)] = {})
  <2>0. \/ Goto(h, "doc") /\ UNCHANGED job /\ job[h].todo = <<>>
        \/ Goto(h, "change") /\ UNCHANGED job
    BY <1>7 DEF IndexExists
  <2>1. PICK label \in {"doc", "change"} :
            /\ pc' = [pc EXCEPT ![h] = label] /\ job' = [job EXCEPT ![h] = job[h]]
            /\ label = "doc" => job[h].todo = <<>>
    BY <1>1, <2>0, SameJob DEF Goto
  <2>2. Others(h) /\ pc'[h] = label /\ job'[h] = job[h]
    BY <2>1, OthersStay
  <2>3. h \in Busy'
    BY <2>2 DEF Busy
  <2>4. HandlerRight(h)'
    BY <1>1, <1>2, <1>4, <1>5, <2>1, <2>2
    DEF HandlerRight, Current, TodoRight, Listing, Writes
  <2>5. Unsettled(id, Owing)'
    BY <1>2, <1>6, <2>2, StillUnsettled DEF Owing
  <2>6. DetailsRight' /\ DocsRight'
    BY <1>1, <1>3, <1>6, <2>2, <2>5, DetailsKept, DocsKept DEF Agreeing
  <2>7. IndexRight'
    BY <1>1, <1>3, <2>2, <2>3, IndexesKept DEF Agreeing
  <2> QED BY <1>1, <1>2, <1>3, <2>1, <2>4, <2>6, <2>7, WriterRegular
<1>8. CASE job[h].todo # <<>> /\ index[Key(h)] = {}
  <2>0. job' = Drop(h) /\ UNCHANGED pc
    BY <1>8 DEF IndexExists
  <2> DEFINE j == [job[h] EXCEPT !.todo = Tail(job[h].todo)]
  <2>1. pc' = [pc EXCEPT ![h] = "index"] /\ job' = [job EXCEPT ![h] = j]
    BY <1>1, <2>0, SamePlace DEF Drop
  <2>2. Others(h) /\ pc'[h] = "index" /\ job'[h] = j
    BY <2>1, OthersStay
  <2>3. j.op = job[h].op /\ j.id = job[h].id /\ j.row = job[h].row
        /\ j.todo = Tail(job[h].todo)
    BY <1>1 DEF Jobs
  <2> HIDE DEF j
  <2>4. h \in Busy'
    BY <2>2 DEF Busy
  <2>5. TodoRight(h)'
    BY <1>1, <1>3, <1>5, <1>8, <2>2, <2>3, RestIsRight DEF HandlerRight
  <2>6. HandlerRight(h)'
    BY <1>1, <1>2, <1>4, <1>5, <2>2, <2>3, <2>5
    DEF HandlerRight, Current, Listing, Writes
  <2>7. Unsettled(id, Owing)'
    BY <1>2, <1>6, <2>2, <2>3, StillUnsettled DEF Owing
  <2>8. DetailsRight' /\ DocsRight'
    BY <1>1, <1>3, <1>6, <2>2, <2>7, DetailsKept, DocsKept DEF Agreeing
  <2>9. IndexRight'
    <3> SUFFICES ASSUME NEW list \in Lists, NEW i \in Ids', index'[IndexOf(list)] # {}
                 PROVE  \/ i \in index'[IndexOf(list)] <=> i \in ActiveIds(list)'
                        \/ \E g \in Busy' : Owes(g, i, IndexOf(list))'
      BY DEF IndexRight, IndexOf
    <3>1. i \in Ids /\ index[IndexOf(list)] # {} /\ IndexOf(list) # Key(h)
      BY <1>3, <1>8, RowsUnchanged
    <3>2. PICK key : key = IndexOf(list)
      OBVIOUS
    <3>3. Owes(h, i, key) => Owes(h, i, key)'
      BY <1>1, <1>8, <2>2, <2>3, <3>1, <3>2, OwesTheRest
    <3>4. Owes(h, i, IndexOf(list)) => Owes(h, i, IndexOf(list))'
      BY <3>2, <3>3 DEF Owes, IndexOf
    <3> QED BY <1>1, <1>3, <2>2, <2>4, <3>1, <3>4, IndexKept DEF Agreeing
  <2> QED BY <1>1, <1>2, <1>3, <2>1, <2>3, <2>6, <2>8, <2>9, WriterRegular
<1> QED BY <1>7, <1>8

LEMMA ChangeIndexRegular ==
    ASSUME Typed, Agreeing, NEW h \in Handlers, ChangeIndex(h), ~Recreates(h)
    PROVE  Agreeing'
<1>1. h \in Busy /\ pc[h] = "change" /\ job[h] \in Jobs
      /\ Placed(pc[h], job[h], Ids, walk) /\ Pending(pc[h], job[h])
  BY AtLabel DEF ChangeIndex
<1>2. job[h].op \in Writes /\ job[h].id \in Ids /\ pc[h] \in Owing /\ job[h].todo # <<>>
  BY <1>1 DEF Placed, Pending, Owing, Stitching, Writes
<1>3. UNCHANGED <<table, details, docs, walking>> /\ IndexChanged(h)
  BY DEF ChangeIndex
<1>4. Live' = Live /\ vehicles' = vehicles /\ retired' = retired
      /\ \A list : ActiveIds(list)' = ActiveIds(list)
  BY <1>3, RowsUnchanged DEF table
<1>5. HandlerRight(h)
  BY <1>1 DEF Agreeing
<1> DEFINE j == [job[h] EXCEPT !.todo = Tail(job[h].todo)]
<1>6. pc' = [pc EXCEPT ![h] = "index"] /\ job' = [job EXCEPT ![h] = j]
  BY DEF ChangeIndex, Goto, Drop
<1>7. Others(h) /\ pc'[h] = "index" /\ job'[h] = j
  BY <1>6, OthersStay
<1>8. j.op = job[h].op /\ j.id = job[h].id /\ j.row = job[h].row
      /\ j.todo = Tail(job[h].todo)
  BY <1>1 DEF Jobs
<1> HIDE DEF j
<1>9. h \in Busy'
  BY <1>7 DEF Busy
<1>10. TodoRight(h)'
  BY <1>1, <1>2, <1>3, <1>5, <1>7, <1>8, RestIsRight DEF HandlerRight
<1>11. HandlerRight(h)'
  BY <1>1, <1>2, <1>4, <1>5, <1>7, <1>8, <1>10
  DEF HandlerRight, Current, Listing, Writes
<1>12. PICK id : id = job[h].id
  OBVIOUS
<1>13. Unsettled(id, Owing)'
  BY <1>2, <1>7, <1>8, <1>12, StillUnsettled DEF Owing
<1>14. DetailsRight' /\ DocsRight'
  BY <1>1, <1>3, <1>7, <1>12, <1>13, DetailsKept, DocsKept DEF Agreeing
<1> DEFINE key == Key(h)
           members == IF Op(h) = "add" THEN index[key] \cup {job[h].id}
                                       ELSE index[key] \ {job[h].id}
<1>15. key \in Keys /\ Op(h) \in {"add", "rem"}
  BY <1>1, <1>2, NextChange
<1>16. /\ index' = [index EXCEPT ![key] = members]
       /\ leased' = IF members = {} THEN leased \ {key} ELSE leased
  BY <1>3 DEF IndexChanged
<1>17. index \in [Keys -> SUBSET Ids]
  BY DEF Typed, TypeOK
<1>18. Op(h) = "add" => index[key] # {}
  BY DEF Recreates
<1>19. index'[key] = members /\ \A k \in Keys \ {key} : index'[k] = index[k]
  BY <1>15, <1>16, <1>17
<1>20. ASSUME NEW list \in Lists, IndexOf(list) = key
       PROVE  Op(h) = "add" <=> job[h].id \in ActiveIds(list)
  <2>1. job[h].todo \in Seq({"add", "rem"} \X Keys)
    BY <1>1 DEF Jobs
  <2>2. /\ 1 \in DOMAIN job[h].todo
        /\ job[h].todo[1][1] = Op(h) /\ job[h].todo[1][2] = key
    BY <1>2, <2>1 DEF Op, Key
  <2> HIDE DEF key
  <2> QED BY <1>5, <1>20, <2>2 DEF HandlerRight, TodoRight
<1>21. ASSUME NEW list \in Lists, NEW i \in Ids', index'[IndexOf(list)] # {}
       PROVE  \/ i \in index'[IndexOf(list)] <=> i \in ActiveIds(list)'
              \/ \E g \in Busy' : Owes(g, i, IndexOf(list))'
  <2>1. i \in Ids /\ IndexOf(list) \in Keys
    BY <1>3, <1>21, RowsUnchanged DEF Lists, IndexOf, Keys
  <2>2. CASE IndexOf(list) = key
    <3>1. CASE i = job[h].id
      <4>1. i \in members <=> Op(h) = "add"
        BY <3>1
      <4> QED BY <1>4, <1>19, <1>20, <2>2, <3>1, <4>1
    <3>2. CASE i # job[h].id
      <4>1. i \in members <=> i \in index[key]
        BY <3>2
      <4>2. index[key] # {}
        BY <1>15, <1>18, <1>19, <1>21, <2>2
      <4>3. CASE i \in index[key] <=> i \in ActiveIds(list)
        BY <1>4, <1>19, <2>2, <4>1, <4>3
      <4>4. CASE ~(i \in index[key] <=> i \in ActiveIds(list))
        <5>1. PICK g \in Busy : Owes(g, i, IndexOf(list))
          BY <2>1, <2>2, <4>2, <4>4 DEF Agreeing, IndexRight
        <5>2. g # h
          BY <3>2, <5>1 DEF Owes
        <5>3. g \in Busy' /\ job'[g] = job[g]
          BY <1>7, <5>2, OthersBusy DEF Others, Busy
        <5>4. Owes(g, i, IndexOf(list))'
          BY <5>1, <5>3 DEF Owes, IndexOf
        <5> QED BY <5>3, <5>4
      <4> QED BY <4>3, <4>4
    <3> QED BY <3>1, <3>2
  <2>3. CASE IndexOf(list) # key
    <3>1. index'[IndexOf(list)] = index[IndexOf(list)] /\ index[IndexOf(list)] # {}
      BY <1>19, <1>21, <2>1, <2>3
    <3>2. PICK k : k = IndexOf(list)
      OBVIOUS
    <3>3. Owes(h, i, k) => Owes(h, i, k)'
      BY <1>1, <1>2, <1>7, <1>8, <2>3, <3>2, OwesTheRest
    <3>4. Owes(h, i, IndexOf(list)) => Owes(h, i, IndexOf(list))'
      BY <3>2, <3>3 DEF Owes, IndexOf
    <3> QED BY <1>1, <1>3, <1>7, <1>9, <2>1, <3>1, <3>4, IndexKept DEF Agreeing
  <2> QED BY <2>2, <2>3
<1>22. IndexRight'
  BY <1>21 DEF IndexRight, IndexOf
<1>23. \A k \in Keys : index'[k] # {} /\ k \notin leased' =>
           index[k] # {} /\ k \notin leased
  <2> SUFFICES ASSUME NEW k \in Keys, index'[k] # {}, k \notin leased'
               PROVE  index[k] # {} /\ k \notin leased
    OBVIOUS
  <2>1. CASE k = key
    BY <1>15, <1>16, <1>18, <1>19, <2>1
  <2>2. CASE k # key
    BY <1>16, <1>19, <2>2
  <2> QED BY <2>1, <2>2
<1> QED BY <1>1, <1>2, <1>3, <1>6, <1>8, <1>11, <1>14, <1>22, <1>23, WriterRegular

LEMMA PublishRegular ==
    ASSUME Typed, Agreeing, NEW h \in Handlers, Publish(h)
    PROVE  Agreeing'
<1>1. h \in Busy /\ pc[h] = "doc" /\ job[h] \in Jobs
      /\ Placed(pc[h], job[h], Ids, walk) /\ Pending(pc[h], job[h])
  BY AtLabel DEF Publish
<1>2. job[h].op \in Writes /\ job[h].id \in Ids /\ pc[h] \in Owing
  BY <1>1 DEF Placed, Owing, Stitching, Writes
<1>3. UNCHANGED <<table, details, index, leased, walking>>
  BY DEF Publish
<1>4. pc' = [pc EXCEPT ![h] = "idle"] /\ job' = [job EXCEPT ![h] = None]
  BY DEF Publish, Answer, Goto
<1>5. Others(h) /\ pc'[h] = "idle" /\ h \notin Busy'
  BY <1>4, OthersStay DEF Busy
<1>6. HandlerRight(h)
  BY <1>1 DEF Agreeing
<1>7. job[h].todo = <<>>
  BY <1>1, <1>6 DEF HandlerRight, TodoRight
<1>8. RowsStay(job[h].id) /\ Live' = Live /\ vehicles' = vehicles
  BY <1>3, RowsUnchanged DEF table
<1>9. DetailsRight'
  BY <1>1, <1>3, <1>5, DetailsKept DEF Agreeing
<1>10. IndexRight'
  BY <1>1, <1>3, <1>5, <1>7, IndexesKept DEF Agreeing
<1>11. DocsRight'
  <2>1. docs' = [docs EXCEPT ![job[h].id] =
                    IF job[h].op = "delete" THEN None ELSE job[h].row]
    BY DEF Publish, Published
  <2>2. job[h].id \in Slots /\ docs \in [Slots -> Rows \cup {None}]
    BY <1>2, IdsAreSlots DEF Typed, TypeOK
  <2>3. CASE job[h].op = "delete"
    <3>1. job[h].id \notin Live
      BY <1>1, <1>6, <2>3 DEF HandlerRight, Current, Live
    <3>2. docs'[job[h].id] = None
      BY <2>1, <2>2, <2>3
    <3> QED BY <1>5, <1>8, <2>1, <2>2, <3>1, <3>2, DocsStay DEF Agreeing
  <2>4. CASE job[h].op # "delete"
    <3>1. job[h].id \in Live /\ job[h].row = vehicles[job[h].id]
      BY <1>1, <1>6, <2>4 DEF HandlerRight, Current
    <3>2. docs'[job[h].id] = job[h].row
      BY <2>1, <2>2, <2>4
    <3> QED BY <1>5, <1>8, <2>1, <2>2, <3>1, <3>2, DocsStay DEF Agreeing
  <2> QED BY <2>3, <2>4
<1> QED BY <1>1, <1>2, <1>3, <1>4, <1>9, <1>10, <1>11, WriterRegular

\* The list's request makes the index that was not there, out of the table.
LEMMA HydrateRegular ==
    ASSUME Typed, Agreeing, Regular, NEW h \in Handlers, Hydrate(h)
    PROVE  Agreeing'
<1>1. h \in Busy /\ pc[h] = "zadd" /\ job[h] \in Jobs
      /\ Placed(pc[h], job[h], Ids, walk) /\ Pending(pc[h], job[h])
  BY AtLabel DEF Hydrate
<1>2. job[h].op = "list" /\ walk.list \in Lists /\ job[h].todo = <<>>
  BY <1>1 DEF Placed, Pending, Owing, Stitching, Walks, Lists
<1>3. UNCHANGED <<table, details, leased, docs, job, walk, walking>>
  BY DEF Hydrate, walking
<1>4. HandlerRight(h)
  BY <1>1 DEF Agreeing
<1> DEFINE key == IndexOf(walk.list)
<1>5. index[key] = {} /\ job[h].ids = ActiveIds(walk.list) /\ ActiveIds(walk.list) # {}
  BY <1>1, <1>2, <1>4 DEF HandlerRight, Listing
<1>6. key \in Keys
  BY <1>2 DEF Lists, IndexOf, Keys
<1>7. index \in [Keys -> SUBSET Ids] /\ key \notin leased
  BY <1>5 DEF Typed, TypeOK
<1>8. index' = [index EXCEPT ![key] = index[key] \cup job[h].ids]
  BY DEF Hydrate, Hydrated
<1>9. index'[key] = ActiveIds(walk.list) /\ \A k \in Keys \ {key} : index'[k] = index[k]
  BY <1>5, <1>6, <1>7, <1>8
<1>10. pc' = [pc EXCEPT ![h] = "expire"] /\ job' = [job EXCEPT ![h] = job[h]]
  BY <1>1, <1>3, SameJob DEF Hydrate, Goto
<1>11. Others(h) /\ pc'[h] = "expire" /\ job'[h] = job[h]
  BY <1>10, OthersStay
<1>12. h \in Busy'
  BY <1>11 DEF Busy
<1>13. key' = key /\ (index[IndexOf(walk.list)])' = ActiveIds(walk.list)
  BY <1>3, <1>9 DEF IndexOf
<1>14. \A list : ActiveIds(list)' = ActiveIds(list)
  BY <1>3, RowsUnchanged
<1>15. HandlerRight(h)'
  <2>1. Listing(h)'
    BY <1>3, <1>5, <1>7, <1>11, <1>13 DEF Listing
  <2> QED BY <1>2, <1>11, <2>1 DEF HandlerRight, Current, TodoRight
<1>16. DetailsRight' /\ DocsRight' /\ WalkRight'
  BY <1>1, <1>3, <1>11, DetailsKept, DocsKept, WalkUnchanged DEF Agreeing, Owing
<1>17. IndexRight'
  <2> SUFFICES ASSUME NEW list \in Lists, NEW i \in Ids', index'[IndexOf(list)] # {}
               PROVE  \/ i \in index'[IndexOf(list)] <=> i \in ActiveIds(list)'
                      \/ \E g \in Busy' : Owes(g, i, IndexOf(list))'
    BY DEF IndexRight, IndexOf
  <2>1. i \in Ids /\ IndexOf(list) \in Keys
    BY <1>3, RowsUnchanged DEF Lists, IndexOf, Keys
  <2>2. CASE IndexOf(list) = key
    <3>1. list = walk.list
      BY <1>2, <2>2, OneIndexEach
    <3> QED BY <1>9, <1>14, <3>1
  <2>3. CASE IndexOf(list) # key
    <3>1. index'[IndexOf(list)] = index[IndexOf(list)]
      BY <1>9, <2>1, <2>3
    <3>2. ~Owes(h, i, IndexOf(list))
      BY <1>2 DEF Owes
    <3> HIDE DEF key
    <3> QED BY <1>1, <1>3, <1>11, <2>1, <3>1, <3>2, IndexKept DEF Agreeing
  <2> QED BY <2>2, <2>3
<1>18. LeasesRight'
  <2> SUFFICES ASSUME NEW k \in Keys, index'[k] # {}, k \notin leased'
               PROVE  \E g \in Busy' : pc'[g] = "expire" /\ IndexOf(walk'.list) = k
    BY DEF LeasesRight, IndexOf
  <2>1. CASE k = key
    BY <1>11, <1>12, <1>13, <2>1
  <2>2. CASE k # key
    <3>1. index[k] # {} /\ k \notin leased
      BY <1>3, <1>9, <2>2
    <3>2. PICK g \in Busy : pc[g] = "expire" /\ IndexOf(walk.list) = k
      BY <3>1 DEF Agreeing, LeasesRight
    <3> QED BY <2>2, <3>2
  <2> QED BY <2>1, <2>2
<1>19. \A g \in Busy \ {h} : job[g].op # "list"
  BY <1>1, <1>2 DEF Typed, OneList
<1> QED BY <1>1, <1>3, <1>11, <1>15, <1>16, <1>17, <1>18, <1>19, HandlerRegular

LEMMA ExpireIndexRegular ==
    ASSUME Typed, Agreeing, NEW h \in Handlers, ExpireIndex(h)
    PROVE  Agreeing'
<1>1. h \in Busy /\ pc[h] = "expire" /\ job[h] \in Jobs
      /\ Placed(pc[h], job[h], Ids, walk) /\ Pending(pc[h], job[h])
  BY AtLabel DEF ExpireIndex
<1>2. job[h].op = "list" /\ job[h].todo = <<>>
  BY <1>1 DEF Placed, Pending, Owing, Stitching
<1>3. UNCHANGED <<table, details, index, docs, job, walk, walking>>
  BY DEF ExpireIndex, walking
<1>4. index[IndexOf(walk.list)] # {}
  BY <1>1, <1>2 DEF Agreeing, HandlerRight, Listing
<1>5. leased' = leased \cup {IndexOf(walk.list)}
  BY <1>4 DEF ExpireIndex, Lease
<1>6. pc' = [pc EXCEPT ![h] = "range"] /\ job' = [job EXCEPT ![h] = job[h]]
  BY <1>1, <1>3, SameJob DEF ExpireIndex, Goto
<1>7. Others(h) /\ pc'[h] = "range" /\ job'[h] = job[h]
  BY <1>6, OthersStay
<1>8. (index[IndexOf(walk.list)])' = index[IndexOf(walk.list)]
  BY <1>3 DEF IndexOf
<1>9. HandlerRight(h)'
  BY <1>2, <1>4, <1>7, <1>8 DEF HandlerRight, Current, TodoRight, Listing
<1>10. DetailsRight' /\ DocsRight' /\ WalkRight'
  BY <1>1, <1>3, <1>7, DetailsKept, DocsKept, WalkUnchanged DEF Agreeing, Owing
<1>11. IndexRight'
  BY <1>1, <1>2, <1>3, <1>7, IndexesKept DEF Agreeing
<1>12. LeasesRight'
  <2> SUFFICES ASSUME NEW k \in Keys, index'[k] # {}, k \notin leased'
               PROVE  FALSE
    BY DEF LeasesRight
  <2>1. index[k] # {} /\ k \notin leased /\ k # IndexOf(walk.list)
    BY <1>3, <1>5
  <2> QED BY <2>1 DEF Agreeing, LeasesRight
<1>13. \A g \in Busy \ {h} : job[g].op # "list"
  BY <1>1, <1>2 DEF Typed, OneList
<1> QED BY <1>1, <1>3, <1>7, <1>9, <1>10, <1>11, <1>12, <1>13, HandlerRegular

LEMMA CacheRowRegular ==
    ASSUME Typed, Agreeing, NEW h \in Handlers, CacheRow(h)
    PROVE  Agreeing'
<1>1. h \in Busy /\ pc[h] = "cache" /\ job[h] \in Jobs
      /\ Placed(pc[h], job[h], Ids, walk) /\ Pending(pc[h], job[h])
  BY AtLabel DEF CacheRow
<1>2. job[h].op \in {"list", "search"} /\ job[h].todo = <<>>
  BY <1>1 DEF Placed, Pending, Owing, Stitching
<1>3. UNCHANGED <<table, index, leased, docs>>
  BY DEF CacheRow
<1>4. PICK id \in job[h].missing :
          /\ details' = [details EXCEPT ![id] = job[h].rows[id]]
          /\ \/ job[h].missing = {id} /\ Respond(h, job[h].ids)
             \/ /\ job[h].missing # {id}
                /\ job' = [job EXCEPT ![h].missing = @ \ {id}]
                /\ UNCHANGED <<pc, walking>>
  BY DEF CacheRow
<1>5. HandlerRight(h)
  BY <1>1 DEF Agreeing
<1>6. /\ job[h].missing \subseteq Live
      /\ \A i \in job[h].missing : job[h].rows[i] = vehicles[i]
  BY <1>1, <1>5 DEF HandlerRight, Current
<1>7. job[h].op = "list" => job[h].ids = Page(ActiveIds(walk.list))
  BY <1>1, <1>5 DEF HandlerRight, Listing
<1>8. RowsStay(id) /\ Live' = Live /\ vehicles' = vehicles
  BY <1>3, RowsUnchanged DEF table
<1>9. ASSUME Others(h)
      PROVE  DetailsRight' /\ DocsRight'
  <2>1. id \in Slots /\ details \in [Slots -> Rows \cup {None}]
    BY <1>6, IdsAreSlots DEF Typed, TypeOK
  <2>2. details'[id] = vehicles'[id] /\ id \in Live'
    BY <1>4, <1>6, <1>8, <2>1
  <2>3. DetailsRight'
    BY <1>1, <1>4, <1>8, <1>9, <2>1, <2>2, DetailsStay DEF Agreeing
  <2>4. DocsRight'
    BY <1>1, <1>3, <1>9, DocsKept DEF Agreeing, Owing
  <2> QED BY <2>3, <2>4
<1>10. CASE Respond(h, job[h].ids)
  <2>1. Others(h) /\ pc'[h] = "idle" /\ h \notin Busy'
    BY <1>1, <1>10, OthersStay DEF Respond, Answer, Goto, Busy
  <2>2. WalkRight'
    BY <1>1, <1>2, <1>3, <1>7, <1>10, RespondWalk
  <2>3. IndexRight'
    BY <1>1, <1>2, <1>3, <2>1, IndexesKept DEF Agreeing
  <2>4. walk' = walk \/ \A g \in Busy \ {h} : job[g].op # "list"
    BY <1>1, <1>2, <1>10 DEF Respond, walking, Typed, OneList
  <2>5. LeasesRight'
    BY <1>1, <1>3, <2>1, <2>4, LeasesStay DEF Agreeing
  <2> QED BY <1>1, <1>3, <1>9, <2>1, <2>2, <2>3, <2>4, <2>5, HandlerRegular
<1>11. CASE ~Respond(h, job[h].ids)
  <2> DEFINE j == [job[h] EXCEPT !.missing = job[h].missing \ {id}]
  <2>1. /\ job' = [job EXCEPT ![h] = j] /\ UNCHANGED <<pc, walking>>
        /\ pc' = [pc EXCEPT ![h] = "cache"]
    BY <1>1, <1>4, <1>11, SamePlace
  <2>2. Others(h) /\ pc'[h] = "cache" /\ job'[h] = j
    BY <2>1, OthersStay
  <2>3. /\ j.op = job[h].op /\ j.id = job[h].id /\ j.ids = job[h].ids
        /\ j.missing = job[h].missing \ {id} /\ j.rows = job[h].rows
        /\ j.todo = job[h].todo
    BY <1>1 DEF Jobs
  <2> HIDE DEF j
  <2>4. Page(ActiveIds(walk.list))' = Page(ActiveIds(walk.list))
    BY <1>3, <2>1, SamePage
  <2>5. HandlerRight(h)'
    BY <1>2, <1>6, <1>7, <1>8, <2>2, <2>3, <2>4
    DEF HandlerRight, Current, TodoRight, Listing
  <2>6. WalkRight' /\ walk' = walk
    BY <1>3, <2>1, WalkUnchanged DEF Agreeing, walking
  <2>7. IndexRight'
    BY <1>1, <1>2, <1>3, <2>2, IndexesKept DEF Agreeing
  <2>8. LeasesRight'
    BY <1>1, <1>3, <2>2, <2>6, LeasesStay DEF Agreeing
  <2> QED BY <1>1, <1>3, <1>9, <2>2, <2>3, <2>5, <2>6, <2>7, <2>8, HandlerRegular
<1> QED BY <1>10, <1>11

-----------------------------------------------------------------------------
(***************************************************************************)
(* Steps that change the table.                                            *)
(***************************************************************************)
LEMMA RowWritten ==
    ASSUME Typed, Agreeing, NEW h \in Busy, job[h].op \in Writes, pc[h] \notin Owing,
           NEW id, RowsStay(id), Others(h), UNCHANGED caches,
           \A g \in Busy \ {h} : job[g].id # id,
           pc'[h] \in {"set", "evict"}, job'[h].op = job[h].op, job'[h].id = id,
           Apart', HandlerRight(h)', WalkRight',
           \A list \in Lists : id \in Ids' /\ index[IndexOf(list)] # {} =>
               \/ id \in index[IndexOf(list)] <=> id \in ActiveIds(list)'
               \/ Owes(h, id, IndexOf(list))'
    PROVE  Agreeing'
<1>1. h \in Handlers /\ h \in Busy' /\ UNCHANGED <<details, docs, index, leased>>
  BY DEF Busy, caches
<1>2. \A g \in Busy \ {h} : job[g].op \notin {"list", "search"}
  BY WriterAlone DEF Agreeing
<1>3. ASSUME NEW g \in Busy', g # h
      PROVE  HandlerRight(g)'
  <2>1. g \in Busy /\ pc'[g] = pc[g] /\ job'[g] = job[g] /\ HandlerRight(g)
    BY <1>1, <1>3, OthersBusy DEF Others, Agreeing, Busy
  <2> QED BY <1>2, <1>3, <2>1, BystanderRight
<1>4. Unsettled(id, {"set", "evict"})' /\ Unsettled(id, Owing)'
  BY <1>1, StillUnsettled DEF Owing
<1>5. DetailsRight'
  BY <1>1, <1>4, DetailsStay DEF Agreeing, Owing
<1>6. DocsRight'
  BY <1>1, <1>4, DocsStay DEF Agreeing
<1>7. job[h].todo = <<>>
  BY OnlyWritersOwe
<1>8. IndexRight'
  BY <1>1, <1>7, IndexStays DEF Agreeing
<1>9. pc[h] # "expire"
  BY HasPlace DEF Placed, Stitching, Writes
<1>10. LeasesRight'
  BY <1>1, <1>2, <1>9, LeasesStay DEF Agreeing
<1> QED BY <1>3, <1>5, <1>6, <1>8, <1>10 DEF Agreeing

LEMMA RetireRegular ==
    ASSUME Typed, Agreeing, Regular, NEW h \in Handlers, Retire(h)
    PROVE  Agreeing'
<1>1. h \in Busy /\ pc[h] = "retire" /\ job[h] \in Jobs
      /\ Placed(pc[h], job[h], Ids, walk) /\ Pending(pc[h], job[h])
  BY AtLabel DEF Retire
<1>2. job[h].op = "delete" /\ job[h].op \in Writes /\ job[h].id \in Ids
      /\ job[h].todo = <<>> /\ pc[h] \notin Owing
  BY <1>1 DEF Placed, Pending, Owing, Stitching, Writes
<1>3. job[h].id \in Live /\ job[h].row = vehicles[job[h].id]
  BY <1>1, <1>2 DEF Agreeing, HandlerRight, Current
<1>4. PICK id : id = job[h].id
  OBVIOUS
<1>5. UNCHANGED <<vehicles, caches, missed>> /\ retired' = retired \cup {id}
      /\ Leaves(id)
  BY <1>4 DEF Retire, Retired
<1>6. RowsStay(id) /\ Ids' = Ids /\ Live' = Live \ {id}
  BY <1>5 DEF RowsStay, Ids, Live
<1>7. \A list : ActiveIds(list)' = ActiveIds(list) \ {id}
  BY <1>5, <1>6 DEF ActiveIds
<1> DEFINE row == job[h].row
           todo == <<<<"rem", All>>, <<"rem", LowerCase[row.category]>>>>
           j == [job[h] EXCEPT !.todo = todo]
<1>8. pc' = [pc EXCEPT ![h] = "evict"] /\ job' = [job EXCEPT ![h] = j]
  BY DEF Retire, Goto
<1>9. Others(h) /\ pc'[h] = "evict" /\ job'[h] = j
  BY <1>8, OthersStay
<1>10. /\ j.op = job[h].op /\ j.id = id /\ j.todo = todo
  BY <1>1, <1>4 DEF Jobs
<1> HIDE DEF j
<1>11. h \in Busy'
  BY <1>9 DEF Busy
<1>12. Apart'
  BY <1>1, <1>4, <1>9, <1>10, ApartStays DEF Agreeing
<1>13. \A g \in Busy \ {h} : job[g].id # id
  BY <1>1, <1>2, <1>4, WriterAlone DEF Agreeing
<1>14. HandlerRight(h)'
  <2>1. Current(h)'
    BY <1>2, <1>5, <1>9, <1>10 DEF Current
  <2>2. \A n \in DOMAIN todo : todo[n][1] = "rem"
    OBVIOUS
  <2>3. TodoRight(h)'
    <3> HIDE DEF todo
    <3> QED BY <1>7, <1>9, <1>10, <2>2 DEF TodoRight
  <2>4. Listing(h)'
    BY <1>2, <1>9, <1>10 DEF Listing
  <2> QED BY <2>1, <2>3, <2>4 DEF HandlerRight
<1>15. WalkRight'
  <2>1. missed' = {}
    BY <1>5 DEF Agreeing, WalkRight
  <2>2. CASE walk = None
    BY <1>5, <2>1, <2>2 DEF Leaves, WalkRight
  <2>3. CASE walk # None
    <3>1. walk \in Walks
      BY <2>3 DEF Typed, TypeOK
    <3>2. walk' = [walk EXCEPT !.owed = walk.owed \ {id}]
      BY <1>5, <2>3 DEF Leaves
    <3>3. /\ walk'.list = walk.list /\ walk'.cursor = walk.cursor
          /\ walk'.owed = walk.owed \ {id}
      BY <3>1, <3>2 DEF Walks
    <3>4. ActiveIds(walk.list)' = ActiveIds(walk.list) \ {id}
      BY <1>5, <1>6, <3>3 DEF ActiveIds
    <3>5. walk.owed \subseteq Below(ActiveIds(walk.list), walk.cursor)
      BY <2>3 DEF Agreeing, WalkRight
    <3>6. walk.owed \ {id} \subseteq Below(ActiveIds(walk.list) \ {id}, walk.cursor)
      BY <3>5 DEF Below
    <3>7. (walk.owed \subseteq Below(ActiveIds(walk.list), walk.cursor))'
      BY <3>3, <3>4, <3>6 DEF Below
    <3> QED BY <2>1, <3>7 DEF WalkRight
  <2> QED BY <2>2, <2>3
<1>16. ASSUME NEW list \in Lists, index[IndexOf(list)] # {}
       PROVE  \/ id \in index[IndexOf(list)] <=> id \in ActiveIds(list)'
              \/ Owes(h, id, IndexOf(list))'
  <2>1. CASE id \in ActiveIds(list)
    <3>1. list = All \/ list = row.category
      BY <1>3, <1>4, <2>1 DEF ActiveIds
    <3>2. list = All => IndexOf(list) = All
      BY DEF IndexOf
    <3>3. list # All => list = row.category /\ IndexOf(list) = LowerCase[row.category]
      BY <3>1 DEF IndexOf
    <3>4. 1 \in DOMAIN todo /\ 2 \in DOMAIN todo /\ todo[1][2] = All
          /\ todo[2][2] = LowerCase[row.category]
      OBVIOUS
    <3>5. \E n \in DOMAIN todo : todo[n][2] = IndexOf(list)
      BY <3>2, <3>3, <3>4
    <3> HIDE DEF todo
    <3>6. Owes(h, id, IndexOf(list))'
      BY <1>9, <1>10, <3>5 DEF Owes, IndexOf
    <3> QED BY <3>6
  <2>2. CASE id \notin ActiveIds(list)
    <3>1. ~ \E g \in Busy : Owes(g, id, IndexOf(list))
      BY <1>2, <1>13 DEF Owes
    <3>2. id \notin index[IndexOf(list)]
      BY <1>2, <1>4, <1>16, <2>2, <3>1 DEF Agreeing, IndexRight
    <3> QED BY <1>7, <3>2
  <2> QED BY <2>1, <2>2
<1> QED BY <1>1, <1>2, <1>5, <1>6, <1>9, <1>10, <1>12, <1>13, <1>14, <1>15, <1>16,
           RowWritten

LEMMA InsertRegular ==
    ASSUME Typed, Agreeing, Regular, NEW h \in Handlers, Insert(h)
    PROVE  Agreeing'
<1>1. h \in Busy /\ pc[h] = "insert" /\ job[h] \in Jobs
      /\ Placed(pc[h], job[h], Ids, walk) /\ Pending(pc[h], job[h])
  BY AtLabel DEF Insert
<1>2. job[h].op = "create" /\ job[h].op \in Writes /\ job[h].row \in Rows
      /\ job[h].todo = <<>> /\ pc[h] \notin Owing \cup {"expire"}
  BY <1>1 DEF Placed, Pending, Owing, Stitching, Writes
<1>3. UNCHANGED <<retired, caches, walking>>
  BY DEF Insert
<1>4. CASE Answer(h) /\ UNCHANGED vehicles
  <2>1. UNCHANGED <<table, caches, walking>>
    BY <1>3, <1>4 DEF table
  <2> QED BY <1>1, <1>2, <1>4, <2>1, ReaderAnswers
<1>5. CASE Inserted(h) /\ job' = InsertBoth(h) /\ Goto(h, "set")
  <2>1. PICK id : id = Len(vehicles) + 1
    OBVIOUS
  <2> DEFINE row == job[h].row
             todo == <<<<"add", All>>, <<"add", LowerCase[row.category]>>>>
             j == [job[h] EXCEPT !.id = id, !.todo = todo]
  <2>2. vehicles \in Seq(Rows) /\ vehicles' = Append(vehicles, row)
    BY <1>5 DEF Typed, TypeOK, Inserted
  <2>3. /\ Ids = 1 .. Len(vehicles) /\ Len(vehicles) \in Nat
        /\ Ids' = Ids \cup {id} /\ id \notin Ids
        /\ vehicles'[id] = row /\ \A i \in Ids : vehicles'[i] = vehicles[i]
    BY <1>2, <2>1, <2>2 DEF Ids
  <2>4. retired' = retired /\ retired \subseteq Ids
    BY <1>3 DEF Typed, TypeOK
  <2>5. RowsStay(id) /\ Live' = Live \cup {id} /\ Live \subseteq Ids
    BY <2>3, <2>4 DEF RowsStay, Live
  <2>6. \A list \in Lists : id \in ActiveIds(list)' <=> list \in {All, row.category}
    BY <2>3, <2>5 DEF ActiveIds
  <2>7. pc' = [pc EXCEPT ![h] = "set"] /\ job' = [job EXCEPT ![h] = j]
    BY <1>5, <2>1 DEF Goto, InsertBoth
  <2>8. Others(h) /\ pc'[h] = "set" /\ job'[h] = j
    BY <2>7, OthersStay
  <2>9. j.op = "create" /\ j.id = id /\ j.row = row /\ j.todo = todo
    BY <1>1, <1>2 DEF Jobs
  <2> HIDE DEF j
  <2>10. \A g \in Busy \ {h} : job[g].id # id
    <3> SUFFICES ASSUME NEW g \in Busy \ {h}, job[g].id = id
                 PROVE  FALSE
      OBVIOUS
    <3>1. job[g].id \in Ids \cup {0, None}
      BY HasPlace DEF Placed
    <3>2. id # 0 /\ id # None
      BY <2>1, <2>3, CatalogAssumption
    <3> QED BY <2>3, <3>1, <3>2
  <2>11. Apart'
    <3>1. h \in Busy' /\ \A g \in Busy' \ {h} : g \in Busy /\ job'[g] = job[g]
      BY <2>8, OthersBusy DEF Others, Busy
    <3>2. ASSUME NEW g \in Busy' \ {h}
          PROVE  ~Conflict(job'[g], job'[h]) /\ ~Conflict(job'[h], job'[g])
      <4>1. job[g].id # id /\ job[g].op \notin {"list", "search"}
        BY <1>1, <1>2, <2>10, <3>1, WriterAlone DEF Agreeing
      <4> QED BY <2>8, <2>9, <3>1, <4>1 DEF Conflict
    <3>3. ASSUME NEW f \in Busy', NEW g \in Busy', f # g
          PROVE  ~Conflict(job'[f], job'[g])
      <4>1. CASE f = h \/ g = h
        BY <3>2, <3>3, <4>1
      <4>2. CASE f # h /\ g # h
        BY <3>1, <3>3, <4>2 DEF Agreeing, Apart
      <4> QED BY <4>1, <4>2
    <3> QED BY <3>3 DEF Apart
  <2>12. ASSUME NEW list \in Lists
         PROVE  /\ IndexOf(list) = All => list = All
                /\ IndexOf(list) = LowerCase[row.category] => list = row.category
    <3>1. row.category \in Categories
      BY <1>2 DEF Rows
    <3>2. row.category # All /\ LowerCase[row.category] # All
      BY <3>1, CatalogAssumption
    <3>3. All \in Lists /\ row.category \in Lists /\ IndexOf(All) = All
          /\ IndexOf(row.category) = LowerCase[row.category]
      BY <3>1, <3>2 DEF Lists, IndexOf
    <3> QED BY <3>3, OneIndexEach
  <2>13. HandlerRight(h)'
    <3>1. Current(h)'
      BY <2>3, <2>5, <2>8, <2>9 DEF Current
    <3>2. \A n \in DOMAIN todo : todo[n][1] = "add"
                /\ todo[n][2] \in {All, LowerCase[row.category]}
      OBVIOUS
    <3>3. TodoRight(h)'
      <4> HIDE DEF todo
      <4> SUFFICES ASSUME NEW n \in DOMAIN todo, NEW list \in Lists,
                          todo[n][2] = IndexOf(list)
                   PROVE  id \in ActiveIds(list)'
        BY <2>8, <2>9, <3>2 DEF TodoRight, IndexOf
      <4> QED BY <2>6, <2>12, <3>2
    <3>4. Listing(h)'
      BY <2>8, <2>9 DEF Listing
    <3> QED BY <3>1, <3>3, <3>4 DEF HandlerRight
  <2>14. WalkRight'
    BY <1>3, <2>3, <2>5, WalkStays DEF Agreeing
  <2>15. ASSUME NEW list \in Lists
         PROVE  \/ id \in index[IndexOf(list)] <=> id \in ActiveIds(list)'
                \/ Owes(h, id, IndexOf(list))'
    <3>1. CASE list \in {All, row.category}
      <4>1. list = All => IndexOf(list) = All
        BY DEF IndexOf
      <4>2. list # All => IndexOf(list) = LowerCase[row.category]
        BY <3>1 DEF IndexOf
      <4>3. 1 \in DOMAIN todo /\ 2 \in DOMAIN todo /\ todo[1][2] = All
            /\ todo[2][2] = LowerCase[row.category]
        OBVIOUS
      <4>4. \E n \in DOMAIN todo : todo[n][2] = IndexOf(list)
        BY <4>1, <4>2, <4>3
      <4> HIDE DEF todo
      <4> QED BY <2>8, <2>9, <4>4 DEF Owes, IndexOf
    <3>2. CASE list \notin {All, row.category}
      <4>1. IndexOf(list) \in Keys
        BY DEF Lists, IndexOf, Keys
      <4>2. id \notin index[IndexOf(list)]
        BY <2>3, <4>1 DEF Typed, TypeOK
      <4> QED BY <2>6, <3>2, <4>2
    <3> QED BY <3>1, <3>2
  <2> QED BY <1>1, <1>2, <1>3, <2>5, <2>8, <2>9, <2>10, <2>11, <2>13, <2>14, <2>15,
             RowWritten
<1> QED BY <1>4, <1>5 DEF Insert

\* What an update has to move: the vehicle out of the list that it leaves and
\* into the one that it joins, and it joins one only if it leaves one.
LEMMA MovesRight ==
    ASSUME Regular, NEW old \in Rows, NEW p \in Payloads, NEW list \in Categories
    PROVE  /\ \A n \in DOMAIN Moves(old, p) :
                 Moves(old, p)[n][2] = LowerCase[list] =>
                     (Moves(old, p)[n][1] = "add" <=> Changed(old, p).category = list)
           /\ (old.category = list) # (Changed(old, p).category = list) =>
                 \E n \in DOMAIN Moves(old, p) : Moves(old, p)[n][2] = LowerCase[list]
           /\ \A n \in DOMAIN Moves(old, p) : Moves(old, p)[n][2] # All
<1>1. old.category \in Categories /\ p.category \in Categories \cup {Keep}
  BY DEF Rows, Payloads
<1>2. Keep \notin Categories /\ \A c \in Categories : LowerCase[c] # All
  BY CatalogAssumption
<1>3. \A c, d \in Categories : LowerCase[c] = LowerCase[d] => c = d
  BY DEF Regular
<1>4. Changed(old, p).category = IF p.category = Keep THEN old.category ELSE p.category
  BY DEF Changed
<1>5. CASE p.category = Keep \/ LowerCase[p.category] = LowerCase[old.category]
  <2>1. Moves(old, p) = <<>>
    BY <1>5 DEF Moves
  <2>2. Changed(old, p).category = old.category
    BY <1>1, <1>3, <1>4, <1>5
  <2> QED BY <2>1, <2>2
<1>6. CASE p.category # Keep /\ LowerCase[p.category] # LowerCase[old.category]
  <2> DEFINE m == <<<<"rem", LowerCase[old.category]>>,
                     <<"add", LowerCase[p.category]>>>>
  <2>1. Moves(old, p) = m
    BY <1>6 DEF Moves
  <2>2. /\ DOMAIN m = {1, 2}
        /\ m[1][1] = "rem" /\ m[1][2] = LowerCase[old.category]
        /\ m[2][1] = "add" /\ m[2][2] = LowerCase[p.category]
    OBVIOUS
  <2> HIDE DEF m
  <2>3. Changed(old, p).category = p.category /\ p.category \in Categories
    BY <1>1, <1>4, <1>6
  <2>4. p.category # old.category
    BY <1>6
  <2>5. list = old.category <=> LowerCase[list] = m[1][2]
    BY <1>1, <1>3, <2>2
  <2>6. list = p.category <=> LowerCase[list] = m[2][2]
    BY <1>3, <2>2, <2>3
  <2>7. "rem" # "add" /\ m[1][2] # All /\ m[2][2] # All
    BY <1>1, <1>2, <2>2, <2>3
  <2> QED BY <2>1, <2>2, <2>3, <2>4, <2>5, <2>6, <2>7
<1> QED BY <1>5, <1>6

LEMMA UpdateRegular ==
    ASSUME Typed, Agreeing, Regular, NEW h \in Handlers, Update(h)
    PROVE  Agreeing'
<1>1. h \in Busy /\ pc[h] = "write" /\ job[h] \in Jobs
      /\ Placed(pc[h], job[h], Ids, walk) /\ Pending(pc[h], job[h])
  BY AtLabel DEF Update
<1>2. job[h].op = "update" /\ job[h].op \in Writes /\ job[h].id \in Ids
      /\ job[h].change \in Payloads
      /\ job[h].todo = <<>> /\ pc[h] \notin Owing \cup {"expire"}
  BY <1>1 DEF Placed, Pending, Owing, Stitching, Writes
<1>3. job[h].id \in Live /\ job[h].row = vehicles[job[h].id]
  BY <1>1, <1>2 DEF Agreeing, HandlerRight, Current
<1>4. UNCHANGED <<retired, caches, missed>>
  BY DEF Update
<1>5. CASE Answer(h) /\ UNCHANGED <<vehicles, walk>>
  <2>1. UNCHANGED <<table, caches, walking>>
    BY <1>4, <1>5 DEF table, walking
  <2> QED BY <1>1, <1>2, <1>5, <2>1, ReaderAnswers
<1>6. CASE ~(Answer(h) /\ UNCHANGED <<vehicles, walk>>)
  <2>1. PICK id : id = job[h].id
    OBVIOUS
  <2>2. PICK old, p, new : /\ old = vehicles[id] /\ p = job[h].change
                           /\ new = Changed(old, p)
    OBVIOUS
  <2> DEFINE todo == Moves(old, p)
             j == [job[h] EXCEPT !.row = new, !.change = None, !.todo = todo]
  <2>3. /\ vehicles' = [vehicles EXCEPT ![id] = new]
        /\ IF walk # None /\ walk.list \notin {All, new.category}
           THEN Leaves(id) ELSE UNCHANGED walk
    BY <1>6, <2>1, <2>2 DEF Update, Written, Target
  <2>4. pc' = [pc EXCEPT ![h] = "set"] /\ job' = [job EXCEPT ![h] = j]
    BY <1>3, <1>6, <2>1, <2>2 DEF Update, Goto, Target
  <2>5. Others(h) /\ pc'[h] = "set" /\ job'[h] = j
    BY <2>4, OthersStay
  <2>6. j.op = "update" /\ j.id = id /\ j.row = new /\ j.todo = todo
    BY <1>1, <1>2, <2>1 DEF Jobs
  <2> HIDE DEF j
  <2>7. old \in Rows /\ new \in Rows /\ p \in Payloads /\ vehicles \in Seq(Rows)
        /\ id \in Ids /\ id \in Live
    BY <1>2, <1>3, <2>1, <2>2, IdsAreSlots, ChangedIsRow DEF Typed, TypeOK
  <2>8. /\ vehicles'[id] = new /\ \A i \in Ids \ {id} : vehicles'[i] = vehicles[i]
        /\ Ids' = Ids
    BY <2>3, <2>7 DEF Ids
  <2>9. RowsStay(id) /\ Live' = Live
    BY <1>4, <2>8 DEF RowsStay, Live
  <2>10. \A g \in Busy \ {h} : job[g].id # id
    BY <1>1, <1>2, <2>1, WriterAlone DEF Agreeing
  <2>11. Apart'
    BY <1>1, <1>2, <2>1, <2>5, <2>6, ApartStays DEF Agreeing
  <2>12. \A list \in Lists :
            /\ id \in ActiveIds(list) <=> list \in {All, old.category}
            /\ id \in ActiveIds(list)' <=> list \in {All, new.category}
    BY <2>2, <2>7, <2>8, <2>9 DEF ActiveIds
  <2>13. ASSUME NEW list \in Lists
         PROVE  \/ list = All /\ IndexOf(list) = All
                \/ list # All /\ list \in Categories /\ IndexOf(list) = LowerCase[list]
    BY DEF Lists, IndexOf
  <2>14. HandlerRight(h)'
    <3>1. Current(h)'
      BY <2>5, <2>6, <2>7, <2>8, <2>9 DEF Current
    <3>2. TodoRight(h)'
      <4> SUFFICES ASSUME NEW n \in DOMAIN todo, NEW list \in Lists,
                          todo[n][2] = IndexOf(list)
                   PROVE  todo[n][1] = "add" <=> id \in ActiveIds(list)'
        BY <2>5, <2>6 DEF TodoRight, IndexOf
      <4>0. old.category \in Categories
        BY <2>7 DEF Rows
      <4>1. list # All /\ list \in Categories /\ IndexOf(list) = LowerCase[list]
        BY <2>7, <2>13, <4>0, MovesRight
      <4>2. todo[n][1] = "add" <=> new.category = list
        BY <2>2, <2>7, <4>1, MovesRight
      <4> QED BY <2>12, <4>1, <4>2
    <3>3. Listing(h)'
      BY <2>5, <2>6 DEF Listing
    <3> QED BY <3>1, <3>2, <3>3 DEF HandlerRight
  <2>15. ASSUME NEW list \in Lists, index[IndexOf(list)] # {}
         PROVE  \/ id \in index[IndexOf(list)] <=> id \in ActiveIds(list)'
                \/ Owes(h, id, IndexOf(list))'
    <3>1. ~ \E g \in Busy : Owes(g, id, IndexOf(list))
      BY <1>2, <2>10 DEF Owes
    <3>2. id \in index[IndexOf(list)] <=> id \in ActiveIds(list)
      BY <2>7, <2>15, <3>1 DEF Agreeing, IndexRight
    <3>3. CASE id \in ActiveIds(list) <=> id \in ActiveIds(list)'
      BY <3>2, <3>3
    <3>4. CASE ~(id \in ActiveIds(list) <=> id \in ActiveIds(list)')
      <4>1. list # All /\ (list = old.category) # (list = new.category)
        BY <2>12, <3>4
      <4>2. list \in Categories /\ IndexOf(list) = LowerCase[list]
        BY <2>13, <4>1
      <4>3. \E n \in DOMAIN todo : todo[n][2] = IndexOf(list)
        BY <2>2, <2>7, <4>1, <4>2, MovesRight
      <4> HIDE DEF todo
      <4> QED BY <2>5, <2>6, <4>3 DEF Owes, IndexOf
    <3> QED BY <3>3, <3>4
  <2>16. WalkRight'
    <3>1. missed' = {}
      BY <1>4 DEF Agreeing, WalkRight
    <3>2. CASE walk = None
      <4>1. walk' = None
        BY <2>3, <3>2
      <4> QED BY <3>1, <4>1 DEF WalkRight
    <3>3. CASE walk # None
      <4>1. walk \in Walks /\ walk.list \in Lists
        BY <3>3 DEF Typed, TypeOK, Walks, Lists
      <4>2. /\ walk' = walk \/ walk' = [walk EXCEPT !.owed = walk.owed \ {id}]
            /\ walk.list \notin {All, new.category} =>
                  walk' = [walk EXCEPT !.owed = walk.owed \ {id}]
        BY <2>3, <3>3 DEF Leaves
      <4>3. /\ walk'.list = walk.list /\ walk'.cursor = walk.cursor
            /\ walk'.owed \subseteq walk.owed
            /\ walk.list \notin {All, new.category} => id \notin walk'.owed
        BY <4>1, <4>2 DEF Walks
      <4>4. PICK list : list = walk.list
        OBVIOUS
      <4>5. ASSUME NEW i \in walk'.owed
            PROVE  i \in ActiveIds(list)' /\ (walk.cursor # None => i < walk.cursor)
        <5>1. i \in ActiveIds(list) /\ (walk.cursor # None => i < walk.cursor)
          BY <3>3, <4>3, <4>4, <4>5 DEF Agreeing, WalkRight, Below
        <5>2. i \in Ids
          BY <5>1, IdsAreSlots DEF ActiveIds
        <5>3. CASE i = id
          BY <2>12, <4>1, <4>3, <4>4, <4>5, <5>1, <5>3
        <5>4. CASE i # id
          BY <2>9, <5>1, <5>2, <5>4, ActiveElsewhere
        <5> QED BY <5>1, <5>3, <5>4
      <4>6. \A i \in ActiveIds(list)' : i \in ActiveIds(walk.list)'
        BY <4>3, <4>4 DEF ActiveIds
      <4> QED BY <3>1, <4>3, <4>5, <4>6 DEF WalkRight, Below
    <3> QED BY <3>2, <3>3
  <2> QED BY <1>1, <1>2, <1>4, <2>5, <2>6, <2>9, <2>10, <2>11, <2>14, <2>15, <2>16,
             RowWritten
<1> QED BY <1>5, <1>6

-----------------------------------------------------------------------------
(***************************************************************************)
(* Requests arrive, commands fail and keys expire.                         *)
(***************************************************************************)
LEMMA BeginRegular ==
    ASSUME Typed, Agreeing, Regular', NEW h \in Handlers,
           NEW label \in {"plate", "write", "retire", "get", "exists", "hits"},
           NEW op, NEW id, NEW row, NEW change, Begin(h, label, op, id, row, change),
           label \in {"plate", "write", "retire"} /\ op # "create" =>
               id \in Live /\ row = vehicles[id],
           walk' = walk \/ \A g \in Busy : job[g].op # "list",
           WalkRight'
    PROVE  Agreeing'
<1> DEFINE j == NewJob(op, id, row, change)
<1>1. /\ h \notin Busy /\ pc' = [pc EXCEPT ![h] = label] /\ job' = [job EXCEPT ![h] = j]
      /\ UNCHANGED <<table, caches>>
  BY DEF Begin, NewJob, At, Goto, Busy
<1>2. Others(h) /\ pc'[h] = label /\ job'[h] = j
  BY <1>1, OthersStay
<1>3. /\ j.op = op /\ j.id = id /\ j.row = row /\ j.todo = <<>>
  BY DEF NewJob
<1>4. \A g \in Busy : ~Conflict(job[g], j)
  BY DEF Begin, NewJob, Note, Regular
<1> HIDE DEF j
<1>5. Apart'
  <2>1. \A g \in Busy' \ {h} : g \in Busy /\ job'[g] = job[g]
    BY <1>2, OthersBusy DEF Others, Busy
  <2>2. ASSUME NEW g \in Busy' \ {h}
        PROVE  ~Conflict(job'[g], job'[h]) /\ ~Conflict(job'[h], job'[g])
    BY <1>2, <1>4, <2>1 DEF Conflict
  <2>3. ASSUME NEW f \in Busy', NEW g \in Busy', f # g
        PROVE  ~Conflict(job'[f], job'[g])
    <3>1. CASE f = h \/ g = h
      BY <2>2, <2>3, <3>1
    <3>2. CASE f # h /\ g # h
      BY <2>1, <2>3, <3>2 DEF Agreeing, Apart
    <3> QED BY <3>1, <3>2
  <2> QED BY <2>3 DEF Apart
<1>6. HandlerRight(h)'
  <2>1. Live' = Live /\ vehicles' = vehicles
    BY <1>1, RowsUnchanged DEF table
  <2> QED BY <1>2, <1>3, <2>1 DEF HandlerRight, Current, TodoRight, Listing
<1> QED BY <1>1, <1>2, <1>5, <1>6, ReaderRegular

LEMMA StartRegular ==
    ASSUME Typed, Agreeing, Regular', NEW h \in Handlers, Start(h)
    PROVE  Agreeing'
<1>1. ASSUME UNCHANGED walking, UNCHANGED table
      PROVE  WalkRight' /\ walk' = walk
  BY <1>1, WalkUnchanged DEF Agreeing, walking
<1>2. ASSUME NEW row \in Rows, StartCreate(h, row)
      PROVE  Agreeing'
  BY <1>1, <1>2, BeginRegular DEF StartCreate, Begin
<1>3. ASSUME NEW id \in Live, StartDelete(h, id)
      PROVE  Agreeing'
  <2>1. PICK row : row = vehicles[id]
    OBVIOUS
  <2>2. Begin(h, "retire", "delete", id, row, None) /\ UNCHANGED <<walking, table>>
    BY <1>3, <2>1 DEF StartDelete, Begin
  <2> QED BY <1>1, <2>1, <2>2, BeginRegular
<1>4. ASSUME NEW id \in Live, NEW p \in Payloads, StartUpdate(h, id, p)
      PROVE  Agreeing'
  <2>1. PICK row, label :
            /\ row = vehicles[id]
            /\ label = IF p.plate \in {Keep, row.plate} THEN "write" ELSE "plate"
    OBVIOUS
  <2>2. Begin(h, label, "update", id, row, p) /\ UNCHANGED <<walking, table>>
    BY <1>4, <2>1 DEF StartUpdate, Begin
  <2> QED BY <1>1, <2>1, <2>2, BeginRegular
<1>5. ASSUME NEW id \in Ids, StartGet(h, id)
      PROVE  Agreeing'
  BY <1>1, <1>5, BeginRegular DEF StartGet, Begin
<1>6. ASSUME StartSearch(h)
      PROVE  Agreeing'
  BY <1>1, <1>6, BeginRegular DEF StartSearch, Begin
<1>7. ASSUME NEW list \in {All} \cup Categories, StartList(h, list)
      PROVE  Agreeing'
  <2>1. /\ Begin(h, "exists", "list", None, None, None) /\ UNCHANGED table
        /\ \A g \in Busy : job[g].op # "list"
    BY <1>7 DEF StartList, Begin
  <2>2. WalkRight'
    <3>1. CASE UNCHANGED walking
      BY <1>1, <2>1, <3>1
    <3>2. CASE ~UNCHANGED walking
      <4>1. /\ walk' = [list |-> list, cursor |-> None, owed |-> ActiveIds(list)]
            /\ missed' = missed
        BY <1>7, <3>2 DEF StartList
      <4>2. walk'.list = list /\ walk'.cursor = None /\ walk'.owed = ActiveIds(list)
        BY <4>1
      <4>3. ActiveIds(walk.list)' = ActiveIds(list)
        BY <2>1, <4>2 DEF ActiveIds, Live, Ids, table
      <4>4. missed' = {}
        BY <4>1 DEF Agreeing, WalkRight
      <4> QED BY <4>2, <4>3, <4>4 DEF WalkRight, Below
    <3> QED BY <3>1, <3>2
  <2> QED BY <2>1, <2>2, BeginRegular
<1> QED BY <1>2, <1>3, <1>4, <1>5, <1>6, <1>7 DEF Start

\* In a regular history only reads fail, and they go on at the table.
LEMMA FailRegular ==
    ASSUME Typed, Agreeing, Regular', NEW h \in Handlers, Fail(h)
    PROVE  Agreeing'
<1>1. /\ h \in Busy /\ Applied(h) /\ UNCHANGED missed
      /\ Answer(h) \/ (Swallow(h) /\ UNCHANGED job)
      /\ Note("failure", pc[h] \notin Harmless)
  BY Fails
<1>2. pc[h] \in Harmless
  BY <1>1 DEF Note, Regular
<1>3. /\ h \in Handlers /\ Placed(pc[h], job[h], Ids, walk) /\ Pending(pc[h], job[h])
      /\ job[h] \in Jobs
  BY <1>1, HasPlace
<1>4. pc[h] \notin Owing \cup {"expire"}
  BY <1>2 DEF Harmless, Owing
<1>5. CASE UNCHANGED <<table, caches, walk>>
  <2>1. UNCHANGED <<table, caches, walking>>
    BY <1>1, <1>5 DEF walking
  <2>2. CASE Answer(h)
    BY <1>1, <1>4, <2>1, <2>2, ReaderAnswers
  <2>3. CASE Swallow(h) /\ UNCHANGED job
    <3>1. PICK label \in {"load", "fallback"} : Goto(h, label)
      BY <1>2, <2>3 DEF Swallow, Harmless
    <3>2. pc' = [pc EXCEPT ![h] = label] /\ job' = [job EXCEPT ![h] = job[h]]
      BY <1>1, <2>3, <3>1, SameJob DEF Goto
    <3>3. pc'[h] = label /\ job'[h] = job[h]
      BY <1>3, <3>2, OthersStay
    <3>4. job[h].todo = <<>>
      BY <1>3, <1>4 DEF Pending
    <3>5. HandlerRight(h)'
      BY <3>3, <3>4 DEF HandlerRight, Current, TodoRight, Listing
    <3> QED BY <1>1, <1>4, <2>1, <3>2, <3>5, ReaderGoesOn
  <2> QED BY <1>1, <2>2, <2>3
<1>6. CASE /\ pc[h] = "fill" /\ Stored(h)
           /\ UNCHANGED <<table, index, leased, docs, walk>>
  <2>1. Answer(h) /\ UNCHANGED <<table, index, leased, docs, walking>>
    BY <1>1, <1>6 DEF Swallow, walking
  <2> QED BY <1>1, <1>6, <2>1, FillRegular
<1> QED BY <1>1, <1>2, <1>5, <1>6 DEF Applied, Harmless

LEMMA DetailsExpireRegular ==
    ASSUME Typed, Agreeing, NEW id \in Slots, DetailsExpire(id)
    PROVE  Agreeing'
<1>1. UNCHANGED <<table, index, leased, docs, pc, job, walk, walking>>
      /\ details' = [details EXCEPT ![id] = None]
  BY DEF DetailsExpire, walking
<1>2. Busy' = Busy /\ Live' = Live /\ vehicles' = vehicles /\ Ids' = Ids
      /\ RowsStay(0) /\ \A list : ActiveIds(list)' = ActiveIds(list)
  BY <1>1, RowsUnchanged DEF Busy, table
<1>3. Apart' /\ WalkRight'
  BY <1>1, <1>2, WalkUnchanged DEF Agreeing, Apart
<1>4. ASSUME NEW g \in Busy
      PROVE  HandlerRight(g)'
  BY <1>1, <1>2, BystanderRight DEF Agreeing
<1>5. DetailsRight'
  <2>1. \A i \in Slots : details'[i] \in {details[i], None}
    BY <1>1 DEF Typed, TypeOK
  <2> QED BY <1>1, <1>2, <2>1 DEF Agreeing, DetailsRight, Unsettled
<1>6. DocsRight' /\ LeasesRight'
  BY <1>1, <1>2 DEF Agreeing, DocsRight, LeasesRight, Unsettled, IndexOf
<1>7. IndexRight'
  BY <1>1, <1>2 DEF Agreeing, IndexRight, Owes, IndexOf
<1> QED BY <1>2, <1>3, <1>4, <1>5, <1>6, <1>7 DEF Agreeing

LEMMA IndexExpiresRegular ==
    ASSUME Typed, Agreeing, Regular', NEW key \in Keys, IndexExpires(key)
    PROVE  Agreeing'
<1>1. /\ UNCHANGED <<table, details, docs, pc, job, walk, walking>>
      /\ index' = [index EXCEPT ![key] = {}] /\ leased' = leased \ {key}
      /\ key \in leased
      /\ Note("lapse", \E h \in Busy : pc[h] = "range" /\ IndexOf(walk.list) = key)
  BY DEF IndexExpires, walking
<1>2. Busy' = Busy /\ Live' = Live /\ vehicles' = vehicles /\ Ids' = Ids
      /\ RowsStay(0) /\ \A list : ActiveIds(list)' = ActiveIds(list)
  BY <1>1, RowsUnchanged DEF Busy, table
<1>3. \A h \in Busy : pc[h] = "range" => IndexOf(walk.list) # key
  BY <1>1 DEF Note, Regular
<1>4. index'[key] = {} /\ \A k \in Keys \ {key} : index'[k] = index[k]
  BY <1>1 DEF Typed, TypeOK
<1>5. Apart' /\ WalkRight'
  BY <1>1, <1>2, WalkUnchanged DEF Agreeing, Apart
<1>6. ASSUME NEW g \in Busy
      PROVE  HandlerRight(g)'
  <2>1. HandlerRight(g)
    BY DEF Agreeing
  <2>2. CASE job[g].op # "list"
    BY <1>1, <1>2, <2>1, <2>2, BystanderRight
  <2>3. CASE job[g].op = "list"
    <3>1. walk.list \in Lists /\ IndexOf(walk.list) \in Keys
      BY <2>3, HasPlace DEF Placed, Walks, Lists, IndexOf, Keys
    <3>2. index'[IndexOf(walk.list)] = IF IndexOf(walk.list) = key THEN {}
                                       ELSE index[IndexOf(walk.list)]
      BY <1>4, <3>1
    <3>3. (index[IndexOf(walk.list)])' = index'[IndexOf(walk.list)]
      BY <1>1 DEF IndexOf
    <3>4. IndexOf(walk.list)' = IndexOf(walk.list)
      BY <1>1 DEF IndexOf
    <3>5. /\ ActiveIds(walk.list)' = ActiveIds(walk.list)
          /\ Page(ActiveIds(walk.list))' = Page(ActiveIds(walk.list))
      BY <1>1, SamePage
    <3>6. Listing(g)'
      BY <1>1, <1>3, <2>1, <3>2, <3>3, <3>4, <3>5 DEF HandlerRight, Listing
    <3>7. Current(g)'
      BY <1>1, <1>2, <2>1 DEF HandlerRight, Current, table
    <3>8. TodoRight(g)'
      BY <1>1, <1>2, <2>1 DEF HandlerRight, TodoRight, IndexOf
    <3> QED BY <3>6, <3>7, <3>8 DEF HandlerRight
  <2> QED BY <2>2, <2>3
<1>7. DetailsRight' /\ DocsRight'
  BY <1>1, <1>2 DEF Agreeing, DetailsRight, DocsRight, Unsettled
<1>8. LeasesRight'
  BY <1>1, <1>2, <1>4 DEF Agreeing, LeasesRight, IndexOf
<1>9. IndexRight'
  <2>1. \A list \in Lists : IndexOf(list) \in Keys
    BY DEF Lists, IndexOf, Keys
  <2> QED BY <1>1, <1>2, <1>4, <2>1 DEF Agreeing, IndexRight, Owes, IndexOf
<1> QED BY <1>2, <1>5, <1>6, <1>7, <1>8, <1>9 DEF Agreeing

LEMMA NothingRegular ==
    ASSUME Typed, Agreeing, UNCHANGED vars
    PROVE  Agreeing'
<1>1. UNCHANGED <<table, caches, details, index, leased, docs, pc, job, walk, walking>>
  BY DEF vars, table, caches, walking
<1>2. Busy' = Busy /\ Live' = Live /\ vehicles' = vehicles /\ Ids' = Ids
      /\ RowsStay(0) /\ \A list : ActiveIds(list)' = ActiveIds(list)
  BY <1>1, RowsUnchanged DEF Busy, table
<1>3. Apart' /\ WalkRight'
  BY <1>1, <1>2, WalkUnchanged DEF Agreeing, Apart
<1>4. ASSUME NEW g \in Busy
      PROVE  HandlerRight(g)'
  BY <1>1, <1>2, BystanderRight DEF Agreeing
<1>5. DetailsRight' /\ DocsRight' /\ LeasesRight'
  BY <1>1, <1>2 DEF Agreeing, DetailsRight, DocsRight, LeasesRight, Unsettled, IndexOf
<1>6. IndexRight'
  BY <1>1, <1>2 DEF Agreeing, IndexRight, Owes, IndexOf
<1> QED BY <1>2, <1>3, <1>4, <1>5, <1>6 DEF Agreeing

-----------------------------------------------------------------------------
LEMMA StepRegular ==
    ASSUME Typed, Agreeing, Regular, Regular', NEW h \in Handlers, Step(h)
    PROVE  Agreeing'
<1>1. ASSUME Store(h)
      PROVE  Agreeing'
  <2>1. CASE pc[h] = "fill"
    <3>1. h \in Busy /\ Stored(h) /\ Answer(h)
          /\ UNCHANGED <<table, index, leased, docs, walking>>
      BY <1>1, <2>1 DEF Store, Busy
    <3> QED BY <2>1, <3>1, FillRegular
  <2>2. CASE pc[h] # "fill"
    <3>1. At(h, {"set", "evict"}) /\ Stored(h) /\ Goto(h, "index") /\ UNCHANGED job
          /\ UNCHANGED <<table, index, leased, docs, walking>>
      BY <1>1, <2>2 DEF Store, At
    <3> QED BY <3>1, StoreRegular
  <2> QED BY <2>1, <2>2
<1>2. ASSUME ChangeIndex(h)
      PROVE  Agreeing'
  <2>1. ~Recreates(h)
    BY <1>2 DEF ChangeIndex, Note, Regular
  <2> QED BY <1>2, <2>1, ChangeIndexRegular
<1> QED BY <1>1, <1>2, CheckPlateRegular, InsertRegular, UpdateRegular,
           RetireRegular, IndexExistsRegular, PublishRegular, GetRegular,
           LoadRegular, HydrateExistsRegular, FindActiveIdsRegular, HydrateRegular,
           ExpireIndexRegular, ZRangeRegular, HitsRegular, StitchRegular,
           FindRowsRegular, CacheRowRegular, FallBackRegular DEF Step

\* What has upset a history has upset it for good.
LEMMA RegularBefore ==
    ASSUME Next, Regular'
    PROVE  Regular
<1>1. upset \subseteq upset'
  <2>1. ASSUME NEW h \in Handlers, Start(h)
        PROVE  upset \subseteq upset'
    BY <2>1 DEF Start, StartCreate, StartUpdate, StartDelete, StartGet, StartList,
       StartSearch, Begin, Note
  <2>2. ASSUME NEW h \in Handlers, Step(h)
        PROVE  upset \subseteq upset'
    BY <2>2 DEF Step, CheckPlate, Insert, Update, Retire, Store, IndexExists,
       ChangeIndex, Publish, Get, Load, HydrateExists, FindActiveIds, Hydrate,
       ExpireIndex, ZRange, Hits, Stitch, FindRows, CacheRow, FallBack, Note
  <2>3. ASSUME NEW h \in Handlers, Fail(h)
        PROVE  upset \subseteq upset'
    BY <2>3 DEF Fail, Note
  <2>4. ASSUME NEW id \in Slots, DetailsExpire(id)
        PROVE  upset \subseteq upset'
    BY <2>4 DEF DetailsExpire
  <2>5. ASSUME NEW key \in Keys, IndexExpires(key)
        PROVE  upset \subseteq upset'
    BY <2>5 DEF IndexExpires, Note
  <2>6. ASSUME Quiet
        PROVE  upset \subseteq upset'
    BY <2>6 DEF Quiet, vars
  <2> QED BY <2>1, <2>2, <2>3, <2>4, <2>5, <2>6 DEF Next
<1>2. upset' = {} /\ \A c, d \in Categories : LowerCase[c] = LowerCase[d] => c = d
  BY DEF Regular
<1> QED BY <1>1, <1>2 DEF Regular

LEMMA CatalogInvStep == CatalogInv /\ [Next]_vars => CatalogInv'
<1> SUFFICES ASSUME CatalogInv, [Next]_vars
             PROVE  CatalogInv'
  OBVIOUS
<1>1. Typed /\ Typed'
  BY TypedStep DEF CatalogInv
<1>2. ASSUME Regular'
      PROVE  Agreeing'
  <2>1. CASE UNCHANGED vars
    <3>1. Regular
      BY <1>2, <2>1 DEF Regular, vars
    <3> QED BY <1>1, <2>1, <3>1, NothingRegular DEF CatalogInv
  <2>2. CASE Next
    <3>1. Regular /\ Agreeing
      BY <1>2, <2>2, RegularBefore DEF CatalogInv
    <3>2. ASSUME NEW h \in Handlers, Start(h) \/ Step(h) \/ Fail(h)
          PROVE  Agreeing'
      BY <1>1, <1>2, <3>1, <3>2, StartRegular, StepRegular, FailRegular
    <3>3. CASE Quiet
      BY <1>1, <3>1, <3>3, NothingRegular DEF Quiet
    <3> QED BY <1>1, <1>2, <2>2, <3>1, <3>2, <3>3, DetailsExpireRegular,
               IndexExpiresRegular DEF Next
  <2> QED BY <2>1, <2>2
<1> QED BY <1>1, <1>2 DEF CatalogInv

LEMMA CatalogInvariant == Spec => []CatalogInv
<1>1. Init => CatalogInv
  BY TypedInit, AgreeingInit DEF CatalogInv
<1> QED BY <1>1, CatalogInvStep, PTL DEF Spec

\* At rest, and after any number of requests of several customers and members
\* of staff and any expiries of cached keys, the table, the details vehicle:{id},
\* the sorted sets and the documents say the same of every vehicle, as long as
\* no request crossed another that it conflicts with, no write failed halfway
\* and no key lapsed between a check and its use.
THEOREM StoresAgreeAtRest == Spec => []StoresAgree
<1>1. ASSUME CatalogInv, Regular, Busy = {}
      PROVE  /\ \A id \in Slots :
                   /\ details[id] # None => id \in Live /\ details[id] = vehicles[id]
                   /\ docs[id] = IF id \in Live THEN vehicles[id] ELSE None
             /\ \A list \in Lists :
                   index[IndexOf(list)] # {} =>
                       /\ index[IndexOf(list)] = ActiveIds(list)
                       /\ IndexOf(list) \in leased
  <2>1. Typed /\ DetailsRight /\ DocsRight /\ IndexRight /\ LeasesRight
    BY <1>1 DEF CatalogInv, Agreeing
  <2>2. \A id \in Slots : \A labels : ~Unsettled(id, labels)
    BY <1>1 DEF Unsettled
  <2>3. ASSUME NEW list \in Lists, index[IndexOf(list)] # {}
        PROVE  /\ index[IndexOf(list)] = ActiveIds(list)
               /\ IndexOf(list) \in leased
    <3>1. IndexOf(list) \in Keys
      BY DEF Lists, IndexOf, Keys
    <3>2. index[IndexOf(list)] \subseteq Ids /\ ActiveIds(list) \subseteq Ids
      BY <2>1, <3>1, IdsAreSlots DEF Typed, TypeOK, ActiveIds
    <3>3. \A id \in Ids : id \in index[IndexOf(list)] <=> id \in ActiveIds(list)
      BY <1>1, <2>1, <2>3 DEF IndexRight
    <3>4. IndexOf(list) \in leased
      BY <1>1, <2>1, <2>3, <3>1 DEF LeasesRight
    <3> QED BY <3>2, <3>3, <3>4
  <2> QED BY <2>1, <2>2, <2>3 DEF DetailsRight, DocsRight
<1>2. CatalogInv => StoresAgree
  BY <1>1 DEF StoresAgree, Lists
<1> QED BY <1>2, CatalogInvariant, PTL

\* A customer who follows the cursors of a list to its end has seen every
\* vehicle that was on the list all the while, whatever the size of the pages
\* and of the fleet, and whether each page came from the sorted set, from the
\* table into which a failed read falls back, or from both.
THEOREM WalksComplete == Spec => []WalksAreComplete
<1>1. CatalogInv => WalksAreComplete
  BY DEF CatalogInv, Agreeing, WalkRight, WalksAreComplete
<1> QED BY <1>1, CatalogInvariant, PTL
=============================================================================
