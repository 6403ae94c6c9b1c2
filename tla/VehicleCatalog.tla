---------------------------- MODULE VehicleCatalog -----------------------------
(***************************************************************************)
(* The fleet: VehiclesService over four stores that no transaction joins,  *)
(* the vehicles table, the Redis details vehicle:{id}, the Redis sorted    *)
(* sets vehicles:index and vehicles:index:{category}, and the OpenSearch   *)
(* documents.                                                              *)
(*                                                                         *)
(* A vehicle's id is its index in `vehicles`.  Its plate and its category  *)
(* stand for its details; the name, the rate and the photo, which no       *)
(* operation tests, are left out.  A handler is one HTTP request; `pc`     *)
(* names the await it issues next.  One customer at a time walks through   *)
(* the pages of a list.                                                    *)
(***************************************************************************)
EXTENDS Integers, Sequences, FiniteSets

CONSTANTS
    Handlers,     \* the requests that may run at the same time
    Plates,       \* plate numbers, in upper case as the schemas make them
    Categories,   \* the category names that staff and customers write
    LowerCase,    \* a category in lower case, which names its index
    All,          \* the index vehicles:index, and the list without a category
    Limit,        \* vehicles per page
    Failures,     \* whether Redis, the database and the process may fail
    MaxVehicles,  \* bound: vehicles created
    MaxUpset,     \* bound: irregularities up to which a history is followed
    Keep,         \* a field that an update does not mention
    None          \* nothing there

Keys == {All} \cup {LowerCase[c] : c \in Categories}

Rows == [plate : Plates, category : Categories]

Slots == 1 .. MaxVehicles

\* A walk through a list: where it is, and what it has still to list.
Walks == [list : {All} \cup Categories, cursor : Slots \cup {None},
          owed : SUBSET Slots]

ASSUME CatalogAssumption ==
    /\ IsFiniteSet(Handlers)
    /\ DOMAIN LowerCase = Categories
    /\ \A c \in Categories : c # All /\ LowerCase[c] # All
    /\ Limit \in Nat \ {0}
    /\ Failures \in BOOLEAN
    /\ MaxVehicles \in Nat
    /\ MaxUpset \in Nat
    /\ Keep \notin Plates \cup Categories
    /\ None \notin Nat \cup Rows \cup Walks

VARIABLES
    vehicles,   \* the rows of the vehicles table, deleted ones included
    retired,    \* the ids whose deleted_at is set
    details,    \* vehicle:{id} -> what is cached, or None
    index,      \* the sorted sets; an empty one is a key that does not exist
    leased,     \* the index keys that have a TTL
    docs,       \* the documents of vehicles_index
    pc,         \* the next await of each handler
    job,        \* what each handler has read and has still to do
    walk,       \* the list that is being walked through, or None
    missed,     \* history: vehicles that a finished walk should have listed
    upset       \* history: the irregularities that have happened

vars == <<vehicles, retired, details, index, leased, docs, pc, job, walk,
          missed, upset>>

table == <<vehicles, retired>>
caches == <<details, index, leased, docs>>
walking == <<walk, missed>>

Payloads ==
    [plate : Plates \cup {Keep}, category : Categories \cup {Keep}]
        \ {[plate |-> Keep, category |-> Keep]}

Ids == DOMAIN vehicles

Live == Ids \ retired

IndexOf(list) == IF list = All THEN All ELSE LowerCase[list]

\* findActiveIds: the category is compared as it is written.
ActiveIds(list) ==
    {id \in Live : list # All => vehicles[id].category = list}

\* The n largest of a set of ids: ORDER BY id DESC LIMIT n, ZRANGE REV LIMIT.
Top(S, n) == {i \in S : Cardinality({j \in S : j > i}) < n}

Below(S, cursor) == {i \in S : cursor # None => i < cursor}

Init ==
    /\ vehicles = <<>>
    /\ retired = {}
    /\ details = [id \in Slots |-> None]
    /\ index = [k \in Keys |-> {}]
    /\ leased = {}
    /\ docs = [id \in Slots |-> None]
    /\ pc = [h \in Handlers |-> "idle"]
    /\ job = [h \in Handlers |-> None]
    /\ walk = None
    /\ missed = {}
    /\ upset = {}
-----------------------------------------------------------------------------
Labels ==
    {"idle", "plate", "insert", "write", "retire", "set", "fill", "evict",
     "index", "change", "doc", "get", "load", "exists", "ids", "zadd", "expire",
     "range", "hits", "stitch", "rows", "cache", "fallback"}

Goto(h, label) == pc' = [pc EXCEPT ![h] = label]

Answer(h) ==
    /\ Goto(h, "idle")
    /\ job' = [job EXCEPT ![h] = None]

Busy == {h \in Handlers : pc[h] # "idle"}

Writes == {"create", "update", "delete"}

\* Requests that get in each other's way: two for one vehicle of which one
\* writes, or a list beside a write.
Conflict(j, k) ==
    /\ {j.op, k.op} \cap Writes # {}
    /\ (j.id = k.id /\ j.id # 0) \/ {j.op, k.op} \cap {"list", "search"} # {}

Note(kind, happens) == upset' = upset \cup (IF happens THEN {kind} ELSE {})

\* A history is followed up to one irregularity beyond the bound, and no
\* request is made that would be one.
InScope == Cardinality(upset) <= MaxUpset

At(h, labels) == InScope /\ pc[h] \in labels

\* A request arrives: the vehicle it is about, the row it has read or is to
\* store, and its payload.
Begin(h, label, op, id, row, change) ==
    LET new == [op |-> op, id |-> id, row |-> row, change |-> change,
                todo |-> <<>>, ids |-> {}, missing |-> {}, rows |-> None]
    IN  /\ At(h, {"idle"})
        /\ job' = [job EXCEPT ![h] = new]
        /\ Goto(h, label)
        /\ Note("conflict", \E g \in Busy : Conflict(job[g], new))
        /\ Cardinality(upset') <= MaxUpset
        /\ UNCHANGED <<table, caches>>

StartCreate(h, row) ==
    /\ Len(vehicles) + Cardinality({g \in Busy : job[g].id = 0}) < MaxVehicles
    /\ Begin(h, "plate", "create", 0, row, None)
    /\ UNCHANGED walking

\* findById of updateVehicle; the plate is looked up only if it changes.
StartUpdate(h, id, p) ==
    /\ Begin(h, IF p.plate \in {Keep, vehicles[id].plate} THEN "write" ELSE "plate",
             "update", id, vehicles[id], p)
    /\ UNCHANGED walking

\* findById of deleteVehicle.
StartDelete(h, id) ==
    /\ Begin(h, "retire", "delete", id, vehicles[id], None)
    /\ UNCHANGED walking

StartGet(h, id) ==
    /\ Begin(h, "get", "get", id, None, None)
    /\ UNCHANGED walking

\* getVehiclesList without a search: the next page, or the first of a list.
StartList(h, list) ==
    /\ \A g \in Busy : job[g].op # "list"
    /\ \/ walk # None /\ walk.list = list /\ UNCHANGED walking
       \/ /\ walk = None
          /\ walk' = [list |-> list, cursor |-> None, owed |-> ActiveIds(list)]
          /\ UNCHANGED missed
    /\ Begin(h, "exists", "list", None, None, None)

\* getVehiclesList with a search, whose hits may be any documents.
StartSearch(h) ==
    /\ Begin(h, "hits", "search", None, None, None)
    /\ UNCHANGED walking

(***************************************************************************)
(* createVehicle and updateVehicle up to their statement.  A plate that is *)
(* taken, by a deleted vehicle too, is answered 409, by the service after  *)
(* its query or for the constraint of the table.                           *)
(***************************************************************************)
Taken(plate, id) == \E i \in Ids \ {id} : vehicles[i].plate = plate

PlateOf(j) == IF j.op = "create" THEN j.row.plate ELSE j.change.plate

CheckPlate(h) ==
    /\ At(h, {"plate"})
    /\ \/ Taken(PlateOf(job[h]), job[h].id) /\ Answer(h)
       \/ /\ ~Taken(PlateOf(job[h]), job[h].id)
          /\ Goto(h, IF job[h].op = "create" THEN "insert" ELSE "write")
          /\ UNCHANGED job
    /\ UNCHANGED <<table, caches, walking, upset>>

Inserted(h) == vehicles' = Append(vehicles, job[h].row)

\* The indexes that a new vehicle is to be added to.
InsertBoth(h) ==
    [job EXCEPT ![h].id = Len(vehicles) + 1,
                ![h].todo = <<<<"add", All>>,
                              <<"add", LowerCase[job[h].row.category]>>>>]

Insert(h) ==
    /\ At(h, {"insert"})
    /\ \/ /\ ~Taken(job[h].row.plate, 0)
          /\ Inserted(h)
          /\ job' = InsertBoth(h)
          /\ Goto(h, "set")
       \/ /\ Taken(job[h].row.plate, 0)
          /\ Answer(h)
          /\ UNCHANGED vehicles
    /\ UNCHANGED <<retired, caches, walking, upset>>

ChangedBlindly(row, p) == p

\* The fields that the payload has.
Changed(row, p) ==
    [plate |-> IF p.plate = Keep THEN row.plate ELSE p.plate,
     category |-> IF p.category = Keep THEN row.category ELSE p.category]

MovesNothing(old, p) == <<>>

\* The index moves of a change of category, judged by the row as first read.
Moves(old, p) ==
    IF p.category = Keep \/ LowerCase[p.category] = LowerCase[old.category]
    THEN <<>>
    ELSE <<<<"rem", LowerCase[old.category]>>, <<"add", LowerCase[p.category]>>>>

\* A walk is not owed what has left its list.
Leaves(id) ==
    walk' = IF walk = None THEN None ELSE [walk EXCEPT !.owed = @ \ {id}]

Target(h) == Changed(vehicles[job[h].id], job[h].change)

Writable(h) == job[h].id \in Live /\ ~Taken(Target(h).plate, job[h].id)

Written(h) ==
    /\ vehicles' = [vehicles EXCEPT ![job[h].id] = Target(h)]
    /\ IF walk # None /\ walk.list \notin {All, Target(h).category}
       THEN Leaves(job[h].id) ELSE UNCHANGED walk

\* UPDATE ... WHERE deleted_at IS NULL RETURNING *: the row as it is now with
\* the fields of the payload.  No row is a TypeError, answered 500.
Update(h) ==
    /\ At(h, {"write"})
    /\ \/ /\ Writable(h)
          /\ Written(h)
          /\ job' = [job EXCEPT ![h].row = Target(h), ![h].change = None,
                                ![h].todo = Moves(job[h].row, job[h].change)]
          /\ Goto(h, "set")
       \/ /\ ~Writable(h)
          /\ Answer(h)
          /\ UNCHANGED <<vehicles, walk>>
    /\ UNCHANGED <<retired, caches, missed, upset>>

Retired(h) == retired' = retired \cup {job[h].id} /\ Leaves(job[h].id)

\* softDelete.
Retire(h) ==
    /\ At(h, {"retire"})
    /\ Retired(h)
    /\ job' = [job EXCEPT ![h].todo =
                  <<<<"rem", All>>, <<"rem", LowerCase[job[h].row.category]>>>>]
    /\ Goto(h, "evict")
    /\ UNCHANGED <<vehicles, caches, missed, upset>>

\* vehicle:{id} is set after a write or filled after a read, with an EX of an
\* hour, or deleted.
Stored(h) ==
    details' = [details EXCEPT ![job[h].id] =
                   IF pc[h] = "evict" THEN None ELSE job[h].row]

Store(h) ==
    /\ At(h, {"set", "fill", "evict"})
    /\ Stored(h)
    /\ \/ pc[h] = "fill" /\ Answer(h)
       \/ pc[h] # "fill" /\ Goto(h, "index") /\ UNCHANGED job
    /\ UNCHANGED <<table, index, leased, docs, walking, upset>>

(***************************************************************************)
(* An index is changed only if its key exists, in two commands.            *)
(***************************************************************************)
Op(h) == Head(job[h].todo)[1]

Key(h) == Head(job[h].todo)[2]

Drop(h) == [job EXCEPT ![h].todo = Tail(@)]

IndexExists(h) ==
    /\ At(h, {"index"})
    /\ \/ job[h].todo = <<>> /\ Goto(h, "doc") /\ UNCHANGED job
       \/ /\ job[h].todo # <<>>
          /\ index[Key(h)] # {} /\ Goto(h, "change") /\ UNCHANGED job
       \/ /\ job[h].todo # <<>>
          /\ index[Key(h)] = {} /\ job' = Drop(h) /\ UNCHANGED pc
    /\ UNCHANGED <<table, caches, walking, upset>>

\* ZADD makes the key if it has gone meanwhile, ZREM of the last member
\* deletes it.
IndexChanged(h) ==
    LET members == IF Op(h) = "add" THEN index[Key(h)] \cup {job[h].id}
                                    ELSE index[Key(h)] \ {job[h].id}
    IN  /\ index' = [index EXCEPT ![Key(h)] = members]
        /\ leased' = IF members = {} THEN leased \ {Key(h)} ELSE leased

Recreates(h) == Op(h) = "add" /\ index[Key(h)] = {}

ChangeIndex(h) ==
    /\ At(h, {"change"})
    /\ IndexChanged(h)
    /\ job' = Drop(h)
    /\ Goto(h, "index")
    /\ Note("lapse", Recreates(h))
    /\ UNCHANGED <<table, details, docs, walking>>

\* The document in OpenSearch, and the response.
Published(h) ==
    docs' = [docs EXCEPT ![job[h].id] =
                IF job[h].op = "delete" THEN None ELSE job[h].row]

Publish(h) ==
    /\ At(h, {"doc"})
    /\ Published(h)
    /\ Answer(h)
    /\ UNCHANGED <<table, details, index, leased, walking, upset>>
-----------------------------------------------------------------------------
\* getVehicleById: the cache, then the table.
Get(h) ==
    /\ At(h, {"get"})
    /\ \/ details[job[h].id] # None /\ Answer(h)
       \/ details[job[h].id] = None /\ Goto(h, "load") /\ UNCHANGED job
    /\ UNCHANGED <<table, caches, walking, upset>>

Load(h) ==
    /\ At(h, {"load"})
    /\ \/ /\ job[h].id \in Live
          /\ job' = [job EXCEPT ![h].row = vehicles[job[h].id]]
          /\ Goto(h, "fill")
       \/ job[h].id \notin Live /\ Answer(h)
    /\ UNCHANGED <<table, caches, walking, upset>>

\* hydrateZsetIndex: EXISTS, the SELECT, ZADD and EXPIRE.
HydrateExists(h) ==
    /\ At(h, {"exists"})
    /\ Goto(h, IF index[IndexOf(walk.list)] # {} THEN "range" ELSE "ids")
    /\ UNCHANGED <<table, caches, job, walking, upset>>

FindActiveIds(h) ==
    /\ At(h, {"ids"})
    /\ job' = [job EXCEPT ![h].ids = ActiveIds(walk.list)]
    /\ Goto(h, IF ActiveIds(walk.list) = {} THEN "range" ELSE "zadd")
    /\ UNCHANGED <<table, caches, walking, upset>>

Hydrated(h) ==
    index' = [index EXCEPT ![IndexOf(walk.list)] = @ \cup job[h].ids]

Hydrate(h) ==
    /\ At(h, {"zadd"})
    /\ Hydrated(h)
    /\ Goto(h, "expire")
    /\ UNCHANGED <<table, details, leased, docs, job, walking, upset>>

\* EXPIRE of a key that has gone does nothing.
Lease(key) == leased \cup {k \in {key} : index[k] # {}}

ExpireIndex(h) ==
    /\ At(h, {"expire"})
    /\ leased' = Lease(IndexOf(walk.list))
    /\ Goto(h, "range")
    /\ UNCHANGED <<table, details, index, docs, job, walking, upset>>

PageSkippingOne(S, cursor) ==
    Top({i \in S : cursor # None => i < cursor - 1}, Limit + 1)

\* A page of ids and the one after it, by which the end is told.
PageFrom(S, cursor) == Top(Below(S, cursor), Limit + 1)

Page(S) == PageFrom(S, walk.cursor)

ZRange(h) ==
    /\ At(h, {"range"})
    /\ job' = [job EXCEPT ![h].ids = Page(index[IndexOf(walk.list)])]
    /\ Goto(h, "stitch")
    /\ UNCHANGED <<table, caches, walking, upset>>

\* The hits, a cursor's successors among them, in the order of relevance.
Hits(h) ==
    /\ At(h, {"hits"})
    /\ \E ids \in SUBSET {id \in Slots : docs[id] # None} :
          /\ Cardinality(ids) <= Limit + 1
          /\ job' = [job EXCEPT ![h].ids = ids]
    /\ Goto(h, "stitch")
    /\ UNCHANGED <<table, caches, walking, upset>>

\* The end of getVehiclesList: a cursor is given if there are more vehicles
\* than fit on the page.
Respond(h, listed) ==
    LET page == Top(listed, Limit)
    IN  /\ Answer(h)
        /\ IF job[h].op = "search" THEN UNCHANGED walking
           ELSE IF listed = page
           THEN walk' = None /\ missed' = missed \cup (walk.owed \ page)
           ELSE /\ walk' = [walk EXCEPT
                              !.cursor = CHOOSE i \in page : \A j \in page : i <= j,
                              !.owed = @ \ page]
                /\ UNCHANGED missed

(***************************************************************************)
(* stitchVehicleDetails: MGET, then the SELECT of the missing rows that    *)
(* are not deleted, each of which is cached.  What is in neither is left   *)
(* out of the page.                                                        *)
(***************************************************************************)
Stitch(h) ==
    LET missing == {id \in job[h].ids : details[id] = None}
    IN  /\ At(h, {"stitch"})
        /\ \/ missing = {} /\ Respond(h, job[h].ids)
           \/ /\ missing # {}
              /\ job' = [job EXCEPT ![h].missing = missing]
              /\ Goto(h, "rows")
              /\ UNCHANGED walking
        /\ UNCHANGED <<table, caches, upset>>

FindRows(h) ==
    LET found == job[h].missing \cap Live
        listed == (job[h].ids \ job[h].missing) \cup found
    IN  /\ At(h, {"rows"})
        /\ \/ found = {} /\ Respond(h, listed)
           \/ /\ found # {}
              /\ job' = [job EXCEPT ![h].ids = listed, ![h].missing = found,
                                    ![h].rows = [id \in found |-> vehicles[id]]]
              /\ Goto(h, "cache")
              /\ UNCHANGED walking
        /\ UNCHANGED <<table, caches, upset>>

CacheRow(h) ==
    /\ At(h, {"cache"})
    /\ \E id \in job[h].missing :
          /\ details' = [details EXCEPT ![id] = job[h].rows[id]]
          /\ \/ job[h].missing = {id} /\ Respond(h, job[h].ids)
             \/ /\ job[h].missing # {id}
                /\ job' = [job EXCEPT ![h].missing = @ \ {id}]
                /\ UNCHANGED <<pc, walking>>
    /\ UNCHANGED <<table, index, leased, docs, upset>>

\* findPaginatedFromDb, when Redis or OpenSearch is of no help.
FallBack(h) ==
    /\ At(h, {"fallback"})
    /\ Respond(h, IF job[h].op = "search" THEN Top(Live, Limit + 1)
                                          ELSE Page(ActiveIds(walk.list)))
    /\ UNCHANGED <<table, caches, upset>>

(***************************************************************************)
(* A command fails, applied or not, or the process dies.  Redis and        *)
(* OpenSearch errors are swallowed: a write skips the rest of its block, a *)
(* read goes to the table.  Other errors are answered 500.  No harm is     *)
(* done by the failure of a read, nor before a request's first effect.     *)
(***************************************************************************)
Harmless == {"plate", "get", "load", "fill", "hits", "exists", "ids", "range",
             "stitch", "rows", "cache", "fallback"}

Swallow(h) ==
    \/ pc[h] = "set" /\ Goto(h, IF job[h].op = "create" THEN "index" ELSE "doc")
    \/ pc[h] \in {"evict", "index", "change"} /\ Goto(h, "doc")
    \/ pc[h] = "get" /\ Goto(h, "load")
    \/ pc[h] \in {"hits", "exists", "ids", "zadd", "expire", "range"}
       /\ Goto(h, "fallback")

Fail(h) ==
    /\ Failures
    /\ At(h, Labels \ {"idle"})
    /\ \/ UNCHANGED <<table, caches, walk>>
       \/ /\ pc[h] = "insert" /\ ~Taken(job[h].row.plate, 0) /\ Inserted(h)
          /\ UNCHANGED <<retired, caches, walk>>
       \/ /\ pc[h] = "write" /\ Writable(h) /\ Written(h)
          /\ UNCHANGED <<retired, caches>>
       \/ /\ pc[h] = "retire" /\ Retired(h)
          /\ UNCHANGED <<vehicles, caches>>
       \/ /\ pc[h] \in {"set", "fill", "evict"} /\ Stored(h)
          /\ UNCHANGED <<table, index, leased, docs, walk>>
       \/ /\ pc[h] = "change" /\ IndexChanged(h)
          /\ UNCHANGED <<table, details, docs, walk>>
       \/ /\ pc[h] = "zadd" /\ Hydrated(h)
          /\ UNCHANGED <<table, details, leased, docs, walk>>
       \/ /\ pc[h] = "doc" /\ Published(h)
          /\ UNCHANGED <<table, details, index, leased, walk>>
    /\ Answer(h) \/ (Swallow(h) /\ UNCHANGED job)
    /\ Note("failure", pc[h] \notin Harmless)
    /\ UNCHANGED missed

DetailsExpire(id) ==
    /\ InScope
    /\ details[id] # None
    /\ details' = [details EXCEPT ![id] = None]
    /\ UNCHANGED <<table, index, leased, docs, pc, job, walking, upset>>

\* A list that has just found the key finds nothing in it.
IndexExpires(key) ==
    /\ InScope
    /\ key \in leased
    /\ index' = [index EXCEPT ![key] = {}]
    /\ leased' = leased \ {key}
    /\ Note("lapse", \E h \in Busy : pc[h] = "range" /\ IndexOf(walk.list) = key)
    /\ UNCHANGED <<table, details, docs, pc, job, walking>>

Start(h) ==
    \/ \E row \in Rows : StartCreate(h, row)
    \/ \E id \in Live : \/ StartDelete(h, id)
                        \/ \E p \in Payloads : StartUpdate(h, id, p)
    \/ \E id \in Ids : StartGet(h, id)
    \/ \E list \in {All} \cup Categories : StartList(h, list)
    \/ StartSearch(h)

Step(h) ==
    \/ CheckPlate(h) \/ Insert(h) \/ Update(h) \/ Retire(h)
    \/ Store(h) \/ IndexExists(h) \/ ChangeIndex(h) \/ Publish(h)
    \/ Get(h) \/ Load(h)
    \/ HydrateExists(h) \/ FindActiveIds(h) \/ Hydrate(h) \/ ExpireIndex(h)
    \/ ZRange(h) \/ Hits(h) \/ Stitch(h) \/ FindRows(h) \/ CacheRow(h)
    \/ FallBack(h)

\* Nobody asks for anything, or the history is not followed further.
Quiet == (Busy = {} \/ ~InScope) /\ UNCHANGED vars

Next ==
    \/ \E h \in Handlers : Start(h) \/ Step(h) \/ Fail(h)
    \/ \E id \in Slots : DetailsExpire(id)
    \/ \E key \in Keys : IndexExpires(key)
    \/ Quiet

Spec == Init /\ [][Next]_vars

-----------------------------------------------------------------------------
TypeOK ==
    /\ vehicles \in Seq(Rows)
    /\ retired \subseteq Ids
    /\ details \in [Slots -> Rows \cup {None}]
    /\ index \in [Keys -> SUBSET Ids]
    /\ leased \subseteq {k \in Keys : index[k] # {}}
    /\ docs \in [Slots -> Rows \cup {None}]
    /\ pc \in [Handlers -> Labels]
    /\ \A h \in Busy : job[h].op \in Writes \cup {"get", "list", "search"}
    /\ walk \in Walks \cup {None}
    /\ walk # None => walk.owed \subseteq Live
    /\ missed \subseteq Slots
    /\ upset \subseteq {"conflict", "lapse", "failure"}

Regular == upset = {} /\ \A c, d \in Categories : LowerCase[c] = LowerCase[d] => c = d

\* At rest the four stores say the same of every vehicle, whatever sequence of
\* requests and expiries has gone by, and although writers of different
\* vehicles run side by side: cached details are the row's, deleted vehicles
\* are cached nowhere, an index that exists is complete and has its TTL, and
\* the documents are the live rows.
StoresAgree ==
    Regular /\ Busy = {} =>
        /\ \A id \in Slots :
              /\ details[id] # None => id \in Live /\ details[id] = vehicles[id]
              /\ docs[id] = IF id \in Live THEN vehicles[id] ELSE None
        /\ \A list \in {All} \cup Categories :
              index[IndexOf(list)] # {} =>
                  /\ index[IndexOf(list)] = ActiveIds(list)
                  /\ IndexOf(list) \in leased

\* A customer who follows the cursors to the end has seen every vehicle that
\* was on the list all the while, although vehicles come and go between the
\* pages, indexes and details expire, and pages come from different stores.
WalksAreComplete == Regular => missed = {}

\* What the documentation says of DELETE /vehicles/{id}, that it purges the
\* details cache: once all requests are answered, and if none of them failed,
\* no deleted vehicle is cached.
DeletedNotCached ==
    "failure" \notin upset /\ Busy = {} => \A id \in retired : details[id] = None
=============================================================================
