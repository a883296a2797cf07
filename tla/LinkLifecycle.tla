---------------------------- MODULE LinkLifecycle ----------------------------
(***************************************************************************)
(* The life of a link: it is created (cores/service.go Create and Add,     *)
(* cores/http.go httpHandleCreate), edited (Update, Remove), expired by    *)
(* one daily job (ExpireActives) and recycled by another (RecycleExpires), *)
(* over the table (ext/gormx/repo.go), the hash of redirects               *)
(* (ext/redisx/cache.go) and the pool, which all servers share.            *)
(*                                                                         *)
(* A client is a goroutine that serves one request after the other: of     *)
(* the management, or redirects, of which only those matter here that find *)
(* a mapping expired and delete it.  Each server runs one expirer and one  *)
(* recycler.  One step is one call on a shared store.  How the pool is     *)
(* filled is the subject of CodeSupply; here it only gets codes back.      *)
(*                                                                         *)
(* Times are what is left until now, in days: a row's life is its expire   *)
(* minus the clock.  A request or a pass takes less than a day, so the     *)
(* clock moves while none is under way.                                    *)
(***************************************************************************)
EXTENDS Integers, FiniteSets, Functions

CONSTANTS
  Codes,
  Links,
  Terms,        \* the lives a request may ask for
  Year,         \* days an expired link keeps its code: 365
  PageSize,     \* rows per page of a job: 100
  MaxRows,      \* bound: no create starts once this many rows were stored
  Clients, Expirers, Recyclers,   \* goroutines
  Admins,       \* the clients that create manual links
  Faulty        \* the goroutines that may die or see calls fail

Jobs  == Expirers \cup Recyclers
Procs == Clients \cup Jobs

ASSUME LifecycleAssumption ==
  /\ Terms \subseteq Int /\ Year \in Nat
  /\ PageSize \in Nat \ {0} /\ MaxRows \in Nat
  /\ Clients \cap Jobs = {} /\ Expirers \cap Recyclers = {}
  /\ Admins \subseteq Clients /\ Faulty \subseteq Procs

VARIABLES
  auto,      \* the codes of automatic lengths, all generated; never changed
  rows,      \* the table: a row for each id that is stored
  lastId,    \* the last id the table gave out
  mapping,   \* the hash: link and life for each code that is mapped
  pool,      \* the codes that may be handed out
  op,        \* each client's request and the call it makes next
  job,       \* each job's place in its pass
  overlapped,  \* history: the requests and pages that met another on their code
  suspect,     \* history: the codes whose last request met another, or failed
  strayed      \* history: the codes taken off their round, by Strays

stores == <<auto, rows, lastId, mapping, pool>>
marks  == <<overlapped, suspect, strayed>>
vars   == <<stores, op, job, marks>>

-----------------------------------------------------------------------------
\* The function f, with k mapped to v.
Put(f, k, v) == [x \in DOMAIN f \cup {k} |-> IF x = k THEN v ELSE f[x]]

RowsOf(k) == {id \in DOMAIN rows : rows[id].code = k}

\* The row GetByCode returns: the one with the highest id.
IsNewest(id, k) == id \in RowsOf(k) /\ \A i \in RowsOf(k) : i <= id

NoOp  == [at |-> "idle"]
NoJob == [at |-> "idle", from |-> 0, page |-> <<>>, todo |-> {}]

Init ==
  /\ auto \in SUBSET Codes
  /\ rows = <<>> /\ lastId = 0 /\ mapping = <<>> /\ pool = auto
  /\ op = [c \in Clients |-> NoOp] /\ job = [j \in Jobs |-> NoJob]
  /\ overlapped = {} /\ suspect = {} /\ strayed = {}

\* The codes a request, or a page of an expirer, is about.
About(p) ==
  IF p \in Clients
  THEN IF op[p].at = "idle" THEN {} ELSE {op[p].code}
  ELSE {job[p].page[id].code : id \in DOMAIN job[p].page}

Rivals(p, ks) == {q \in (Clients \cup Expirers) \ {p} : About(q) \cap ks # {}}

\* p begins something about ks; it ends, well or not.
Begins(p, ks) ==
  /\ overlapped' = IF Rivals(p, ks) = {} THEN overlapped
                   ELSE overlapped \cup {p} \cup Rivals(p, ks)
  /\ UNCHANGED suspect

\* A management request that ends well, alone, leaves its code in order.
Repairs(p) == p \in Clients /\ op[p].at # "evict"

Ends(p, well) ==
  /\ overlapped' = overlapped \ {p}
  /\ suspect' = CASE p \in overlapped \/ ~well -> suspect \cup About(p)
                  [] p \notin overlapped /\ well /\ Repairs(p) -> suspect \ About(p)
                  [] OTHER -> suspect

\* The code does not ensure that these codes have one owner from here on: they are
\* handed out past the pool, saved after they were given back, or given back twice.
Strays(ks) == strayed' = strayed \cup ks

Goto(c, where) == op' = [op EXCEPT ![c].at = where]

-----------------------------------------------------------------------------
(* Create, Add: the code is chosen, then mapped, then stored. *)

\* A new request is answered; its first call is the step that starts it.
Idle(c) == op[c].at = "idle"

Request(where, k, link, life) ==
  [at |-> where, code |-> k, link |-> link, life |-> life]

\* A link is created for the future: httpHandleCreate replaces a past expiry.
MayCreate(c, life) == Idle(c) /\ lastId < MaxRows /\ life >= 0

\* Create, for an automatic length: ZPOPMIN (an empty pool: see CodeSupply).
Pull(c, k, link, life) ==
  /\ MayCreate(c, life) /\ k \in pool \cap auto
  /\ pool' = pool \ {k}
  /\ op' = [op EXCEPT ![c] = Request("map", k, link, life)]
  /\ Begins(c, {k})
  /\ UNCHANGED <<auto, rows, lastId, mapping, job, strayed>>

\* httpHandleCreate for a manual length: a code in use is refused.  The length of
\* the code itself is not looked at, so it may be one of the generator.
CheckManual(c, k, link, life) ==
  /\ c \in Admins /\ MayCreate(c, life)
  /\ \A id \in RowsOf(k) : IsNewest(id, k) => rows[id].status = "recycled"
  /\ op' = [op EXCEPT ![c] = Request("map", k, link, life)]
  /\ Begins(c, {k})
  /\ Strays(auto \cap {k})
  /\ UNCHANGED <<stores, job>>

\* HSET, of a creation or an update.
Map(c) ==
  /\ op[c].at \in {"map", "remap"}
  /\ mapping' = Put(mapping, op[c].code, [link |-> op[c].link, life |-> op[c].life])
  /\ Goto(c, IF op[c].at = "map" THEN "row" ELSE "save")
  /\ UNCHANGED <<auto, rows, lastId, pool, job, marks>>

\* INSERT.
RowCreate(c) ==
  /\ op[c].at = "row"
  /\ lastId' = lastId + 1
  /\ rows' = Put(rows, lastId', [code |-> op[c].code, link |-> op[c].link,
                                 life |-> op[c].life, status |-> "active"])
  /\ op' = [op EXCEPT ![c] = NoOp]
  /\ Ends(c, TRUE)
  /\ UNCHANGED <<auto, mapping, pool, job, strayed>>

-----------------------------------------------------------------------------
(* Update: the row is read, the code mapped anew, the whole row written. *)

\* The row may be recycled while it is updated: it is, or will be, a year past its expiry.
Late(row, life) == row.status # "recycled" /\ (row.life < -Year \/ life < -Year)

\* A variant of ReadRow that goes on without a row.
ReadRowUnchecked(c, k, link, life) ==
  /\ Idle(c)
  /\ \E id \in DOMAIN rows \cup {0} :
        /\ IsNewest(id, k) \/ (RowsOf(k) = {} /\ id = 0)
        /\ op' = [op EXCEPT ![c] =
              [at |-> "remap", code |-> k, link |-> link, life |-> life,
               id |-> id, status |-> "active"]]
  /\ Begins(c, {k})
  /\ UNCHANGED <<stores, job, strayed>>

\* GetByCode; a code without a row is not found.  A row is updated whatever its
\* status and its age.
ReadRow(c, k, link, life) ==
  /\ Idle(c)
  /\ \E id \in DOMAIN rows :
        /\ IsNewest(id, k)
        /\ op' = [op EXCEPT ![c] =
              [at |-> "remap", code |-> k, link |-> link, life |-> life,
               id |-> id, status |-> rows[id].status]]
        /\ Strays(IF Late(rows[id], life) THEN {k} ELSE {})
  /\ Begins(c, {k})
  /\ UNCHANGED <<stores, job>>

\* A variant of RowSave that stores the expiry it read, not the new one.
RowSaveOldExpiry(c) ==
  /\ op[c].at = "save"
  /\ op[c].id \in DOMAIN rows
  /\ rows' = [rows EXCEPT ![op[c].id].link = op[c].link,
                          ![op[c].id].status = op[c].status]
  /\ op' = [op EXCEPT ![c] = NoOp]
  /\ Ends(c, op[c].status = "active")
  /\ UNCHANGED <<auto, lastId, mapping, pool, job, strayed>>

\* Save: every column as it was read, but for the new link and expiry; a row
\* that is gone is inserted again.  A link that was not active is mapped now, but
\* stays what it was in the table.
RowSave(c) ==
  /\ op[c].at = "save"
  /\ rows' = Put(rows, op[c].id, [code |-> op[c].code, link |-> op[c].link,
                                  life |-> op[c].life, status |-> op[c].status])
  /\ op' = [op EXCEPT ![c] = NoOp]
  /\ Ends(c, op[c].status = "active")
  /\ UNCHANGED <<auto, lastId, mapping, pool, job, strayed>>

-----------------------------------------------------------------------------
(* Remove: the mapping, then every row of the code, also if the first failed. *)

Unmap(c, k) ==
  /\ Idle(c)
  /\ op' = [op EXCEPT ![c] = [at |-> "delete", code |-> k]]
  /\ mapping' = Restrict(mapping, DOMAIN mapping \ {k})
  /\ Begins(c, {k})
  /\ UNCHANGED <<auto, rows, lastId, pool, job, strayed>>

\* HDEL fails: DeleteByCode is called all the same.
UnmapFails(c, k) ==
  /\ c \in Faulty /\ Idle(c)
  /\ op' = [op EXCEPT ![c] = [at |-> "delete", code |-> k]]
  /\ overlapped' = overlapped \cup {c} \cup Rivals(c, {k})
  /\ UNCHANGED <<stores, job, suspect, strayed>>

\* A variant of DeleteRows that also puts the code back into the pool.
DeleteRowsGivesBack(c) ==
  /\ op[c].at = "delete"
  /\ rows' = Restrict(rows, DOMAIN rows \ RowsOf(op[c].code))
  /\ pool' = pool \cup (auto \cap {op[c].code})
  /\ op' = [op EXCEPT ![c] = NoOp]
  /\ Ends(c, TRUE)
  /\ UNCHANGED <<auto, lastId, mapping, job, strayed>>

DeleteRows(c) ==
  /\ op[c].at = "delete"
  /\ rows' = Restrict(rows, DOMAIN rows \ RowsOf(op[c].code))
  /\ op' = [op EXCEPT ![c] = NoOp]
  /\ Ends(c, TRUE)
  /\ UNCHANGED <<auto, lastId, mapping, pool, job, strayed>>

-----------------------------------------------------------------------------
(* Redirects of expired links (ext/redisx/cache.go): HGET, then HDEL. *)

\* Get finds a mapping past its expiry.
GetFindsExpired(c, k) ==
  /\ Idle(c) /\ k \in DOMAIN mapping /\ mapping[k].life < 0
  /\ op' = [op EXCEPT ![c] = [at |-> "evict", code |-> k]]
  /\ Begins(c, {k})
  /\ UNCHANGED <<stores, job, strayed>>

\* It deletes whatever is mapped by now; that this may fail goes unnoticed.
GetRemoves(c) ==
  /\ op[c].at = "evict"
  /\ mapping' \in {mapping, Restrict(mapping, DOMAIN mapping \ {op[c].code})}
  /\ op' = [op EXCEPT ![c] = NoOp]
  /\ Ends(c, TRUE)
  /\ UNCHANGED <<auto, rows, lastId, pool, job, strayed>>

-----------------------------------------------------------------------------
(* ExpireActives and RecycleExpires: page by page, each row of the page, then  *)
(* the page in one transaction.                                                *)

\* A variant of Due that recycles whatever has been expired for a year.
DueAnyStatus(j) ==
  IF j \in Expirers
  THEN {id \in DOMAIN rows : rows[id].status = "active" /\ rows[id].life < 0}
  ELSE {id \in DOMAIN rows : rows[id].life < -Year}

\* A variant of Due whose passes look back one day only.
DueSinceYesterday(j) ==
  IF j \in Expirers
  THEN {id \in DOMAIN rows : rows[id].status = "active" /\ rows[id].life = -1}
  ELSE {id \in DOMAIN rows : rows[id].status = "expired" /\ rows[id].life < -Year}

\* The rows FindExpiredActives and FindExpires ask for.
Due(j) ==
  IF j \in Expirers
  THEN {id \in DOMAIN rows : rows[id].status = "active" /\ rows[id].life < 0}
  ELSE {id \in DOMAIN rows : rows[id].status = "expired" /\ rows[id].life < -Year}

\* The first page of them after an id, in the order of the ids.
PageAfter(j, id) ==
  {i \in Due(j) : i > id /\ Cardinality({k \in Due(j) : id < k /\ k < i}) < PageSize}

\* The rows of an old page that another server's job of the same kind has on its own.
Shared(j, ids) ==
  {i \in ids : /\ rows[i].life < -Year
               /\ \E other \in Jobs \ {j} :
                     /\ other \in Expirers <=> j \in Expirers
                     /\ i \in DOMAIN job[other].page}

\* The page at hand, or the end of the pass.
TakePage(j, id) ==
  IF PageAfter(j, id) = {}
  THEN job' = [job EXCEPT ![j] = NoJob] /\ UNCHANGED marks
  ELSE /\ job' = [job EXCEPT ![j] =
             [at |-> "each", from |-> id, page |-> Restrict(rows, PageAfter(j, id)),
              todo |-> PageAfter(j, id)]]
       /\ Begins(j, {rows[i].code : i \in PageAfter(j, id)})
       /\ Strays({rows[i].code : i \in Shared(j, PageAfter(j, id))})

\* A pass starts with the rows after id 0.
FindFirst(j) ==
  /\ job[j].at = "idle" /\ PageAfter(j, 0) # {}
  /\ TakePage(j, 0)
  /\ UNCHANGED <<stores, op>>

FindNext(j) ==
  /\ job[j].at = "find"
  /\ TakePage(j, job[j].from)
  /\ UNCHANGED <<stores, op>>

\* HDEL or ZADD of the code of the page's next row.
Each(j) ==
  /\ job[j].at = "each"
  /\ \E id \in job[j].todo :
        LET k == job[j].page[id].code IN
        /\ \A i \in job[j].todo : id <= i
        /\ job' = [job EXCEPT ![j].todo = @ \ {id},
                              ![j].at = IF job[j].todo = {id} THEN "save" ELSE "each"]
        /\ IF j \in Expirers
           THEN mapping' = Restrict(mapping, DOMAIN mapping \ {k}) /\ UNCHANGED pool
           ELSE pool' = pool \cup {k} /\ UNCHANGED mapping
  /\ UNCHANGED <<auto, rows, lastId, op, marks>>

NextStatus(j) == IF j \in Expirers THEN "expired" ELSE "recycled"

\* Updates: Save of each row of the page as it was read, with its new status;
\* a row that is gone is inserted again.
SavePage(j) ==
  /\ job[j].at = "save"
  /\ rows' = [id \in DOMAIN rows \cup DOMAIN job[j].page |->
                IF id \in DOMAIN job[j].page
                THEN [job[j].page[id] EXCEPT !.status = NextStatus(j)]
                ELSE rows[id]]
  /\ \E last \in DOMAIN job[j].page :
        /\ \A id \in DOMAIN job[j].page : id <= last
        /\ job' = [job EXCEPT ![j] = [NoJob EXCEPT !.at = "find", !.from = last]]
  /\ Ends(j, \A id \in DOMAIN job[j].page : IsNewest(id, job[j].page[id].code))
  /\ UNCHANGED <<auto, lastId, mapping, pool, op, strayed>>

Pass(j) == FindFirst(j) \/ FindNext(j) \/ Each(j) \/ SavePage(j)

-----------------------------------------------------------------------------
\* A goroutine dies where it is, or sees a call fail and returns; what it did
\* to the stores stays.
FailClient(c) ==
  /\ c \in Faulty /\ ~Idle(c)
  /\ op' = [op EXCEPT ![c] = NoOp]
  /\ Ends(c, FALSE)
  /\ UNCHANGED <<stores, job, strayed>>

\* What of a recycler's page is in the pool again.
Returned(j) == IF j \in Recyclers THEN DOMAIN job[j].page \ job[j].todo ELSE {}

\* The rows whose codes a recycler has given back stay as they were.
FailJob(j) ==
  /\ j \in Faulty /\ job[j].at # "idle"
  /\ job' = [job EXCEPT ![j] = NoJob]
  /\ Ends(j, FALSE)
  /\ Strays({job[j].page[id].code : id \in Returned(j)})
  /\ UNCHANGED <<stores, op>>

\* A day goes by.  What has been expired for more than a year does not age.
OneDayLess(life) == IF life < -Year THEN life ELSE life - 1

Tick ==
  /\ \A c \in Clients : Idle(c)
  /\ \A j \in Jobs : job[j].at = "idle"
  /\ rows' = [id \in DOMAIN rows |-> [rows[id] EXCEPT !.life = OneDayLess(@)]]
  /\ mapping' = [k \in DOMAIN mapping |-> [mapping[k] EXCEPT !.life = OneDayLess(@)]]
  /\ UNCHANGED <<auto, lastId, pool, op, job, marks>>

Starts(c) ==
  \E link \in Links, life \in Terms :
     \E k \in Codes :
        Pull(c, k, link, life) \/ CheckManual(c, k, link, life) \/ ReadRow(c, k, link, life)

Next ==
  \/ \E c \in Clients :
        \/ Starts(c) \/ Map(c) \/ RowCreate(c) \/ RowSave(c)
        \/ \E k \in Codes : Unmap(c, k) \/ UnmapFails(c, k) \/ GetFindsExpired(c, k)
        \/ DeleteRows(c) \/ GetRemoves(c) \/ FailClient(c)
  \/ \E j \in Jobs : Pass(j) \/ FailJob(j)
  \/ Tick

Spec == Init /\ [][Next]_vars

-----------------------------------------------------------------------------
(* What the lifecycle guarantees. *)

Row == [code : Codes, link : Links, life : Int,
        status : {"active", "expired", "recycled"}]

Ops ==
  {NoOp}
  \cup [at : {"map", "row"}, code : Codes, link : Links, life : Int]
  \cup [at : {"remap", "save"}, code : Codes, link : Links, life : Int,
        id : 1 .. lastId, status : {"active", "expired", "recycled"}]
  \cup [at : {"delete", "evict"}, code : Codes]

\* Whole rows, whose ids the table has given out; mappings, requests and pages of
\* their types.  Save with the id 0 of a row that was not found would insert.
TypeOK ==
  /\ auto \subseteq Codes /\ lastId \in Nat /\ DOMAIN rows \subseteq 1 .. lastId
  /\ \A id \in DOMAIN rows : rows[id] \in Row
  /\ DOMAIN mapping \subseteq Codes
  /\ \A k \in DOMAIN mapping : mapping[k] \in [link : Links, life : Int]
  /\ pool \subseteq Codes
  /\ op \in [Clients -> Ops]
  /\ \A j \in Jobs :
        /\ job[j].at \in {"idle", "find", "each", "save"} /\ job[j].from \in 0 .. lastId
        /\ DOMAIN job[j].page \subseteq 1 .. lastId
        /\ \A id \in DOMAIN job[j].page : job[j].page[id] \in Row
        /\ job[j].todo \subseteq DOMAIN job[j].page
  /\ overlapped \subseteq Procs /\ suspect \subseteq Codes /\ strayed \subseteq Codes

\* Between ZADD and Updates, the recycler has given back the code of a row that
\* the table still calls expired.
GivenBack(id) == \E j \in Recyclers : id \in Returned(j)

\* A row keeps its code until it is recycled.
Keeps(id, k) == id \in RowsOf(k) /\ rows[id].status # "recycled" /\ ~GivenBack(id)

\* A running Create has pulled the code.
Holds(c, k) == op[c].at \in {"map", "row"} /\ op[c].code = k

OwnedOnce(k) ==
  /\ k \in pool => /\ \A id \in RowsOf(k) : ~Keeps(id, k)
                   /\ \A c \in Clients : ~Holds(c, k)
  /\ \A id \in RowsOf(k) : Keeps(id, k) =>
        /\ \A i \in RowsOf(k) : Keeps(i, k) => i = id
        /\ \A c \in Clients : ~Holds(c, k)
  /\ \A c, d \in Clients : Holds(c, k) /\ Holds(d, k) => c = d

\* No code of the generator is given to a second link while it is in use, whatever
\* the jobs of several servers do (README.md:13).
NeverTwoOwners == \A k \in auto : OwnedOnce(k)

\* A code of the generator has one owner at a time: it is free in the pool, or
\* one running Create holds it, or one row that is not recycled keeps it.
\* RecycleExpires (cores/service.go:422) must give a code back once only, while
\* Creates, Updates, Removes, failures and the other jobs work on the same rows.
\* Only four things the service does take a code off this round (Strays), each at
\* the step that does it: a manual create that names it, an Update that meets the
\* row's recycling, a recycler that fails between ZADD and Updates, and two servers'
\* jobs on the row at the same time.
OneOwner == \A k \in auto \ strayed : OwnedOnce(k)

\* A row keeps the code, or an Update or a page will write it back so that it does.
Claims(id, k) ==
  \/ Keeps(id, k)
  \/ \E c \in Clients : /\ op[c].at \in {"remap", "save"} /\ op[c].status # "recycled"
                        /\ op[c].id = id /\ op[c].code = k
  \/ \E e \in Expirers : id \in DOMAIN job[e].page /\ job[e].page[id].code = k
  \/ \E r \in Recyclers : id \in job[r].todo /\ job[r].page[id].code = k

\* The codes of the generator on their round, and who has one: running Creates, rows.
Sound == auto \ strayed

HoldersOf(k) == {c \in Clients : k \in Sound /\ Holds(c, k)}

KeepersOf(k) == {id \in 1 .. lastId : k \in Sound /\ Claims(id, k)}

Ownership ==
  INSTANCE CodeOwnership
    WITH promised <- TRUE, free <- pool \cap Sound,
         holders <- [k \in Codes |-> HoldersOf(k)],
         keepers <- [k \in Codes |-> KeepersOf(k)]

\* The codes of the generator change hands as CodeOwnership says: once RecycleExpires
\* has given a code back (cores/service.go:422), or its row is removed and on no page,
\* it is a row's again by way of the pool and a Create only, although an Update or a
\* page may still save the row it read before (ext/gormx/repo.go:61).  A code that
\* strays leaves the round for good.
ImplementsOwnership == Ownership!Spec

\* No request and no page of the expirer is under way on a code, and the last one
\* on it ran to its end alone.
Settled(k) ==
  k \notin suspect /\ \A p \in Clients \cup Expirers : k \notin About(p)

MapsTo(k, row) ==
  k \in DOMAIN mapping /\ mapping[k] = [link |-> row.link, life |-> row.life]

\* Table and hash agree on every settled code: the newest row, if it is active
\* and not past its expiry, is what the code redirects to, until the same time;
\* and only an active row is mapped at all (doc/design.md:71, 153).  An Update of an
\* active link that runs alone also repairs what failed or racing requests have left,
\* among them a redirect whose late HDEL took a renewal away (ext/redisx/cache.go:94).
MappingAgrees ==
  \A k \in Codes \ strayed : Settled(k) =>
     /\ \A id \in RowsOf(k) : IsNewest(id, k) =>
           /\ rows[id].status = "active" /\ rows[id].life >= 0 => MapsTo(k, rows[id])
           /\ rows[id].status # "active" => k \notin DOMAIN mapping
           /\ k \in DOMAIN mapping => MapsTo(k, rows[id])
     /\ RowsOf(k) = {} => k \notin DOMAIN mapping

-----------------------------------------------------------------------------
(* Liveness.  The jobs are started every day and their calls return; a job    *)
(* that may fail does not fail for ever in the same place.  No client has to  *)
(* send a request, and no day has to go by.                                   *)

Fairness ==
  /\ \A j \in Jobs : WF_vars(Pass(j))
  /\ \A j \in Jobs \cap Faulty :
        SF_vars(Each(j) /\ job'[j].at = "save") /\ SF_vars(SavePage(j))

FairSpec == Spec /\ Fairness

\* The code of a link that has been expired for a year comes back to the pool
\* (README.md:12), through both jobs, unless the link is removed or renewed
\* meanwhile: no page and no pass skips it, whatever the clients do.
CodesComeBack ==
  \A k \in Codes : \A id \in 1 .. MaxRows :
     (Keeps(id, k) /\ rows[id].life < -Year) ~>
        k \in pool \/ id \notin DOMAIN rows \/ rows[id].life >= -Year

=============================================================================
