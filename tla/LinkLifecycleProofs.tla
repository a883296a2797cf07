------------------------- MODULE LinkLifecycleProofs -------------------------
(***************************************************************************)
(* Codes have one owner at a time through the life of their links, and     *)
(* table and hash agree on every settled code, for any codes, clients,     *)
(* pages, terms and lengths of the year: proved.                           *)
(***************************************************************************)
EXTENDS LinkLifecycle, Recursion

Statuses == {"active", "expired", "recycled"}

RowsOK(f) == DOMAIN f \subseteq 1 .. lastId /\ \A id \in DOMAIN f : f[id] \in Row

JobOK(r) ==
  /\ r = [at |-> r.at, from |-> r.from, page |-> r.page, todo |-> r.todo]
  /\ r.at \in {"idle", "find", "each", "save"} /\ r.from \in 0 .. lastId
  /\ RowsOK(r.page) /\ r.todo \subseteq DOMAIN r.page

Types ==
  /\ auto \subseteq Codes /\ lastId \in Nat /\ RowsOK(rows)
  /\ DOMAIN mapping \subseteq Codes
  /\ \A k \in DOMAIN mapping : mapping[k] \in [link : Links, life : Int]
  /\ pool \subseteq Codes
  /\ op \in [Clients -> Ops]
  /\ job = [j \in Jobs |-> job[j]] /\ \A j \in Jobs : JobOK(job[j])
  /\ overlapped \subseteq Procs /\ suspect \subseteq Codes

-----------------------------------------------------------------------------
(* Types. *)

MapOps  == [at : {"map", "row"}, code : Codes, link : Links, life : Int]
EditOps == [at : {"remap", "save"}, code : Codes, link : Links, life : Int,
            id : 1 .. lastId, status : Statuses]
DelOps  == [at : {"delete", "evict"}, code : Codes]

LEMMA OpKinds ==
  /\ Ops = {NoOp} \cup MapOps \cup EditOps \cup DelOps
  /\ \A x \in Ops :
        /\ x.at \in {"map", "row"} => x \in MapOps
        /\ x.at \in {"remap", "save"} => x \in EditOps
        /\ x.at \in {"delete", "evict"} => x \in DelOps
        /\ x.at = "idle" => x = NoOp
        /\ x.at \in {"idle", "map", "row", "remap", "save", "delete", "evict"}
BY DEF Ops, NoOp, MapOps, EditOps, DelOps, Statuses

LEMMA TermsAreInt == \A t \in Terms : t \in Int
BY LifecycleAssumption

\* What a client's request, or a job's page, is about are codes.
LEMMA AboutCodes == ASSUME Types, NEW p \in Procs PROVE About(p) \subseteq Codes
<1>1. CASE p \in Clients
  <2>1. op[p] \in Ops
    BY <1>1 DEF Types
  <2>2. op[p].at # "idle" => op[p].code \in Codes
    BY <2>1, OpKinds DEF MapOps, EditOps, DelOps
  <2> QED BY <1>1, <2>2 DEF About
<1>2. CASE p \notin Clients
  <2>1. p \in Jobs
    BY <1>2 DEF Procs
  <2> QED BY <1>2, <2>1 DEF About, Types, JobOK, RowsOK, Row
<1> QED BY <1>1, <1>2

LEMMA MarksTypes ==
  ASSUME Types, NEW p \in Procs,
         UNCHANGED marks \/ (\E ks : Begins(p, ks)) \/ (\E well : Ends(p, well))
  PROVE  overlapped' \subseteq Procs /\ suspect' \subseteq Codes
<1>1. CASE UNCHANGED marks
  BY <1>1 DEF marks, Types
<1>2. ASSUME NEW ks, Begins(p, ks)
      PROVE  overlapped' \subseteq Procs /\ suspect' \subseteq Codes
  BY <1>2 DEF Begins, Rivals, Types, Procs, Jobs
<1>3. ASSUME NEW well, Ends(p, well)
      PROVE  overlapped' \subseteq Procs /\ suspect' \subseteq Codes
  <2>1. suspect' \subseteq suspect \cup About(p)
    BY <1>3 DEF Ends
  <2> QED BY <1>3, <2>1, AboutCodes DEF Ends, Types
<1> QED BY <1>1, <1>2, <1>3

\* A client takes its next step; the table gives out no id.
LEMMA OpTypes ==
  ASSUME Types, UNCHANGED lastId, NEW c \in Clients, NEW x \in Ops,
         op' = [op EXCEPT ![c] = x]
  PROVE  op' \in [Clients -> Ops']
BY DEF Types, Ops

LEMMA EmptyRows == RowsOK(<<>>) /\ DOMAIN <<>> = {}
BY DEF RowsOK

LEMMA NoJobOK == lastId \in Nat => JobOK(NoJob)
BY EmptyRows DEF JobOK, NoJob

LEMMA TypesInit == Init => Types
<1> SUFFICES ASSUME Init PROVE Types
  OBVIOUS
<1>1. NoOp \in Ops
  BY DEF Ops
<1>2. job = [j \in Jobs |-> job[j]] /\ \A j \in Jobs : JobOK(job[j])
  BY NoJobOK DEF Init
<1> QED BY <1>1, <1>2, EmptyRows DEF Init, Types

\* The record a job's place is, when the table has given out more ids.
LEMMA JobsKeep ==
  ASSUME Types, UNCHANGED job, lastId' \in Nat, lastId' >= lastId
  PROVE  job' = [j \in Jobs |-> job'[j]] /\ \A j \in Jobs : JobOK(job[j])'
<1>1. ASSUME NEW j \in Jobs PROVE JobOK(job[j])'
  <2>1. JobOK(job[j])
    BY DEF Types
  <2>2. lastId \in Nat /\ 1 .. lastId \subseteq 1 .. lastId' /\ 0 .. lastId \subseteq 0 .. lastId'
    BY DEF Types
  <2> QED BY <2>1, <2>2 DEF JobOK, RowsOK
<1> QED BY <1>1 DEF Types

LEMMA SameLastId ==
  ASSUME UNCHANGED lastId, NEW f PROVE RowsOK(f)' = RowsOK(f')
BY DEF RowsOK

-----------------------------------------------------------------------------
(* Clients. *)

LEMMA StartTypes ==
  ASSUME Types, NEW c \in Clients, NEW k \in Codes, NEW link \in Links, NEW life \in Terms,
         Pull(c, k, link, life) \/ CheckManual(c, k, link, life) \/ ReadRow(c, k, link, life)
  PROVE  Types'
<1>1. UNCHANGED <<auto, rows, lastId, mapping, job>> /\ pool' \subseteq Codes
  BY DEF Pull, CheckManual, ReadRow, stores, Types
<1>2. overlapped' \subseteq Procs /\ suspect' \subseteq Codes
  BY MarksTypes DEF Pull, CheckManual, ReadRow, Procs
<1>3. op' \in [Clients -> Ops']
  <2>1. CASE Pull(c, k, link, life) \/ CheckManual(c, k, link, life)
    <3>1. Request("map", k, link, life) \in MapOps
      BY TermsAreInt DEF Request, MapOps
    <3> QED BY <1>1, <2>1, <3>1, OpTypes, OpKinds DEF Pull, CheckManual
  <2>2. CASE ReadRow(c, k, link, life)
    <3>1. PICK id \in DOMAIN rows :
            op' = [op EXCEPT ![c] =
                [at |-> "remap", code |-> k, link |-> link, life |-> life,
                 id |-> id, status |-> rows[id].status]]
      BY <2>2 DEF ReadRow
    <3>2. id \in 1 .. lastId /\ rows[id].status \in Statuses
      BY DEF Types, RowsOK, Row, Statuses
    <3>3. [at |-> "remap", code |-> k, link |-> link, life |-> life,
           id |-> id, status |-> rows[id].status] \in EditOps
      BY <3>2, TermsAreInt DEF EditOps
    <3> QED BY <1>1, <3>1, <3>3, OpTypes, OpKinds
  <2> QED BY <2>1, <2>2
<1>4. job' = [j \in Jobs |-> job'[j]] /\ \A j \in Jobs : JobOK(job[j])'
  BY <1>1, JobsKeep DEF Types
<1> QED BY <1>1, <1>2, <1>3, <1>4 DEF Types, RowsOK

LEMMA MapTypes == ASSUME Types, NEW c \in Clients, Map(c) PROVE Types'
<1>1. op[c] \in MapOps \cup EditOps
  BY OpKinds DEF Map, Types
<1>2. op[c].code \in Codes /\ op[c].link \in Links /\ op[c].life \in Int
  BY <1>1 DEF MapOps, EditOps
<1>3. DOMAIN mapping' \subseteq Codes
      /\ \A k \in DOMAIN mapping' : mapping'[k] \in [link : Links, life : Int]
  BY <1>2 DEF Map, Put, Types
<1>4. UNCHANGED <<auto, rows, lastId, pool, job, marks>>
  BY DEF Map
<1>5. op' \in [Clients -> Ops']
  <2>1. PICK where : /\ op' = [op EXCEPT ![c] = [op[c] EXCEPT !.at = where]]
                     /\ where = IF op[c].at = "map" THEN "row" ELSE "save"
    BY DEF Map, Goto
  <2>2. CASE op[c].at = "map"
    <3>1. [op[c] EXCEPT !.at = where] \in MapOps
      BY <1>1, <2>1, <2>2 DEF MapOps, EditOps
    <3> QED BY <1>4, <2>1, <3>1, OpTypes, OpKinds
  <2>3. CASE op[c].at = "remap"
    <3>1. [op[c] EXCEPT !.at = where] \in EditOps
      BY <1>1, <2>1, <2>3 DEF MapOps, EditOps
    <3> QED BY <1>4, <2>1, <3>1, OpTypes, OpKinds
  <2> QED BY <2>2, <2>3 DEF Map
<1>6. job' = [j \in Jobs |-> job'[j]] /\ \A j \in Jobs : JobOK(job[j])'
  BY <1>4, JobsKeep DEF Types
<1> QED BY <1>3, <1>4, <1>5, <1>6 DEF Types, RowsOK, marks

LEMMA RowCreateTypes == ASSUME Types, NEW c \in Clients, RowCreate(c) PROVE Types'
<1>1. op[c] \in MapOps
  BY OpKinds DEF RowCreate, Types
<1>2. lastId' = lastId + 1 /\ lastId \in Nat /\ lastId' \in Nat /\ lastId' >= lastId
      /\ 1 .. lastId \subseteq 1 .. lastId' /\ lastId' \in 1 .. lastId'
  BY DEF RowCreate, Types
<1>3. [code |-> op[c].code, link |-> op[c].link, life |-> op[c].life,
       status |-> "active"] \in Row
  BY <1>1 DEF MapOps, Row
<1>4. RowsOK(rows)'
  BY <1>2, <1>3 DEF RowCreate, Put, Types, RowsOK
<1>5. Ops \subseteq Ops' /\ NoOp \in Ops'
  BY <1>2 DEF Ops
<1>6. op' \in [Clients -> Ops']
  BY <1>5 DEF RowCreate, Types
<1>7. UNCHANGED <<auto, mapping, pool, job>>
  BY DEF RowCreate
<1>8. job' = [j \in Jobs |-> job'[j]] /\ \A j \in Jobs : JobOK(job[j])'
  BY <1>2, <1>7, JobsKeep
<1>9. overlapped' \subseteq Procs /\ suspect' \subseteq Codes
  BY MarksTypes DEF RowCreate, Procs
<1> QED BY <1>2, <1>4, <1>6, <1>7, <1>8, <1>9 DEF Types

LEMMA OpEndsTypes ==
  ASSUME Types, NEW c \in Clients, op' = [op EXCEPT ![c] = NoOp],
         UNCHANGED <<auto, lastId, mapping, pool, job>>, RowsOK(rows'),
         \E well : Ends(c, well)
  PROVE  Types'
<1>1. NoOp \in Ops
  BY DEF Ops
<1>2. op' \in [Clients -> Ops']
  BY <1>1, OpTypes
<1>3. job' = [j \in Jobs |-> job'[j]] /\ \A j \in Jobs : JobOK(job[j])'
  BY JobsKeep DEF Types
<1>4. overlapped' \subseteq Procs /\ suspect' \subseteq Codes
  BY MarksTypes DEF Procs
<1> QED BY <1>2, <1>3, <1>4 DEF Types, RowsOK

LEMMA RowSaveTypes == ASSUME Types, NEW c \in Clients, RowSave(c) PROVE Types'
<1>1. op[c] \in EditOps
  BY OpKinds DEF RowSave, Types
<1>2. /\ op[c].id \in 1 .. lastId
      /\ [code |-> op[c].code, link |-> op[c].link, life |-> op[c].life,
          status |-> op[c].status] \in Row
  BY <1>1 DEF EditOps, Row, Statuses
<1>3. RowsOK(rows')
  BY <1>2 DEF RowSave, Put, Types, RowsOK
<1> QED BY <1>3, OpEndsTypes DEF RowSave

LEMMA DeleteRowsTypes == ASSUME Types, NEW c \in Clients, DeleteRows(c) PROVE Types'
<1>1. RowsOK(rows')
  BY DEF DeleteRows, Restrict, Types, RowsOK
<1> QED BY <1>1, OpEndsTypes DEF DeleteRows

LEMMA FailClientTypes == ASSUME Types, NEW c \in Clients, FailClient(c) PROVE Types'
<1>1. RowsOK(rows') /\ UNCHANGED <<auto, lastId, mapping, pool, job>>
  BY DEF FailClient, stores, Types
<1> QED BY <1>1, OpEndsTypes DEF FailClient

LEMMA UnmapTypes ==
  ASSUME Types, NEW c \in Clients, NEW k \in Codes, Unmap(c, k) \/ UnmapFails(c, k)
  PROVE  Types'
<1>1. UNCHANGED <<auto, rows, lastId, pool, job>>
  BY DEF Unmap, UnmapFails, stores
<1>2. DOMAIN mapping' \subseteq Codes
      /\ \A x \in DOMAIN mapping' : mapping'[x] \in [link : Links, life : Int]
  BY DEF Unmap, UnmapFails, stores, Restrict, Types
<1>3. [at |-> "delete", code |-> k] \in DelOps
  BY DEF DelOps
<1>4. op' \in [Clients -> Ops']
  BY <1>1, <1>3, OpTypes, OpKinds DEF Unmap, UnmapFails
<1>5. overlapped' \subseteq Procs /\ suspect' \subseteq Codes
  BY MarksTypes DEF Unmap, UnmapFails, Rivals, Types, Procs, Jobs
<1>6. job' = [j \in Jobs |-> job'[j]] /\ \A j \in Jobs : JobOK(job[j])'
  BY <1>1, JobsKeep DEF Types
<1> QED BY <1>1, <1>2, <1>4, <1>5, <1>6 DEF Types, RowsOK

LEMMA GetTypes ==
  ASSUME Types, NEW c \in Clients, GetRemoves(c) \/ \E k \in Codes : GetFindsExpired(c, k)
  PROVE  Types'
<1>1. UNCHANGED <<auto, rows, lastId, pool, job>>
  BY DEF GetRemoves, GetFindsExpired, stores
<1>2. DOMAIN mapping' \subseteq Codes
      /\ \A x \in DOMAIN mapping' : mapping'[x] \in [link : Links, life : Int]
  BY DEF GetRemoves, GetFindsExpired, stores, Restrict, Types
<1>3. \A k \in Codes : [at |-> "evict", code |-> k] \in DelOps
  BY DEF DelOps
<1>4. op' \in [Clients -> Ops']
  BY <1>1, <1>3, OpTypes, OpKinds DEF GetRemoves, GetFindsExpired
<1>5. overlapped' \subseteq Procs /\ suspect' \subseteq Codes
  BY MarksTypes DEF GetRemoves, GetFindsExpired, Procs
<1>6. job' = [j \in Jobs |-> job'[j]] /\ \A j \in Jobs : JobOK(job[j])'
  BY <1>1, JobsKeep DEF Types
<1> QED BY <1>1, <1>2, <1>4, <1>5, <1>6 DEF Types, RowsOK

-----------------------------------------------------------------------------
(* Jobs, and the days. *)

\* A job takes its next place.
LEMMA JobTypes ==
  ASSUME Types, UNCHANGED <<auto, lastId, op>>, NEW j \in Jobs, NEW x, JobOK(x),
         job' = [job EXCEPT ![j] = x],
         RowsOK(rows'), pool' \subseteq Codes, DOMAIN mapping' \subseteq DOMAIN mapping,
         \A k \in DOMAIN mapping' : mapping'[k] = mapping[k],
         UNCHANGED marks \/ (\E ks : Begins(j, ks)) \/ (\E well : Ends(j, well))
  PROVE  Types'
<1>1. job' = [i \in Jobs |-> job'[i]]
  BY DEF Types
<1>2. \A i \in Jobs : JobOK(job'[i])
  BY DEF Types
<1>3. \A i \in Jobs : JobOK(job[i])'
  BY <1>2 DEF JobOK, RowsOK
<1>4. overlapped' \subseteq Procs /\ suspect' \subseteq Codes
  BY MarksTypes DEF Procs
<1>5. op' \in [Clients -> Ops']
  BY DEF Types, Ops
<1> QED BY <1>1, <1>3, <1>4, <1>5 DEF Types, RowsOK

LEMMA PageIsRows ==
  ASSUME NEW j, NEW id
  PROVE  /\ PageAfter(j, id) \subseteq Due(j) /\ Due(j) \subseteq DOMAIN rows
         /\ DOMAIN Restrict(rows, PageAfter(j, id)) = PageAfter(j, id)
         /\ \A i \in PageAfter(j, id) : Restrict(rows, PageAfter(j, id))[i] = rows[i]
BY DEF PageAfter, Due, Restrict

LEMMA TakePageTypes ==
  ASSUME Types, NEW j \in Jobs, NEW id \in 0 .. lastId, TakePage(j, id),
         UNCHANGED <<stores, op>>
  PROVE  Types'
<1>1. UNCHANGED <<auto, rows, lastId, mapping, pool, op>> /\ lastId \in Nat
  BY DEF stores, Types
<1>2. PICK x : /\ job' = [job EXCEPT ![j] = x] /\ JobOK(x)
               /\ UNCHANGED marks \/ (\E ks : Begins(j, ks))
  <2>1. CASE PageAfter(j, id) = {}
    BY <1>1, <2>1, NoJobOK DEF TakePage
  <2>2. CASE PageAfter(j, id) # {}
    <3> DEFINE x == [at |-> "each", from |-> id, page |-> Restrict(rows, PageAfter(j, id)),
                     todo |-> PageAfter(j, id)]
    <3>1. RowsOK(Restrict(rows, PageAfter(j, id)))
      BY PageIsRows DEF Types, RowsOK
    <3>2. JobOK(x)
      BY <3>1, PageIsRows DEF JobOK
    <3>3. job' = [job EXCEPT ![j] = x] /\ \E ks : Begins(j, ks)
      BY <2>2 DEF TakePage
    <3> HIDE DEF x
    <3> QED BY <3>2, <3>3
  <2> QED BY <2>1, <2>2
<1>3. RowsOK(rows') /\ pool' \subseteq Codes
  BY <1>1 DEF Types
<1> QED BY <1>1, <1>2, <1>3, JobTypes

LEMMA FindTypes ==
  ASSUME Types, NEW j \in Jobs, FindFirst(j) \/ FindNext(j) PROVE Types'
<1>1. lastId \in Nat /\ 0 \in 0 .. lastId /\ job[j].from \in 0 .. lastId
  BY DEF Types, JobOK
<1> QED BY <1>1, TakePageTypes DEF FindFirst, FindNext

\* EXCEPT on a job's place, field by field.
LEMMA JobField ==
  ASSUME NEW r, NEW at, NEW from, NEW page, NEW todo, NEW at1, NEW from1, NEW todo1,
         r = [at |-> at, from |-> from, page |-> page, todo |-> todo]
  PROVE  /\ [r EXCEPT !.todo = todo1] = [at |-> at, from |-> from, page |-> page, todo |-> todo1]
         /\ [r EXCEPT !.at = at1] = [at |-> at1, from |-> from, page |-> page, todo |-> todo]
         /\ [r EXCEPT !.from = from1] = [at |-> at, from |-> from1, page |-> page, todo |-> todo]
OBVIOUS

\* Where a job goes on after its page.
LEMMA NextPlace ==
  ASSUME NEW last
  PROVE  [NoJob EXCEPT !.at = "find", !.from = last]
         = [at |-> "find", from |-> last, page |-> <<>>, todo |-> {}]
<1> DEFINE none == <<>>
           nil == {}
           r == NoJob
<1>1. r = [at |-> "idle", from |-> 0, page |-> none, todo |-> nil]
  BY DEF NoJob
<1> HIDE DEF none, nil, r
<1> DEFINE q == [r EXCEPT !.at = "find"]
<1>2. [r EXCEPT !.at = "find", !.from = last] = [q EXCEPT !.from = last]
  OBVIOUS
<1>3. q = [at |-> "find", from |-> 0, page |-> none, todo |-> nil]
  BY <1>1, JobField
<1> HIDE DEF q
<1>4. [q EXCEPT !.from = last] = [at |-> "find", from |-> last, page |-> none, todo |-> nil]
  BY <1>3, JobField
<1> QED BY <1>2, <1>4 DEF none, nil, r

\* Each in one piece: the page's next row, and what becomes of the job.
LEMMA EachParts ==
  ASSUME Types, NEW j \in Jobs, Each(j)
  PROVE  /\ job[j].at = "each"
         /\ \E id \in job[j].todo :
              /\ job' = [job EXCEPT ![j] =
                     [at |-> IF job[j].todo = {id} THEN "save" ELSE "each",
                      from |-> job[j].from, page |-> job[j].page,
                      todo |-> job[j].todo \ {id}]]
              /\ IF j \in Expirers
                 THEN /\ mapping' = Restrict(mapping, DOMAIN mapping \ {job[j].page[id].code})
                      /\ UNCHANGED pool
                 ELSE pool' = pool \cup {job[j].page[id].code} /\ UNCHANGED mapping
         /\ UNCHANGED <<auto, rows, lastId, op, marks>>
<1>1. job = [i \in Jobs |-> job[i]] /\ JobOK(job[j])
  BY DEF Types
<1>2. PICK id \in job[j].todo :
        /\ job' = [job EXCEPT ![j].todo = @ \ {id},
                              ![j].at = IF job[j].todo = {id} THEN "save" ELSE "each"]
        /\ IF j \in Expirers
           THEN /\ mapping' = Restrict(mapping, DOMAIN mapping \ {job[j].page[id].code})
                /\ UNCHANGED pool
           ELSE pool' = pool \cup {job[j].page[id].code} /\ UNCHANGED mapping
  BY DEF Each
<1>3. job' = [job EXCEPT ![j] =
                     [at |-> IF job[j].todo = {id} THEN "save" ELSE "each",
                      from |-> job[j].from, page |-> job[j].page,
                      todo |-> job[j].todo \ {id}]]
  <2>1. job[j] = [at |-> job[j].at, from |-> job[j].from, page |-> job[j].page,
                  todo |-> job[j].todo]
    BY <1>1 DEF JobOK
  <2>2. job' = [job EXCEPT ![j] =
           [job[j] EXCEPT !.todo = @ \ {id},
                          !.at = IF job[j].todo = {id} THEN "save" ELSE "each"]]
    BY <1>1, <1>2
  <2>3. [job[j] EXCEPT !.todo = @ \ {id},
                       !.at = IF job[j].todo = {id} THEN "save" ELSE "each"]
        = [at |-> IF job[j].todo = {id} THEN "save" ELSE "each",
                      from |-> job[j].from, page |-> job[j].page,
                      todo |-> job[j].todo \ {id}]
    <3> DEFINE r == job[j]
               newAt == IF job[j].todo = {id} THEN "save" ELSE "each"
               newTodo == job[j].todo \ {id}
    <3>1. r = [at |-> r.at, from |-> r.from, page |-> r.page, todo |-> r.todo]
      BY <2>1
    <3> HIDE DEF r, newAt, newTodo
    <3>2. [r EXCEPT !.todo = newTodo, !.at = newAt]
          = [at |-> newAt, from |-> r.from, page |-> r.page, todo |-> newTodo]
      <4> DEFINE q == [r EXCEPT !.todo = newTodo]
      <4>1. [r EXCEPT !.todo = newTodo, !.at = newAt] = [q EXCEPT !.at = newAt]
        OBVIOUS
      <4>2. q = [at |-> r.at, from |-> r.from, page |-> r.page, todo |-> newTodo]
        BY <3>1, JobField
      <4> HIDE DEF q
      <4>3. [q EXCEPT !.at = newAt]
            = [at |-> newAt, from |-> r.from, page |-> r.page, todo |-> newTodo]
        BY <4>2, JobField
      <4> QED BY <4>1, <4>3
    <3> QED BY <3>2, Zenon DEF r, newAt, newTodo
  <2> QED BY <2>2, <2>3
<1> QED BY <1>2, <1>3 DEF Each

LEMMA EachTypes == ASSUME Types, NEW j \in Jobs, Each(j) PROVE Types'
<1>1. PICK id \in job[j].todo :
        /\ job' = [job EXCEPT ![j] =
                     [at |-> IF job[j].todo = {id} THEN "save" ELSE "each",
                      from |-> job[j].from, page |-> job[j].page,
                      todo |-> job[j].todo \ {id}]]
        /\ IF j \in Expirers
           THEN /\ mapping' = Restrict(mapping, DOMAIN mapping \ {job[j].page[id].code})
                /\ UNCHANGED pool
           ELSE pool' = pool \cup {job[j].page[id].code} /\ UNCHANGED mapping
  BY EachParts
<1>2. UNCHANGED <<auto, rows, lastId, op, marks>>
  BY EachParts
<1> DEFINE x == [at |-> IF job[j].todo = {id} THEN "save" ELSE "each",
                 from |-> job[j].from, page |-> job[j].page, todo |-> job[j].todo \ {id}]
<1>3. JobOK(x)
  <2>1. JobOK(job[j])
    BY DEF Types
  <2>2. x.at \in {"save", "each"}
    OBVIOUS
  <2> QED BY <2>1, <2>2 DEF JobOK
<1>4. job' = [job EXCEPT ![j] = x]
  BY <1>1
<1>5. /\ DOMAIN mapping' \subseteq DOMAIN mapping
      /\ \A k \in DOMAIN mapping' : mapping'[k] = mapping[k]
  BY <1>1 DEF Restrict
<1>6. pool' \subseteq Codes
  <2>1. job[j].page[id].code \in Codes
    BY DEF Types, JobOK, RowsOK, Row
  <2> QED BY <1>1, <2>1 DEF Types
<1>7. RowsOK(rows')
  BY <1>2 DEF Types
<1> HIDE DEF x
<1> QED BY <1>2, <1>3, <1>4, <1>5, <1>6, <1>7, JobTypes

\* What SavePage makes of a row.
Saved(j, id) == [job[j].page[id] EXCEPT !.status = NextStatus(j)]

LEMMA SavedIsRow ==
  ASSUME Types, NEW j \in Jobs, NEW id \in DOMAIN job[j].page
  PROVE  /\ Saved(j, id) \in Row
         /\ Saved(j, id).code = job[j].page[id].code
         /\ Saved(j, id).life = job[j].page[id].life
         /\ Saved(j, id).status = NextStatus(j)
<1>1. job[j].page[id] \in Row
  BY DEF Types, JobOK, RowsOK
<1> QED BY <1>1 DEF Saved, NextStatus, Row

LEMMA SavePageTypes == ASSUME Types, NEW j \in Jobs, SavePage(j) PROVE Types'
<1>1. RowsOK(rows')
  <2>1. RowsOK(job[j].page) /\ RowsOK(rows)
    BY DEF Types, JobOK
  <2>2. rows' = [id \in DOMAIN rows \cup DOMAIN job[j].page |->
                   IF id \in DOMAIN job[j].page THEN Saved(j, id) ELSE rows[id]]
    BY DEF SavePage, Saved
  <2> QED BY <2>1, <2>2, SavedIsRow DEF RowsOK
<1>2. PICK last \in DOMAIN job[j].page :
        job' = [job EXCEPT ![j] = [NoJob EXCEPT !.at = "find", !.from = last]]
  BY DEF SavePage
<1> DEFINE x == [NoJob EXCEPT !.at = "find", !.from = last]
<1>3. JobOK(x)
  <2>1. last \in 0 .. lastId /\ lastId \in Nat
    BY DEF Types, JobOK, RowsOK
  <2>2. x = [at |-> "find", from |-> last, page |-> <<>>, todo |-> {}]
    BY NextPlace, Zenon
  <2> QED BY <2>1, <2>2, EmptyRows DEF JobOK
<1>4. UNCHANGED <<auto, lastId, mapping, pool, op>> /\ \E well : Ends(j, well)
  BY DEF SavePage
<1>5. job' = [job EXCEPT ![j] = x] /\ pool' \subseteq Codes
  BY <1>2, <1>4 DEF Types
<1> HIDE DEF x
<1> QED BY <1>1, <1>3, <1>4, <1>5, JobTypes

LEMMA FailJobTypes == ASSUME Types, NEW j \in Jobs, FailJob(j) PROVE Types'
<1>1. UNCHANGED <<auto, rows, lastId, mapping, pool, op>> /\ \E well : Ends(j, well)
  BY DEF FailJob, stores
<1>2. JobOK(NoJob) /\ RowsOK(rows') /\ pool' \subseteq Codes
  BY <1>1, NoJobOK DEF Types
<1> QED BY <1>1, <1>2, JobTypes DEF FailJob

\* A row on the next day.
Aged(row) == [row EXCEPT !.life = OneDayLess(@)]

LEMMA OneDayLessIsInt ==
  ASSUME NEW life \in Int
  PROVE  /\ OneDayLess(life) \in Int /\ OneDayLess(life) <= life
         /\ OneDayLess(life) >= -Year => life >= -Year
BY LifecycleAssumption DEF OneDayLess

LEMMA AgedIsRow ==
  ASSUME NEW row \in Row
  PROVE  /\ Aged(row) \in Row
         /\ Aged(row).code = row.code /\ Aged(row).status = row.status
<1>1. row.life \in Int
  BY DEF Row
<1>2. OneDayLess(row.life) \in Int
  BY <1>1, OneDayLessIsInt
<1> QED BY <1>2 DEF Aged, Row

LEMMA TickTypes == ASSUME Types, Tick PROVE Types'
<1>1. UNCHANGED <<auto, lastId, pool, op, job, marks>>
  BY DEF Tick
<1>2. RowsOK(rows')
  <2>1. rows' = [id \in DOMAIN rows |-> Aged(rows[id])]
    BY DEF Tick, Aged
  <2> QED BY <2>1, AgedIsRow DEF Types, RowsOK
<1>3. /\ DOMAIN mapping' \subseteq Codes
      /\ \A k \in DOMAIN mapping' : mapping'[k] \in [link : Links, life : Int]
  <2>1. \A k \in DOMAIN mapping : OneDayLess(mapping[k].life) \in Int
    BY OneDayLessIsInt DEF Types
  <2> QED BY <2>1 DEF Tick, Types
<1>4. op' \in [Clients -> Ops']
  BY <1>1 DEF Types, Ops
<1>5. job' = [j \in Jobs |-> job'[j]] /\ \A j \in Jobs : JobOK(job[j])'
  BY <1>1, JobsKeep DEF Types
<1> QED BY <1>1, <1>2, <1>3, <1>4, <1>5 DEF Types, RowsOK, marks

LEMMA TypesStep == Types /\ [Next]_vars => Types'
<1> SUFFICES ASSUME Types, [Next]_vars PROVE Types'
  OBVIOUS
<1>1. ASSUME NEW c \in Clients, Starts(c) PROVE Types'
  BY <1>1, StartTypes DEF Starts
<1>2. ASSUME NEW c \in Clients, NEW k \in Codes, Unmap(c, k) \/ UnmapFails(c, k) PROVE Types'
  BY <1>2, UnmapTypes
<1>3. ASSUME NEW c \in Clients,
             Map(c) \/ RowCreate(c) \/ RowSave(c) \/ DeleteRows(c) \/ FailClient(c)
      PROVE  Types'
  BY <1>3, MapTypes, RowCreateTypes, RowSaveTypes, DeleteRowsTypes, FailClientTypes
<1>4. ASSUME NEW j \in Jobs, Pass(j) \/ FailJob(j) PROVE Types'
  BY <1>4, FindTypes, EachTypes, SavePageTypes, FailJobTypes DEF Pass
<1>5. CASE Tick
  BY <1>5, TickTypes
<1>7. ASSUME NEW c \in Clients, GetRemoves(c) \/ \E k \in Codes : GetFindsExpired(c, k)
      PROVE  Types'
  BY <1>7, GetTypes
<1>6. CASE UNCHANGED vars
  <2>1. UNCHANGED <<auto, rows, lastId, mapping, pool, op, job, overlapped, suspect>>
    BY <1>6 DEF vars, stores, marks
  <2>2. job' = [j \in Jobs |-> job'[j]] /\ \A j \in Jobs : JobOK(job[j])'
    BY <2>1, JobsKeep DEF Types
  <2> QED BY <2>1, <2>2 DEF Types, RowsOK, Ops
<1> QED BY <1>1, <1>2, <1>3, <1>4, <1>5, <1>6, <1>7 DEF Next

\* Codes stray one by one, and never come back.
LEMMA StrayedStep ==
  ASSUME Types, [Next]_vars, strayed \subseteq Codes
  PROVE  strayed \subseteq strayed' /\ strayed' \subseteq Codes
<1>1. ASSUME NEW c \in Clients, NEW k \in Codes, NEW link \in Links, NEW life \in Terms,
             Pull(c, k, link, life) \/ CheckManual(c, k, link, life) \/ ReadRow(c, k, link, life)
      PROVE  strayed \subseteq strayed' /\ strayed' \subseteq Codes
  BY <1>1 DEF Pull, CheckManual, ReadRow, Strays
<1>2. ASSUME NEW c \in Clients,
             \/ \E k \in Codes : Unmap(c, k) \/ UnmapFails(c, k) \/ GetFindsExpired(c, k)
             \/ Map(c) \/ RowCreate(c) \/ RowSave(c) \/ DeleteRows(c) \/ FailClient(c)
             \/ GetRemoves(c)
      PROVE  UNCHANGED strayed
  BY <1>2 DEF Unmap, UnmapFails, GetFindsExpired, Map, RowCreate, RowSave, DeleteRows,
              FailClient, GetRemoves, marks
<1>3. ASSUME NEW j \in Jobs, Pass(j) \/ FailJob(j)
      PROVE  strayed \subseteq strayed' /\ strayed' \subseteq Codes
  <2>1. \A id : /\ {rows[i].code : i \in Shared(j, PageAfter(j, id))} \subseteq Codes
               /\ {job[j].page[i].code : i \in Returned(j)} \subseteq Codes
    BY PageIsRows DEF Shared, Returned, Types, JobOK, RowsOK, Row
  <2>2. ASSUME NEW id, TakePage(j, id)
        PROVE  strayed \subseteq strayed' /\ strayed' \subseteq Codes
    BY <2>1, <2>2 DEF TakePage, Strays, marks
  <2>3. CASE Each(j) \/ SavePage(j) \/ FailJob(j)
    BY <2>1, <2>3 DEF Each, SavePage, FailJob, Strays, marks
  <2> QED BY <1>3, <2>2, <2>3 DEF Pass, FindFirst, FindNext
<1>4. CASE Tick \/ UNCHANGED vars
  BY <1>4 DEF Tick, marks, vars
<1> QED BY <1>1, <1>2, <1>3, <1>4 DEF Next, Starts

\* Rows, mappings, requests and pages keep their types, for any number of each:
\* an Update (cores/service.go:298) never saves a row the table gave no id for.
THEOREM TypeCorrect == Spec => []TypeOK
<1>1. Init => Types /\ strayed \subseteq Codes
  BY TypesInit DEF Init
<1>2. Types /\ strayed \subseteq Codes /\ [Next]_vars => (Types /\ strayed \subseteq Codes)'
  BY TypesStep, StrayedStep
<1>3. Types /\ strayed \subseteq Codes => TypeOK
  BY DEF Types, TypeOK, JobOK, RowsOK
<1> QED BY <1>1, <1>2, <1>3, PTL DEF Spec

LEMMA KindsOfJobs ==
  /\ \A j \in Jobs : j \in Expirers <=> j \notin Recyclers
  /\ Expirers \subseteq Jobs /\ Recyclers \subseteq Jobs
BY LifecycleAssumption DEF Jobs

-----------------------------------------------------------------------------
(* One owner.  OneOwner is not inductive: it does not see the Updates and the *)
(* pages that will write a row back as they read it.  The ledger counts them  *)
(* as claims, and keeps for every id the code it was given out for.  Of the   *)
(* codes that have strayed it says nothing but their names.                   *)

\* An Update of the row with this id is under way, and may make it keep its code.
Edits(c, id)  == op[c].at \in {"remap", "save"} /\ op[c].id = id
Renews(c, id) == Edits(c, id) /\ op[c].status # "recycled"

\* Something may still make a row keep its code: the table, an Update, a page.
Claimed(id) ==
  \/ id \in DOMAIN rows /\ rows[id].status # "recycled" /\ ~GivenBack(id)
  \/ \E c \in Clients : Renews(c, id)
  \/ \E e \in Expirers : id \in DOMAIN job[e].page
  \/ \E r \in Recyclers : id \in job[r].todo

\* The code of every id the table has given out, wherever the row is mentioned.
Named(f) ==
  /\ f \in [1 .. lastId -> Codes]
  /\ \A id \in DOMAIN rows : rows[id].code = f[id]
  /\ \A c \in Clients, id \in 1 .. lastId : Edits(c, id) => op[c].code = f[id]
  /\ \A j \in Jobs : \A id \in DOMAIN job[j].page : job[j].page[id].code = f[id]

\* One claim on each code of the generator, or one Create that holds it, or the pool.
Owned(f) ==
  /\ \A i, d \in 1 .. lastId :
        f[i] \in Sound /\ f[i] = f[d] /\ Claimed(i) /\ Claimed(d) => i = d
  /\ \A i \in 1 .. lastId : f[i] \in Sound /\ Claimed(i) =>
        f[i] \notin pool /\ \A c \in Clients : ~Holds(c, f[i])
  /\ \A k \in Sound : \A c, d \in Clients :
        Holds(c, k) => k \notin pool /\ (Holds(d, k) => c = d)

\* An Update that may make a row keep its code is of a row in time: no recycler has it.
EditsInTime(f) ==
  \A c \in Clients, id \in 1 .. lastId : Renews(c, id) /\ f[id] \notin strayed =>
     /\ op[c].life >= -Year
     /\ id \in DOMAIN rows => rows[id].life >= -Year /\ rows[id].status # "recycled"
     /\ \A e \in Expirers : id \in DOMAIN job[e].page => job[e].page[id].life >= -Year
     /\ \A r \in Recyclers : id \notin DOMAIN job[r].page

\* An Update of a recycled row writes what nobody claims: it stays recycled.
EditsInVain(f) ==
  \A c \in Clients, id \in 1 .. lastId :
     Edits(c, id) /\ op[c].status = "recycled" /\ f[id] \notin strayed =>
        ~Claimed(id) /\ \A r \in Recyclers : id \notin DOMAIN job[r].page

\* A row on a page of the expirer is active in the table, or another expirer has
\* expired it in time, and a renewal of it has met a page that is not late; no
\* recycler has it.
ExpirerPages(f) ==
  \A e \in Expirers : \A id \in DOMAIN job[e].page : f[id] \notin strayed =>
     /\ id \in DOMAIN rows =>
           /\ rows[id].status # "recycled"
           /\ (rows[id].status = "expired" => rows[id].life >= -Year)
           /\ (rows[id].life >= -Year => job[e].page[id].life >= -Year)
     /\ \A r \in Recyclers : id \notin DOMAIN job[r].page

RecyclerPages(f) ==
  \A r \in Recyclers : \A id \in DOMAIN job[r].page : f[id] \notin strayed =>
     (id \in DOMAIN rows => rows[id].status = "expired" /\ rows[id].life < -Year)

\* No two recyclers have the same row, and two expirers only one that is not late.
PagesApart(f) ==
  /\ \A r \in Recyclers : \A q \in Recyclers \ {r} : \A id \in DOMAIN job[r].page :
        f[id] \notin strayed => id \notin DOMAIN job[q].page
  /\ \A e \in Expirers : \A d \in Expirers \ {e} : \A id \in DOMAIN job[e].page :
        f[id] \notin strayed /\ id \in DOMAIN job[d].page => job[e].page[id].life >= -Year

Pages ==
  \A j \in Jobs :
     /\ job[j].at \in {"idle", "find"} => DOMAIN job[j].page = {}
     /\ job[j].at = "save" => job[j].todo = {}

PageLimits(f) == ExpirerPages(f) /\ RecyclerPages(f) /\ PagesApart(f) /\ Pages

Limits(f) == EditsInTime(f) /\ EditsInVain(f) /\ PageLimits(f)

Ledger == \E f : Named(f) /\ Owned(f) /\ Limits(f)

\* No claim, no holder and no code of the pool comes or, of the pool, goes, on the
\* codes that have not strayed.
OwnersGo(f) ==
  /\ UNCHANGED <<auto, lastId>> /\ pool' \cap auto = pool \cap auto
  /\ strayed \subseteq strayed'
  /\ \A i \in 1 .. lastId : f[i] \notin strayed' /\ Claimed(i)' => Claimed(i)
  /\ \A c \in Clients, k \in auto \ strayed' : Holds(c, k)' => Holds(c, k)

-----------------------------------------------------------------------------
\* Fewer claims, fewer holders and a smaller pool leave every code its owner.
LEMMA FewerClaims ==
  ASSUME Types, NEW f, Owned(f), UNCHANGED <<auto, lastId>>, pool' \cap auto \subseteq pool,
         strayed \subseteq strayed',
         \A i \in 1 .. lastId : f[i] \notin strayed' /\ Claimed(i)' => Claimed(i),
         \A c \in Clients, k \in auto \ strayed' : Holds(c, k)' => Holds(c, k)
  PROVE  Owned(f)'
BY DEF Owned, Sound

\* A client's step that touches neither rows nor pages.
LEMMA ClaimsOfClients ==
  ASSUME UNCHANGED <<rows, job>>, NEW i, Claimed(i)',
         \A c \in Clients : Renews(c, i)' => Claimed(i)
  PROVE  Claimed(i)
BY DEF Claimed, GivenBack, Returned

\* Pages and rows stay: so do their limits, whatever strays.
LEMMA SamePages ==
  ASSUME NEW f, PageLimits(f), UNCHANGED <<rows, job>>, strayed \subseteq strayed'
  PROVE  PageLimits(f)'
BY DEF PageLimits, ExpirerPages, RecyclerPages, PagesApart, Pages

\* Updates of recycled rows stay in vain while claims only go and recyclers take
\* claimed rows.
LEMMA StayInVain ==
  ASSUME NEW f, EditsInVain(f), OwnersGo(f),
         \A c \in Clients, i \in 1 .. lastId :
            Edits(c, i)' /\ op'[c].status = "recycled" =>
               Edits(c, i) /\ op[c].status = "recycled",
         \A r \in Recyclers, i \in 1 .. lastId :
            f[i] \notin strayed' /\ i \in DOMAIN job'[r].page =>
               i \in DOMAIN job[r].page \/ Claimed(i)
  PROVE  EditsInVain(f)'
<1> SUFFICES ASSUME NEW c \in Clients, NEW i \in 1 .. lastId,
                    Edits(c, i)', op'[c].status = "recycled", f[i] \notin strayed'
             PROVE  ~Claimed(i)' /\ \A r \in Recyclers : i \notin DOMAIN job'[r].page
  BY DEF OwnersGo, EditsInVain
<1>1. f[i] \notin strayed
  BY DEF OwnersGo
<1>2. ~Claimed(i) /\ \A r \in Recyclers : i \notin DOMAIN job[r].page
  BY <1>1 DEF EditsInVain
<1> QED BY <1>2 DEF OwnersGo

\* The row an Update reads in time has a claim, is on no recycler's page, and on a page
\* of an expirer that is not late.
LEMMA InTimeRows ==
  ASSUME Types, NEW f, Limits(f), NEW id \in DOMAIN rows, f[id] \notin strayed,
         rows[id].status = "active" \/ (rows[id].status = "expired" /\ rows[id].life >= -Year)
  PROVE  /\ \A r \in Recyclers : id \notin DOMAIN job[r].page
         /\ ~GivenBack(id) /\ Claimed(id)
<1>1. \A r \in Recyclers : id \notin DOMAIN job[r].page
  <2>1. rows[id].life \in Int /\ Year \in Int
    BY LifecycleAssumption DEF Types, RowsOK, Row
  <2> QED BY <2>1 DEF Limits, PageLimits, RecyclerPages
<1> QED BY <1>1 DEF GivenBack, Returned, Claimed

LEMMA ReadRowLedger ==
  ASSUME Types, Types', NEW f, Limits(f), Named(f), Owned(f), NEW c \in Clients,
         NEW k \in Codes, NEW link \in Links, NEW life \in Terms, ReadRow(c, k, link, life)
  PROVE  Named(f)' /\ Owned(f)' /\ Limits(f)' /\ OwnersGo(f)
<1>1. UNCHANGED <<auto, rows, lastId, mapping, pool, job>> /\ strayed \subseteq strayed'
  BY DEF ReadRow, stores, Strays
<1>2. PICK id \in DOMAIN rows :
        /\ rows[id].code = k
        /\ op' = [op EXCEPT ![c] =
              [at |-> "remap", code |-> k, link |-> link, life |-> life,
               id |-> id, status |-> rows[id].status]]
        /\ Late(rows[id], life) => k \in strayed'
  BY DEF ReadRow, IsNewest, RowsOf, Strays
<1>3. /\ op'[c].at = "remap" /\ op'[c].code = k /\ op'[c].life = life
      /\ op'[c].id = id /\ op'[c].status = rows[id].status
      /\ \A d \in Clients \ {c} : op'[d] = op[d]
  BY <1>2 DEF Types
<1>4. \A i : Edits(c, i)' => i = id
  BY <1>3 DEF Edits
<1>5. \A d \in Clients \ {c}, i \in 1 .. lastId :
         (Edits(d, i)' => Edits(d, i)) /\ (Renews(d, i)' => Renews(d, i))
  BY <1>3 DEF Edits, Renews
<1>i. /\ id \in 1 .. lastId /\ f[id] = k /\ rows[id].life \in Int /\ life \in Int /\ Year \in Int
      /\ rows[id].status \in Statuses
  BY <1>2, TermsAreInt, LifecycleAssumption DEF Types, RowsOK, Row, Named, Statuses
<1>6. ASSUME k \notin strayed', rows[id].status # "recycled"
      PROVE  /\ rows[id].life >= -Year /\ life >= -Year
             /\ Claimed(id) /\ \A r \in Recyclers : id \notin DOMAIN job[r].page
  <2>1. ~Late(rows[id], life) /\ k \notin strayed
    BY <1>1, <1>2, <1>6
  <2>2. rows[id].life >= -Year /\ life >= -Year
    BY <1>6, <1>i, <2>1 DEF Late
  <2> QED BY <1>6, <1>i, <2>1, <2>2, InTimeRows DEF Statuses
<1>7. \A i \in 1 .. lastId : f[i] \notin strayed' /\ Claimed(i)' => Claimed(i)
  <2>1. \A i \in 1 .. lastId : \A d \in Clients :
           f[i] \notin strayed' /\ Renews(d, i)' => Claimed(i)
    <3>1. \A i \in 1 .. lastId : f[i] \notin strayed' /\ Renews(c, i)' => Claimed(i)
      BY <1>3, <1>4, <1>6, <1>i DEF Renews
    <3> QED BY <1>5, <3>1 DEF Claimed
  <2> QED BY <1>1, <2>1, ClaimsOfClients
<1>8. Owned(f)' /\ OwnersGo(f)
  <2>1. \A d \in Clients, x \in auto \ strayed' : Holds(d, x)' => Holds(d, x)
    BY <1>3 DEF Holds
  <2> QED BY <1>1, <1>7, <2>1, FewerClaims DEF OwnersGo
<1>9. Named(f)'
  BY <1>1, <1>i, <1>3, <1>4, <1>5 DEF Named
<1>10. EditsInTime(f)'
  <2>1. k \notin strayed /\ rows[id].life >= -Year =>
          \A e \in Expirers : id \in DOMAIN job[e].page => job[e].page[id].life >= -Year
    BY <1>i DEF Limits, PageLimits, ExpirerPages
  <2>3. ASSUME NEW d \in Clients, NEW i \in 1 .. lastId, Renews(d, i)', f[i] \notin strayed', d = c
        PROVE  /\ op'[d].life >= -Year
               /\ i \in DOMAIN rows => rows[i].life >= -Year /\ rows[i].status # "recycled"
               /\ \A e \in Expirers : i \in DOMAIN job[e].page => job[e].page[i].life >= -Year
               /\ \A r \in Recyclers : i \notin DOMAIN job[r].page
    <3>1. i = id /\ rows[id].status # "recycled" /\ k \notin strayed'
      BY <1>3, <1>4, <1>i, <2>3 DEF Renews
    <3> QED BY <1>1, <1>3, <1>6, <2>1, <2>3, <3>1
  <2>4. ASSUME NEW d \in Clients, NEW i \in 1 .. lastId, Renews(d, i)', f[i] \notin strayed', d # c
        PROVE  /\ op'[d].life >= -Year
               /\ i \in DOMAIN rows => rows[i].life >= -Year /\ rows[i].status # "recycled"
               /\ \A e \in Expirers : i \in DOMAIN job[e].page => job[e].page[i].life >= -Year
               /\ \A r \in Recyclers : i \notin DOMAIN job[r].page
    BY <1>1, <1>3, <1>5, <2>4 DEF Limits, EditsInTime
  <2> QED BY <1>1, <2>3, <2>4 DEF EditsInTime
<1>11. EditsInVain(f)'
  <2>1. ASSUME rows[id].status = "recycled", k \notin strayed
        PROVE  ~Claimed(id) /\ \A r \in Recyclers : id \notin DOMAIN job[r].page
    <3>1. \A d \in Clients : ~Renews(d, id)
      BY <1>i, <2>1 DEF Limits, EditsInTime
    <3>2. \A e \in Expirers : id \notin DOMAIN job[e].page
      BY <1>i, <2>1 DEF Limits, PageLimits, ExpirerPages
    <3>3. \A r \in Recyclers : id \notin DOMAIN job[r].page
      BY <1>i, <2>1 DEF Limits, PageLimits, RecyclerPages
    <3>4. \A r \in Recyclers : id \notin job[r].todo
      BY <3>3, KindsOfJobs DEF Types, JobOK
    <3> QED BY <2>1, <3>1, <3>2, <3>3, <3>4 DEF Claimed
  <2>2. ASSUME NEW d \in Clients, NEW i \in 1 .. lastId, Edits(d, i)',
               op'[d].status = "recycled", f[i] \notin strayed'
        PROVE  ~Claimed(i) /\ \A r \in Recyclers : i \notin DOMAIN job[r].page
    <3>1. CASE d = c
      BY <1>1, <1>3, <1>4, <1>i, <2>1, <2>2, <3>1
    <3>2. CASE d # c
      BY <1>1, <1>3, <1>5, <2>2, <3>2 DEF Limits, EditsInVain
    <3> QED BY <3>1, <3>2
  <2> QED BY <1>1, <1>7, <2>2 DEF EditsInVain
<1>12. PageLimits(f)'
  BY <1>1, SamePages DEF Limits
<1> QED BY <1>8, <1>9, <1>10, <1>11, <1>12 DEF Limits

\* Steps of a client that start no Update and leave rows and pages alone.
LEMMA QuietClient ==
  ASSUME Types, NEW f, Limits(f), Named(f), Owned(f), NEW c \in Clients,
         UNCHANGED <<auto, rows, lastId, pool, job>>, strayed \subseteq strayed',
         \A d \in Clients \ {c} : op'[d] = op[d],
         \A i \in 1 .. lastId : Edits(c, i)' =>
            Edits(c, i) /\ op'[c].code = op[c].code /\ op'[c].life = op[c].life
                        /\ op'[c].status = op[c].status,
         \A k \in auto \ strayed' : Holds(c, k)' => Holds(c, k)
  PROVE  Named(f)' /\ Owned(f)' /\ Limits(f)' /\ OwnersGo(f)
<1>1. \A d \in Clients, i \in 1 .. lastId : Edits(d, i)' =>
         Edits(d, i) /\ op'[d].code = op[d].code /\ op'[d].life = op[d].life
                     /\ op'[d].status = op[d].status
  <2>1. \A d \in Clients \ {c}, i \in 1 .. lastId : Edits(d, i)' =>
         Edits(d, i) /\ op'[d].code = op[d].code /\ op'[d].life = op[d].life
                     /\ op'[d].status = op[d].status
    BY DEF Edits
  <2> QED BY <2>1
<1>r. \A d \in Clients, i \in 1 .. lastId : Renews(d, i)' =>
         Renews(d, i) /\ op'[d].life = op[d].life
  BY <1>1 DEF Renews
<1>2. \A i \in 1 .. lastId : Claimed(i)' => Claimed(i)
  <2>1. \A i \in 1 .. lastId : \A d \in Clients : Renews(d, i)' => Claimed(i)
    BY <1>r DEF Claimed
  <2> QED BY <2>1, ClaimsOfClients
<1>3. \A d \in Clients, k \in auto \ strayed' : Holds(d, k)' => Holds(d, k)
  <2>1. \A d \in Clients \ {c}, k \in auto : Holds(d, k)' => Holds(d, k)
    BY DEF Holds
  <2> QED BY <2>1
<1>4. Owned(f)' /\ OwnersGo(f)
  BY <1>2, <1>3, FewerClaims DEF OwnersGo
<1>5. Named(f)'
  BY <1>1 DEF Named
<1>6. EditsInTime(f)'
  BY <1>r DEF Limits, EditsInTime
<1>7. EditsInVain(f)'
  BY <1>1, <1>4, StayInVain DEF Limits
<1>8. PageLimits(f)'
  BY SamePages DEF Limits
<1> QED BY <1>4, <1>5, <1>6, <1>7, <1>8 DEF Limits

LEMMA QuietSteps ==
  ASSUME Types, NEW f, Limits(f), Named(f), Owned(f), NEW c \in Clients,
         \/ \E k \in Codes, link \in Links, life \in Terms : CheckManual(c, k, link, life)
         \/ Map(c) \/ FailClient(c) \/ GetRemoves(c)
         \/ \E k \in Codes : Unmap(c, k) \/ UnmapFails(c, k) \/ GetFindsExpired(c, k)
  PROVE  Named(f)' /\ Owned(f)' /\ Limits(f)' /\ OwnersGo(f)
<1>1. UNCHANGED <<auto, rows, lastId, pool, job>> /\ strayed \subseteq strayed'
  BY DEF CheckManual, Map, FailClient, GetRemoves, GetFindsExpired, Unmap, UnmapFails, stores,
         marks, Strays
<1>2. PICK x : op' = [op EXCEPT ![c] = x]
  BY DEF CheckManual, Map, Goto, FailClient, GetRemoves, GetFindsExpired, Unmap, UnmapFails
<1>3. op'[c] = x /\ \A d \in Clients \ {c} : op'[d] = op[d]
  BY <1>2 DEF Types
<1>4. CASE \E k \in Codes, link \in Links, life \in Terms : CheckManual(c, k, link, life)
  <2>1. PICK k \in Codes, link \in Links, life \in Terms : CheckManual(c, k, link, life)
    BY <1>4
  <2>2. op'[c].at = "map" /\ op'[c].code = k /\ k \notin auto \ strayed'
    BY <2>1 DEF CheckManual, Request, Strays, Types
  <2>3. /\ \A i \in 1 .. lastId : ~Edits(c, i)'
        /\ \A z \in auto \ strayed' : ~Holds(c, z)'
    BY <2>2 DEF Edits, Holds
  <2> QED BY <1>1, <1>3, <2>3, QuietClient
<1>5. CASE Map(c)
  <2>1. op[c] \in MapOps \cup EditOps
    BY <1>5, OpKinds DEF Map, Types
  <2>2. op' = [op EXCEPT ![c] =
                 [op[c] EXCEPT !.at = IF op[c].at = "map" THEN "row" ELSE "save"]]
    BY <1>5 DEF Map, Goto
  <2>3. CASE op[c].at = "map"
    <3>1. op'[c].at = "row" /\ op'[c].code = op[c].code
      BY <2>1, <2>2, <2>3 DEF Types, MapOps, EditOps
    <3>2. /\ \A i \in 1 .. lastId : ~Edits(c, i)'
          /\ \A z \in auto : Holds(c, z)' => Holds(c, z)
      BY <2>3, <3>1 DEF Edits, Holds
    <3> QED BY <1>1, <1>3, <3>2, QuietClient
  <2>4. CASE op[c].at = "remap"
    <3>1. op[c] \in EditOps
      BY <2>4, OpKinds DEF Types
    <3>2. /\ op'[c].at = "save" /\ op'[c].code = op[c].code /\ op'[c].life = op[c].life
          /\ op'[c].status = op[c].status /\ op'[c].id = op[c].id
      BY <2>2, <2>4, <3>1 DEF Types, EditOps
    <3>3. /\ \A i \in 1 .. lastId : Edits(c, i)' =>
               Edits(c, i) /\ op'[c].code = op[c].code /\ op'[c].life = op[c].life
                           /\ op'[c].status = op[c].status
          /\ \A z \in auto : Holds(c, z)' => Holds(c, z)
      BY <2>4, <3>2 DEF Edits, Holds
    <3> QED BY <1>1, <1>3, <3>3, QuietClient
  <2> QED BY <1>5, <2>3, <2>4 DEF Map
<1>6. CASE \/ FailClient(c) \/ GetRemoves(c)
           \/ \E k \in Codes : Unmap(c, k) \/ UnmapFails(c, k) \/ GetFindsExpired(c, k)
  <2>1. op'[c].at \in {"idle", "delete", "evict"}
    <3>1. CASE FailClient(c) \/ GetRemoves(c)
      <4>1. op' = [op EXCEPT ![c] = [at |-> "idle"]]
        BY <3>1 DEF FailClient, GetRemoves, NoOp
      <4> QED BY <4>1 DEF Types
    <3>2. CASE \E k \in Codes : Unmap(c, k) \/ UnmapFails(c, k) \/ GetFindsExpired(c, k)
      <4>1. PICK k : \/ op' = [op EXCEPT ![c] = [at |-> "delete", code |-> k]]
                     \/ op' = [op EXCEPT ![c] = [at |-> "evict", code |-> k]]
        BY <3>2 DEF Unmap, UnmapFails, GetFindsExpired
      <4> QED BY <4>1 DEF Types
    <3> QED BY <1>6, <3>1, <3>2
  <2>2. /\ \A i \in 1 .. lastId : ~Edits(c, i)'
        /\ \A z \in auto : ~Holds(c, z)'
    BY <2>1 DEF Edits, Holds
  <2> QED BY <1>1, <1>3, <2>2, QuietClient
<1> QED BY <1>4, <1>5, <1>6

\* Create takes a code from the pool: then nothing else has it.
LEMMA PullLedger ==
  ASSUME Types, NEW f, Limits(f), Named(f), Owned(f), NEW c \in Clients,
         NEW k \in Codes, NEW link \in Links, NEW life \in Terms, Pull(c, k, link, life)
  PROVE  Named(f)' /\ Owned(f)' /\ Limits(f)'
<1>1. /\ UNCHANGED <<auto, rows, lastId, mapping, job, strayed>>
      /\ pool' = pool \ {k} /\ k \in pool /\ k \in auto
  BY DEF Pull
<1>2. /\ op'[c].at = "map" /\ op'[c].code = k
      /\ \A d \in Clients \ {c} : op'[d] = op[d]
  BY DEF Pull, Request, Types
<1>3. \A d \in Clients, i \in 1 .. lastId : Edits(d, i)' => d # c /\ Edits(d, i)
  BY <1>2 DEF Edits
<1>r. \A d \in Clients, i \in 1 .. lastId : Renews(d, i)' => d # c /\ Renews(d, i)
  BY <1>2, <1>3 DEF Renews
<1>4. \A i \in 1 .. lastId : Claimed(i)' => Claimed(i)
  <2>1. \A i \in 1 .. lastId : \A d \in Clients : Renews(d, i)' => Claimed(i)
    BY <1>r DEF Claimed
  <2> QED BY <1>1, <2>1, ClaimsOfClients
<1>5. /\ \A d \in Clients, z \in auto : Holds(d, z)' => Holds(d, z) \/ (d = c /\ z = k)
      /\ k \notin strayed => \A d \in Clients : ~Holds(d, k)
  <2>1. \A d \in Clients \ {c}, z \in auto : Holds(d, z)' => Holds(d, z)
    BY <1>2 DEF Holds
  <2>2. \A z \in auto : Holds(c, z)' => z = k
    BY <1>2 DEF Holds
  <2>3. k \notin strayed => \A d \in Clients : ~Holds(d, k)
    BY <1>1 DEF Owned, Sound
  <2> QED BY <2>1, <2>2, <2>3
<1>6. k \notin strayed => \A i \in 1 .. lastId : f[i] = k => ~Claimed(i)
  BY <1>1 DEF Owned, Sound
<1>7. Owned(f)'
  <2>1. \A i, d \in 1 .. lastId :
          f[i] \in Sound /\ f[i] = f[d] /\ Claimed(i)' /\ Claimed(d)' => i = d
    BY <1>4 DEF Owned
  <2>2. \A i \in 1 .. lastId : f[i] \in Sound /\ Claimed(i)' =>
          f[i] \notin pool' /\ \A d \in Clients : ~Holds(d, f[i])'
    BY <1>1, <1>4, <1>5, <1>6 DEF Owned, Sound
  <2>3. \A z \in Sound : \A d, e \in Clients :
          Holds(d, z)' => z \notin pool' /\ (Holds(e, z)' => d = e)
    BY <1>1, <1>5 DEF Owned, Sound
  <2> QED BY <1>1, <2>1, <2>2, <2>3 DEF Owned, Sound
<1>8. Named(f)'
  BY <1>1, <1>2, <1>3 DEF Named
<1>9. EditsInTime(f)'
  BY <1>1, <1>2, <1>r DEF Limits, EditsInTime
<1>10. EditsInVain(f)'
  BY <1>1, <1>2, <1>3, <1>4 DEF Limits, EditsInVain
<1>11. PageLimits(f)'
  BY <1>1, SamePages DEF Limits
<1> QED BY <1>7, <1>8, <1>9, <1>10, <1>11 DEF Limits

\* A client's request ends: what rows it wrote or deleted is of ids the table knows.
LEMMA EndedLedger ==
  ASSUME Types, NEW f, Limits(f), Named(f), Owned(f), NEW c \in Clients,
         op' = [op EXCEPT ![c] = NoOp], UNCHANGED <<auto, lastId, pool, job, strayed>>,
         \A i \in DOMAIN rows' :
            \/ i \in DOMAIN rows /\ rows'[i] = rows[i]
            \/ /\ i \in 1 .. lastId /\ Edits(c, i) /\ rows'[i].code = op[c].code
               /\ rows'[i].life = op[c].life /\ rows'[i].status = op[c].status
  PROVE  Named(f)' /\ Owned(f)' /\ Limits(f)' /\ OwnersGo(f)
<1>1. op'[c].at = "idle" /\ \A d \in Clients \ {c} : op'[d] = op[d]
  BY DEF NoOp, Types
<1>2. \A d \in Clients, i \in 1 .. lastId : Edits(d, i)' => d # c /\ Edits(d, i)
  BY <1>1 DEF Edits
<1>r. \A d \in Clients, i \in 1 .. lastId : Renews(d, i)' => d # c /\ Renews(d, i)
  BY <1>1, <1>2 DEF Renews
<1>3. ASSUME NEW i \in 1 .. lastId, Claimed(i)' PROVE Claimed(i)
  <2>1. CASE i \in DOMAIN rows' /\ rows'[i].status # "recycled" /\ ~GivenBack(i)'
    <3>1. ~GivenBack(i)
      BY <2>1 DEF GivenBack, Returned
    <3> QED BY <2>1, <3>1 DEF Claimed, Renews
  <2>2. CASE ~(i \in DOMAIN rows' /\ rows'[i].status # "recycled" /\ ~GivenBack(i)')
    BY <1>r, <1>3, <2>2 DEF Claimed
  <2> QED BY <2>1, <2>2
<1>4. \A d \in Clients, k \in auto : Holds(d, k)' => Holds(d, k)
  BY <1>1 DEF Holds
<1>5. Owned(f)' /\ OwnersGo(f)
  BY <1>3, <1>4, FewerClaims DEF OwnersGo
<1>6. Named(f)'
  <2>1. \A i \in DOMAIN rows' : rows'[i].code = f[i]
    BY DEF Named
  <2> QED BY <1>1, <1>2, <2>1 DEF Named
\* What the request wrote is a renewal in time, or recycled and of nobody's claim.
<1>w. ASSUME NEW i \in DOMAIN rows', f[i] \notin strayed
      PROVE  \/ i \in DOMAIN rows /\ rows'[i] = rows[i]
             \/ /\ i \in 1 .. lastId /\ Renews(c, i)
                /\ rows'[i].life >= -Year /\ rows'[i].status # "recycled"
             \/ i \in 1 .. lastId /\ ~Claimed(i) /\ rows'[i].status = "recycled"
                /\ \A r \in Recyclers : i \notin DOMAIN job[r].page
  BY <1>w DEF Limits, EditsInTime, EditsInVain, Renews
<1>7. EditsInTime(f)'
  <2>1. ASSUME NEW d \in Clients, NEW i \in 1 .. lastId, Renews(d, i)', f[i] \notin strayed
        PROVE  /\ op'[d].life >= -Year
               /\ \A e \in Expirers : i \in DOMAIN job[e].page => job[e].page[i].life >= -Year
               /\ \A r \in Recyclers : i \notin DOMAIN job[r].page
    BY <1>1, <1>r, <2>1 DEF Limits, EditsInTime
  <2>2. ASSUME NEW d \in Clients, NEW i \in 1 .. lastId, Renews(d, i)', f[i] \notin strayed,
               i \in DOMAIN rows'
        PROVE  rows'[i].life >= -Year /\ rows'[i].status # "recycled"
    <3>1. Renews(d, i) /\ Claimed(i)
      BY <1>r, <2>2 DEF Claimed
    <3>2. i \in DOMAIN rows => rows[i].life >= -Year /\ rows[i].status # "recycled"
      BY <2>2, <3>1 DEF Limits, EditsInTime
    <3> QED BY <1>w, <2>2, <3>1, <3>2
  <2> QED BY <2>1, <2>2 DEF EditsInTime
<1>8. EditsInVain(f)'
  <2>1. \A d \in Clients, i \in 1 .. lastId :
           Edits(d, i)' /\ op'[d].status = "recycled" =>
              Edits(d, i) /\ op[d].status = "recycled"
    BY <1>1, <1>2
  <2> QED BY <1>5, <2>1, StayInVain DEF Limits
<1>9. ExpirerPages(f)'
  <2>1. ASSUME NEW e \in Expirers, NEW i \in DOMAIN job[e].page, f[i] \notin strayed,
               i \in DOMAIN rows'
        PROVE  /\ rows'[i].status # "recycled"
               /\ (rows'[i].status = "expired" => rows'[i].life >= -Year)
               /\ (rows'[i].life >= -Year => job[e].page[i].life >= -Year)
    <3>1. Claimed(i)
      BY <2>1 DEF Claimed
    <3>2. CASE i \in DOMAIN rows /\ rows'[i] = rows[i]
      BY <2>1, <3>2 DEF Limits, PageLimits, ExpirerPages
    <3>3. CASE i \in 1 .. lastId /\ Renews(c, i) /\ rows'[i].life >= -Year
               /\ rows'[i].status # "recycled"
      BY <2>1, <3>3 DEF Limits, EditsInTime
    <3> QED BY <1>w, <2>1, <3>1, <3>2, <3>3
  <2> QED BY <2>1 DEF Limits, PageLimits, ExpirerPages
<1>10. RecyclerPages(f)'
  <2>1. ASSUME NEW r \in Recyclers, NEW i \in DOMAIN job[r].page, f[i] \notin strayed,
               i \in DOMAIN rows'
        PROVE  rows'[i].status = "expired" /\ rows'[i].life < -Year
    <3>1. ~(i \in 1 .. lastId /\ Renews(c, i))
      BY <2>1 DEF Limits, EditsInTime
    <3> QED BY <1>w, <2>1, <3>1 DEF Limits, PageLimits, RecyclerPages
  <2> QED BY <2>1 DEF RecyclerPages
<1>11. PagesApart(f)' /\ Pages'
  BY DEF Limits, PageLimits, PagesApart, Pages
<1> QED BY <1>5, <1>6, <1>7, <1>8, <1>9, <1>10, <1>11 DEF Limits, PageLimits

LEMMA RowSaveLedger ==
  ASSUME Types, NEW f, Limits(f), Named(f), Owned(f), NEW c \in Clients, RowSave(c)
  PROVE  Named(f)' /\ Owned(f)' /\ Limits(f)' /\ OwnersGo(f)
<1>1. op[c] \in EditOps
  BY OpKinds DEF RowSave, Types
<1>2. op[c].id \in 1 .. lastId /\ Edits(c, op[c].id)
  BY <1>1 DEF EditOps, Edits, RowSave
<1>3. ASSUME NEW i \in DOMAIN rows'
      PROVE  \/ i \in DOMAIN rows /\ rows'[i] = rows[i]
             \/ /\ i = op[c].id /\ rows'[i].code = op[c].code
                /\ rows'[i].life = op[c].life /\ rows'[i].status = op[c].status
  BY DEF RowSave, Put
<1> QED BY <1>2, <1>3, EndedLedger DEF RowSave

LEMMA DeleteRowsLedger ==
  ASSUME Types, NEW f, Limits(f), Named(f), Owned(f), NEW c \in Clients, DeleteRows(c)
  PROVE  Named(f)' /\ Owned(f)' /\ Limits(f)' /\ OwnersGo(f)
<1>1. \A i \in DOMAIN rows' : i \in DOMAIN rows /\ rows'[i] = rows[i]
  BY DEF DeleteRows, Restrict
<1> QED BY <1>1, EndedLedger DEF DeleteRows

\* INSERT: the Create hands its code to the new row.
LEMMA RowCreateLedger ==
  ASSUME Types, Types', NEW f, Limits(f), Named(f), Owned(f), NEW c \in Clients, RowCreate(c)
  PROVE  (\E g : Named(g) /\ Owned(g) /\ Limits(g))'
<1>1. /\ UNCHANGED <<auto, mapping, pool, job, strayed>> /\ op[c].at = "row"
      /\ lastId' = lastId + 1 /\ lastId \in Nat
      /\ \A i \in 1 .. lastId' : i # lastId' => i \in 1 .. lastId
      /\ lastId' \notin 1 .. lastId /\ lastId' \in 1 .. lastId'
      /\ \A i \in 1 .. lastId : i \in 1 .. lastId' /\ i # lastId'
  BY DEF RowCreate, Types
<1>2. /\ op'[c].at = "idle" /\ \A d \in Clients \ {c} : op'[d] = op[d]
  BY DEF RowCreate, NoOp, Types
<1>3. op[c].code \in Codes
  BY OpKinds DEF RowCreate, Types, MapOps
<1>4. PICK k, g :
        /\ k = op[c].code
        /\ g \in [1 .. lastId' -> Codes] /\ g[lastId'] = k
        /\ \A i \in 1 .. lastId : g[i] = f[i]
  <2> DEFINE h == [i \in 1 .. lastId' |-> IF i = lastId' THEN op[c].code ELSE f[i]]
  <2>1. /\ h \in [1 .. lastId' -> Codes] /\ h[lastId'] = op[c].code
        /\ \A i \in 1 .. lastId : h[i] = f[i]
    BY <1>1, <1>3 DEF Named
  <2> QED BY <2>1
<1>5. /\ \A i \in DOMAIN rows' : i # lastId' => i \in DOMAIN rows /\ rows'[i] = rows[i]
      /\ lastId' \in DOMAIN rows' /\ rows'[lastId'].code = k
      /\ DOMAIN rows \subseteq 1 .. lastId
  BY <1>4 DEF RowCreate, Put, Types, RowsOK
<1>6. \A d \in Clients, i \in 1 .. lastId' : Edits(d, i)' =>
         i \in 1 .. lastId /\ Edits(d, i) /\ d # c /\ op'[d] = op[d]
  <2>1. ASSUME NEW d \in Clients, NEW i \in 1 .. lastId', Edits(d, i)'
        PROVE  i \in 1 .. lastId /\ Edits(d, i) /\ d # c /\ op'[d] = op[d]
    <3>1. d # c /\ op'[d] = op[d]
      BY <1>2, <2>1 DEF Edits
    <3>2. op[d].at \in {"remap", "save"} /\ op[d].id = i
      BY <2>1, <3>1 DEF Edits
    <3>3. op[d] \in EditOps
      BY <3>2, OpKinds DEF Types
    <3> QED BY <3>1, <3>2, <3>3 DEF EditOps, Edits
  <2> QED BY <1>1, <2>1
<1>r. \A d \in Clients, i \in 1 .. lastId' : Renews(d, i)' => i \in 1 .. lastId /\ Renews(d, i)
  BY <1>6 DEF Renews
<1>7. \A j \in Jobs : \A i \in DOMAIN job[j].page : i \in 1 .. lastId
  BY DEF Types, JobOK, RowsOK
<1>8. ASSUME NEW i \in 1 .. lastId, Claimed(i)' PROVE Claimed(i)
  <2>1. CASE i \in DOMAIN rows' /\ rows'[i].status # "recycled" /\ ~GivenBack(i)'
    <3>1. ~GivenBack(i) /\ i # lastId'
      BY <1>1, <2>1 DEF GivenBack, Returned
    <3> QED BY <1>5, <2>1, <3>1 DEF Claimed
  <2>2. CASE ~(i \in DOMAIN rows' /\ rows'[i].status # "recycled" /\ ~GivenBack(i)')
    <3>1. \A d \in Clients : Renews(d, i)' => Renews(d, i)
      BY <1>1, <1>r
    <3> QED BY <1>1, <1>8, <2>2, <3>1 DEF Claimed
  <2> QED BY <2>1, <2>2
<1>9. Holds(c, k)
  BY <1>1, <1>4 DEF Holds
<1>10. \A d \in Clients, z \in auto : Holds(d, z)' => Holds(d, z) /\ d # c
  BY <1>2 DEF Holds
<1>s. Sound' = Sound /\ Sound \subseteq auto
  BY <1>1 DEF Sound
<1>11. Owned(g)'
  <2>1. k \in Sound => /\ \A i \in 1 .. lastId : f[i] = k => ~Claimed(i)
                       /\ \A d \in Clients \ {c} : ~Holds(d, k)
                       /\ k \notin pool
    BY <1>9 DEF Owned
  <2>2. \A i, d \in 1 .. lastId' :
          g[i] \in Sound /\ g[i] = g[d] /\ Claimed(i)' /\ Claimed(d)' => i = d
    BY <1>1, <1>4, <1>8, <2>1 DEF Owned
  <2>3. \A i \in 1 .. lastId' : g[i] \in Sound /\ Claimed(i)' =>
          g[i] \notin pool /\ \A d \in Clients : ~Holds(d, g[i])'
    <3>1. ASSUME NEW i \in 1 .. lastId', g[i] \in Sound, Claimed(i)', i = lastId'
          PROVE  g[i] \notin pool /\ \A d \in Clients : ~Holds(d, g[i])'
      BY <1>4, <1>10, <1>s, <2>1, <3>1
    <3>2. ASSUME NEW i \in 1 .. lastId', g[i] \in Sound, Claimed(i)', i # lastId'
          PROVE  g[i] \notin pool /\ \A d \in Clients : ~Holds(d, g[i])'
      BY <1>1, <1>4, <1>8, <1>10, <1>s, <3>2 DEF Owned
    <3> QED BY <3>1, <3>2
  <2>4. \A z \in Sound : \A d, e \in Clients :
          Holds(d, z)' => z \notin pool /\ (Holds(e, z)' => d = e)
    BY <1>10, <1>s DEF Owned
  <2> QED BY <1>1, <1>s, <2>2, <2>3, <2>4 DEF Owned
<1>12. Named(g)'
  <2>1. \A i \in DOMAIN rows' : rows'[i].code = g[i]
    BY <1>4, <1>5 DEF Named
  <2>2. \A d \in Clients, i \in 1 .. lastId' : Edits(d, i)' => op'[d].code = g[i]
    BY <1>1, <1>2, <1>4, <1>6 DEF Named
  <2>3. \A j \in Jobs : \A i \in DOMAIN job[j].page : job[j].page[i].code = g[i]
    BY <1>4, <1>7 DEF Named
  <2> QED BY <1>1, <1>4, <2>1, <2>2, <2>3 DEF Named
<1>13. EditsInTime(g)'
  <2>1. ASSUME NEW d \in Clients, NEW i \in 1 .. lastId', Renews(d, i)', g[i] \notin strayed
        PROVE  /\ op'[d].life >= -Year
               /\ i \in DOMAIN rows' => rows'[i].life >= -Year /\ rows'[i].status # "recycled"
               /\ \A e \in Expirers : i \in DOMAIN job[e].page => job[e].page[i].life >= -Year
               /\ \A r \in Recyclers : i \notin DOMAIN job[r].page
    <3>1. i \in 1 .. lastId /\ Renews(d, i) /\ f[i] \notin strayed /\ op'[d] = op[d] /\ i # lastId'
      BY <1>1, <1>4, <1>6, <1>r, <2>1 DEF Renews
    <3> QED BY <1>5, <3>1 DEF Limits, EditsInTime
  <2> QED BY <1>1, <2>1 DEF EditsInTime
<1>14. EditsInVain(g)'
  <2>1. ASSUME NEW d \in Clients, NEW i \in 1 .. lastId', Edits(d, i)',
               op'[d].status = "recycled", g[i] \notin strayed
        PROVE  ~Claimed(i)' /\ \A r \in Recyclers : i \notin DOMAIN job[r].page
    <3>1. i \in 1 .. lastId /\ Edits(d, i) /\ f[i] \notin strayed /\ op[d].status = "recycled"
      BY <1>4, <1>6, <2>1
    <3> QED BY <1>8, <3>1 DEF Limits, EditsInVain
  <2> QED BY <1>1, <2>1 DEF EditsInVain
<1>15. PageLimits(g)'
  <2>1. \A j \in Jobs : \A i \in DOMAIN job[j].page :
          /\ g[i] = f[i]
          /\ i \in DOMAIN rows' => i \in DOMAIN rows /\ rows'[i] = rows[i]
    BY <1>1, <1>4, <1>5, <1>7
  <2>2. ExpirerPages(g)' /\ RecyclerPages(g)' /\ PagesApart(g)' /\ Pages'
    BY <1>1, <2>1, KindsOfJobs
    DEF Limits, PageLimits, ExpirerPages, RecyclerPages, PagesApart, Pages
  <2> QED BY <2>2 DEF PageLimits
<1> QED BY <1>11, <1>12, <1>13, <1>14, <1>15 DEF Limits

-----------------------------------------------------------------------------
(* The ledger and the jobs. *)

\* A job's step that leaves Updates and holders alone: what becomes of the ledger
\* is settled by the claims, the names on the page, and the limits.
LEMMA JobStep ==
  ASSUME Types, NEW f, Named(f), Owned(f), NEW j \in Jobs,
         UNCHANGED <<auto, lastId, op>>, pool' = pool, strayed \subseteq strayed',
         \A i \in Jobs \ {j} : job'[i] = job[i],
         \A i \in DOMAIN rows' : rows'[i].code = f[i],
         \A i \in DOMAIN job'[j].page : job'[j].page[i].code = f[i],
         \A i \in 1 .. lastId : f[i] \notin strayed' /\ Claimed(i)' => Claimed(i)
  PROVE  Named(f)' /\ Owned(f)' /\ OwnersGo(f)
<1>1. Owned(f)' /\ OwnersGo(f)
  BY FewerClaims DEF Holds, OwnersGo
<1>2. \A c \in Clients, i \in 1 .. lastId : Edits(c, i)' => op'[c].code = f[i]
  BY DEF Named, Edits
<1>3. \A i \in Jobs : \A d \in DOMAIN job'[i].page : job'[i].page[d].code = f[d]
  BY DEF Named
<1> QED BY <1>1, <1>2, <1>3 DEF Named

\* What a job takes as its page: rows that are due, as they are.
LEMMA TakePageParts ==
  ASSUME Types, NEW f, Limits(f), Named(f), NEW j \in Jobs, NEW from,
         TakePage(j, from), UNCHANGED rows
  PROVE  /\ strayed \subseteq strayed'
         /\ \A i \in Jobs \ {j} : job'[i] = job[i]
         /\ DOMAIN job'[j].page \subseteq Due(j) /\ DOMAIN job'[j].page \subseteq DOMAIN rows
         /\ \A i \in DOMAIN job'[j].page :
               /\ job'[j].page[i] = rows[i] /\ job'[j].page[i].code = f[i]
               /\ f[i] \notin strayed' =>
                     i \notin Shared(j, DOMAIN job'[j].page) /\ f[i] \notin strayed
         /\ job'[j].todo = DOMAIN job'[j].page /\ job'[j].at \in {"idle", "each"}
         /\ job'[j].at = "idle" => DOMAIN job'[j].page = {}
<1> DEFINE A == PageAfter(j, from)
<1>1. \A i \in Jobs \ {j} : job'[i] = job[i]
  BY DEF TakePage, Types
<1>2. CASE A = {}
  <2>1. job'[j] = NoJob /\ UNCHANGED strayed
    BY <1>2 DEF TakePage, Types, marks
  <2>2. DOMAIN NoJob.page = {} /\ NoJob.todo = {} /\ NoJob.at = "idle"
    BY EmptyRows DEF NoJob
  <2> QED BY <1>1, <2>1, <2>2
<1>3. CASE A # {}
  <2>1. /\ job'[j].page = Restrict(rows, A) /\ job'[j].todo = A /\ job'[j].at = "each"
        /\ strayed' = strayed \cup {rows[i].code : i \in Shared(j, A)}
    BY <1>3 DEF TakePage, Types, Strays
  <2>2. /\ DOMAIN job'[j].page = A /\ \A i \in A : job'[j].page[i] = rows[i]
        /\ A \subseteq DOMAIN rows /\ A \subseteq Due(j)
    BY <2>1, PageIsRows
  <2>3. \A i \in A : rows[i].code = f[i]
    BY <2>2 DEF Named
  <2>4. \A i \in A : f[i] \notin strayed' => i \notin Shared(j, A) /\ f[i] \notin strayed
    BY <2>1, <2>3
  <2> QED BY <1>1, <2>1, <2>2, <2>3, <2>4
<1> QED BY <1>2, <1>3

LEMMA TakePageLedger ==
  ASSUME Types, Types', NEW f, Limits(f), Named(f), Owned(f), NEW j \in Jobs, NEW from,
         job[j].at \in {"idle", "find"}, TakePage(j, from), UNCHANGED <<stores, op>>
  PROVE  Named(f)' /\ Owned(f)' /\ Limits(f)' /\ OwnersGo(f)
<1>1. UNCHANGED <<auto, rows, lastId, mapping, pool, op>>
  BY DEF stores
<1> DEFINE P == DOMAIN job'[j].page
<1>2. strayed \subseteq strayed' /\ \A i \in Jobs \ {j} : job'[i] = job[i]
  BY <1>1, TakePageParts
<1>3. /\ P \subseteq Due(j) /\ P \subseteq DOMAIN rows
      /\ \A i \in P : job'[j].page[i] = rows[i] /\ job'[j].page[i].code = f[i]
      /\ \A i \in P : f[i] \notin strayed' => i \notin Shared(j, P) /\ f[i] \notin strayed
      /\ job'[j].todo = P /\ job'[j].at \in {"idle", "each"}
      /\ job'[j].at = "idle" => P = {}
  BY <1>1, TakePageParts
<1>4. DOMAIN job[j].page = {}
  BY DEF Limits, PageLimits, Pages
<1>s. \A i \in P : \A q \in Jobs \ {j} :
        f[i] \notin strayed' /\ (q \in Expirers <=> j \in Expirers) /\ i \in DOMAIN job[q].page
           => rows[i].life >= -Year
  <2>1. \A i \in P : rows[i].life \in Int /\ Year \in Int
    BY <1>3, LifecycleAssumption DEF Types, RowsOK, Row
  <2> QED BY <1>3, <2>1 DEF Shared
<1> HIDE DEF P
<1>5. P \subseteq 1 .. lastId
  BY <1>3 DEF Types, RowsOK
<1>6. Pages'
  BY <1>2, <1>3 DEF Limits, PageLimits, Pages, P
<1>7. \A i \in DOMAIN rows' : rows'[i].code = f[i]
  BY <1>1 DEF Named
<1>8. \A i \in DOMAIN job'[j].page : job'[j].page[i].code = f[i]
  BY <1>3 DEF P
<1>e. \A c \in Clients, i \in 1 .. lastId : /\ Edits(c, i)' = Edits(c, i)
                                            /\ Renews(c, i)' = Renews(c, i)
  BY <1>1 DEF Edits, Renews
<1>9. CASE j \in Expirers
  <2>1. \A i \in P : f[i] \notin strayed' =>
           /\ rows[i].status = "active" /\ Claimed(i)
           /\ \A r \in Recyclers : i \notin DOMAIN job[r].page
    BY <1>3, <1>9, InTimeRows DEF Due
  <2>2. \A r \in Recyclers : job'[r] = job[r]
    BY <1>2, <1>9, KindsOfJobs
  <2>3. ASSUME NEW i \in 1 .. lastId, f[i] \notin strayed', Claimed(i)' PROVE Claimed(i)
    <3>1. GivenBack(i)' = GivenBack(i)
      BY <2>2 DEF GivenBack, Returned
    <3>2. \A e \in Expirers : i \in DOMAIN job'[e].page => Claimed(i)
      BY <1>2, <2>1, <2>3, KindsOfJobs DEF Claimed, P
    <3>3. \A c \in Clients : Renews(c, i)' => Claimed(i)
      BY <1>e DEF Claimed
    <3> QED BY <1>1, <2>2, <2>3, <3>1, <3>2, <3>3 DEF Claimed
  <2>4. EditsInTime(f)'
    <3>1. ASSUME NEW c \in Clients, NEW i \in 1 .. lastId, Renews(c, i), f[i] \notin strayed',
                 NEW e \in Expirers, i \in DOMAIN job'[e].page
          PROVE  job'[e].page[i].life >= -Year
      <4>1. CASE e = j
        BY <1>2, <1>3, <3>1, <4>1 DEF Limits, EditsInTime, P
      <4>2. CASE e # j
        BY <1>2, <3>1, <4>2, KindsOfJobs DEF Limits, EditsInTime
      <4> QED BY <4>1, <4>2
    <3> QED BY <1>1, <1>2, <1>e, <2>2, <3>1 DEF Limits, EditsInTime
  <2>5. ExpirerPages(f)'
    <3>1. ASSUME NEW e \in Expirers, NEW i \in DOMAIN job'[e].page, f[i] \notin strayed'
          PROVE  /\ i \in DOMAIN rows =>
                      /\ rows[i].status # "recycled"
                      /\ (rows[i].status = "expired" => rows[i].life >= -Year)
                      /\ (rows[i].life >= -Year => job'[e].page[i].life >= -Year)
                 /\ \A r \in Recyclers : i \notin DOMAIN job[r].page
      <4>1. CASE e = j
        BY <1>3, <2>1, <3>1, <4>1 DEF P
      <4>2. CASE e # j
        BY <1>2, <3>1, <4>2, KindsOfJobs DEF Limits, PageLimits, ExpirerPages
      <4> QED BY <4>1, <4>2
    <3> QED BY <1>1, <2>2, <3>1 DEF ExpirerPages
  <2>6. RecyclerPages(f)'
    BY <1>1, <1>2, <2>2 DEF Limits, PageLimits, RecyclerPages
  <2>7. PagesApart(f)'
    <3>1. ASSUME NEW e \in Expirers, NEW d \in Expirers \ {e}, NEW i \in DOMAIN job'[e].page,
                 f[i] \notin strayed', i \in DOMAIN job'[d].page
          PROVE  job'[e].page[i].life >= -Year
      <4>1. CASE e = j
        BY <1>2, <1>3, <1>9, <1>s, <3>1, <4>1, KindsOfJobs DEF P
      <4>2. CASE d = j
        <5>1. job'[e] = job[e] /\ i \in P /\ i \in DOMAIN rows /\ rows[i].life >= -Year
          BY <1>2, <1>3, <1>9, <1>s, <3>1, <4>2, KindsOfJobs DEF P
        <5> QED BY <1>2, <3>1, <5>1 DEF Limits, PageLimits, ExpirerPages
      <4>3. CASE e # j /\ d # j
        BY <1>2, <3>1, <4>3, KindsOfJobs DEF Limits, PageLimits, PagesApart
      <4> QED BY <4>1, <4>2, <4>3
    <3> QED BY <1>2, <2>2, <3>1 DEF Limits, PageLimits, PagesApart
  <2>8. Owned(f)' /\ OwnersGo(f) /\ Named(f)'
    BY <1>1, <1>2, <1>7, <1>8, <2>3, JobStep
  <2>9. EditsInVain(f)'
    BY <1>1, <1>e, <2>2, <2>8, StayInVain DEF Limits
  <2> QED BY <1>6, <2>4, <2>5, <2>6, <2>7, <2>8, <2>9 DEF Limits, PageLimits
<1>10. CASE j \in Recyclers
  <2>1. \A i \in P : rows[i].status = "expired" /\ rows[i].life < -Year
    BY <1>3, <1>10, KindsOfJobs DEF Due
  <2>2. \A e \in Expirers : job'[e] = job[e]
    BY <1>2, <1>10, KindsOfJobs
  <2>3. \A i \in P : rows[i].life \in Int /\ Year \in Int /\ ~(rows[i].life >= -Year)
    BY <1>3, <2>1, LifecycleAssumption DEF Types, RowsOK, Row
  <2>4. \A r \in Recyclers \ {j} :
           /\ job'[r] = job[r]
           /\ \A i \in P : f[i] \notin strayed' => i \notin DOMAIN job[r].page
    BY <1>2, <1>10, <1>s, <2>3, KindsOfJobs
  <2>5. /\ \A i \in P : f[i] \notin strayed' => ~GivenBack(i)
        /\ \A i : GivenBack(i) => GivenBack(i)'
    <3>1. \A i \in P : f[i] \notin strayed' => ~GivenBack(i)
      BY <1>4, <2>4 DEF GivenBack, Returned
    <3>2. ASSUME NEW i, GivenBack(i) PROVE GivenBack(i)'
      <4>1. PICK r \in Recyclers : i \in DOMAIN job[r].page \ job[r].todo
        BY <3>2 DEF GivenBack, Returned
      <4>2. job'[r] = job[r]
        BY <1>4, <2>4, <4>1
      <4> QED BY <4>1, <4>2 DEF GivenBack, Returned
    <3> QED BY <3>1, <3>2
  <2>6. \A i \in P : f[i] \notin strayed' => Claimed(i)
    BY <1>3, <2>1, <2>5 DEF Claimed
  <2>7. ASSUME NEW i \in 1 .. lastId, f[i] \notin strayed', Claimed(i)' PROVE Claimed(i)
    <3>1. ASSUME NEW r \in Recyclers, i \in job'[r].todo PROVE Claimed(i)
      <4>1. CASE r = j
        BY <1>3, <2>6, <2>7, <3>1, <4>1
      <4>2. CASE r # j
        BY <2>4, <3>1, <4>2 DEF Claimed
      <4> QED BY <4>1, <4>2
    <3>2. \A c \in Clients : Renews(c, i)' => Claimed(i)
      BY <1>e DEF Claimed
    <3> QED BY <1>1, <2>2, <2>5, <2>7, <3>1, <3>2 DEF Claimed
  <2>8. EditsInTime(f)'
    <3>1. ASSUME NEW c \in Clients, NEW i \in 1 .. lastId, Renews(c, i), f[i] \notin strayed',
                 NEW r \in Recyclers, i \in DOMAIN job'[r].page
          PROVE  FALSE
      <4>1. CASE r = j
        <5>1. i \in P /\ rows[i].life >= -Year
          BY <1>2, <1>3, <3>1, <4>1 DEF Limits, EditsInTime, P
        <5> QED BY <2>3, <5>1
      <4>2. CASE r # j
        BY <1>2, <2>4, <3>1, <4>2 DEF Limits, EditsInTime
      <4> QED BY <4>1, <4>2
    <3> QED BY <1>1, <1>2, <1>e, <2>2, <3>1 DEF Limits, EditsInTime
  <2>9. ExpirerPages(f)'
    <3>1. ASSUME NEW e \in Expirers, NEW i \in DOMAIN job[e].page, f[i] \notin strayed',
                 NEW r \in Recyclers, i \in DOMAIN job'[r].page
          PROVE  FALSE
      <4>1. CASE r = j
        <5>1. i \in P /\ rows[i].life >= -Year
          BY <1>2, <1>3, <2>1, <3>1, <4>1 DEF Limits, PageLimits, ExpirerPages, P
        <5> QED BY <2>3, <5>1
      <4>2. CASE r # j
        BY <1>2, <2>4, <3>1, <4>2 DEF Limits, PageLimits, ExpirerPages
      <4> QED BY <4>1, <4>2
    <3> QED BY <1>1, <1>2, <2>2, <3>1 DEF Limits, PageLimits, ExpirerPages
  <2>10. RecyclerPages(f)'
    <3>1. ASSUME NEW r \in Recyclers, NEW i \in DOMAIN job'[r].page, i \in DOMAIN rows,
                 f[i] \notin strayed'
          PROVE  rows[i].status = "expired" /\ rows[i].life < -Year
      <4>1. CASE r = j
        BY <2>1, <3>1, <4>1 DEF P
      <4>2. CASE r # j
        BY <1>2, <2>4, <3>1, <4>2 DEF Limits, PageLimits, RecyclerPages
      <4> QED BY <4>1, <4>2
    <3> QED BY <1>1, <3>1 DEF RecyclerPages
  <2>11. PagesApart(f)'
    <3>1. ASSUME NEW r \in Recyclers, NEW q \in Recyclers \ {r}, NEW i \in DOMAIN job'[r].page,
                 f[i] \notin strayed'
          PROVE  i \notin DOMAIN job'[q].page
      <4>1. CASE r = j
        BY <2>4, <3>1, <4>1 DEF P
      <4>2. CASE q = j
        BY <2>4, <3>1, <4>2 DEF P
      <4>3. CASE r # j /\ q # j
        BY <1>2, <2>4, <3>1, <4>3 DEF Limits, PageLimits, PagesApart
      <4> QED BY <4>1, <4>2, <4>3
    <3> QED BY <1>2, <2>2, <3>1 DEF Limits, PageLimits, PagesApart
  <2>12. Owned(f)' /\ OwnersGo(f) /\ Named(f)'
    BY <1>1, <1>2, <1>7, <1>8, <2>7, JobStep
  <2>13. EditsInVain(f)'
    <3>1. ASSUME NEW r \in Recyclers, NEW i \in 1 .. lastId, f[i] \notin strayed',
                 i \in DOMAIN job'[r].page
          PROVE  i \in DOMAIN job[r].page \/ Claimed(i)
      <4>1. CASE r = j
        BY <2>6, <3>1, <4>1 DEF P
      <4>2. CASE r # j
        BY <2>4, <3>1, <4>2
      <4> QED BY <4>1, <4>2
    <3> QED BY <1>1, <1>e, <2>12, <3>1, StayInVain DEF Limits
  <2> QED BY <1>6, <2>8, <2>9, <2>10, <2>11, <2>12, <2>13 DEF Limits, PageLimits
<1> QED BY <1>9, <1>10, KindsOfJobs

LEMMA FindLedger ==
  ASSUME Types, Types', NEW f, Limits(f), Named(f), Owned(f), NEW j \in Jobs,
         FindFirst(j) \/ FindNext(j)
  PROVE  Named(f)' /\ Owned(f)' /\ Limits(f)' /\ OwnersGo(f)
BY TakePageLedger DEF FindFirst, FindNext

\* HDEL, ZADD: the recycler gives a code back, and with it the row's claim on it.
LEMMA EachLedger ==
  ASSUME Types, Types', NEW f, Limits(f), Named(f), Owned(f), NEW j \in Jobs, Each(j)
  PROVE  Named(f)' /\ Owned(f)' /\ Limits(f)' /\ (j \in Expirers => OwnersGo(f))
<1>1. UNCHANGED <<auto, rows, lastId, op, strayed>>
  BY EachParts DEF Each, marks
<1>2. PICK id \in job[j].todo :
        /\ job' = [job EXCEPT ![j] =
                     [at |-> IF job[j].todo = {id} THEN "save" ELSE "each",
                      from |-> job[j].from, page |-> job[j].page,
                      todo |-> job[j].todo \ {id}]]
        /\ j \in Expirers => UNCHANGED pool
        /\ j \notin Expirers => pool' = pool \cup {job[j].page[id].code}
  BY EachParts
<1>3. /\ \A i \in Jobs \ {j} : job'[i] = job[i]
      /\ job'[j].page = job[j].page /\ job'[j].todo = job[j].todo \ {id}
      /\ job'[j].at \in {"save", "each"}
      /\ job'[j].at = "save" => job[j].todo = {id}
  BY <1>2 DEF Types
<1>4. id \in DOMAIN job[j].page /\ id \in 1 .. lastId
  BY DEF Types, JobOK, RowsOK
<1>5. \A i \in Jobs : job'[i].page = job[i].page
  BY <1>3
<1>e. \A c \in Clients, i \in 1 .. lastId : /\ Edits(c, i)' = Edits(c, i)
                                            /\ Renews(c, i)' = Renews(c, i)
  BY <1>1 DEF Edits, Renews
<1>6. EditsInTime(f)' /\ PageLimits(f)'
  <2>1. \A i \in Jobs \ {j} : job'[i].at = job[i].at /\ job'[i].todo = job[i].todo
    BY <1>3
  <2>2. Pages'
    BY <1>3, <1>5, <2>1 DEF Limits, PageLimits, Pages
  <2>3. EditsInTime(f)'
    BY <1>1, <1>5, <1>e, KindsOfJobs DEF Limits, EditsInTime
  <2>4. ExpirerPages(f)' /\ RecyclerPages(f)' /\ PagesApart(f)'
    BY <1>1, <1>5, KindsOfJobs
    DEF Limits, PageLimits, ExpirerPages, RecyclerPages, PagesApart
  <2> QED BY <2>2, <2>3, <2>4 DEF PageLimits
<1>7. CASE j \in Expirers
  <2>1. \A r \in Recyclers : job'[r] = job[r]
    BY <1>3, <1>7, KindsOfJobs
  <2>2. ASSUME NEW i \in 1 .. lastId, Claimed(i)' PROVE Claimed(i)
    <3>1. GivenBack(i)' = GivenBack(i)
      BY <2>1 DEF GivenBack, Returned
    <3>2. \A e \in Expirers : job'[e].page = job[e].page
      BY <1>5, KindsOfJobs
    <3>3. \A c \in Clients : Renews(c, i)' => Renews(c, i)
      BY <1>e
    <3> QED BY <1>1, <2>1, <2>2, <3>1, <3>2, <3>3 DEF Claimed
  <2>3. pool' = pool
    BY <1>2, <1>7
  <2>4. \A i \in DOMAIN rows' : rows'[i].code = f[i]
    BY <1>1 DEF Named
  <2>5. \A i \in DOMAIN job'[j].page : job'[j].page[i].code = f[i]
    BY <1>5 DEF Named
  <2>6. Named(f)' /\ Owned(f)' /\ OwnersGo(f)
    BY <1>1, <1>3, <2>2, <2>3, <2>4, <2>5, JobStep
  <2>7. EditsInVain(f)'
    BY <1>1, <1>e, <2>1, <2>6, StayInVain DEF Limits
  <2> QED BY <1>6, <2>6, <2>7 DEF Limits
<1>8. CASE j \in Recyclers
  <2>1. \A r \in Recyclers \ {j} :
           /\ job'[r] = job[r]
           /\ f[id] \notin strayed => id \notin DOMAIN job[r].page /\ id \notin job[r].todo
    BY <1>3, <1>4, <1>8, KindsOfJobs DEF Limits, PageLimits, PagesApart, Types, JobOK
  <2>2. pool' = pool \cup {f[id]}
    BY <1>2, <1>4, <1>8, KindsOfJobs DEF Named
  <2>3. Claimed(id)
    BY <1>8 DEF Claimed
  <2>4. \A r \in Recyclers : job'[r].page = job[r].page /\ job'[r].todo \subseteq job[r].todo
    BY <1>3, <2>1
  <2>5. ASSUME NEW i \in 1 .. lastId, Claimed(i)'
        PROVE  Claimed(i) /\ (f[i] \notin strayed => i # id)
    <3>1. ASSUME i = id, f[id] \notin strayed PROVE FALSE
      <4>1. GivenBack(id)'
        BY <1>3, <1>4, <1>8 DEF GivenBack, Returned
      <4>2. \A c \in Clients : ~Renews(c, id)'
        BY <1>4, <1>8, <1>e, <3>1 DEF Limits, EditsInTime
      <4>3. \A e \in Expirers : id \notin DOMAIN job'[e].page
        BY <1>4, <1>5, <1>8, <3>1, KindsOfJobs DEF Limits, PageLimits, ExpirerPages
      <4>4. \A r \in Recyclers : id \notin job'[r].todo
        BY <1>3, <2>1, <3>1
      <4> QED BY <2>5, <3>1, <4>1, <4>2, <4>3, <4>4 DEF Claimed
    <3>2. CASE i = id
      BY <2>3, <3>1, <3>2
    <3>3. CASE i # id
      <4>1. GivenBack(i) => GivenBack(i)'
        BY <2>4 DEF GivenBack, Returned
      <4>2. \A e \in Expirers : i \in DOMAIN job'[e].page => i \in DOMAIN job[e].page
        BY <1>5, KindsOfJobs
      <4>3. \A c \in Clients : Renews(c, i)' => Renews(c, i)
        BY <1>e
      <4> QED BY <1>1, <2>4, <2>5, <3>3, <4>1, <4>2, <4>3 DEF Claimed
    <3> QED BY <3>2, <3>3
  <2>6. \A c \in Clients : \A k : Holds(c, k)' = Holds(c, k)
    BY <1>1 DEF Holds
  <2>7. f[id] \in Sound => /\ \A i \in 1 .. lastId : f[i] = f[id] /\ Claimed(i) => i = id
                           /\ \A c \in Clients : ~Holds(c, f[id])
    BY <1>4, <2>3 DEF Owned
  <2>8. Owned(f)'
    <3>0. Sound' = Sound /\ Sound = auto \ strayed
      BY <1>1 DEF Sound
    <3>1. \A i, d \in 1 .. lastId :
            f[i] \in Sound /\ f[i] = f[d] /\ Claimed(i)' /\ Claimed(d)' => i = d
      BY <2>5 DEF Owned
    <3>2. \A i \in 1 .. lastId : f[i] \in Sound /\ Claimed(i)' =>
            f[i] \notin pool' /\ \A c \in Clients : ~Holds(c, f[i])
      BY <2>2, <2>5, <2>7, <3>0 DEF Owned
    <3>3. \A k \in Sound : \A c, d \in Clients :
            Holds(c, k) => k \notin pool' /\ (Holds(d, k) => c = d)
      BY <2>2, <2>7 DEF Owned
    <3> QED BY <1>1, <2>6, <3>0, <3>1, <3>2, <3>3 DEF Owned
  <2>9. Named(f)'
    BY <1>1, <1>5 DEF Named, Edits
  <2>10. EditsInVain(f)'
    <3>1. \A r \in Recyclers : job'[r].page = job[r].page
      BY <2>4
    <3>2. ASSUME NEW c \in Clients, NEW i \in 1 .. lastId, Edits(c, i)',
                 op'[c].status = "recycled", f[i] \notin strayed
          PROVE  ~Claimed(i)' /\ \A r \in Recyclers : i \notin DOMAIN job[r].page
      BY <1>1, <1>e, <2>5, <3>2 DEF Limits, EditsInVain
    <3> QED BY <1>1, <3>1, <3>2 DEF EditsInVain
  <2> QED BY <1>6, <1>8, <2>8, <2>9, <2>10, KindsOfJobs DEF Limits
<1> QED BY <1>7, <1>8, KindsOfJobs

\* What SavePage leaves: the page's rows as they were read, with their new status.
LEMMA SavePageParts ==
  ASSUME Types, NEW j \in Jobs, SavePage(j)
  PROVE  /\ UNCHANGED <<auto, lastId, mapping, pool, op>> /\ job[j].at = "save"
         /\ DOMAIN rows' = DOMAIN rows \cup DOMAIN job[j].page
         /\ \A i \in DOMAIN job[j].page :
               /\ rows'[i].code = job[j].page[i].code /\ rows'[i].life = job[j].page[i].life
               /\ rows'[i].status = NextStatus(j)
         /\ \A i \in DOMAIN rows \ DOMAIN job[j].page : rows'[i] = rows[i]
         /\ \A i \in Jobs \ {j} : job'[i] = job[i]
         /\ DOMAIN job'[j].page = {} /\ job'[j].todo = {} /\ job'[j].at = "find"
<1>1. rows' = [i \in DOMAIN rows \cup DOMAIN job[j].page |->
                 IF i \in DOMAIN job[j].page THEN Saved(j, i) ELSE rows[i]]
  BY DEF SavePage, Saved
<1>2. PICK x : /\ job' = [job EXCEPT ![j] = x]
               /\ x.at = "find" /\ x.todo = {} /\ x.page = <<>>
  <2>1. PICK last : job' = [job EXCEPT ![j] = [NoJob EXCEPT !.at = "find", !.from = last]]
    BY DEF SavePage
  <2>2. job' = [job EXCEPT ![j] = [at |-> "find", from |-> last, page |-> <<>>, todo |-> {}]]
    BY <2>1, NextPlace, Zenon
  <2> DEFINE x == [at |-> "find", from |-> last, page |-> <<>>, todo |-> {}]
  <2>3. x.at = "find" /\ x.todo = {} /\ x.page = <<>>
    OBVIOUS
  <2> HIDE DEF x
  <2>4. job' = [job EXCEPT ![j] = x]
    BY <2>2 DEF x
  <2> QED BY <2>3, <2>4
<1>3. /\ \A i \in Jobs \ {j} : job'[i] = job[i]
      /\ DOMAIN job'[j].page = {} /\ job'[j].todo = {} /\ job'[j].at = "find"
  BY <1>2, EmptyRows DEF Types
<1>4. \A i \in DOMAIN job[j].page : rows'[i] = Saved(j, i)
  BY <1>1
<1>5. \A i \in DOMAIN job[j].page :
         /\ Saved(j, i) \in Row
         /\ Saved(j, i).code = job[j].page[i].code
         /\ Saved(j, i).life = job[j].page[i].life
         /\ Saved(j, i).status = NextStatus(j)
  BY SavedIsRow
<1>6. /\ UNCHANGED <<auto, lastId, mapping, pool, op>> /\ job[j].at = "save"
      /\ DOMAIN rows' = DOMAIN rows \cup DOMAIN job[j].page
      /\ \A i \in DOMAIN rows \ DOMAIN job[j].page : rows'[i] = rows[i]
  BY <1>1 DEF SavePage
<1>7. \A i \in DOMAIN job[j].page :
         /\ rows'[i].code = job[j].page[i].code /\ rows'[i].life = job[j].page[i].life
         /\ rows'[i].status = NextStatus(j)
  BY <1>4, <1>5
<1> HIDE DEF Saved
<1> QED BY <1>3, <1>6, <1>7

LEMMA SavePageLedger ==
  ASSUME Types, Types', NEW f, Limits(f), Named(f), Owned(f), NEW j \in Jobs, SavePage(j)
  PROVE  Named(f)' /\ Owned(f)' /\ Limits(f)' /\ OwnersGo(f)
<1> DEFINE P == DOMAIN job[j].page
<1>1. /\ UNCHANGED <<auto, lastId, mapping, pool, op>> /\ job[j].todo = {}
      /\ \A i \in Jobs \ {j} : job'[i] = job[i]
      /\ DOMAIN job'[j].page = {} /\ job'[j].todo = {} /\ job'[j].at = "find"
  BY SavePageParts DEF Limits, PageLimits, Pages
<1>2. /\ DOMAIN rows' = DOMAIN rows \cup P
      /\ \A i \in P : /\ rows'[i].code = job[j].page[i].code
                      /\ rows'[i].life = job[j].page[i].life
                      /\ rows'[i].status = NextStatus(j)
      /\ \A i \in DOMAIN rows \ P : rows'[i] = rows[i]
  BY SavePageParts
<1>s. UNCHANGED strayed
  BY DEF SavePage
<1>3. Pages'
  BY <1>1 DEF Limits, PageLimits, Pages
<1>4. \A i \in DOMAIN rows' : rows'[i].code = f[i]
  BY <1>2 DEF Named
<1>e. \A c \in Clients, i \in 1 .. lastId : /\ Edits(c, i)' = Edits(c, i)
                                            /\ Renews(c, i)' = Renews(c, i)
  BY <1>1 DEF Edits, Renews
<1>5. CASE j \in Expirers
  <2>1. \A r \in Recyclers : job'[r] = job[r]
    BY <1>1, <1>5, KindsOfJobs
  <2>2. \A e \in Expirers : \A i \in DOMAIN job'[e].page :
           e # j /\ i \in DOMAIN job[e].page /\ job'[e].page = job[e].page
    BY <1>1, KindsOfJobs
  <2>3. \A i \in P : rows'[i].status = "expired"
    BY <1>2, <1>5 DEF NextStatus
  <2>4. ASSUME NEW i \in 1 .. lastId, Claimed(i)' PROVE Claimed(i)
    <3>1. GivenBack(i)' = GivenBack(i)
      BY <2>1 DEF GivenBack, Returned
    <3>2. CASE i \in P
      BY <1>5, <3>2 DEF Claimed
    <3>3. CASE i \notin P
      <4>1. \A c \in Clients : Renews(c, i)' => Renews(c, i)
        BY <1>e
      <4> QED BY <1>1, <1>2, <2>1, <2>2, <2>4, <3>1, <3>3, <4>1 DEF Claimed
    <3> QED BY <3>2, <3>3
  <2>5. EditsInTime(f)'
    <3>1. ASSUME NEW c \in Clients, NEW i \in 1 .. lastId, Renews(c, i), i \in DOMAIN rows',
                 f[i] \notin strayed
          PROVE  rows'[i].life >= -Year /\ rows'[i].status # "recycled"
      <4>1. CASE i \in P
        BY <1>2, <1>5, <2>3, <3>1, <4>1 DEF Limits, EditsInTime
      <4>2. CASE i \notin P
        BY <1>2, <3>1, <4>2 DEF Limits, EditsInTime
      <4> QED BY <4>1, <4>2
    <3>2. \A c \in Clients, i \in 1 .. lastId : Renews(c, i) /\ f[i] \notin strayed =>
             \A e \in Expirers : i \in DOMAIN job'[e].page => job'[e].page[i].life >= -Year
      BY <2>2 DEF Limits, EditsInTime
    <3> QED BY <1>1, <1>s, <1>e, <2>1, <3>1, <3>2 DEF Limits, EditsInTime
  <2>6. ExpirerPages(f)'
    <3>1. ASSUME NEW e \in Expirers, NEW i \in DOMAIN job'[e].page, f[i] \notin strayed
          PROVE  /\ i \in DOMAIN rows' =>
                      /\ rows'[i].status # "recycled"
                      /\ (rows'[i].status = "expired" => rows'[i].life >= -Year)
                      /\ (rows'[i].life >= -Year => job'[e].page[i].life >= -Year)
                 /\ \A r \in Recyclers : i \notin DOMAIN job'[r].page
      <4>1. \A r \in Recyclers : i \notin DOMAIN job'[r].page
        BY <2>1, <2>2, <3>1 DEF Limits, PageLimits, ExpirerPages
      <4>2. CASE i \in P
        <5>1. job[j].page[i].life >= -Year /\ job[e].page[i].life >= -Year
          BY <1>5, <2>2, <3>1, <4>2 DEF Limits, PageLimits, PagesApart
        <5> QED BY <1>2, <2>2, <2>3, <3>1, <4>1, <4>2, <5>1
      <4>3. CASE i \notin P
        BY <1>2, <2>2, <3>1, <4>1, <4>3 DEF Limits, PageLimits, ExpirerPages
      <4> QED BY <4>2, <4>3
    <3> QED BY <1>s, <3>1 DEF ExpirerPages
  <2>7. RecyclerPages(f)'
    <3>1. \A i \in P : f[i] \notin strayed => \A r \in Recyclers : i \notin DOMAIN job[r].page
      BY <1>5 DEF Limits, PageLimits, ExpirerPages
    <3> QED BY <1>2, <1>s, <2>1, <3>1 DEF Limits, PageLimits, RecyclerPages
  <2>8. PagesApart(f)'
    <3>1. ASSUME NEW e \in Expirers, NEW d \in Expirers \ {e}, NEW i \in DOMAIN job'[e].page,
                 f[i] \notin strayed, i \in DOMAIN job'[d].page
          PROVE  job'[e].page[i].life >= -Year
      BY <2>2, <3>1 DEF Limits, PageLimits, PagesApart
    <3> QED BY <1>s, <2>1, <3>1 DEF Limits, PageLimits, PagesApart
  <2>9. \A i \in DOMAIN job'[j].page : job'[j].page[i].code = f[i]
    BY <1>1
  <2>10. Named(f)' /\ Owned(f)' /\ OwnersGo(f)
    BY <1>1, <1>s, <1>4, <2>4, <2>9, JobStep
  <2>11. EditsInVain(f)'
    BY <1>1, <1>s, <1>e, <2>1, <2>10, StayInVain DEF Limits
  <2> QED BY <1>3, <2>5, <2>6, <2>7, <2>8, <2>10, <2>11 DEF Limits, PageLimits
<1>6. CASE j \in Recyclers
  <2>0. \A r \in Recyclers : \A i \in DOMAIN job'[r].page :
           /\ r # j /\ job'[r] = job[r] /\ i \in DOMAIN job[r].page
           /\ f[i] \notin strayed => i \notin P
    BY <1>1, <1>6, KindsOfJobs DEF Limits, PageLimits, PagesApart
  <2>1. \A r \in Recyclers \ {j} : job'[r] = job[r]
    BY <1>1, KindsOfJobs
  <2>2. \A e \in Expirers : job'[e] = job[e]
    BY <1>1, <1>6, KindsOfJobs
  <2>3. \A i \in P : f[i] \notin strayed =>
           /\ \A e \in Expirers : i \notin DOMAIN job[e].page
           /\ \A c \in Clients : i \in 1 .. lastId => ~Renews(c, i)
    BY <1>6 DEF Limits, PageLimits, ExpirerPages, EditsInTime
  <2>4. \A i \in P : rows'[i].status = "recycled"
    BY <1>2, <1>6, KindsOfJobs DEF NextStatus
  <2>5. ASSUME NEW i \in 1 .. lastId, f[i] \notin strayed, Claimed(i)' PROVE Claimed(i)
    <3>0. \A r \in Recyclers : i \in job'[r].todo => i \in job[r].todo /\ i \notin P
      <4>1. \A r \in Recyclers : i \in job'[r].todo => i \in DOMAIN job'[r].page
        BY KindsOfJobs DEF Types, JobOK
      <4> QED BY <2>0, <2>5, <4>1
    <3>c. \A c \in Clients : Renews(c, i)' => Renews(c, i)
      BY <1>e
    <3>1. CASE i \in P
      BY <2>2, <2>3, <2>4, <2>5, <3>0, <3>c, <3>1 DEF Claimed
    <3>2. CASE i \notin P
      <4>1. ASSUME GivenBack(i) PROVE GivenBack(i)'
        <5>1. PICK r \in Recyclers : i \in DOMAIN job[r].page \ job[r].todo
          BY <4>1 DEF GivenBack, Returned
        <5>2. job'[r] = job[r]
          BY <2>1, <3>2, <5>1
        <5> QED BY <5>1, <5>2 DEF GivenBack, Returned
      <4> QED BY <1>1, <1>2, <2>2, <2>5, <3>0, <3>c, <3>2, <4>1 DEF Claimed
    <3> QED BY <3>1, <3>2
  <2>6. EditsInTime(f)'
    <3>1. ASSUME NEW c \in Clients, NEW i \in 1 .. lastId, Renews(c, i), i \in DOMAIN rows',
                 f[i] \notin strayed
          PROVE  rows'[i].life >= -Year /\ rows'[i].status # "recycled"
      BY <1>2, <2>3, <3>1 DEF Limits, EditsInTime
    <3> QED BY <1>1, <1>s, <1>e, <2>0, <2>2, <3>1 DEF Limits, EditsInTime
  <2>7. ExpirerPages(f)'
    <3>1. ASSUME NEW e \in Expirers, NEW i \in DOMAIN job[e].page, f[i] \notin strayed
          PROVE  /\ i \in DOMAIN rows' => i \in DOMAIN rows /\ rows'[i] = rows[i]
                 /\ \A r \in Recyclers : i \notin DOMAIN job'[r].page
      BY <1>2, <2>0, <2>3, <3>1 DEF Limits, PageLimits, ExpirerPages
    <3> QED BY <1>s, <2>2, <3>1 DEF Limits, PageLimits, ExpirerPages
  <2>8. RecyclerPages(f)'
    BY <1>2, <1>s, <2>0 DEF Limits, PageLimits, RecyclerPages
  <2>9. PagesApart(f)'
    <3>1. \A r \in Recyclers : \A q \in Recyclers \ {r} : \A i \in DOMAIN job'[r].page :
             f[i] \notin strayed => i \notin DOMAIN job'[q].page
      BY <2>0 DEF Limits, PageLimits, PagesApart
    <3> QED BY <1>s, <2>2, <3>1 DEF Limits, PageLimits, PagesApart
  <2>10. \A i \in DOMAIN job'[j].page : job'[j].page[i].code = f[i]
    BY <1>1
  <2>11. Named(f)' /\ Owned(f)' /\ OwnersGo(f)
    BY <1>1, <1>s, <1>4, <2>5, <2>10, JobStep
  <2>12. EditsInVain(f)'
    BY <1>1, <1>s, <1>e, <2>0, <2>11, StayInVain DEF Limits
  <2> QED BY <1>3, <2>6, <2>7, <2>8, <2>9, <2>11, <2>12 DEF Limits, PageLimits
<1> QED BY <1>5, <1>6, KindsOfJobs

\* A job that fails gives up its page; the codes a recycler has given back stray.
LEMMA FailJobLedger ==
  ASSUME Types, Types', NEW f, Limits(f), Named(f), Owned(f), NEW j \in Jobs, FailJob(j)
  PROVE  Named(f)' /\ Owned(f)' /\ Limits(f)' /\ OwnersGo(f)
<1>1. UNCHANGED <<auto, rows, lastId, mapping, pool, op>> /\ strayed \subseteq strayed'
  BY DEF FailJob, stores, Strays
<1>2. /\ \A i \in Jobs \ {j} : job'[i] = job[i]
      /\ DOMAIN job'[j].page = {} /\ job'[j].todo = {} /\ job'[j].at = "idle"
  <2>1. job' = [job EXCEPT ![j] = NoJob]
    BY DEF FailJob
  <2>2. DOMAIN NoJob.page = {} /\ NoJob.todo = {} /\ NoJob.at = "idle"
    BY EmptyRows DEF NoJob
  <2> QED BY <2>1, <2>2 DEF Types
<1>3. \A i \in Returned(j) : f[i] \in strayed'
  BY DEF FailJob, Strays, Returned, Named
<1>4. \A q \in Jobs : /\ job'[q].todo \subseteq job[q].todo
                      /\ \A i \in DOMAIN job'[q].page :
                            q # j /\ i \in DOMAIN job[q].page /\ job'[q] = job[q]
  BY <1>2
<1>e. \A c \in Clients, i \in 1 .. lastId : /\ Edits(c, i)' = Edits(c, i)
                                            /\ Renews(c, i)' = Renews(c, i)
  BY <1>1 DEF Edits, Renews
<1>5. ASSUME NEW i \in 1 .. lastId, f[i] \notin strayed', Claimed(i)' PROVE Claimed(i)
  <2>1. ASSUME GivenBack(i) PROVE GivenBack(i)'
    <3>1. PICK r \in Recyclers : i \in Returned(r)
      BY <2>1 DEF GivenBack
    <3>2. r # j
      BY <1>3, <1>5, <3>1
    <3>3. job'[r] = job[r]
      BY <1>2, <3>2, KindsOfJobs
    <3> QED BY <3>1, <3>3 DEF GivenBack, Returned
  <2>2. /\ \A e \in Expirers : i \in DOMAIN job'[e].page => i \in DOMAIN job[e].page
        /\ \A r \in Recyclers : i \in job'[r].todo => i \in job[r].todo
        /\ \A c \in Clients : Renews(c, i)' => Renews(c, i)
    BY <1>4, <1>e, KindsOfJobs
  <2> QED BY <1>1, <1>5, <2>1, <2>2 DEF Claimed
<1>6. Named(f)' /\ Owned(f)' /\ OwnersGo(f)
  <2>1. \A i \in DOMAIN rows' : rows'[i].code = f[i]
    BY <1>1 DEF Named
  <2> QED BY <1>1, <1>2, <1>5, <2>1, JobStep
<1>7. EditsInTime(f)'
  BY <1>1, <1>4, <1>e, KindsOfJobs DEF Limits, EditsInTime
<1>8. EditsInVain(f)'
  BY <1>1, <1>4, <1>e, <1>6, StayInVain, KindsOfJobs DEF Limits
<1>9. ExpirerPages(f)' /\ RecyclerPages(f)'
  BY <1>1, <1>4, KindsOfJobs DEF Limits, PageLimits, ExpirerPages, RecyclerPages
<1>10. PagesApart(f)'
  BY <1>1, <1>4, KindsOfJobs DEF Limits, PageLimits, PagesApart
<1>11. Pages'
  BY <1>2 DEF Limits, PageLimits, Pages
<1> QED BY <1>6, <1>7, <1>8, <1>9, <1>10, <1>11 DEF Limits, PageLimits

\* A day goes by while nothing is under way.
LEMMA TickLedger ==
  ASSUME Types, Types', NEW f, Limits(f), Named(f), Owned(f), Tick
  PROVE  Named(f)' /\ Owned(f)' /\ Limits(f)' /\ OwnersGo(f)
<1>1. /\ UNCHANGED <<auto, lastId, pool, op, job, strayed>>
      /\ \A c \in Clients : \A i : ~Edits(c, i)
      /\ \A j \in Jobs : DOMAIN job[j].page = {}
  BY DEF Tick, Idle, Edits, Limits, PageLimits, Pages, marks
<1>2. /\ DOMAIN rows' = DOMAIN rows
      /\ \A i \in DOMAIN rows : rows'[i].code = rows[i].code /\ rows'[i].status = rows[i].status
  <2>1. rows' = [i \in DOMAIN rows |-> Aged(rows[i])]
    BY DEF Tick, Aged
  <2> QED BY <2>1, AgedIsRow DEF Types, RowsOK
<1>3. \A c \in Clients : \A i : ~Edits(c, i)'
  BY <1>1 DEF Edits
<1>4. \A i \in 1 .. lastId : Claimed(i)' => Claimed(i)
  BY <1>1, <1>2, <1>3 DEF Claimed, GivenBack, Returned, Renews
<1>5. Owned(f)' /\ OwnersGo(f)
  BY <1>1, <1>4, FewerClaims DEF Holds, OwnersGo
<1>6. Named(f)'
  BY <1>1, <1>2, <1>3 DEF Named
<1>7. EditsInTime(f)' /\ EditsInVain(f)'
  BY <1>3 DEF EditsInTime, EditsInVain, Renews
<1>8. PageLimits(f)'
  BY <1>1, KindsOfJobs
  DEF Limits, PageLimits, ExpirerPages, RecyclerPages, PagesApart, Pages
<1> QED BY <1>5, <1>6, <1>7, <1>8 DEF Limits

-----------------------------------------------------------------------------
LEMMA LedgerInit == Init => Ledger
<1> SUFFICES ASSUME Init PROVE Ledger
  OBVIOUS
<1>1. lastId = 0 /\ 1 .. lastId = {} /\ DOMAIN rows = {}
  BY EmptyRows DEF Init
<1>2. /\ \A c \in Clients : op[c].at = "idle"
      /\ \A j \in Jobs : /\ DOMAIN job[j].page = {} /\ job[j].todo = {}
                         /\ job[j].at = "idle"
  <2>1. DOMAIN NoJob.page = {} /\ NoJob.todo = {} /\ NoJob.at = "idle" /\ NoOp.at = "idle"
    BY EmptyRows DEF NoJob, NoOp
  <2> QED BY <2>1 DEF Init
<1>3. PICK f : f \in [1 .. lastId -> Codes]
  <2>1. [i \in 1 .. lastId |-> CHOOSE k \in Codes : TRUE] \in [1 .. lastId -> Codes]
    BY <1>1
  <2> QED BY <2>1
<1>4. Named(f) /\ Owned(f)
  BY <1>1, <1>2, <1>3 DEF Named, Owned, Holds
<1>5. EditsInTime(f) /\ EditsInVain(f)
  BY <1>1 DEF EditsInTime, EditsInVain
<1>6. PageLimits(f)
  BY <1>1, <1>2, KindsOfJobs DEF PageLimits, ExpirerPages, RecyclerPages, PagesApart, Pages
<1> QED BY <1>4, <1>5, <1>6 DEF Ledger, Limits

LEMMA LedgerStep ==
  ASSUME Types, Types', Ledger, [Next]_vars
  PROVE  Ledger'
<1>1. PICK f : Named(f) /\ Owned(f) /\ Limits(f)
  BY DEF Ledger
<1>3. ASSUME NEW c \in Clients, Starts(c) PROVE Ledger'
  <2>1. PICK k \in Codes, link \in Links, life \in Terms :
          Pull(c, k, link, life) \/ CheckManual(c, k, link, life) \/ ReadRow(c, k, link, life)
    BY <1>3 DEF Starts
  <2>2. CASE Pull(c, k, link, life)
    BY <1>1, <2>2, PullLedger DEF Ledger
  <2>3. CASE CheckManual(c, k, link, life)
    BY <1>1, <2>3, QuietSteps DEF Ledger
  <2>4. CASE ReadRow(c, k, link, life)
    BY <1>1, <2>4, ReadRowLedger DEF Ledger
  <2> QED BY <2>1, <2>2, <2>3, <2>4
<1>4. ASSUME NEW c \in Clients,
             \/ Map(c) \/ FailClient(c) \/ GetRemoves(c)
             \/ \E k \in Codes : Unmap(c, k) \/ UnmapFails(c, k) \/ GetFindsExpired(c, k)
      PROVE  Ledger'
  BY <1>1, <1>4, QuietSteps DEF Ledger
<1>5. ASSUME NEW c \in Clients, RowCreate(c) PROVE Ledger'
  <2>1. (\E g : Named(g) /\ Owned(g) /\ Limits(g))'
    BY <1>1, <1>5, RowCreateLedger
  <2> QED BY <2>1 DEF Ledger
<1>6. ASSUME NEW c \in Clients, RowSave(c) \/ DeleteRows(c) PROVE Ledger'
  BY <1>1, <1>6, RowSaveLedger, DeleteRowsLedger DEF Ledger
<1>7. ASSUME NEW j \in Jobs, Pass(j) \/ FailJob(j) PROVE Ledger'
  <2>1. CASE FindFirst(j) \/ FindNext(j)
    BY <1>1, <2>1, FindLedger DEF Ledger
  <2>2. CASE Each(j)
    BY <1>1, <2>2, EachLedger DEF Ledger
  <2>3. CASE SavePage(j)
    BY <1>1, <2>3, SavePageLedger DEF Ledger
  <2>4. CASE FailJob(j)
    BY <1>1, <2>4, FailJobLedger DEF Ledger
  <2> QED BY <1>7, <2>1, <2>2, <2>3, <2>4 DEF Pass
<1>8. CASE Tick
  BY <1>1, <1>8, TickLedger DEF Ledger
<1>9. CASE UNCHANGED vars
  <2>1. UNCHANGED <<auto, rows, lastId, mapping, pool, op, job, strayed>>
    BY <1>9 DEF vars, stores, marks
  <2>2. \A i : Claimed(i)' = Claimed(i)
    BY <2>1 DEF Claimed, GivenBack, Returned, Renews, Edits
  <2>3. Named(f)' /\ Owned(f)'
    BY <1>1, <2>1, <2>2 DEF Named, Owned, Edits, Holds, Sound
  <2>4. EditsInTime(f)' /\ EditsInVain(f)'
    BY <1>1, <2>1, <2>2 DEF Limits, EditsInTime, EditsInVain, Renews, Edits
  <2>5. PageLimits(f)'
    BY <1>1, <2>1, SamePages DEF Limits
  <2> QED BY <2>3, <2>4, <2>5 DEF Ledger, Limits
<1> QED BY <1>3, <1>4, <1>5, <1>6, <1>7, <1>8, <1>9 DEF Next

LEMMA LedgerIsOneOwner == Types /\ Ledger => OneOwner
<1> SUFFICES ASSUME Types, Ledger PROVE OneOwner
  OBVIOUS
<1>1. PICK f : Named(f) /\ Owned(f)
  BY DEF Ledger
<1>2. \A k : \A id \in RowsOf(k) : id \in 1 .. lastId /\ f[id] = k
  BY <1>1 DEF RowsOf, Named, Types, RowsOK
<1>3. \A k, id : Keeps(id, k) => id \in RowsOf(k) /\ Claimed(id)
  BY DEF Keeps, RowsOf, Claimed
<1>4. ASSUME NEW k \in Sound PROVE OwnedOnce(k)
  BY <1>1, <1>2, <1>3, <1>4 DEF OwnedOnce, Owned
<1> QED BY <1>4 DEF OneOwner, Sound

LEMMA LedgerAlways == Spec => [](Types /\ Ledger)
<1>1. Init => Types /\ Ledger
  BY TypesInit, LedgerInit
<1>2. Types /\ Ledger /\ [Next]_vars => (Types /\ Ledger)'
  BY TypesStep, LedgerStep
<1> QED BY <1>1, <1>2, PTL DEF Spec

\* A code of the generator that none of the four hazards has taken off its round has
\* one owner, whatever clients do and fail at, however many servers run jobs, wherever
\* they die (cores/service.go:373, 422).
THEOREM OneOwnerHolds == Spec => []OneOwner
BY LedgerAlways, LedgerIsOneOwner, PTL

-----------------------------------------------------------------------------
(* The codes of the generator change hands as CodeOwnership says. *)

\* The claims of LinkLifecycle on a code are the claims on the ids it names.
ClaimsOK ==
  \A f : Named(f) => \A id \in 1 .. lastId : \A k :
         Claims(id, k) <=> Claimed(id) /\ f[id] = k

LEMMA ClaimsNamed == Types => ClaimsOK
<1> SUFFICES ASSUME Types, NEW f, Named(f), NEW id \in 1 .. lastId, NEW k
             PROVE  Claims(id, k) <=> Claimed(id) /\ f[id] = k
  BY DEF ClaimsOK
<1>1. Keeps(id, k) <=>
        id \in DOMAIN rows /\ rows[id].status # "recycled" /\ ~GivenBack(id) /\ f[id] = k
  BY DEF Keeps, RowsOf, Named
<1>2. \A c \in Clients :
         op[c].at \in {"remap", "save"} /\ op[c].status # "recycled" /\ op[c].id = id /\ op[c].code = k
         <=> Renews(c, id) /\ f[id] = k
  BY DEF Edits, Renews, Named
<1>3. \A e \in Expirers : id \in DOMAIN job[e].page /\ job[e].page[id].code = k
         <=> id \in DOMAIN job[e].page /\ f[id] = k
  BY KindsOfJobs DEF Named
<1>4. \A r \in Recyclers : id \in job[r].todo /\ job[r].page[id].code = k
         <=> id \in job[r].todo /\ f[id] = k
  BY KindsOfJobs DEF Named, Types, JobOK
<1> QED BY <1>1, <1>2, <1>3, <1>4 DEF Claims, Claimed

\* A code is free, or it has one holder, or one keeper.
Apart ==
  \A k \in Codes :
     /\ k \in Sound /\ k \in pool => HoldersOf(k) = {} /\ KeepersOf(k) = {}
     /\ \A c \in HoldersOf(k) : HoldersOf(k) = {c} /\ KeepersOf(k) = {}
     /\ \A id \in KeepersOf(k) : KeepersOf(k) = {id} /\ HoldersOf(k) = {}

LEMMA OwnersApart == Types /\ Ledger => Apart
<1> SUFFICES ASSUME Types, Ledger PROVE Apart
  OBVIOUS
<1>1. PICK f : Named(f) /\ Owned(f)
  BY DEF Ledger
<1>2. \A k, id : id \in KeepersOf(k) <=>
         id \in 1 .. lastId /\ k \in Sound /\ Claimed(id) /\ f[id] = k
  BY <1>1, ClaimsNamed DEF KeepersOf, ClaimsOK
<1>3. \A k, c : c \in HoldersOf(k) <=> c \in Clients /\ k \in Sound /\ Holds(c, k)
  BY DEF HoldersOf
<1> QED BY <1>1, <1>2, <1>3 DEF Owned, Apart

\* A code's moves when its owners go or stay, or when it strays.
LEMMA FewerOwners ==
  ASSUME Apart, NEW k \in Codes,
         HoldersOf(k)' \subseteq HoldersOf(k), KeepersOf(k)' \subseteq KeepersOf(k),
         Sound' \subseteq Sound, k \in Sound' => (k \in pool' <=> k \in pool)
  PROVE  Ownership!Move(k)
<1>1. CASE HoldersOf(k) = {} /\ KeepersOf(k) = {}
  BY <1>1 DEF Ownership!Move, Ownership!Offer, Ownership!Owned
<1>2. CASE HoldersOf(k) # {} \/ KeepersOf(k) # {}
  <2>1. k \notin pool \cap Sound /\ k \notin (pool \cap Sound)'
    BY <1>2 DEF Apart
  <2>2. \/ HoldersOf(k)' = HoldersOf(k) /\ KeepersOf(k)' = KeepersOf(k)
        \/ HoldersOf(k)' = {} /\ KeepersOf(k)' = {}
    BY <1>2 DEF Apart
  <2> QED BY <1>2, <2>1, <2>2
          DEF Ownership!Move, Ownership!Stay, Ownership!Drop, Ownership!Owned
<1> QED BY <1>1, <1>2

LEMMA OwnersMove ==
  ASSUME Apart, ClaimsOK, ClaimsOK', NEW f, Named(f), Named(f)', OwnersGo(f), NEW k \in Codes
  PROVE  Ownership!Move(k)
<1>0. Sound' \subseteq Sound /\ Sound' = auto \ strayed'
  BY DEF Sound, OwnersGo
<1>1. KeepersOf(k)' \subseteq KeepersOf(k)
  <2>1. ASSUME NEW id \in 1 .. lastId, k \in Sound' PROVE Claims(id, k)' => Claims(id, k)
    <3>1. Claims(id, k)' <=> Claimed(id)' /\ f[id] = k
      BY DEF OwnersGo, ClaimsOK
    <3>2. Claims(id, k) <=> Claimed(id) /\ f[id] = k
      BY DEF ClaimsOK
    <3> QED BY <1>0, <2>1, <3>1, <3>2 DEF OwnersGo
  <2> QED BY <1>0, <2>1 DEF KeepersOf, OwnersGo
<1>2. HoldersOf(k)' \subseteq HoldersOf(k)
  BY <1>0 DEF HoldersOf, OwnersGo
<1>3. k \in Sound' => (k \in pool' <=> k \in pool)
  BY <1>0 DEF OwnersGo
<1> QED BY <1>0, <1>1, <1>2, <1>3, FewerOwners

\* ZPOPMIN: what was in the pool is the Create's alone.
LEMMA PullMoves ==
  ASSUME Types, Types', Apart, Apart', NEW c \in Clients, NEW x \in Codes,
         NEW link \in Links, NEW life \in Terms, Pull(c, x, link, life), NEW k \in Codes
  PROVE  Ownership!Move(k)
<1>1. /\ UNCHANGED <<auto, rows, lastId, job, strayed>>
      /\ pool' = pool \ {x} /\ x \in pool /\ Sound' = Sound
  BY DEF Pull, Sound
<1>2. /\ op'[c].at = "map" /\ op'[c].code = x
      /\ \A d \in Clients \ {c} : op'[d] = op[d]
  BY DEF Pull, Request, Types
<1>3. CASE k = x /\ x \in Sound
  <2>1. c \in HoldersOf(x)'
    BY <1>1, <1>2, <1>3 DEF HoldersOf, Holds
  <2>2. HoldersOf(x)' = {c} /\ KeepersOf(x)' = {}
    BY <2>1 DEF Apart
  <2>3. HoldersOf(x) = {} /\ KeepersOf(x) = {}
    BY <1>1, <1>3 DEF Apart
  <2>4. x \in pool \cap Sound /\ x \notin (pool \cap Sound)'
    BY <1>1, <1>3
  <2> QED BY <1>3, <2>2, <2>3, <2>4
          DEF Ownership!Move, Ownership!Take, Ownership!Owned, Ownership!IsOne
<1>4. CASE ~(k = x /\ x \in Sound)
  <2>1. \A id : Claims(id, k)' => Claims(id, k)
    <3>1. \A id : Keeps(id, k)' => Keeps(id, k)
      BY <1>1 DEF Keeps, RowsOf, GivenBack, Returned
    <3>2. ASSUME NEW id, NEW d \in Clients, op'[d].at \in {"remap", "save"},
                 op'[d].status # "recycled", op'[d].id = id, op'[d].code = k
          PROVE  /\ op[d].at \in {"remap", "save"} /\ op[d].status # "recycled"
                 /\ op[d].id = id /\ op[d].code = k
      BY <1>2, <3>2
    <3> QED BY <1>1, <3>1, <3>2 DEF Claims
  <2>2. KeepersOf(k)' \subseteq KeepersOf(k)
    BY <1>1, <2>1 DEF KeepersOf
  <2>3. HoldersOf(k)' \subseteq HoldersOf(k)
    BY <1>1, <1>2, <1>4 DEF HoldersOf, Holds
  <2> QED BY <1>1, <1>4, <2>2, <2>3, FewerOwners
<1> QED BY <1>3, <1>4

\* INSERT: the Create hands its code to the new row.
LEMMA RowCreateMoves ==
  ASSUME Types, Types', Apart, Apart', NEW c \in Clients, RowCreate(c), NEW k \in Codes
  PROVE  Ownership!Move(k)
<1>1. /\ UNCHANGED <<auto, pool, job>> /\ op[c].at = "row" /\ Sound' = Sound
      /\ lastId' = lastId + 1 /\ lastId \in Nat /\ lastId' \in 1 .. lastId'
      /\ \A i \in 1 .. lastId' : i # lastId' => i \in 1 .. lastId
  BY DEF RowCreate, Types, Sound
<1>2. /\ op'[c].at = "idle" /\ \A d \in Clients \ {c} : op'[d] = op[d]
  BY DEF RowCreate, NoOp, Types
<1>3. /\ \A i \in DOMAIN rows' : i # lastId' => i \in DOMAIN rows /\ rows'[i] = rows[i]
      /\ lastId' \in DOMAIN rows' /\ rows'[lastId'].code = op[c].code
      /\ rows'[lastId'].status = "active"
  BY DEF RowCreate, Put
<1>n. PICK new : new = lastId'
  OBVIOUS
<1>4. CASE k = op[c].code /\ k \in Sound
  <2>1. HoldersOf(k) = {c} /\ KeepersOf(k) = {}
    <3>1. c \in HoldersOf(k)
      BY <1>1, <1>4 DEF HoldersOf, Holds
    <3> QED BY <3>1 DEF Apart
  <2>2. KeepersOf(k)' = {new} /\ HoldersOf(k)' = {}
    <3>1. ~GivenBack(new)'
      <4>1. ASSUME NEW j \in Recyclers PROVE new \notin DOMAIN job[j].page
        BY <1>1, <1>n, KindsOfJobs DEF Types, JobOK, RowsOK
      <4> QED BY <1>1, <4>1 DEF GivenBack, Returned
    <3>2. Claims(new, k)'
      BY <1>3, <1>4, <1>n, <3>1 DEF Claims, Keeps, RowsOf
    <3>3. new \in KeepersOf(k)'
      BY <1>1, <1>4, <1>n, <3>2 DEF KeepersOf
    <3> QED BY <3>3 DEF Apart
  <2>3. k \notin (pool \cap Sound)'
    BY <2>2 DEF Apart
  <2> QED BY <2>1, <2>2, <2>3 DEF Ownership!Move, Ownership!Store, Ownership!IsOne
<1>5. CASE ~(k = op[c].code /\ k \in Sound)
  <2>1. ASSUME k # op[c].code, NEW id \in 1 .. lastId', Claims(id, k)'
        PROVE  id \in 1 .. lastId /\ Claims(id, k)
    <3>1. ASSUME Keeps(id, k)' PROVE id # lastId' /\ Keeps(id, k)
      BY <1>1, <1>3, <2>1, <3>1 DEF Keeps, RowsOf, GivenBack, Returned
    <3>2. ASSUME NEW d \in Clients, op'[d].at \in {"remap", "save"},
                 op'[d].status # "recycled", op'[d].id = id, op'[d].code = k
          PROVE  id \in 1 .. lastId /\ Claims(id, k)
      <4>1. op'[d] = op[d]
        BY <1>2, <3>2
      <4>2. op[d].id \in 1 .. lastId
        BY <3>2, <4>1, OpKinds DEF Types, EditOps
      <4> QED BY <3>2, <4>1, <4>2 DEF Claims
    <3>3. \A e \in Expirers : id \in DOMAIN job[e].page => id \in 1 .. lastId
      BY KindsOfJobs DEF Types, JobOK, RowsOK
    <3>4. \A r \in Recyclers : id \in job[r].todo => id \in 1 .. lastId
      BY KindsOfJobs DEF Types, JobOK, RowsOK
    <3> QED BY <1>1, <2>1, <3>1, <3>2, <3>3, <3>4 DEF Claims
  <2>2. KeepersOf(k)' \subseteq KeepersOf(k)
    BY <1>1, <1>5, <2>1 DEF KeepersOf
  <2>3. HoldersOf(k)' \subseteq HoldersOf(k)
    BY <1>1, <1>2 DEF HoldersOf, Holds
  <2> QED BY <1>1, <2>2, <2>3, FewerOwners
<1> QED BY <1>4, <1>5

\* ZADD: the recycler takes the code from its row and gives it back.
LEMMA RecycleMoves ==
  ASSUME Types, Types', Apart, Apart', NEW j \in Jobs \ Expirers, Each(j), NEW k \in Codes
  PROVE  Ownership!Move(k)
<1>0. j \in Jobs /\ j \in Recyclers
  BY KindsOfJobs
<1>1. UNCHANGED <<auto, rows, lastId, op>> /\ Sound' = Sound
  BY EachParts DEF Each, marks, Sound
<1>2. PICK id \in job[j].todo :
        /\ job' = [job EXCEPT ![j] =
                     [at |-> IF job[j].todo = {id} THEN "save" ELSE "each",
                      from |-> job[j].from, page |-> job[j].page,
                      todo |-> job[j].todo \ {id}]]
        /\ j \notin Expirers => pool' = pool \cup {job[j].page[id].code}
  BY EachParts
<1>3. /\ \A i \in Jobs \ {j} : job'[i] = job[i]
      /\ job'[j].page = job[j].page /\ job'[j].todo = job[j].todo \ {id}
  BY <1>2 DEF Types
<1>4. id \in DOMAIN job[j].page /\ id \in 1 .. lastId
  BY <1>0 DEF Types, JobOK, RowsOK
<1>5. pool' = pool \cup {job[j].page[id].code}
  BY <1>2
<1>6. CASE k = job[j].page[id].code /\ k \in Sound
  <2>1. Claims(id, k)
    BY <1>0, <1>6 DEF Claims
  <2>2. id \in KeepersOf(k)
    BY <1>4, <1>6, <2>1 DEF KeepersOf
  <2>3. KeepersOf(k) = {id} /\ HoldersOf(k) = {}
    BY <2>2 DEF Apart
  <2>4. k \in pool' /\ k \in Sound'
    BY <1>1, <1>5, <1>6
  <2>5. KeepersOf(k)' = {} /\ HoldersOf(k)' = {}
    BY <2>4 DEF Apart
  <2>6. k \in (pool \cap Sound)'
    BY <2>4
  <2> QED BY <2>3, <2>5, <2>6
          DEF Ownership!Move, Ownership!GiveBack, Ownership!Owned, Ownership!IsOne
<1>7. CASE ~(k = job[j].page[id].code /\ k \in Sound)
  <2>1. \A i \in Jobs : job'[i].page = job[i].page /\ job'[i].todo \subseteq job[i].todo
    BY <1>3
  <2>2. \A i : GivenBack(i) => GivenBack(i)'
    BY <2>1, KindsOfJobs DEF GivenBack, Returned
  <2>3. \A i : Keeps(i, k)' => Keeps(i, k)
    BY <1>1, <2>2 DEF Keeps, RowsOf
  <2>4. \A i : Claims(i, k)' => Claims(i, k)
    BY <1>1, <2>1, <2>3, KindsOfJobs DEF Claims
  <2>5. KeepersOf(k)' \subseteq KeepersOf(k)
    BY <1>1, <2>4 DEF KeepersOf
  <2>6. HoldersOf(k)' \subseteq HoldersOf(k)
    BY <1>1 DEF HoldersOf, Holds
  <2>7. k \in Sound' => (k \in pool' <=> k \in pool)
    BY <1>1, <1>5, <1>7
  <2> QED BY <1>1, <2>5, <2>6, <2>7, FewerOwners
<1> QED BY <1>6, <1>7

LEMMA OwnersInit == Init => Ownership!Init
<1> SUFFICES ASSUME Init PROVE Ownership!Init
  OBVIOUS
<1>1. lastId = 0 /\ 1 .. lastId = {} /\ pool = auto /\ auto \subseteq Codes
  BY DEF Init
<1>2. \A c \in Clients : op[c].at = "idle"
  BY DEF Init, NoOp
<1>3. ASSUME NEW k \in Codes PROVE HoldersOf(k) = {} /\ KeepersOf(k) = {}
  BY <1>1, <1>2 DEF HoldersOf, Holds, KeepersOf
<1> QED BY <1>1, <1>3 DEF Ownership!Init

LEMMA OwnersNext ==
  ASSUME Types, Types', Ledger, Apart, Apart', ClaimsOK, ClaimsOK', [Next]_vars
  PROVE  Ownership!Next
<1> SUFFICES ASSUME NEW k \in Codes PROVE Ownership!Move(k)
  BY DEF Ownership!Next
<1>1. PICK f : Named(f) /\ Owned(f) /\ Limits(f)
  BY DEF Ledger
<1>3. ASSUME Named(f)', OwnersGo(f) PROVE Ownership!Move(k)
  BY <1>1, <1>3, OwnersMove
<1>4. ASSUME NEW c \in Clients, Starts(c) PROVE Ownership!Move(k)
  <2>1. PICK x \in Codes, link \in Links, life \in Terms :
          Pull(c, x, link, life) \/ CheckManual(c, x, link, life) \/ ReadRow(c, x, link, life)
    BY <1>4 DEF Starts
  <2>2. CASE Pull(c, x, link, life)
    BY <2>2, PullMoves
  <2>3. CASE CheckManual(c, x, link, life)
    BY <1>1, <1>3, <2>3, QuietSteps
  <2>4. CASE ReadRow(c, x, link, life)
    BY <1>1, <1>3, <2>4, ReadRowLedger
  <2> QED BY <2>1, <2>2, <2>3, <2>4
<1>5. ASSUME NEW c \in Clients,
             \/ Map(c) \/ FailClient(c) \/ GetRemoves(c)
             \/ \E x \in Codes : Unmap(c, x) \/ UnmapFails(c, x) \/ GetFindsExpired(c, x)
      PROVE  Ownership!Move(k)
  BY <1>1, <1>3, <1>5, QuietSteps
<1>6. ASSUME NEW c \in Clients, RowCreate(c) PROVE Ownership!Move(k)
  BY <1>6, RowCreateMoves
<1>7. ASSUME NEW c \in Clients, RowSave(c) \/ DeleteRows(c) PROVE Ownership!Move(k)
  BY <1>1, <1>3, <1>7, RowSaveLedger, DeleteRowsLedger
<1>8. ASSUME NEW j \in Jobs, Pass(j) \/ FailJob(j) PROVE Ownership!Move(k)
  <2>1. CASE FindFirst(j) \/ FindNext(j)
    BY <1>1, <1>3, <2>1, FindLedger
  <2>2. CASE Each(j) /\ j \in Expirers
    BY <1>1, <1>3, <2>2, EachLedger
  <2>3. CASE Each(j) /\ j \notin Expirers
    BY <2>3, RecycleMoves
  <2>4. CASE SavePage(j)
    BY <1>1, <1>3, <2>4, SavePageLedger
  <2>5. CASE FailJob(j)
    BY <1>1, <1>3, <2>5, FailJobLedger
  <2> QED BY <1>8, <2>1, <2>2, <2>3, <2>4, <2>5 DEF Pass
<1>9. CASE Tick
  BY <1>1, <1>3, <1>9, TickLedger
<1>10. CASE UNCHANGED vars
  <2>1. UNCHANGED <<auto, rows, lastId, pool, op, job, strayed>>
    BY <1>10 DEF vars, stores, marks
  <2>2. Named(f)' /\ OwnersGo(f)
    BY <1>1, <2>1 DEF Named, Edits, Renews, Claimed, GivenBack, Returned, Holds, OwnersGo
  <2> QED BY <1>3, <2>2
<1> QED BY <1>4, <1>5, <1>6, <1>7, <1>8, <1>9, <1>10 DEF Next

\* Each code of the generator passes from the pool to one Create, to one row, and back
\* by way of RecycleExpires (cores/service.go:422), as CodeOwnership says, whatever
\* creates, edits, removals, redirects and the jobs of any number of servers do to the
\* same rows, and wherever they fail, until one of four hazards takes it off its round.
THEOREM LifecycleImplementsOwnership == Spec => ImplementsOwnership
<1>1. /\ Types /\ Types' /\ Ledger /\ Apart /\ Apart' /\ ClaimsOK /\ ClaimsOK' /\ [Next]_vars
      => Ownership!Next
  BY OwnersNext
<1> QED BY <1>1, LedgerAlways, OwnersInit, OwnersApart, ClaimsNamed, PTL
      DEF Spec, ImplementsOwnership, Ownership!Spec

-----------------------------------------------------------------------------
(* Table and hash.  MappingAgrees says nothing of a code while a request or a *)
(* page is about it, and so it is not inductive: what a request that met no   *)
(* other has done so far is in Prepared and Swept, that two which meet are    *)
(* both marked in Meets.  A recycler's page is the exception: it may be about *)
(* a code that a client edits, and put a removed row back among the rows of a *)
(* code; LateRows says why that row is never the newest of an edited code.    *)
(* Of a code that has strayed nothing is claimed.                             *)

\* A row of the code, in the table or on a page, that is due for recycling, or soon.
Overdue(id, k) ==
  \/ id \in RowsOf(k) /\ rows[id].life < -Year /\ rows[id].status # "recycled"
  \/ \E e \in Expirers : /\ id \in DOMAIN job[e].page /\ job[e].page[id].code = k
                         /\ job[e].page[id].life < -Year
  \/ \E r \in Recyclers : id \in DOMAIN job[r].page /\ job[r].page[id].code = k

ActiveRow(i, k) == i \in RowsOf(k) /\ rows[i].status = "active"

\* An Update of a row that was active.
EditsOf(c, i, k) == Edits(c, i) /\ op[c].code = k /\ op[c].status = "active"

\* No older row of an overdue row's code is edited, or active when the overdue row is
\* gone.
LateRows ==
  \A id, i \in 1 .. lastId, k \in Codes \ strayed : i < id /\ Overdue(id, k) =>
     /\ \A c \in Clients : ~EditsOf(c, i, k)
     /\ ActiveRow(i, k) => id \in DOMAIN rows

CreatesInTime == \A c \in Clients : op[c].at \in {"map", "row"} => op[c].life >= -Year

Actors == Clients \cup Expirers

\* Two that are about the same code are both marked.
Meets ==
  \A p, q \in Actors : p # q => \A k \in About(p) \cap About(q) : p \in overlapped

\* What the last step of a request finds, when it met no other.
PreparedAt(c) ==
  /\ op[c].at \in {"row", "save"} => MapsTo(op[c].code, op[c])
  /\ op[c].at \in {"remap", "save"} /\ op[c].status = "active" /\ op[c].code \notin strayed
        => IsNewest(op[c].id, op[c].code)
  /\ op[c].at = "delete" => op[c].code \notin DOMAIN mapping
  /\ op[c].at = "evict" /\ op[c].code \in DOMAIN mapping => mapping[op[c].code].life < 0

Prepared == \A c \in Clients : c \notin overlapped => PreparedAt(c)

\* What an expirer has done to the codes of its page, when it met no other.
SweptBy(e) ==
  \A id \in DOMAIN job[e].page : id \notin job[e].todo =>
     job[e].page[id].code \notin DOMAIN mapping

Swept == \A e \in Expirers : e \notin overlapped => SweptBy(e)

\* What MappingAgrees says of a settled code.
Agrees(k) ==
  /\ \A id \in RowsOf(k) : IsNewest(id, k) =>
        /\ rows[id].status = "active" /\ rows[id].life >= 0 => MapsTo(k, rows[id])
        /\ rows[id].status # "active" => k \notin DOMAIN mapping
        /\ k \in DOMAIN mapping => MapsTo(k, rows[id])
  /\ RowsOf(k) = {} => k \notin DOMAIN mapping

\* Settled, but for a redirect that met no other and has yet to delete the mapping.
Quiet(k) ==
  /\ k \notin suspect
  /\ \A p \in Actors : k \in About(p) =>
        p \in Clients /\ op[p].at = "evict" /\ p \notin overlapped

Agreement ==
  /\ LateRows /\ CreatesInTime /\ Meets /\ Prepared /\ Swept
  /\ \A k \in Codes \ strayed : Quiet(k) => Agrees(k)

\* A step leaves the rows and the mapping of a code alone.
SameFor(k) ==
  /\ RowsOf(k)' = RowsOf(k) /\ \A id \in RowsOf(k) : rows'[id] = rows[id]
  /\ k \in DOMAIN mapping' <=> k \in DOMAIN mapping
  /\ k \in DOMAIN mapping => mapping'[k] = mapping[k]

LEMMA SameStores == ASSUME UNCHANGED <<rows, mapping>>, NEW k PROVE SameFor(k)
BY DEF SameFor, RowsOf

LEMMA AgreesKeeps == ASSUME NEW k, SameFor(k), Agrees(k) PROVE Agrees(k)'
BY DEF Agrees, SameFor, IsNewest, MapsTo

\* A request other than the one that takes the step.
LEMMA PreparedKeeps ==
  ASSUME NEW c \in Clients, PreparedAt(c), op'[c] = op[c],
         op[c].at = "idle" \/ SameFor(op[c].code), strayed \subseteq strayed'
  PROVE  PreparedAt(c)'
BY DEF PreparedAt, SameFor, IsNewest, MapsTo

\* Wherever an id is mentioned, it is with the same code.
LEMMA OneCode ==
  ASSUME Types, Ledger
  PROVE  /\ \A id \in DOMAIN rows : \A k : Overdue(id, k) => id \in RowsOf(k)
         /\ \A c \in Clients : \A id \in DOMAIN rows : Edits(c, id) => id \in RowsOf(op[c].code)
         /\ \A j \in Jobs : \A id \in DOMAIN job[j].page :
               id \in DOMAIN rows => id \in RowsOf(job[j].page[id].code)
<1>1. PICK f : Named(f)
  BY DEF Ledger
<1>2. \A id \in DOMAIN rows : id \in 1 .. lastId /\ rows[id].code = f[id]
  BY <1>1 DEF Named, Types, RowsOK
<1>3. \A j \in Jobs : \A id \in DOMAIN job[j].page :
         id \in DOMAIN rows => id \in RowsOf(job[j].page[id].code)
  BY <1>1, <1>2 DEF Named, RowsOf
<1>4. \A c \in Clients : \A id \in DOMAIN rows : Edits(c, id) => id \in RowsOf(op[c].code)
  BY <1>1, <1>2 DEF Named, RowsOf
<1>5. \A id \in DOMAIN rows : \A k : Overdue(id, k) => id \in RowsOf(k)
  BY <1>3 DEF Overdue, Jobs
<1> QED BY <1>3, <1>4, <1>5

LEMMA LateIsGiven == ASSUME Types, NEW id, NEW k, Overdue(id, k) PROVE id \in 1 .. lastId
BY DEF Types, RowsOK, Overdue, RowsOf, JobOK, Jobs

\* No row becomes late or active, none is edited that was not, and a row goes with
\* the others of its code.
LEMMA LateKeeps ==
  ASSUME Types, LateRows, UNCHANGED lastId, strayed \subseteq strayed',
         \A id, k : Overdue(id, k)' => Overdue(id, k),
         \A c \in Clients : \A i, k : EditsOf(c, i, k)' => EditsOf(c, i, k),
         \A i, k : ActiveRow(i, k)' => ActiveRow(i, k),
         \A id, i, k : Overdue(id, k) /\ id \in DOMAIN rows /\ ActiveRow(i, k)'
            => id \in DOMAIN rows'
  PROVE  LateRows'
BY DEF LateRows

\* A client's step on a code, which leaves the other codes alone.
LEMMA ClientStep ==
  ASSUME Types, Agreement, NEW c \in Clients, NEW k \in Codes,
         UNCHANGED job, \A d \in Clients \ {c} : op'[d] = op[d],
         About(c) \subseteq {k}, About(c)' \subseteq {k},
         \A x \in Codes : x # k => SameFor(x),
         \A q \in Actors \ {c} :
            /\ q \in overlapped \/ k \in About(q) => q \in overlapped'
            /\ k \in About(q) /\ k \in About(c)' => c \in overlapped',
         suspect \ {k} \subseteq suspect',
         strayed \subseteq strayed',
         c \notin overlapped' => PreparedAt(c)',
         k \notin strayed' /\ Quiet(k)' => Agrees(k)'
  PROVE  Meets' /\ Prepared' /\ Swept' /\ \A x \in Codes \ strayed' : Quiet(x)' => Agrees(x)'
<1>1. \A q \in Actors \ {c} : About(q)' = About(q)
  BY DEF Actors, About
<1>2. Meets'
  <2> SUFFICES ASSUME NEW p \in Actors, NEW q \in Actors, p # q,
                      NEW x \in About(p)' \cap About(q)'
               PROVE  p \in overlapped'
    BY DEF Meets
  <2>1. CASE p = c
    BY <1>1, <2>1
  <2>2. CASE q = c
    BY <1>1, <2>2
  <2>3. CASE p # c /\ q # c
    BY <1>1, <2>3 DEF Agreement, Meets
  <2> QED BY <2>1, <2>2, <2>3
<1>3. Prepared'
  <2> SUFFICES ASSUME NEW d \in Clients, d \notin overlapped' PROVE PreparedAt(d)'
    BY DEF Prepared
  <2>1. CASE d # c
    <3>1. d \in Actors \ {c}
      BY <2>1 DEF Actors
    <3>2. PreparedAt(d)
      BY <3>1 DEF Agreement, Prepared
    <3>3. op[d].at # "idle" => op[d].code # k /\ op[d].code \in Codes
      <4>1. op[d].at # "idle" => op[d].code \in About(d)
        BY DEF About
      <4> QED BY <3>1, <4>1, AboutCodes DEF Procs
    <3> QED BY <2>1, <3>2, <3>3, PreparedKeeps
  <2> QED BY <2>1
<1>4. Swept'
  <2> SUFFICES ASSUME NEW e \in Expirers, e \notin overlapped' PROVE SweptBy(e)'
    BY DEF Swept
  <2>1. e \in Actors \ {c} /\ e \notin Clients /\ e \in Procs
    BY LifecycleAssumption DEF Actors, Jobs, Procs
  <2>2. SweptBy(e)
    BY <2>1 DEF Agreement, Swept
  <2>3. \A id \in DOMAIN job[e].page : job[e].page[id].code \in Codes /\ job[e].page[id].code # k
    BY <2>1, AboutCodes DEF About
  <2> QED BY <2>2, <2>3 DEF SweptBy, SameFor
<1>5. ASSUME NEW x \in Codes \ strayed', Quiet(x)' PROVE Agrees(x)'
  <2>1. CASE x # k
    <3>1. Quiet(x)
      <4>1. ASSUME NEW p \in Actors, x \in About(p)
            PROVE  p \in Clients /\ op[p].at = "evict" /\ p \notin overlapped
        BY <1>1, <1>5, <2>1, <4>1 DEF Quiet
      <4> QED BY <1>5, <2>1, <4>1 DEF Quiet
    <3> QED BY <2>1, <3>1, AgreesKeeps DEF Agreement
  <2> QED BY <1>5, <2>1
<1> QED BY <1>2, <1>3, <1>4, <1>5

\* The marks that ClientStep asks for, of a request that starts,
LEMMA BeginsMarks ==
  ASSUME NEW c \in Clients, NEW k, Begins(c, {k})
  PROVE  /\ \A q \in Actors \ {c} :
              /\ q \in overlapped \/ k \in About(q) => q \in overlapped'
              /\ k \in About(q) => c \in overlapped'
         /\ suspect' = suspect
BY DEF Begins, Rivals, Actors

\* of one that goes on,
LEMMA GoesOnMarks ==
  ASSUME Agreement, UNCHANGED marks, NEW c \in Clients, NEW k, k \in About(c)
  PROVE  /\ \A q \in Actors \ {c} :
              /\ q \in overlapped \/ k \in About(q) => q \in overlapped'
              /\ k \in About(q) => c \in overlapped'
         /\ suspect' = suspect
BY DEF Agreement, Meets, marks, Actors

\* and of one that ends.
LEMMA EndsMarks ==
  ASSUME Agreement, NEW c \in Clients, NEW k, About(c) = {k}, NEW well \in BOOLEAN,
         Ends(c, well)
  PROVE  /\ \A q \in Actors \ {c} : q \in overlapped \/ k \in About(q) => q \in overlapped'
         /\ suspect \ {k} \subseteq suspect'
         /\ Quiet(k)' => c \notin overlapped /\ well /\ (~Repairs(c) => k \notin suspect)
<1>1. \A q \in Actors \ {c} : k \in About(q) => q \in overlapped
  BY DEF Agreement, Meets, Actors
<1>2. /\ suspect \ {k} \subseteq suspect' /\ (c \in overlapped \/ ~well => k \in suspect')
      /\ ~Repairs(c) => suspect \subseteq suspect'
  BY DEF Ends
<1> QED BY <1>1, <1>2 DEF Ends, Quiet

\* What a request's next place is, and what it is about.
LEMMA NextOp ==
  ASSUME Types, NEW c \in Clients, NEW x, op' = [op EXCEPT ![c] = x]
  PROVE  /\ op'[c] = x /\ \A d \in Clients \ {c} : op'[d] = op[d]
         /\ x.at = "idle" => About(c)' = {}
         /\ x.at # "idle" => About(c)' = {x.code}
<1>1. op'[c] = x /\ \A d \in Clients \ {c} : op'[d] = op[d]
  BY DEF Types
<1> QED BY <1>1 DEF About

LEMMA AboutOp ==
  ASSUME NEW c \in Clients, op[c].at # "idle"
  PROVE  About(c) = {op[c].code}
BY DEF About

LEMMA NotSettled ==
  ASSUME NEW c \in Clients, NEW k, k \in About(c)', op'[c].at # "evict" PROVE ~Quiet(k)'
BY DEF Quiet, Actors

\* No page, no row and no edit changes.
LEMMA LateSame ==
  ASSUME Types, Agreement, UNCHANGED <<rows, lastId, job>>, strayed \subseteq strayed',
         \A c \in Clients : \A i, k : EditsOf(c, i, k)' => EditsOf(c, i, k)
  PROVE  LateRows'
<1>1. \A id, k : Overdue(id, k)' = Overdue(id, k)
  BY DEF Overdue, RowsOf
<1>2. \A i, k : ActiveRow(i, k)' = ActiveRow(i, k)
  BY DEF ActiveRow, RowsOf
<1> QED BY <1>1, <1>2, LateKeeps DEF Agreement

LEMMA CreateAgreement ==
  ASSUME Types, Agreement, strayed \subseteq strayed', NEW c \in Clients, NEW k \in Codes,
         NEW link \in Links, NEW life \in Terms,
         Pull(c, k, link, life) \/ CheckManual(c, k, link, life)
  PROVE  Agreement'
<1>1. /\ op[c].at = "idle" /\ Begins(c, {k}) /\ UNCHANGED <<rows, lastId, mapping, job>>
      /\ op' = [op EXCEPT ![c] = Request("map", k, link, life)]
  BY DEF Pull, CheckManual, MayCreate, Idle, stores
<1>2. /\ op'[c] = Request("map", k, link, life) /\ About(c)' = {k}
      /\ \A d \in Clients \ {c} : op'[d] = op[d]
  <2>1. PICK x : x = Request("map", k, link, life)
    OBVIOUS
  <2>2. op' = [op EXCEPT ![c] = x] /\ x.at = "map" /\ x.code = k
    BY <1>1, <2>1 DEF Request
  <2>3. op'[c] = x /\ About(c)' = {k} /\ \A d \in Clients \ {c} : op'[d] = op[d]
    BY <2>2, NextOp
  <2> QED BY <2>1, <2>3
<1>3. About(c) = {}
  BY <1>1 DEF About
<1>4. \A x : SameFor(x)
  BY <1>1, SameStores
<1>5. ~Quiet(k)' /\ PreparedAt(c)'
  <2>1. op'[c].at = "map"
    BY <1>2 DEF Request
  <2> QED BY <1>2, <2>1, NotSettled DEF PreparedAt
<1>6. Meets' /\ Prepared' /\ Swept' /\ \A x \in Codes \ strayed' : Quiet(x)' => Agrees(x)'
  BY <1>1, <1>2, <1>3, <1>4, <1>5, BeginsMarks, ClientStep
<1>7. LateRows'
  BY <1>1, <1>2, LateSame DEF EditsOf, Edits, Request
<1>8. CreatesInTime'
  <2>1. life \in Int /\ life >= 0 /\ Year \in Nat
    BY TermsAreInt, LifecycleAssumption DEF Pull, CheckManual, MayCreate
  <2>2. op'[c].life >= -Year
    BY <1>2, <2>1 DEF Request
  <2> QED BY <1>2, <2>2 DEF Agreement, CreatesInTime
<1> QED BY <1>6, <1>7, <1>8 DEF Agreement

\* The row that an Update reads is the newest of its code: no late row is newer.
LEMMA ReadRowLate ==
  ASSUME Types, Ledger, Agreement, strayed \subseteq strayed', NEW c \in Clients,
         NEW k \in Codes, NEW i, ActiveRow(i, k), IsNewest(i, k),
         UNCHANGED <<rows, lastId, job>>,
         \A d \in Clients \ {c} : op'[d] = op[d],
         op'[c].id = i, op'[c].code = k
  PROVE  LateRows'
<1>1. \A id, x : Overdue(id, x)' = Overdue(id, x)
  BY DEF Overdue, RowsOf
<1>2. \A j, x : ActiveRow(j, x)' = ActiveRow(j, x)
  BY DEF ActiveRow, RowsOf
<1>3. ASSUME NEW id \in 1 .. lastId, i < id, Overdue(id, k), k \notin strayed PROVE FALSE
  <2>1. id \in DOMAIN rows
    BY <1>3 DEF Agreement, LateRows, ActiveRow, IsNewest, Types, RowsOK, RowsOf
  <2>2. id \in RowsOf(k)
    BY <1>3, <2>1, OneCode
  <2> QED BY <1>3, <2>2 DEF IsNewest, Types, RowsOK, RowsOf
<1>4. \A d \in Clients \ {c} : \A j, x : EditsOf(d, j, x)' => EditsOf(d, j, x)
  BY DEF EditsOf, Edits
<1>5. \A j, x : EditsOf(c, j, x)' => j = i /\ x = k
  BY DEF EditsOf, Edits
<1>6. ASSUME NEW id \in 1 .. lastId, NEW j \in 1 .. lastId, NEW x \in Codes \ strayed, j < id,
             Overdue(id, x), NEW d \in Clients
      PROVE  ~EditsOf(d, j, x)'
  <2>1. CASE d = c
    BY <1>3, <1>5, <1>6, <2>1
  <2>2. CASE d # c
    BY <1>4, <1>6, <2>2 DEF Agreement, LateRows
  <2> QED BY <2>1, <2>2
<1> QED BY <1>1, <1>2, <1>6 DEF Agreement, LateRows

LEMMA ReadRowAgreement ==
  ASSUME Types, Ledger, Agreement, strayed \subseteq strayed', NEW c \in Clients,
         NEW k \in Codes, NEW link \in Links, NEW life \in Terms, ReadRow(c, k, link, life)
  PROVE  Agreement'
<1>1. /\ op[c].at = "idle" /\ Begins(c, {k}) /\ UNCHANGED <<rows, lastId, mapping, job>>
  BY DEF ReadRow, Idle, stores
<1>2. PICK id \in DOMAIN rows :
        /\ IsNewest(id, k)
        /\ op' = [op EXCEPT ![c] =
              [at |-> "remap", code |-> k, link |-> link, life |-> life,
               id |-> id, status |-> rows[id].status]]
  BY DEF ReadRow
<1>3. /\ op'[c].at = "remap" /\ op'[c].code = k /\ op'[c].id = id
      /\ op'[c].status = rows[id].status
      /\ About(c)' = {k} /\ \A d \in Clients \ {c} : op'[d] = op[d]
  <2>1. PICK x : x = [at |-> "remap", code |-> k, link |-> link, life |-> life,
                      id |-> id, status |-> rows[id].status]
    OBVIOUS
  <2>2. /\ op' = [op EXCEPT ![c] = x] /\ x.at = "remap" /\ x.code = k /\ x.id = id
        /\ x.status = rows[id].status
    BY <1>2, <2>1
  <2> QED BY <2>2, NextOp
<1>4. About(c) = {}
  BY <1>1 DEF About
<1>5. \A x : SameFor(x)
  BY <1>1, SameStores
<1>6. ~Quiet(k)' /\ PreparedAt(c)'
  BY <1>1, <1>2, <1>3, NotSettled DEF PreparedAt, IsNewest, RowsOf
<1>7. Meets' /\ Prepared' /\ Swept' /\ \A x \in Codes \ strayed' : Quiet(x)' => Agrees(x)'
  BY <1>1, <1>3, <1>4, <1>5, <1>6, BeginsMarks, ClientStep
<1>8. LateRows'
  <2>1. CASE rows[id].status = "active"
    BY <1>1, <1>2, <1>3, <2>1, ReadRowLate DEF ActiveRow, IsNewest
  <2>2. CASE rows[id].status # "active"
    <3>1. \A i, x : ~EditsOf(c, i, x)'
      BY <1>3, <2>2 DEF EditsOf
    <3>2. \A d \in Clients \ {c} : \A i, x : EditsOf(d, i, x)' => EditsOf(d, i, x)
      BY <1>3 DEF EditsOf, Edits
    <3>3. \A d \in Clients : \A i, x : EditsOf(d, i, x)' => EditsOf(d, i, x)
      BY <3>1, <3>2
    <3> QED BY <1>1, <3>3, LateSame
  <2> QED BY <2>1, <2>2
<1>9. CreatesInTime'
  BY <1>3 DEF Agreement, CreatesInTime
<1> QED BY <1>7, <1>8, <1>9 DEF Agreement

LEMMA MapAgreement ==
  ASSUME Types, Agreement, strayed \subseteq strayed', NEW c \in Clients, Map(c)
  PROVE  Agreement'
<1> DEFINE where == IF op[c].at = "map" THEN "row" ELSE "save"
<1>1. /\ op[c].at \in {"map", "remap"} /\ UNCHANGED <<rows, lastId, job, marks>>
      /\ op' = [op EXCEPT ![c] = [op[c] EXCEPT !.at = where]]
      /\ mapping' = Put(mapping, op[c].code, [link |-> op[c].link, life |-> op[c].life])
  BY DEF Map, Goto
<1>2. op[c] \in MapOps \cup EditOps
  BY <1>1, OpKinds DEF Types
<1>3. PICK k \in Codes : k = op[c].code /\ About(c) = {k}
  BY <1>1, <1>2, AboutOp DEF MapOps, EditOps
<1>4. PICK x : x = [op[c] EXCEPT !.at = where]
  OBVIOUS
<1>5. /\ x.at = where /\ x.code = k /\ x.link = op[c].link /\ x.life = op[c].life
      /\ op[c].at = "remap" => x.id = op[c].id /\ x.status = op[c].status
  BY <1>1, <1>2, <1>3, <1>4 DEF MapOps, EditOps
<1>6. /\ op'[c] = x /\ About(c)' = {k} /\ \A d \in Clients \ {c} : op'[d] = op[d]
  <2>1. op' = [op EXCEPT ![c] = x]
    BY <1>1, <1>4
  <2> QED BY <1>5, <2>1, NextOp
<1>7. \A y \in Codes : y # k => SameFor(y)
  BY <1>1, <1>3 DEF SameFor, Put, RowsOf
<1>8. ~Quiet(k)'
  BY <1>5, <1>6, NotSettled
<1>9. c \notin overlapped' => PreparedAt(c)'
  <2>1. k \in DOMAIN mapping' /\ mapping'[k] = [link |-> x.link, life |-> x.life]
    BY <1>1, <1>3, <1>5 DEF Put
  <2>2. MapsTo(k, x)'
    BY <2>1, <1>4 DEF MapsTo
  <2>3. c \notin overlapped' /\ x.at = "save" /\ x.status = "active" /\ k \notin strayed'
           => IsNewest(x.id, k)
    BY <1>1, <1>3, <1>5 DEF Agreement, Prepared, PreparedAt, marks
  <2>4. UNCHANGED rows
    BY <1>1
  <2> QED BY <1>5, <1>6, <2>1, <2>3, <2>4 DEF PreparedAt, IsNewest, RowsOf, MapsTo
<1>10. Meets' /\ Prepared' /\ Swept' /\ \A y \in Codes \ strayed' : Quiet(y)' => Agrees(y)'
  BY <1>1, <1>3, <1>6, <1>7, <1>8, <1>9, GoesOnMarks, ClientStep
<1>11. \A d \in Clients : \A i, y : EditsOf(d, i, y)' => EditsOf(d, i, y)
  <2>1. \A i, y : EditsOf(c, i, y)' => EditsOf(c, i, y)
    BY <1>1, <1>3, <1>5, <1>6 DEF EditsOf, Edits
  <2>2. \A d \in Clients \ {c} : \A i, y : EditsOf(d, i, y)' => EditsOf(d, i, y)
    BY <1>6 DEF EditsOf, Edits
  <2> QED BY <2>1, <2>2
<1>12. LateRows'
  BY <1>1, <1>11, LateSame
<1>13. CreatesInTime'
  <2>1. op'[c].at \in {"map", "row"} => op'[c].life >= -Year
    BY <1>1, <1>5, <1>6 DEF Agreement, CreatesInTime
  <2> QED BY <1>6, <2>1 DEF Agreement, CreatesInTime
<1> QED BY <1>10, <1>12, <1>13 DEF Agreement

LEMMA UnmapAgreement ==
  ASSUME Types, Agreement, strayed \subseteq strayed', NEW c \in Clients, NEW k \in Codes,
         Unmap(c, k) \/ UnmapFails(c, k)
  PROVE  Agreement'
<1>1. /\ op[c].at = "idle" /\ UNCHANGED <<rows, lastId, job>>
      /\ op' = [op EXCEPT ![c] = [at |-> "delete", code |-> k]]
  BY DEF Unmap, UnmapFails, Idle, stores
<1>2. /\ op'[c] = [at |-> "delete", code |-> k] /\ About(c)' = {k}
      /\ \A d \in Clients \ {c} : op'[d] = op[d]
  <2>1. PICK x : x = [at |-> "delete", code |-> k]
    OBVIOUS
  <2>2. op' = [op EXCEPT ![c] = x] /\ x.at = "delete" /\ x.code = k
    BY <1>1, <2>1
  <2> QED BY <2>1, <2>2, NextOp
<1>3. About(c) = {}
  BY <1>1 DEF About
<1>4. \A x \in Codes : x # k => SameFor(x)
  BY <1>1 DEF Unmap, UnmapFails, stores, SameFor, Restrict, RowsOf
<1>5. ~Quiet(k)'
  BY <1>2, NotSettled
<1>6. /\ \A q \in Actors \ {c} :
              /\ q \in overlapped \/ k \in About(q) => q \in overlapped'
              /\ k \in About(q) => c \in overlapped'
      /\ suspect' = suspect
  <2>1. CASE Unmap(c, k)
    BY <2>1, BeginsMarks DEF Unmap
  <2>2. CASE UnmapFails(c, k)
    BY <2>2 DEF UnmapFails, Rivals, Actors
  <2> QED BY <2>1, <2>2
<1>7. c \notin overlapped' => PreparedAt(c)'
  <2>1. CASE Unmap(c, k)
    BY <1>2, <2>1 DEF Unmap, PreparedAt, Restrict
  <2>2. CASE UnmapFails(c, k)
    BY <2>2 DEF UnmapFails
  <2> QED BY <2>1, <2>2
<1>8. Meets' /\ Prepared' /\ Swept' /\ \A x \in Codes \ strayed' : Quiet(x)' => Agrees(x)'
  BY <1>1, <1>2, <1>3, <1>4, <1>5, <1>6, <1>7, ClientStep
<1>9. LateRows'
  BY <1>1, <1>2, LateSame DEF EditsOf, Edits
<1>10. CreatesInTime'
  BY <1>2 DEF Agreement, CreatesInTime
<1> QED BY <1>8, <1>9, <1>10 DEF Agreement

\* The last step of a request on a code, whatever it does to the code's rows.
LEMMA EndedAgreement ==
  ASSUME Types, Agreement, strayed \subseteq strayed',
         NEW c \in Clients, op[c].at # "idle", NEW k \in Codes, k = op[c].code, op' = [op EXCEPT ![c] = NoOp], UNCHANGED job,
         NEW well \in BOOLEAN, Ends(c, well),
         \A x \in Codes : x # k => SameFor(x),
         c \notin overlapped /\ well /\ k \notin strayed' => Agrees(k)',
         LateRows'
  PROVE  Agreement'
<1>1. About(c) = {k}
  BY AboutOp
<1>2. op'[c].at = "idle" /\ \A d \in Clients \ {c} : op'[d] = op[d]
  BY DEF Types, NoOp
<1>3. About(c)' = {}
  BY <1>2 DEF About
<1>4. PreparedAt(c)'
  BY <1>2 DEF PreparedAt
<1>5. /\ \A q \in Actors \ {c} : q \in overlapped \/ k \in About(q) => q \in overlapped'
      /\ suspect \ {k} \subseteq suspect'
      /\ Quiet(k)' => c \notin overlapped /\ well
  BY <1>1, EndsMarks
<1>6. Meets' /\ Prepared' /\ Swept' /\ \A x \in Codes \ strayed' : Quiet(x)' => Agrees(x)'
  BY <1>1, <1>2, <1>3, <1>4, <1>5, ClientStep
<1>7. CreatesInTime'
  BY <1>2 DEF Agreement, CreatesInTime
<1> QED BY <1>6, <1>7 DEF Agreement

\* A request that ends is about no row any more.
LEMMA EditsEnd ==
  ASSUME Types, NEW c \in Clients, op' = [op EXCEPT ![c] = NoOp]
  PROVE  \A d \in Clients : \A i, x : EditsOf(d, i, x)' => EditsOf(d, i, x)
<1>1. op'[c].at = "idle" /\ \A d \in Clients \ {c} : op'[d] = op[d]
  BY DEF Types, NoOp
<1>2. \A i, x : ~EditsOf(c, i, x)'
  BY <1>1 DEF EditsOf, Edits
<1>3. \A d \in Clients \ {c} : \A i, x : EditsOf(d, i, x)' => EditsOf(d, i, x)
  BY <1>1 DEF EditsOf, Edits
<1> QED BY <1>2, <1>3

LEMMA FailClientAgreement ==
  ASSUME Types, Agreement, strayed \subseteq strayed', NEW c \in Clients, FailClient(c)
  PROVE  Agreement'
<1>1. /\ op[c].at # "idle" /\ UNCHANGED <<rows, lastId, mapping, job>>
      /\ op' = [op EXCEPT ![c] = NoOp] /\ Ends(c, FALSE)
  BY DEF FailClient, Idle, stores
<1>2. op[c].code \in Codes
  BY <1>1, AboutOp, AboutCodes DEF Procs
<1>3. \A x : SameFor(x)
  BY <1>1, SameStores
<1>4. LateRows'
  BY <1>1, EditsEnd, LateSame
<1> QED BY <1>1, <1>2, <1>3, <1>4, EndedAgreement

\* A redirect that finds a mapping expired: the code stays as quiet as it was.
LEMMA GetFindsAgreement ==
  ASSUME Types, Agreement, strayed \subseteq strayed', NEW c \in Clients, NEW k \in Codes,
         GetFindsExpired(c, k)
  PROVE  Agreement'
<1>1. /\ op[c].at = "idle" /\ Begins(c, {k}) /\ UNCHANGED <<rows, lastId, mapping, job>>
      /\ mapping[k].life < 0
      /\ op' = [op EXCEPT ![c] = [at |-> "evict", code |-> k]]
  BY DEF GetFindsExpired, Idle, stores
<1>2. /\ op'[c] = [at |-> "evict", code |-> k] /\ About(c)' = {k}
      /\ \A d \in Clients \ {c} : op'[d] = op[d]
  <2>1. PICK x : x = [at |-> "evict", code |-> k]
    OBVIOUS
  <2>2. op' = [op EXCEPT ![c] = x] /\ x.at = "evict" /\ x.code = k
    BY <1>1, <2>1
  <2> QED BY <2>1, <2>2, NextOp
<1>3. About(c) = {}
  BY <1>1 DEF About
<1>4. \A x : SameFor(x)
  BY <1>1, SameStores
<1>5. PreparedAt(c)'
  BY <1>1, <1>2 DEF PreparedAt
<1>6. /\ \A q \in Actors \ {c} : /\ q \in overlapped \/ k \in About(q) => q \in overlapped'
                                 /\ k \in About(q) => c \in overlapped'
      /\ suspect' = suspect
  BY <1>1, BeginsMarks
<1>7. ASSUME k \notin strayed', Quiet(k)' PROVE Agrees(k)'
  <2>1. c \notin overlapped' /\ c \in Actors
    BY <1>2, <1>7 DEF Quiet, Actors
  <2>2. \A q \in Actors : k \notin About(q)
    BY <1>3, <1>6, <2>1
  <2>3. Quiet(k)
    BY <1>6, <1>7, <2>2 DEF Quiet
  <2> QED BY <1>4, <1>7, <2>3, AgreesKeeps DEF Agreement
<1>8. Meets' /\ Prepared' /\ Swept' /\ \A x \in Codes \ strayed' : Quiet(x)' => Agrees(x)'
  BY <1>1, <1>2, <1>3, <1>4, <1>5, <1>6, <1>7, ClientStep
<1>9. LateRows'
  BY <1>1, <1>2, LateSame DEF EditsOf, Edits
<1>10. CreatesInTime'
  BY <1>2 DEF Agreement, CreatesInTime
<1> QED BY <1>8, <1>9, <1>10 DEF Agreement

\* It deletes the mapping: of a code that met no other request, an expired one.
LEMMA GetRemovesAgreement ==
  ASSUME Types, Agreement, strayed \subseteq strayed', NEW c \in Clients, GetRemoves(c)
  PROVE  Agreement'
<1>1. /\ op[c].at = "evict" /\ Ends(c, TRUE) /\ UNCHANGED <<rows, lastId, job>>
      /\ op' = [op EXCEPT ![c] = NoOp]
      /\ mapping' \in {mapping, Restrict(mapping, DOMAIN mapping \ {op[c].code})}
  BY DEF GetRemoves
<1>2. PICK k \in Codes : k = op[c].code
  BY <1>1, AboutOp, AboutCodes DEF Procs
<1>3. About(c) = {k}
  BY <1>1, <1>2, AboutOp
<1>4. op'[c].at = "idle" /\ \A d \in Clients \ {c} : op'[d] = op[d]
  BY <1>1 DEF Types, NoOp
<1>5. About(c)' = {} /\ PreparedAt(c)'
  BY <1>4 DEF About, PreparedAt
<1>6. /\ DOMAIN mapping' \in {DOMAIN mapping, DOMAIN mapping \ {k}}
      /\ \A x \in DOMAIN mapping' : mapping'[x] = mapping[x]
  BY <1>1, <1>2 DEF Restrict
<1>7. \A x \in Codes : x # k => SameFor(x)
  BY <1>1, <1>6 DEF SameFor, RowsOf
<1>8. /\ \A q \in Actors \ {c} : q \in overlapped \/ k \in About(q) => q \in overlapped'
      /\ suspect \ {k} \subseteq suspect'
      /\ Quiet(k)' => c \notin overlapped /\ k \notin suspect
  BY <1>1, <1>3, EndsMarks DEF Repairs
<1>9. ASSUME k \notin strayed', Quiet(k)' PROVE Agrees(k)'
  <2>1. c \notin overlapped /\ k \notin suspect /\ c \in Actors
    BY <1>8, <1>9 DEF Actors
  <2>2. \A q \in Actors : k \in About(q) => q = c
    BY <1>3, <2>1 DEF Agreement, Meets
  <2>3. Quiet(k)
    BY <1>1, <2>1, <2>2 DEF Quiet
  <2>4. Agrees(k)
    BY <1>9, <2>3 DEF Agreement
  <2>5. k \in DOMAIN mapping => mapping[k].life < 0
    BY <1>1, <1>2, <2>1 DEF Agreement, Prepared, PreparedAt
  <2>6. RowsOf(k)' = RowsOf(k) /\ \A i : IsNewest(i, k)' <=> IsNewest(i, k)
    BY <1>1 DEF RowsOf, IsNewest
  <2>7. CASE DOMAIN mapping' = DOMAIN mapping
    BY <1>1, <1>6, <2>4, <2>6, <2>7 DEF Agrees, MapsTo
  <2>8. CASE DOMAIN mapping' = DOMAIN mapping \ {k}
    <3>1. ASSUME NEW i \in RowsOf(k), IsNewest(i, k), rows[i].status = "active",
                 rows[i].life >= 0
          PROVE  FALSE
      <4>1. k \in DOMAIN mapping /\ mapping[k] = [link |-> rows[i].link, life |-> rows[i].life]
        BY <2>4, <3>1 DEF Agrees, MapsTo
      <4>2. rows[i].life < 0
        BY <2>5, <4>1
      <4>3. rows[i].life \in Int
        BY <3>1 DEF Types, RowsOK, Row, RowsOf
      <4> QED BY <3>1, <4>2, <4>3
    <3> QED BY <1>1, <2>6, <2>8, <3>1 DEF Agrees
  <2> QED BY <1>6, <2>7, <2>8
<1>10. Meets' /\ Prepared' /\ Swept' /\ \A x \in Codes \ strayed' : Quiet(x)' => Agrees(x)'
  BY <1>1, <1>3, <1>4, <1>5, <1>7, <1>8, <1>9, ClientStep
<1>11. LateRows'
  BY <1>1, EditsEnd, LateSame
<1>12. CreatesInTime'
  BY <1>4 DEF Agreement, CreatesInTime
<1> QED BY <1>10, <1>11, <1>12 DEF Agreement

LEMMA DeleteRowsAgreement ==
  ASSUME Types, Ledger, Agreement, strayed \subseteq strayed', NEW c \in Clients, DeleteRows(c)
  PROVE  Agreement'
<1>1. /\ op[c].at = "delete" /\ UNCHANGED <<lastId, mapping, job>>
      /\ rows' = Restrict(rows, DOMAIN rows \ RowsOf(op[c].code))
      /\ op' = [op EXCEPT ![c] = NoOp] /\ Ends(c, TRUE)
  BY DEF DeleteRows
<1>2. PICK k \in Codes : k = op[c].code
  BY <1>1, AboutOp, AboutCodes DEF Procs
<1>3. /\ DOMAIN rows' = DOMAIN rows \ RowsOf(k)
      /\ \A id \in DOMAIN rows' : rows'[id] = rows[id]
  BY <1>1, <1>2 DEF Restrict
<1>4. RowsOf(k)' = {}
  BY <1>3 DEF RowsOf
<1>5. \A x \in Codes : x # k => SameFor(x)
  BY <1>1, <1>3 DEF SameFor, RowsOf
<1>6. c \notin overlapped => Agrees(k)'
  <2>1. c \notin overlapped => k \notin DOMAIN mapping
    BY <1>1, <1>2 DEF Agreement, Prepared, PreparedAt
  <2> QED BY <1>1, <1>4, <2>1 DEF Agrees
<1>7. LateRows'
  <2>1. \A id, x : Overdue(id, x)' => Overdue(id, x)
    BY <1>1, <1>3 DEF Overdue, RowsOf
  <2>2. \A i, x : ActiveRow(i, x)' => ActiveRow(i, x) /\ x # k
    BY <1>3, <1>4 DEF ActiveRow, RowsOf
  <2>3. \A id, i, x : Overdue(id, x) /\ id \in DOMAIN rows /\ ActiveRow(i, x)'
            => id \in DOMAIN rows'
    BY <1>3, <2>2, OneCode DEF RowsOf
  <2> QED BY <1>1, <2>1, <2>2, <2>3, EditsEnd, LateKeeps DEF Agreement
<1> QED BY <1>1, <1>2, <1>5, <1>6, <1>7, EndedAgreement

LEMMA RowCreateAgreement ==
  ASSUME Types, Ledger, Agreement, strayed \subseteq strayed', NEW c \in Clients, RowCreate(c)
  PROVE  Agreement'
<1> DEFINE new == [code |-> op[c].code, link |-> op[c].link, life |-> op[c].life,
                   status |-> "active"]
<1>1. /\ op[c].at = "row" /\ lastId' = lastId + 1 /\ rows' = Put(rows, lastId', new)
      /\ op' = [op EXCEPT ![c] = NoOp] /\ Ends(c, TRUE) /\ UNCHANGED <<mapping, job>>
  BY DEF RowCreate
<1>2. PICK k \in Codes : k = op[c].code
  BY <1>1, AboutOp, AboutCodes DEF Procs
<1>3. /\ new.code = k /\ new.link = op[c].link /\ new.life = op[c].life
      /\ new.status = "active" /\ new.life >= -Year /\ new.life \in Int
  <2>1. op[c].life \in Int
    BY <1>1, OpKinds DEF Types, MapOps
  <2> QED BY <1>1, <1>2, <2>1 DEF Agreement, CreatesInTime
<1> HIDE DEF new
<1>4. /\ lastId \in Nat /\ lastId' \in Nat /\ lastId' \notin DOMAIN rows
      /\ \A id \in DOMAIN rows : id \in 1 .. lastId /\ id < lastId'
  BY <1>1 DEF Types, RowsOK
<1>5. /\ DOMAIN rows' = DOMAIN rows \cup {lastId'} /\ rows'[lastId'] = new
      /\ \A id \in DOMAIN rows : rows'[id] = rows[id]
  BY <1>1, <1>4 DEF Put
<1>6. \A x \in Codes : x # k => SameFor(x)
  BY <1>1, <1>3, <1>4, <1>5 DEF SameFor, RowsOf
<1>7. lastId' \in RowsOf(k)' /\ \A id : IsNewest(id, k)' => id = lastId'
  BY <1>3, <1>4, <1>5 DEF IsNewest, RowsOf
<1>8. c \notin overlapped => Agrees(k)'
  <2>1. c \notin overlapped => MapsTo(k, new)
    BY <1>1, <1>2, <1>3 DEF Agreement, Prepared, PreparedAt, MapsTo
  <2>2. c \notin overlapped => MapsTo(k, rows[lastId])'
    BY <1>1, <1>5, <2>1 DEF MapsTo
  <2> QED BY <1>3, <1>5, <1>7, <2>2 DEF Agrees
<1>9. LateRows'
  <2>1. \A id, x : Overdue(id, x)' => Overdue(id, x)
    <3>1. \A id, x : id \in RowsOf(x)' /\ rows'[id].life < -Year
             => id \in RowsOf(x) /\ rows'[id] = rows[id]
      BY <1>3, <1>4, <1>5, LifecycleAssumption DEF RowsOf, Types, RowsOK
    <3> QED BY <1>1, <3>1 DEF Overdue
  <2>2. \A i, x : ActiveRow(i, x)' => ActiveRow(i, x) \/ i = lastId'
    BY <1>4, <1>5 DEF ActiveRow, RowsOf
  <2>3. \A d \in Clients : \A i, x : EditsOf(d, i, x)' => EditsOf(d, i, x)
    BY <1>1, EditsEnd
  <2> SUFFICES ASSUME NEW id \in 1 .. lastId', NEW i \in 1 .. lastId', NEW x \in Codes \ strayed',
                      i < id, Overdue(id, x)'
               PROVE  /\ \A d \in Clients : ~EditsOf(d, i, x)'
                      /\ ActiveRow(i, x)' => id \in DOMAIN rows'
    BY DEF LateRows
  <2>4. Overdue(id, x) /\ id \in 1 .. lastId
    BY <2>1, LateIsGiven
  <2>5. i \in 1 .. lastId /\ i # lastId'
    BY <1>4, <2>4
  <2> QED BY <1>5, <2>2, <2>3, <2>4, <2>5 DEF Agreement, LateRows
<1> QED BY <1>1, <1>2, <1>6, <1>8, <1>9, EndedAgreement

LEMMA RowSaveAgreement ==
  ASSUME Types, Ledger, Agreement, strayed \subseteq strayed', NEW c \in Clients, RowSave(c)
  PROVE  Agreement'
<1> DEFINE new == [code |-> op[c].code, link |-> op[c].link,
                   life |-> op[c].life, status |-> op[c].status]
<1>1. /\ op[c].at = "save" /\ rows' = Put(rows, op[c].id, new)
      /\ op' = [op EXCEPT ![c] = NoOp] /\ UNCHANGED <<lastId, mapping, job>>
      /\ Ends(c, op[c].status = "active")
  BY DEF RowSave
<1>2. op[c] \in EditOps
  BY <1>1, OpKinds DEF Types
<1>3. PICK k \in Codes : k = op[c].code
  BY <1>2 DEF EditOps
<1>4. PICK n \in 1 .. lastId : n = op[c].id
  BY <1>2 DEF EditOps
<1>5. Edits(c, n) /\ (op[c].status = "active" => EditsOf(c, n, k))
  BY <1>1, <1>3, <1>4 DEF EditsOf, Edits
<1>6. /\ new.code = k /\ new.link = op[c].link /\ new.life = op[c].life
      /\ new.status = op[c].status /\ new.life \in Int
      /\ k \notin strayed' /\ new.status # "recycled" => new.life >= -Year
  <2>1. PICK f : Named(f) /\ Limits(f)
    BY DEF Ledger
  <2>2. f[n] = k
    BY <1>3, <1>5, <2>1 DEF Named
  <2>3. k \notin strayed /\ op[c].status # "recycled" => op[c].life >= -Year
    BY <1>5, <2>1, <2>2 DEF Limits, EditsInTime, Renews
  <2> QED BY <1>2, <1>3, <2>3 DEF EditOps
<1> HIDE DEF new
<1>7. n \in DOMAIN rows => n \in RowsOf(k)
  BY <1>3, <1>5, OneCode
<1>8. /\ DOMAIN rows' = DOMAIN rows \cup {n} /\ rows'[n] = new
      /\ \A id \in DOMAIN rows : id # n => rows'[id] = rows[id]
  BY <1>1, <1>4 DEF Put
<1>9. \A x \in Codes : x # k => SameFor(x)
  BY <1>1, <1>6, <1>7, <1>8 DEF SameFor, RowsOf
<1>10. c \notin overlapped /\ op[c].status = "active" /\ k \notin strayed' => Agrees(k)'
  <2> SUFFICES ASSUME c \notin overlapped, op[c].status = "active", k \notin strayed'
               PROVE  Agrees(k)'
    OBVIOUS
  <2>1. IsNewest(n, k) /\ MapsTo(k, new)
    BY <1>1, <1>3, <1>4, <1>6 DEF Agreement, Prepared, PreparedAt, MapsTo
  <2>2. RowsOf(k)' = RowsOf(k) /\ n \in RowsOf(k)
    BY <1>6, <1>8, <2>1 DEF RowsOf, IsNewest
  <2>3. \A id : IsNewest(id, k)' => id = n
    BY <2>1, <2>2 DEF IsNewest, Types, RowsOK, RowsOf
  <2>4. MapsTo(k, rows[n])'
    BY <1>1, <1>4, <1>8, <2>1 DEF MapsTo
  <2>5. rows'[n].status = "active"
    BY <1>6, <1>8
  <2> QED BY <1>4, <2>2, <2>3, <2>4, <2>5 DEF Agrees
<1>11. LateRows'
  <2>1. \A id, x : Overdue(id, x)' /\ x \notin strayed' => Overdue(id, x)
    <3>1. \A id, x : /\ id \in RowsOf(x)' /\ rows'[id].life < -Year
                     /\ rows'[id].status # "recycled" /\ x \notin strayed'
             => id \in RowsOf(x) /\ rows'[id] = rows[id]
      BY <1>6, <1>8, LifecycleAssumption DEF RowsOf
    <3> QED BY <1>1, <3>1 DEF Overdue
  <2>2. \A i, x : ActiveRow(i, x)' =>
           ActiveRow(i, x) \/ (i = n /\ x = k /\ op[c].status = "active")
    BY <1>6, <1>8 DEF ActiveRow, RowsOf
  <2>3. \A d \in Clients : \A i, x : EditsOf(d, i, x)' => EditsOf(d, i, x)
    BY <1>1, EditsEnd
  <2> SUFFICES ASSUME NEW id \in 1 .. lastId, NEW i \in 1 .. lastId, NEW x \in Codes \ strayed',
                      i < id, Overdue(id, x)'
               PROVE  /\ \A d \in Clients : ~EditsOf(d, i, x)'
                      /\ ActiveRow(i, x)' => id \in DOMAIN rows'
    BY <1>1 DEF LateRows
  <2>4. Overdue(id, x) /\ x \in Codes \ strayed
    BY <2>1
  <2>5. ~(i = n /\ x = k /\ op[c].status = "active")
    BY <1>5, <2>4 DEF Agreement, LateRows
  <2> QED BY <1>8, <2>2, <2>3, <2>4, <2>5 DEF Agreement, LateRows
<1>12. PICK well \in BOOLEAN : well = (op[c].status = "active")
  OBVIOUS
<1>13. Ends(c, well) /\ (c \notin overlapped /\ well /\ k \notin strayed' => Agrees(k)')
  BY <1>1, <1>10, <1>12
<1> QED BY <1>1, <1>3, <1>9, <1>11, <1>13, EndedAgreement

\* A code with rows has a newest one.
LEMMA NewestExists ==
  ASSUME Types, NEW k, RowsOf(k) # {}
  PROVE  \E n \in RowsOf(k) : IsNewest(n, k)
<1> DEFINE T == {lastId - id : id \in RowsOf(k)}
<1>1. RowsOf(k) \subseteq 1 .. lastId /\ lastId \in Nat
  BY DEF Types, RowsOK, RowsOf
<1>2. T \subseteq Nat /\ T # {}
  BY <1>1
<1>3. PICK x \in T : \A y \in T : x <= y
  <2> HIDE DEF T
  <2> QED BY <1>2, LeastNumber
<1>4. PICK n \in RowsOf(k) : x = lastId - n
  BY <1>3
<1>5. ASSUME NEW i \in RowsOf(k) PROVE i <= n
  <2>1. lastId - i \in T
    OBVIOUS
  <2>2. lastId - n <= lastId - i
    BY <1>3, <1>4, <2>1
  <2> QED BY <1>1, <2>2
<1> QED BY <1>5 DEF IsNewest

\* Steps of a job that leave the clients and the stores of links alone, but for
\* pages that may go, and marks that may only be more.
LEMMA QuietJob ==
  ASSUME Types, Agreement, strayed \subseteq strayed', UNCHANGED <<rows, lastId, mapping, op>>,
         \A id, k : Overdue(id, k)' => Overdue(id, k),
         Meets',
         overlapped \cap Clients \subseteq overlapped',
         \A e \in Expirers : e \notin overlapped' => SweptBy(e)',
         \A k \in Codes \ strayed' : Quiet(k)' => Quiet(k)
  PROVE  Agreement'
<1>1. \A k : SameFor(k)
  BY SameStores
<1>2. Prepared'
  BY <1>1, PreparedKeeps DEF Agreement, Prepared
<1>3. \A k \in Codes \ strayed' : Quiet(k)' => Agrees(k)'
  BY <1>1, AgreesKeeps DEF Agreement
<1>4. CreatesInTime'
  BY DEF Agreement, CreatesInTime
<1>5. LateRows'
  <2>1. \A i, k : ActiveRow(i, k)' = ActiveRow(i, k)
    BY DEF ActiveRow, RowsOf
  <2>2. \A c \in Clients : \A i, k : EditsOf(c, i, k)' = EditsOf(c, i, k)
    BY DEF EditsOf, Edits
  <2> QED BY <2>1, <2>2, LateKeeps DEF Agreement
<1> QED BY <1>2, <1>3, <1>4, <1>5 DEF Agreement, Swept

\* Who is about what, when a job takes a step.
LEMMA AboutJobs ==
  ASSUME Types, UNCHANGED op, NEW j \in Jobs, \A q \in Jobs \ {j} : job'[q] = job[q]
  PROVE  \A q \in Actors : q # j => About(q)' = About(q)
BY DEF Actors, Jobs, About

LEMMA KindsOfActors ==
  /\ \A e \in Expirers : e \in Actors /\ e \in Jobs /\ e \notin Clients
  /\ \A r \in Recyclers : r \in Jobs /\ r \notin Actors
  /\ \A c \in Clients : c \in Actors /\ c \notin Jobs
BY LifecycleAssumption DEF Actors, Jobs

LEMMA TakePageAgreement ==
  ASSUME Types, Ledger, Agreement, strayed \subseteq strayed', NEW j \in Jobs, NEW id0,
         job[j].at \in {"idle", "find"}, TakePage(j, id0), UNCHANGED <<stores, op>>
  PROVE  Agreement'
<1>1. DOMAIN job[j].page = {} /\ UNCHANGED <<rows, lastId, mapping, op>>
  BY DEF Ledger, Limits, PageLimits, Pages, stores
<1>2. CASE PageAfter(j, id0) = {}
  <2>1. job' = [job EXCEPT ![j] = NoJob] /\ UNCHANGED marks
    BY <1>2 DEF TakePage
  <2>2. /\ DOMAIN job'[j].page = {} /\ \A q \in Jobs \ {j} : job'[q] = job[q]
    BY <2>1, EmptyRows DEF Types, NoJob
  <2>3. \A q \in Actors : About(q)' = About(q)
    <3>1. j \in Actors => About(j)' = About(j)
      BY <1>1, <2>2, KindsOfActors DEF About, Actors
    <3> QED BY <1>1, <2>2, <3>1, AboutJobs
  <2>4. \A id, k : Overdue(id, k)' => Overdue(id, k)
    BY <1>1, <2>2, KindsOfActors DEF Overdue, RowsOf
  <2>5. Meets'
    BY <2>1, <2>3 DEF Agreement, Meets, marks
  <2>6. \A e \in Expirers : e \notin overlapped' => SweptBy(e)'
    BY <1>1, <2>1, <2>2, KindsOfActors DEF Agreement, Swept, SweptBy, marks
  <2>7. \A k \in Codes : Quiet(k)' => Quiet(k)
    BY <1>1, <2>1, <2>3 DEF Quiet, marks
  <2>8. overlapped \cap Clients \subseteq overlapped'
    BY <2>1 DEF marks
  <2> QED BY <1>1, <2>4, <2>5, <2>6, <2>7, <2>8, QuietJob
<1>3. CASE PageAfter(j, id0) # {}
  <2> DEFINE page == Restrict(rows, PageAfter(j, id0))
             ks == {rows[i].code : i \in PageAfter(j, id0)}
  <2>1. /\ job' = [job EXCEPT ![j] = [at |-> "each", from |-> id0, page |-> page,
                                      todo |-> PageAfter(j, id0)]]
        /\ Begins(j, ks)
    BY <1>3 DEF TakePage
  <2>2. /\ PageAfter(j, id0) \subseteq Due(j) /\ PageAfter(j, id0) \subseteq DOMAIN rows
    BY DEF PageAfter, Due
  <2>3. /\ DOMAIN page = PageAfter(j, id0)
        /\ \A id \in PageAfter(j, id0) : page[id] = rows[id]
    BY DEF Restrict
  <2>4. PICK p, w : p = page /\ w = PageAfter(j, id0)
    OBVIOUS
  <2>5. /\ job'[j].page = p /\ job'[j].todo = w /\ \A q \in Jobs \ {j} : job'[q] = job[q]
    BY <2>1, <2>4 DEF Types
  <2>6. \A q \in Actors : q # j => About(q)' = About(q)
    BY <1>1, <2>5, AboutJobs
  <2>7. j \in Actors => About(j)' \subseteq ks
    BY <2>3, <2>4, <2>5, KindsOfActors DEF About, Actors
  <2>8. \A id, k : Overdue(id, k)' => Overdue(id, k)
    <3>1. ASSUME j \in Recyclers, NEW id \in w
          PROVE  rows[id].life < -Year /\ rows[id].status = "expired"
      BY <2>2, <2>4, <3>1, LifecycleAssumption DEF Due
    <3>a. ASSUME j \in Expirers, NEW id \in w PROVE rows[id].status = "active"
      BY <2>2, <2>4, <3>a DEF Due
    <3>2. ASSUME NEW id \in w PROVE id \in DOMAIN rows /\ p[id] = rows[id] /\ DOMAIN p = w
      BY <2>2, <2>3, <2>4, <3>2
    <3>3. DOMAIN p = w
      BY <2>3, <2>4
    <3> SUFFICES ASSUME NEW id, NEW k, Overdue(id, k)' PROVE Overdue(id, k)
      OBVIOUS
    <3>4. CASE /\ id \in RowsOf(k)' /\ rows'[id].life < -Year
               /\ rows'[id].status # "recycled"
      BY <1>1, <3>4 DEF Overdue, RowsOf
    <3>5. ASSUME NEW e \in Expirers, id \in DOMAIN job'[e].page, job'[e].page[id].code = k,
                 job'[e].page[id].life < -Year
          PROVE  Overdue(id, k)
      <4>1. CASE e = j
        BY <2>5, <3>2, <3>3, <3>5, <3>a, <4>1 DEF Overdue, RowsOf
      <4>2. CASE e # j
        BY <2>5, <3>5, <4>2, KindsOfActors DEF Overdue
      <4> QED BY <4>1, <4>2
    <3>6. ASSUME NEW r \in Recyclers, id \in DOMAIN job'[r].page, job'[r].page[id].code = k
          PROVE  Overdue(id, k)
      <4>1. CASE r = j
        BY <2>5, <3>1, <3>2, <3>3, <3>6, <4>1 DEF Overdue, RowsOf
      <4>2. CASE r # j
        BY <2>5, <3>6, <4>2, KindsOfActors DEF Overdue
      <4> QED BY <4>1, <4>2
    <3> QED BY <3>4, <3>5, <3>6 DEF Overdue
  <2> HIDE DEF page, ks
  <2>9. /\ overlapped \subseteq overlapped' /\ suspect' = suspect
        /\ \A q \in Actors \ {j} : About(q) \cap ks # {} => q \in overlapped' /\ j \in overlapped'
    BY <2>1 DEF Begins, Rivals, Actors
  <2>10. Meets'
    <3> SUFFICES ASSUME NEW x \in Actors, NEW q \in Actors, x # q,
                        NEW k \in About(x)' \cap About(q)'
                 PROVE  x \in overlapped'
      BY DEF Meets
    <3>1. CASE x = j
      BY <2>6, <2>7, <2>9, <3>1
    <3>2. CASE q = j
      BY <2>6, <2>7, <2>9, <3>2
    <3>3. CASE x # j /\ q # j
      BY <2>6, <2>9, <3>3 DEF Agreement, Meets
    <3> QED BY <3>1, <3>2, <3>3
  <2>11. \A e \in Expirers : e \notin overlapped' => SweptBy(e)'
    <3> SUFFICES ASSUME NEW e \in Expirers, e \notin overlapped' PROVE SweptBy(e)'
      OBVIOUS
    <3>1. CASE e = j
      BY <2>3, <2>4, <2>5, <3>1 DEF SweptBy
    <3>2. CASE e # j
      BY <1>1, <2>5, <2>9, <3>2, KindsOfActors DEF Agreement, Swept, SweptBy
    <3> QED BY <3>1, <3>2
  <2>12. \A k \in Codes : Quiet(k)' => Quiet(k)
    <3>1. j \in Actors => About(j) = {}
      BY <1>1, KindsOfActors DEF About, Actors
    <3> QED BY <1>1, <2>6, <2>9, <3>1 DEF Quiet
  <2> QED BY <1>1, <2>8, <2>9, <2>10, <2>11, <2>12, QuietJob
<1> QED BY <1>2, <1>3

\* Each takes a row off the list, and leaves page, rows and requests alone.
LEMMA EachStill ==
  ASSUME Types, NEW j \in Jobs, NEW id \in job[j].todo, NEW at,
         job' = [job EXCEPT ![j] = [at |-> at, from |-> job[j].from, page |-> job[j].page,
                                    todo |-> job[j].todo \ {id}]],
         UNCHANGED <<rows, op>>
  PROVE  /\ \A q \in Jobs : job'[q].page = job[q].page
         /\ job'[j].todo = job[j].todo \ {id} /\ \A q \in Jobs \ {j} : job'[q] = job[q]
         /\ \A q \in Actors : About(q)' = About(q)
         /\ \A i, k : Overdue(i, k)' => Overdue(i, k)
         /\ id \in DOMAIN job[j].page
<1>1. PICK x : x = [at |-> at, from |-> job[j].from, page |-> job[j].page,
                    todo |-> job[j].todo \ {id}]
  OBVIOUS
<1>2. x.page = job[j].page /\ x.todo = job[j].todo \ {id}
  BY <1>1
<1>3. job'[j] = x /\ \A q \in Jobs \ {j} : job'[q] = job[q]
  BY <1>1 DEF Types
<1>4. \A q \in Jobs : job'[q].page = job[q].page
  BY <1>2, <1>3
<1>5. \A q \in Actors : About(q)' = About(q)
  BY <1>4 DEF About, Actors, Jobs
<1>6. \A i, k : Overdue(i, k)' => Overdue(i, k)
  BY <1>4 DEF Overdue, RowsOf, Jobs
<1> QED BY <1>2, <1>3, <1>4, <1>5, <1>6 DEF Types, JobOK

LEMMA EachAgreement ==
  ASSUME Types, Agreement, strayed \subseteq strayed', NEW j \in Jobs, Each(j)
  PROVE  Agreement'
<1>1. UNCHANGED <<rows, lastId, op, marks>>
  BY EachParts
<1>2. PICK id \in job[j].todo :
         /\ job' = [job EXCEPT ![j] =
                     [at |-> IF job[j].todo = {id} THEN "save" ELSE "each",
                      from |-> job[j].from, page |-> job[j].page,
                      todo |-> job[j].todo \ {id}]]
         /\ IF j \in Expirers
            THEN /\ mapping' = Restrict(mapping, DOMAIN mapping \ {job[j].page[id].code})
                 /\ UNCHANGED pool
            ELSE pool' = pool \cup {job[j].page[id].code} /\ UNCHANGED mapping
  BY EachParts
<1>3. PICK at : at = IF job[j].todo = {id} THEN "save" ELSE "each"
  OBVIOUS
<1>4. job' = [job EXCEPT ![j] = [at |-> at, from |-> job[j].from, page |-> job[j].page,
                                 todo |-> job[j].todo \ {id}]]
  BY <1>2, <1>3
<1>5. /\ \A q \in Jobs : job'[q].page = job[q].page
      /\ job'[j].todo = job[j].todo \ {id} /\ \A q \in Jobs \ {j} : job'[q] = job[q]
      /\ \A q \in Actors : About(q)' = About(q)
      /\ \A i, k : Overdue(i, k)' => Overdue(i, k)
      /\ id \in DOMAIN job[j].page
  BY <1>1, <1>4, EachStill
<1>6. Meets' /\ \A k \in Codes : Quiet(k)' => Quiet(k)
  BY <1>1, <1>5 DEF Agreement, Meets, Quiet, marks
<1>7. CASE j \in Recyclers
  <2>1. UNCHANGED mapping /\ \A e \in Expirers : job'[e] = job[e]
    BY <1>2, <1>5, <1>7, KindsOfJobs
  <2>2. \A e \in Expirers : e \notin overlapped' => SweptBy(e)'
    BY <1>1, <2>1 DEF Agreement, Swept, SweptBy, marks
  <2>3. overlapped \cap Clients \subseteq overlapped'
    BY <1>1 DEF marks
  <2> QED BY <1>1, <1>5, <1>6, <2>1, <2>2, <2>3, QuietJob
<1>8. CASE j \in Expirers
  <2>1. PICK k : k = job[j].page[id].code
    OBVIOUS
  <2>2. mapping' = Restrict(mapping, DOMAIN mapping \ {k})
    BY <1>2, <1>8, <2>1
  <2>3. k \in About(j)
    BY <1>5, <1>8, <2>1, KindsOfActors DEF About
  <2>4. /\ DOMAIN mapping' = DOMAIN mapping \ {k}
        /\ \A x \in DOMAIN mapping' : mapping'[x] = mapping[x]
    BY <2>2 DEF Restrict
  <2>5. \A x \in Codes : x # k => SameFor(x)
    BY <1>1, <2>4 DEF SameFor, RowsOf
  <2>6. ASSUME NEW d \in Clients, d \notin overlapped' PROVE PreparedAt(d)'
    <3>1. d \notin overlapped /\ PreparedAt(d) /\ op'[d] = op[d]
      BY <1>1, <2>6 DEF Agreement, Prepared, marks
    <3>2. op[d].at # "idle" => op[d].code \in Codes /\ op[d].code # k
      <4>1. k \notin About(d)
        BY <1>8, <2>3, <3>1, KindsOfActors DEF Agreement, Meets
      <4> QED BY <4>1, AboutOp, AboutCodes DEF Procs
    <3> QED BY <2>5, <3>1, <3>2, PreparedKeeps
  <2>7. ASSUME NEW e \in Expirers, e \notin overlapped' PROVE SweptBy(e)'
    <3>1. SweptBy(e)
      BY <1>1, <2>7 DEF Agreement, Swept, marks
    <3>2. CASE e = j
      BY <1>5, <2>1, <2>4, <3>1, <3>2 DEF SweptBy
    <3>3. CASE e # j
      BY <1>5, <2>4, <3>1, <3>3, KindsOfActors DEF SweptBy
    <3> QED BY <3>2, <3>3
  <2>8. ASSUME NEW x \in Codes \ strayed', Quiet(x)' PROVE Agrees(x)'
    <3>1. Quiet(x) /\ x # k
      BY <1>6, <1>8, <2>3, <2>8, KindsOfActors DEF Quiet
    <3> QED BY <2>5, <3>1, AgreesKeeps DEF Agreement
  <2>9. LateRows'
    <3>1. \A i, x : ActiveRow(i, x)' = ActiveRow(i, x)
      BY <1>1 DEF ActiveRow, RowsOf
    <3>2. \A c \in Clients : \A i, x : EditsOf(c, i, x)' = EditsOf(c, i, x)
      BY <1>1 DEF EditsOf, Edits
    <3> QED BY <1>1, <1>5, <3>1, <3>2, LateKeeps DEF Agreement
  <2>10. CreatesInTime'
    BY <1>1 DEF Agreement, CreatesInTime
  <2> QED BY <1>6, <2>6, <2>7, <2>8, <2>9, <2>10 DEF Agreement, Prepared, Swept
<1> QED BY <1>7, <1>8 DEF Jobs

\* The rows a page is written back to have its codes, and are late only if they were.
LEMMA SavePageLate ==
  ASSUME Types, Ledger, Agreement, strayed \subseteq strayed', NEW j \in Jobs, SavePage(j)
  PROVE  LateRows'
<1>1. /\ UNCHANGED <<lastId, op>>
      /\ DOMAIN rows' = DOMAIN rows \cup DOMAIN job[j].page
      /\ \A i \in DOMAIN job[j].page :
            /\ rows'[i].code = job[j].page[i].code /\ rows'[i].life = job[j].page[i].life
            /\ rows'[i].status = NextStatus(j)
      /\ \A i \in DOMAIN rows \ DOMAIN job[j].page : rows'[i] = rows[i]
      /\ \A i \in Jobs \ {j} : job'[i] = job[i]
      /\ DOMAIN job'[j].page = {}
  BY SavePageParts
<1>2. \A i, k : i \in RowsOf(k)' /\ rows'[i].life < -Year /\ rows'[i].status # "recycled"
         => Overdue(i, k)
  BY <1>1 DEF RowsOf, Overdue, Jobs
<1>3. \A i, k : Overdue(i, k)' => Overdue(i, k)
  <2> SUFFICES ASSUME NEW i, NEW k, Overdue(i, k)' PROVE Overdue(i, k)
    OBVIOUS
  <2>1. \A q \in Jobs : DOMAIN job'[q].page = {} \/ job'[q] = job[q]
    BY <1>1
  <2> QED BY <1>2, <2>1 DEF Overdue, Jobs
<1>4. \A i, k : ActiveRow(i, k)' => ActiveRow(i, k)
  BY <1>1 DEF ActiveRow, RowsOf, NextStatus
<1>5. \A c \in Clients : \A i, k : EditsOf(c, i, k)' => EditsOf(c, i, k)
  BY <1>1 DEF EditsOf, Edits
<1>6. \A i \in DOMAIN rows : i \in DOMAIN rows'
  BY <1>1
<1> QED BY <1>1, <1>3, <1>4, <1>5, <1>6, LateKeeps DEF Agreement

\* A page of the expirer that met no request, and whose rows are the newest of their
\* codes, leaves these codes unmapped, and expired.
LEMMA ExpirePage ==
  ASSUME Types, Ledger, Agreement, strayed \subseteq strayed', NEW j \in Expirers, SavePage(j)
  PROVE  Agreement'
<1>1. /\ UNCHANGED <<lastId, mapping, op>> /\ job[j].at = "save"
      /\ DOMAIN rows' = DOMAIN rows \cup DOMAIN job[j].page
      /\ \A i \in DOMAIN job[j].page :
            /\ rows'[i].code = job[j].page[i].code /\ rows'[i].life = job[j].page[i].life
            /\ rows'[i].status = NextStatus(j)
      /\ \A i \in DOMAIN rows \ DOMAIN job[j].page : rows'[i] = rows[i]
      /\ \A i \in Jobs \ {j} : job'[i] = job[i]
      /\ DOMAIN job'[j].page = {}
  BY SavePageParts, KindsOfJobs
<1>2. j \in Actors /\ j \in Jobs /\ j \notin Clients
  BY KindsOfActors
<1>3. PICK well \in BOOLEAN :
         /\ Ends(j, well)
         /\ well => \A id \in DOMAIN job[j].page : IsNewest(id, job[j].page[id].code)
  BY DEF SavePage
<1>4. About(j) = {job[j].page[id].code : id \in DOMAIN job[j].page} /\ About(j)' = {}
  BY <1>1, <1>2 DEF About
<1>5. \A q \in Actors : q # j => About(q)' = About(q)
  BY <1>1, <1>2, AboutJobs
<1>6. \A q : q # j /\ q \in overlapped => q \in overlapped'
  BY <1>3 DEF Ends
<1>7. \A k : k \notin suspect' =>
         k \notin suspect /\ (k \in About(j) => well /\ j \notin overlapped)
  BY <1>2, <1>3 DEF Ends, Repairs
<1>8. \A k \in Codes : k \notin About(j) => SameFor(k)
  <2> SUFFICES ASSUME NEW k \in Codes, k \notin About(j) PROVE SameFor(k)
    OBVIOUS
  <2>1. \A i \in DOMAIN job[j].page : job[j].page[i].code # k /\ i \notin RowsOf(k)
    BY <1>2, <1>4, OneCode DEF RowsOf
  <2>2. RowsOf(k)' = RowsOf(k) /\ \A i \in RowsOf(k) : rows'[i] = rows[i]
    BY <1>1, <2>1 DEF RowsOf
  <2> QED BY <1>1, <2>2 DEF SameFor
<1>9. Meets'
  BY <1>4, <1>5, <1>6 DEF Agreement, Meets
<1>10. ASSUME NEW d \in Clients, d \notin overlapped' PROVE PreparedAt(d)'
  <2>1. d \notin overlapped /\ PreparedAt(d) /\ op'[d] = op[d] /\ d # j /\ d \in Actors
    BY <1>1, <1>2, <1>6, <1>10, KindsOfActors DEF Agreement, Prepared
  <2>2. op[d].at # "idle" => op[d].code \in Codes /\ op[d].code \notin About(j)
    <3>1. About(d) \cap About(j) = {}
      BY <1>2, <2>1 DEF Agreement, Meets
    <3> QED BY <3>1, AboutOp, AboutCodes DEF Procs
  <2> QED BY <1>8, <2>1, <2>2, PreparedKeeps
<1>11. Swept'
  <2>1. \A e \in Expirers \ {j} : job'[e] = job[e] /\ e \in Actors
    BY <1>1, KindsOfJobs, KindsOfActors
  <2>2. \A e \in Expirers \ {j} : e \in overlapped => e \in overlapped'
    BY <1>3 DEF Ends
  <2> QED BY <1>1, <2>1, <2>2 DEF Agreement, Swept, SweptBy
<1>12. ASSUME NEW k \in Codes \ strayed', Quiet(k)' PROVE Agrees(k)'
  <2>1. CASE k \notin About(j)
    <3>1. Quiet(k)
      BY <1>1, <1>5, <1>6, <1>7, <1>12, <2>1 DEF Quiet
    <3> QED BY <1>8, <2>1, <3>1, AgreesKeeps DEF Agreement
  <2>2. CASE k \in About(j)
    <3>1. well /\ j \notin overlapped
      BY <1>7, <1>12, <2>2 DEF Quiet
    <3>2. PICK n \in DOMAIN job[j].page : job[j].page[n].code = k
      BY <1>4, <2>2
    <3>3. k \notin DOMAIN mapping
      BY <1>1, <1>2, <3>1, <3>2 DEF Agreement, Swept, SweptBy, Ledger, Limits, PageLimits, Pages
    <3>4. IsNewest(n, k)
      BY <1>3, <3>1, <3>2
    <3>5. \A i \in DOMAIN job[j].page : i \in DOMAIN rows /\ i \in RowsOf(job[j].page[i].code)
      BY <1>3, <3>1 DEF IsNewest, RowsOf
    <3>6. RowsOf(k)' = RowsOf(k)
      BY <1>1, <3>5 DEF RowsOf
    <3>7. \A i : IsNewest(i, k)' => i = n
      BY <3>4, <3>6 DEF IsNewest, Types, RowsOK, RowsOf
    <3>8. rows'[n].status = "expired"
      BY <1>1, <3>2 DEF NextStatus
    <3> QED BY <1>1, <3>3, <3>7, <3>8 DEF Agrees
  <2> QED BY <2>1, <2>2
<1>13. LateRows'
  BY <1>2, SavePageLate
<1>14. CreatesInTime'
  BY <1>1 DEF Agreement, CreatesInTime
<1> QED BY <1>9, <1>10, <1>11, <1>12, <1>13, <1>14 DEF Agreement, Prepared

\* The recycler's page meets requests that are not marked: none of its rows is the
\* newest of a code that is edited or mapped.
LEMMA RecyclePage ==
  ASSUME Types, Types', Ledger, Agreement, strayed \subseteq strayed', NEW j \in Recyclers,
         SavePage(j)
  PROVE  Agreement'
<1>1. /\ UNCHANGED <<lastId, mapping, op>>
      /\ DOMAIN rows' = DOMAIN rows \cup DOMAIN job[j].page
      /\ \A i \in DOMAIN job[j].page :
            /\ rows'[i].code = job[j].page[i].code /\ rows'[i].status = NextStatus(j)
      /\ \A i \in DOMAIN rows \ DOMAIN job[j].page : rows'[i] = rows[i]
      /\ \A i \in Jobs \ {j} : job'[i] = job[i]
  BY SavePageParts, KindsOfJobs
<1>2. j \in Jobs /\ j \notin Actors /\ j \notin Expirers
  BY KindsOfActors, KindsOfJobs
<1>3. \A q \in Actors : About(q)' = About(q)
  BY <1>1, <1>2, AboutJobs
<1>4. \A q \in Actors : q \in overlapped => q \in overlapped'
  BY <1>2 DEF SavePage, Ends
<1>5. suspect \subseteq suspect'
  BY <1>2, KindsOfActors DEF SavePage, Ends, Repairs, Actors
<1>6. \A k : \A i \in DOMAIN job[j].page :
         i \in DOMAIN rows /\ job[j].page[i].code = k /\ k \notin strayed
         => i \in RowsOf(k) /\ rows[i].status = "expired"
  <2>1. PICK f : Named(f) /\ Limits(f)
    BY DEF Ledger
  <2>2. \A i \in DOMAIN job[j].page : job[j].page[i].code = f[i]
    BY <1>2, <2>1 DEF Named
  <2> QED BY <1>2, <2>1, <2>2, OneCode DEF Limits, PageLimits, RecyclerPages
<1>7. \A k : RowsOf(k) \subseteq RowsOf(k)'
  BY <1>1, <1>2, OneCode DEF RowsOf
<1>8. \A k, i : i \in RowsOf(k)' =>
         \/ i \in RowsOf(k) /\ rows'[i] = rows[i] /\ i \notin DOMAIN job[j].page
         \/ i \in DOMAIN job[j].page /\ job[j].page[i].code = k /\ Overdue(i, k)
            /\ rows'[i].status = "recycled"
  BY <1>1, <1>2 DEF RowsOf, Overdue, NextStatus
<1>9. \A k : RowsOf(k)' \subseteq 1 .. lastId
  BY <1>1 DEF Types, RowsOK, RowsOf
<1>10. Meets' /\ \A k \in Codes : Quiet(k)' => Quiet(k)
  BY <1>1, <1>3, <1>4, <1>5 DEF Agreement, Meets, Quiet
<1>11. ASSUME NEW d \in Clients, d \notin overlapped' PROVE PreparedAt(d)'
  <2>1. d \in Actors /\ PreparedAt(d) /\ op'[d] = op[d]
    BY <1>1, <1>4, <1>11, KindsOfActors DEF Agreement, Prepared
  <2>2. op[d].at \in {"row", "save"} => MapsTo(op[d].code, op[d])'
    BY <1>1, <2>1 DEF PreparedAt, MapsTo
  <2>3. ASSUME op[d].at \in {"remap", "save"}, op[d].status = "active",
               op[d].code \notin strayed'
        PROVE  IsNewest(op[d].id, op[d].code)'
    <3>1. op[d] \in EditOps
      BY <2>3, OpKinds DEF Types
    <3>2. PICK k \in Codes \ strayed, n \in 1 .. lastId : k = op[d].code /\ n = op[d].id
      BY <2>3, <3>1 DEF EditOps
    <3>3. IsNewest(n, k) /\ EditsOf(d, n, k)
      BY <2>1, <2>3, <3>2 DEF PreparedAt, EditsOf, Edits
    <3>4. ASSUME NEW i \in RowsOf(k)' PROVE i <= n
      <4>1. CASE i \in RowsOf(k)
        BY <3>3, <4>1 DEF IsNewest
      <4>2. CASE Overdue(i, k)
        <5>1. i \in 1 .. lastId /\ ~(n < i)
          BY <1>9, <3>3, <4>2 DEF Agreement, LateRows
        <5> QED BY <5>1
      <4> QED BY <1>8, <4>1, <4>2
    <3>5. n \in RowsOf(k)'
      BY <1>7, <3>3 DEF IsNewest
    <3> QED BY <1>1, <3>2, <3>4, <3>5 DEF IsNewest
  <2> QED BY <1>1, <2>1, <2>2, <2>3 DEF PreparedAt
<1>12. Swept'
  <2>1. \A e \in Expirers : job'[e] = job[e] /\ e \in Actors
    BY <1>1, <1>2, KindsOfActors
  <2> QED BY <1>1, <1>4, <2>1 DEF Agreement, Swept, SweptBy
<1>13. ASSUME NEW k \in Codes \ strayed', Quiet(k)' PROVE Agrees(k)'
  <2>1. Agrees(k)
    BY <1>10, <1>13 DEF Agreement
  <2>2. ASSUME NEW n, IsNewest(n, k)', n \in DOMAIN job[j].page
        PROVE  k \notin DOMAIN mapping /\ rows'[n].status = "recycled"
    <3>1. n \in RowsOf(k)' /\ \A i \in RowsOf(k) : i <= n
      BY <1>7, <2>2 DEF IsNewest
    <3>2. Overdue(n, k) /\ rows'[n].status = "recycled" /\ n \in 1 .. lastId
          /\ job[j].page[n].code = k
      BY <1>8, <1>9, <2>2, <3>1
    <3>3. CASE n \in DOMAIN rows
      <4>1. IsNewest(n, k) /\ rows[n].status = "expired" /\ n \in RowsOf(k)
        BY <1>6, <1>13, <2>2, <3>1, <3>2, <3>3 DEF IsNewest
      <4> QED BY <2>1, <3>2, <4>1 DEF Agrees
    <3>4. CASE n \notin DOMAIN rows
      <4>1. CASE RowsOf(k) = {}
        BY <2>1, <3>2, <4>1 DEF Agrees
      <4>2. CASE RowsOf(k) # {}
        <5>1. PICK m \in RowsOf(k) : IsNewest(m, k)
          BY <4>2, NewestExists
        <5>2. m \in 1 .. lastId /\ m < n
          BY <1>7, <1>9, <3>1, <3>2, <3>4, <5>1 DEF RowsOf
        <5>3. ~ActiveRow(m, k)
          BY <1>13, <3>2, <3>4, <5>2 DEF Agreement, LateRows
        <5> QED BY <2>1, <3>2, <5>1, <5>3 DEF Agrees, ActiveRow
      <4> QED BY <4>1, <4>2
    <3> QED BY <3>3, <3>4
  <2>3. ASSUME NEW n, IsNewest(n, k)', n \notin DOMAIN job[j].page
        PROVE  IsNewest(n, k) /\ n \in RowsOf(k) /\ rows'[n] = rows[n]
    <3>1. n \in RowsOf(k)' /\ \A i \in RowsOf(k) : i <= n
      BY <1>7, <2>3 DEF IsNewest
    <3> QED BY <1>8, <2>3, <3>1 DEF IsNewest
  <2>4. RowsOf(k)' = {} => k \notin DOMAIN mapping'
    BY <1>1, <1>7, <2>1 DEF Agrees
  <2>5. ASSUME NEW n \in RowsOf(k)', IsNewest(n, k)'
        PROVE  /\ rows'[n].status = "active" /\ rows'[n].life >= 0 => MapsTo(k, rows[n])'
               /\ rows'[n].status # "active" => k \notin DOMAIN mapping'
               /\ k \in DOMAIN mapping' => MapsTo(k, rows[n])'
    <3>1. CASE n \in DOMAIN job[j].page
      BY <1>1, <2>2, <2>5, <3>1
    <3>2. CASE n \notin DOMAIN job[j].page
      BY <1>1, <2>1, <2>3, <2>5, <3>2 DEF Agrees, MapsTo
    <3> QED BY <3>1, <3>2
  <2> QED BY <2>4, <2>5 DEF Agrees
<1>14. LateRows'
  BY <1>2, SavePageLate
<1>15. CreatesInTime'
  BY <1>1 DEF Agreement, CreatesInTime
<1> QED BY <1>10, <1>11, <1>12, <1>13, <1>14, <1>15 DEF Agreement, Prepared

LEMMA FailJobAgreement ==
  ASSUME Types, Agreement, strayed \subseteq strayed', NEW j \in Jobs, FailJob(j)
  PROVE  Agreement'
<1>1. /\ UNCHANGED <<rows, lastId, mapping, op>> /\ Ends(j, FALSE)
      /\ job' = [job EXCEPT ![j] = NoJob]
  BY DEF FailJob, stores
<1>2. \A q \in Jobs \ {j} : job'[q] = job[q]
  BY <1>1 DEF Types
<1>3. DOMAIN job'[j].page = {}
  BY <1>1, EmptyRows DEF Types, NoJob
<1>4. j \notin Clients /\ \A q \in Actors : q # j => About(q)' = About(q)
  BY <1>1, <1>2, AboutJobs, KindsOfActors
<1>5. About(j)' = {}
  BY <1>3, <1>4 DEF About
<1>6. /\ \A q : q # j /\ q \in overlapped => q \in overlapped'
      /\ suspect' = suspect \cup About(j)
  BY <1>1 DEF Ends
<1>7. \A id, k : Overdue(id, k)' => Overdue(id, k)
  BY <1>1, <1>2, <1>3, KindsOfJobs DEF Overdue, RowsOf
<1>8. Meets'
  BY <1>4, <1>5, <1>6 DEF Agreement, Meets
<1>9. \A e \in Expirers : e \notin overlapped' => SweptBy(e)'
  BY <1>1, <1>2, <1>3, <1>6, KindsOfJobs DEF Agreement, Swept, SweptBy
<1>10. \A k \in Codes : Quiet(k)' => Quiet(k)
  BY <1>1, <1>4, <1>6 DEF Quiet
<1>11. overlapped \cap Clients \subseteq overlapped'
  BY <1>4, <1>6
<1> QED BY <1>1, <1>7, <1>8, <1>9, <1>10, <1>11, QuietJob

\* A row and a mapping that agree grow old together.
LEMMA TickAgrees ==
  ASSUME Types, NEW k \in Codes, Agrees(k), Tick
  PROVE  Agrees(k)'
<1>1. /\ rows' = [id \in DOMAIN rows |-> Aged(rows[id])]
      /\ mapping' = [x \in DOMAIN mapping |-> [mapping[x] EXCEPT !.life = OneDayLess(@)]]
  BY DEF Tick, Aged
<1>2. ASSUME NEW id \in DOMAIN rows
      PROVE  /\ rows'[id].code = rows[id].code /\ rows'[id].link = rows[id].link
             /\ rows'[id].status = rows[id].status
             /\ rows'[id].life = OneDayLess(rows[id].life) /\ rows[id].life \in Int
  <2>1. rows[id] \in Row
    BY DEF Types, RowsOK
  <2> QED BY <1>1, <2>1 DEF Aged, Row
<1>3. DOMAIN rows' = DOMAIN rows /\ DOMAIN mapping' = DOMAIN mapping
  BY <1>1
<1>4. RowsOf(k)' = RowsOf(k) /\ \A id : IsNewest(id, k)' <=> IsNewest(id, k)
  BY <1>2, <1>3 DEF RowsOf, IsNewest
<1>5. ASSUME NEW id \in RowsOf(k), MapsTo(k, rows[id]) PROVE MapsTo(k, rows[id])'
  <2>1. k \in DOMAIN mapping /\ mapping[k] = [link |-> rows[id].link, life |-> rows[id].life]
    BY <1>5 DEF MapsTo
  <2>2. mapping'[k] = [mapping[k] EXCEPT !.life = OneDayLess(mapping[k].life)]
    BY <1>1, <2>1
  <2>3. PICK l, d : l = rows[id].link /\ d = rows[id].life
    OBVIOUS
  <2>4. mapping'[k] = [link |-> l, life |-> OneDayLess(d)]
    BY <2>1, <2>2, <2>3
  <2>5. rows'[id].link = l /\ rows'[id].life = OneDayLess(d)
    BY <1>2, <2>3 DEF RowsOf
  <2> QED BY <1>3, <2>1, <2>4, <2>5 DEF MapsTo
<1>6. \A id \in RowsOf(k) : rows'[id].life >= 0 => rows[id].life >= 0
  BY <1>2, LifecycleAssumption DEF RowsOf, OneDayLess
<1>7. \A id \in RowsOf(k) : rows'[id].status = rows[id].status
  BY <1>2 DEF RowsOf
<1> QED BY <1>3, <1>4, <1>5, <1>6, <1>7 DEF Agrees

LEMMA TickAgreement ==
  ASSUME Types, Ledger, Agreement, strayed \subseteq strayed', Tick
  PROVE  Agreement'
<1>1. /\ UNCHANGED <<lastId, op, job, overlapped, suspect>> /\ DOMAIN rows' = DOMAIN rows
      /\ \A c \in Clients : op[c].at = "idle" /\ op'[c].at = "idle"
  BY DEF Tick, Idle, marks
<1>2. \A j \in Jobs : DOMAIN job'[j].page = {}
  BY <1>1 DEF Tick, Ledger, Limits, PageLimits, Pages
<1>3. \A q \in Actors : About(q)' = About(q)
  BY <1>1 DEF About, Actors
<1>4. Meets' /\ \A k \in Codes : Quiet(k)' => Quiet(k)
  BY <1>1, <1>3 DEF Agreement, Meets, Quiet
<1>5. Prepared' /\ CreatesInTime'
  BY <1>1 DEF Prepared, PreparedAt, CreatesInTime
<1>6. Swept'
  BY <1>2, KindsOfJobs DEF Swept, SweptBy
<1>7. LateRows'
  <2>1. \A id, k : Overdue(id, k)' => id \in DOMAIN rows'
    BY <1>2, KindsOfJobs DEF Overdue, RowsOf
  <2>2. \A c \in Clients : \A i, k : ~EditsOf(c, i, k)'
    BY <1>1 DEF EditsOf, Edits
  <2> QED BY <2>1, <2>2 DEF LateRows
<1>8. \A k \in Codes \ strayed' : Quiet(k)' => Agrees(k)'
  BY <1>4, TickAgrees DEF Agreement
<1> QED BY <1>4, <1>5, <1>6, <1>7, <1>8 DEF Agreement

LEMMA AgreementInit == Init => Agreement
<1> SUFFICES ASSUME Init PROVE Agreement
  OBVIOUS
<1>1. DOMAIN rows = {} /\ DOMAIN mapping = {} /\ lastId = 0
  BY EmptyRows DEF Init
<1>2. /\ \A c \in Clients : op[c].at = "idle"
      /\ \A j \in Jobs : DOMAIN job[j].page = {}
  BY EmptyRows DEF Init, NoOp, NoJob
<1>3. \A q \in Actors : About(q) = {}
  BY <1>2, KindsOfActors DEF About, Actors
<1>4. LateRows /\ CreatesInTime /\ Prepared
  BY <1>1, <1>2 DEF LateRows, CreatesInTime, Prepared, PreparedAt
<1>5. Meets /\ Swept
  BY <1>2, <1>3, KindsOfJobs DEF Meets, Swept, SweptBy
<1>6. \A k : RowsOf(k) = {}
  BY <1>1 DEF RowsOf
<1>7. \A k : Agrees(k)
  BY <1>1, <1>6 DEF Agrees
<1> QED BY <1>4, <1>5, <1>7 DEF Agreement

LEMMA AgreementStep ==
  ASSUME Types, Types', strayed \subseteq strayed', Ledger, Agreement, [Next]_vars
  PROVE  Agreement'
<1>1. ASSUME NEW c \in Clients, Starts(c) PROVE Agreement'
  <2>1. PICK k \in Codes, link \in Links, life \in Terms :
          Pull(c, k, link, life) \/ CheckManual(c, k, link, life) \/ ReadRow(c, k, link, life)
    BY <1>1 DEF Starts
  <2> QED BY <2>1, CreateAgreement, ReadRowAgreement
<1>2. ASSUME NEW c \in Clients, Map(c) PROVE Agreement'
  BY <1>2, MapAgreement
<1>3. ASSUME NEW c \in Clients, RowCreate(c) PROVE Agreement'
  BY <1>3, RowCreateAgreement
<1>4. ASSUME NEW c \in Clients, RowSave(c) PROVE Agreement'
  BY <1>4, RowSaveAgreement
<1>5. ASSUME NEW c \in Clients, NEW k \in Codes, Unmap(c, k) \/ UnmapFails(c, k)
      PROVE  Agreement'
  BY <1>5, UnmapAgreement
<1>6. ASSUME NEW c \in Clients, DeleteRows(c) PROVE Agreement'
  BY <1>6, DeleteRowsAgreement
<1>14. ASSUME NEW c \in Clients, GetRemoves(c) \/ \E k \in Codes : GetFindsExpired(c, k)
       PROVE  Agreement'
  BY <1>14, GetFindsAgreement, GetRemovesAgreement
<1>7. ASSUME NEW c \in Clients, FailClient(c) PROVE Agreement'
  BY <1>7, FailClientAgreement
<1>8. ASSUME NEW j \in Jobs, FindFirst(j) \/ FindNext(j) PROVE Agreement'
  <2>1. PICK id0 : TakePage(j, id0) /\ job[j].at \in {"idle", "find"} /\ UNCHANGED <<stores, op>>
    BY <1>8 DEF FindFirst, FindNext
  <2> QED BY <2>1, TakePageAgreement
<1>9. ASSUME NEW j \in Jobs, Each(j) PROVE Agreement'
  BY <1>9, EachAgreement
<1>10. ASSUME NEW j \in Jobs, SavePage(j) PROVE Agreement'
  BY <1>10, ExpirePage, RecyclePage DEF Jobs
<1>11. ASSUME NEW j \in Jobs, FailJob(j) PROVE Agreement'
  BY <1>11, FailJobAgreement
<1>12. CASE Tick
  BY <1>12, TickAgreement
<1>13. CASE UNCHANGED vars
  <2>1. UNCHANGED <<rows, lastId, mapping, op, job, overlapped, suspect>>
    BY <1>13 DEF vars, stores, marks
  <2>2. /\ \A id, k : Overdue(id, k)' => Overdue(id, k)
        /\ \A q \in Actors : About(q)' = About(q)
    BY <2>1 DEF Overdue, RowsOf, About
  <2>3. Meets' /\ \A k \in Codes : Quiet(k)' => Quiet(k)
    BY <2>1, <2>2 DEF Agreement, Meets, Quiet
  <2>4. \A e \in Expirers : e \notin overlapped' => SweptBy(e)'
    BY <2>1 DEF Agreement, Swept, SweptBy
  <2> QED BY <2>1, <2>2, <2>3, <2>4, QuietJob
<1> QED BY <1>1, <1>2, <1>3, <1>4, <1>5, <1>6, <1>7, <1>8, <1>9, <1>10, <1>11, <1>12,
           <1>13, <1>14 DEF Next, Pass

\* Once what is under way about a code has ended, and ended alone and well, the code
\* redirects to its newest row, or to nothing when that row is not active, whatever
\* creates, edits, removals, redirects of expired links and the jobs of any number of
\* servers did at the same time, and wherever a client or a job failed before, until
\* one of four hazards takes the code off its round.
THEOREM MappingAgreesHolds == Spec => []MappingAgrees
<1>1. Init => Agreement /\ strayed \subseteq Codes
  BY AgreementInit DEF Init
<1>2. /\ Types /\ Types' /\ Ledger /\ Agreement /\ strayed \subseteq Codes /\ [Next]_vars
      => Agreement' /\ (strayed \subseteq Codes)'
  BY AgreementStep, StrayedStep
<1>3. Agreement => MappingAgrees
  <2>1. \A k : Settled(k) => Quiet(k)
    BY DEF Settled, Quiet, Actors
  <2> QED BY <2>1 DEF Agreement, Agrees, MappingAgrees
<1> QED BY <1>1, <1>2, <1>3, LedgerAlways, PTL DEF Spec

=============================================================================
