---------------------------- MODULE MemoryBackend ----------------------------
(***************************************************************************)
(* A service over the backends of one process (ext/memx/pool.go, repo.go): *)
(* the pool is a queue that may hold a code twice, the table is a map of   *)
(* pointers with an index from a code to its row, and rows are found in    *)
(* the random order of a Go map.  A job or an Update that changes a field  *)
(* of a row it was given changes the stored row.                           *)
(*                                                                         *)
(* One step is one call under the backend's mutex, with the assignments    *)
(* that follow it.  The redirects of a code are the subject of             *)
(* RedirectCache.  A Create that finds the queue empty goes on with the    *)
(* empty code, as over Redis: its row is of length 0, and so is the pool   *)
(* to which the recycler returns that code.                                *)
(***************************************************************************)
EXTENDS Integers, Sequences, Functions

CONSTANTS
  BatchSize,   \* codes per batch: 100
  Low,         \* a pull that leaves no more asks for a refill: 10
  PageSize,    \* rows per page of a job: 100
  Batches,     \* bound: refills end after so many, before the generator wraps
  MaxRows,     \* bound: rows created
  Clients,     \* goroutines of requests
  Editors,     \* those that also update and remove links
  Refills      \* goroutines of refills: one, if they never meet

ASSUME MemoryAssumption ==
  /\ BatchSize \in Nat \ {0} /\ Low \in Nat /\ PageSize \in Nat \ {0}
  /\ Batches \in Nat \ {0} /\ MaxRows \in Nat /\ Editors \subseteq Clients

VARIABLES
  pool,        \* the queue of codes
  startIndex,  \* the next batch
  rows,        \* links: a row for each id
  index,       \* codeToID
  nextId,
  op,          \* each client's request
  refill,      \* each refill: idle, or the batch it adds and what is left of it
  job,         \* the expirer's and the recycler's place in their passes
  removed      \* history: codes whose row was removed since the last rebuild

stores == <<pool, startIndex, rows, index, nextId>>
vars   == <<stores, op, refill, job, removed>>

Codes  == 1 .. Batches * BatchSize
NoCode == 0
Jobs  == {"expire", "recycle"}

NoOp     == [at |-> "idle"]
NoRefill == [at |-> "idle"]
NoJob    == [at |-> "idle", from |-> 0, page |-> <<>>, n |-> 0]

\* The codes of a batch, in order.
Batch(i) == [j \in 1 .. BatchSize |-> i * BatchSize + j]

Put(f, k, v) == [x \in DOMAIN f \cup {k} |-> IF x = k THEN v ELSE f[x]]

Members(s) == {s[i] : i \in DOMAIN s}

\* NewShortLinkService has filled an empty pool.
Init ==
  /\ pool = Batch(0) /\ startIndex = 1
  /\ rows = <<>> /\ index = <<>> /\ nextId = 1
  /\ op = [c \in Clients |-> NoOp]
  /\ refill = [g \in Refills |-> NoRefill]
  /\ job = [j \in Jobs |-> NoJob]
  /\ removed = {}

-----------------------------------------------------------------------------
(* Pull, and the refill it may ask for. *)

\* A pool with that many codes left is low: batchGenerate starts.  Its Lock is
\* granted whether or not another refill has it.
MaybeRefill(left) ==
  IF left > Low \/ \A g \in Refills : refill[g].at # "idle"
  THEN UNCHANGED refill
  ELSE \E g \in Refills :
         refill[g].at = "idle" /\ refill' = [refill EXCEPT ![g] = [at |-> "read"]]

\* Pull takes the first code.
Pull(c) ==
  /\ op[c].at = "idle" /\ pool # <<>> /\ nextId <= MaxRows
  /\ pool' = Tail(pool)
  /\ op' = [op EXCEPT ![c] = [at |-> "row", code |-> Head(pool)]]
  /\ MaybeRefill(Len(pool) - 1)
  /\ UNCHANGED <<startIndex, rows, index, nextId, job, removed>>

\* Nothing to pull, and no error: a refill starts, Create goes on.
PullNone(c) ==
  /\ op[c].at = "idle" /\ pool = <<>> /\ nextId <= MaxRows
  /\ op' = [op EXCEPT ![c] = [at |-> "row", code |-> NoCode]]
  /\ MaybeRefill(0)
  /\ UNCHANGED <<stores, job, removed>>

\* GetStartIndex.
ReadIndex(g) ==
  /\ refill[g].at = "read"
  /\ refill' = [refill EXCEPT ![g] =
        IF startIndex = Batches THEN NoRefill
        ELSE [at |-> "add", batch |-> startIndex, left |-> Batch(startIndex)]]
  /\ UNCHANGED <<stores, op, job, removed>>

\* Pool.Add appends, whatever the pool holds.
AddCode(g) ==
  /\ refill[g].at = "add" /\ refill[g].left # <<>>
  /\ pool' = Append(pool, Head(refill[g].left))
  /\ refill' = [refill EXCEPT ![g].left = Tail(@)]
  /\ UNCHANGED <<startIndex, rows, index, nextId, op, job, removed>>

\* SaveStartIndex, and Unlock.
SaveIndex(g) ==
  /\ refill[g].at = "add" /\ refill[g].left = <<>>
  /\ startIndex' = refill[g].batch + 1
  /\ refill' = [refill EXCEPT ![g] = NoRefill]
  /\ UNCHANGED <<pool, rows, index, nextId, op, job, removed>>

-----------------------------------------------------------------------------
(* The table: Create, Update, Remove. *)

\* Repo.Create.
RowCreate(c) ==
  /\ op[c].at = "row"
  /\ rows' = Put(rows, nextId, [code |-> op[c].code, status |-> "active", life |-> "fresh"])
  /\ index' = Put(index, op[c].code, nextId) /\ nextId' = nextId + 1
  /\ op' = [op EXCEPT ![c] = NoOp]
  /\ UNCHANGED <<pool, startIndex, refill, job, removed>>

\* GetByCode, by Update: the indexed row.
ReadRow(c, k) ==
  /\ op[c].at = "idle" /\ k \in DOMAIN index
  /\ op' = [op EXCEPT ![c] = [at |-> "save", code |-> k, id |-> index[k]]]
  /\ UNCHANGED <<stores, refill, job, removed>>

\* Repo.Update of a row that is still there: its code is indexed again.
Reindex(id, k) == index' = IF id \in DOMAIN rows THEN Put(index, k, id) ELSE index

\* The row gets its new link and expiry; Repo.Update refuses one that is gone.
RowSave(c) ==
  /\ op[c].at = "save"
  /\ Reindex(op[c].id, op[c].code)
  /\ rows' = IF op[c].id \in DOMAIN rows
             THEN [rows EXCEPT ![op[c].id].life = "fresh"] ELSE rows
  /\ op' = [op EXCEPT ![c] = NoOp]
  /\ UNCHANGED <<pool, startIndex, nextId, refill, job, removed>>

\* A variant of DeleteByCode that leaves the index alone.
DeleteByCodeIndexed(c, k) ==
  /\ op[c].at = "idle" /\ k \in DOMAIN index
  /\ rows' = Restrict(rows, DOMAIN rows \ {index[k]})
  /\ removed' = removed \cup {k}
  /\ UNCHANGED <<index, pool, startIndex, nextId, op, refill, job>>

\* DeleteByCode: the indexed row, no other row of the code.
DeleteByCode(c, k) ==
  /\ op[c].at = "idle" /\ k \in DOMAIN index
  /\ rows' = Restrict(rows, DOMAIN rows \ {index[k]})
  /\ index' = Restrict(index, DOMAIN index \ {k})
  /\ removed' = removed \cup {k}
  /\ UNCHANGED <<pool, startIndex, nextId, op, refill, job>>

-----------------------------------------------------------------------------
(* ExpireActives and RecycleExpires. *)

\* A variant of Due that looks at the expiry only.
DueByExpiry(j) ==
  IF j = "expire"
  THEN {id \in DOMAIN rows : rows[id].status = "active" /\ rows[id].life # "fresh"}
  ELSE {id \in DOMAIN rows : rows[id].life = "old"}

\* The rows FindExpiredActives and FindExpires ask for.
Due(j) ==
  IF j = "expire"
  THEN {id \in DOMAIN rows : rows[id].status = "active" /\ rows[id].life # "fresh"}
  ELSE {id \in DOMAIN rows : rows[id].status = "expired" /\ rows[id].life = "old"}

\* The pages they may return: due rows above an id, in any order, as many as there
\* are or the limit.
Pages(j, from) ==
  LET due == {id \in Due(j) : id > from}
  IN  UNION {{p \in [1 .. n -> due] :
                /\ IsInjective(p)
                /\ n = PageSize \/ (n < PageSize /\ Members(p) = due)} : n \in 1 .. PageSize}

\* The job gets such a page.
Take(j, from) ==
  \E p \in Pages(j, from) :
     job' = [job EXCEPT ![j] =
        [at |-> "each", from |-> p[Len(p)], n |-> 1,
         page |-> [i \in DOMAIN p |-> [id |-> p[i], code |-> rows[p[i]].code]]]]

\* A variant of PassStart that starts above the first id.
PassStartLate(j) ==
  /\ job[j].at = "idle" /\ Take(j, 1)
  /\ UNCHANGED <<stores, op, refill, removed>>

\* A pass starts below all ids.
PassStart(j) ==
  /\ job[j].at = "idle" /\ Take(j, 0)
  /\ UNCHANGED <<stores, op, refill, removed>>

\* It goes on above the id that came last on the page, and ends with an empty page.
PassNext(j) ==
  /\ job[j].at = "find"
  /\ \/ Take(j, job[j].from)
     \/ Pages(j, job[j].from) = {} /\ job' = [job EXCEPT ![j] = NoJob]
  /\ UNCHANGED <<stores, op, refill, removed>>

\* The next row of the page: its code goes back to the pool, or its redirect away,
\* and the row it was given, if it is still stored, gets its new status.
Each(j) ==
  /\ job[j].at = "each"
  /\ LET row == job[j].page[job[j].n] IN
     /\ pool' = IF j = "recycle" /\ row.code # NoCode
                THEN Append(pool, row.code) ELSE pool
     /\ rows' = IF row.id \in DOMAIN rows
                THEN [rows EXCEPT ![row.id].status =
                        IF j = "recycle" THEN "recycled" ELSE "expired"]
                ELSE rows
  /\ job' = [job EXCEPT
               ![j] = IF job[j].n < Len(job[j].page)
                      THEN [job[j] EXCEPT !.n = @ + 1]
                      ELSE [job[j] EXCEPT !.n = 1, !.at = "save"]]
  /\ UNCHANGED <<startIndex, index, nextId, op, refill, removed>>

\* Updates, row by row: a row that is gone ends the pass.
Save(j) ==
  /\ job[j].at = "save"
  /\ LET row == job[j].page[job[j].n] IN
     /\ Reindex(row.id, row.code)
     /\ job' = [job EXCEPT
                  ![j] = IF row.id \notin DOMAIN rows THEN NoJob
                         ELSE IF job[j].n < Len(job[j].page)
                         THEN [job[j] EXCEPT !.n = @ + 1]
                         ELSE [NoJob EXCEPT !.at = "find", !.from = job[j].from]]
  /\ UNCHANGED <<pool, startIndex, rows, nextId, op, refill, removed>>

Pass(j) == PassStart(j) \/ PassNext(j) \/ Each(j) \/ Save(j)

-----------------------------------------------------------------------------
(* RebuildCodePool, while nothing else runs, as in examples/rebuild_pool. *)

Quiet ==
  /\ \A c \in Clients : op[c].at = "idle"
  /\ \A g \in Refills : refill[g].at = "idle"
  /\ \A j \in Jobs : job[j].at = "idle"

\* The codes List returns: of the rows that are active or expired.  (NoCode is not
\* among the codes that were added.)
Used == {rows[id].code : id \in {i \in DOMAIN rows : rows[i].status # "recycled"}}

\* The queue of those codes, in the order of their batches.
InOrder(codes) ==
  {q \in UNION {[1 .. n -> codes] : n \in 0 .. startIndex * BatchSize} :
     /\ Members(q) = codes
     /\ \A i, j \in DOMAIN q : i < j => q[i] < q[j]}

\* A variant of Rebuild that leaves the last batch out.
RebuildShort ==
  /\ Quiet
  /\ pool' \in InOrder(1 .. (startIndex - 1) * BatchSize \ Used)
  /\ removed' = {}
  /\ UNCHANGED <<startIndex, rows, index, nextId, op, refill, job>>

\* Clear, Add of every code below the start index, Remove of those in use.
Rebuild ==
  /\ Quiet
  /\ pool' \in InOrder(1 .. startIndex * BatchSize \ Used)
  /\ removed' = {}
  /\ UNCHANGED <<startIndex, rows, index, nextId, op, refill, job>>

\* A link comes to its expiry, or a year has gone by since.
Age(id) ==
  /\ id \in DOMAIN rows /\ rows[id].life # "old"
  /\ rows' = [rows EXCEPT ![id].life = IF @ = "fresh" THEN "past" ELSE "old"]
  /\ UNCHANGED <<pool, startIndex, index, nextId, op, refill, job, removed>>

Next ==
  \/ \E c \in Clients :
        \/ Pull(c) \/ PullNone(c) \/ RowCreate(c) \/ RowSave(c)
        \/ c \in Editors /\ \E k \in Codes : ReadRow(c, k) \/ DeleteByCode(c, k)
  \/ \E g \in Refills : ReadIndex(g) \/ AddCode(g) \/ SaveIndex(g)
  \/ \E j \in Jobs : Pass(j)
  \/ Rebuild
  \/ \E id \in 1 .. MaxRows : Age(id)

Spec == Init /\ [][Next]_vars

-----------------------------------------------------------------------------
(* What the memory backends guarantee. *)

Row == [code : Codes \cup {NoCode}, status : {"active", "expired", "recycled"},
        life : {"fresh", "past", "old"}]

\* Codes, rows and jobs of their types; and the index leads from every code it
\* knows to a stored row of that code: GetByCode never returns nil, nor another
\* code's row (ext/memx/repo.go:137).
TypeOK ==
  /\ pool \in Seq(Codes) /\ startIndex \in 1 .. Batches
  /\ DOMAIN rows \subseteq 1 .. nextId - 1 /\ \A id \in DOMAIN rows : rows[id] \in Row
  /\ DOMAIN index \subseteq Codes \cup {NoCode}
  /\ \A k \in DOMAIN index : index[k] \in DOMAIN rows /\ rows[index[k]].code = k
  /\ \A j \in Jobs : \A i \in DOMAIN job[j].page : job[j].page[i].code \in Codes \cup {NoCode}
  /\ removed \subseteq Codes

Holders(k) == {c \in Clients : op[c].at = "row" /\ op[c].code = k}
Keepers(k) == {id \in DOMAIN rows : rows[id].code = k /\ rows[id].status # "recycled"}
Places(k)  == {i \in DOMAIN pool : pool[i] = k}

AtMostOne(S) == \A x, y \in S : x = y

\* A code is in the queue once, or held by one running Create, or kept by one row.
OwnedOnce(k) ==
  /\ AtMostOne(Places(k)) /\ AtMostOne(Holders(k)) /\ AtMostOne(Keepers(k))
  /\ Places(k) # {} => Holders(k) = {} /\ Keepers(k) = {}
  /\ Holders(k) # {} => Keepers(k) = {}

\* A queue does not merge what is added twice, as the set in Redis does.  Still
\* every code has one owner, whatever jobs, requests and rebuilds do, as long as no
\* two refills run at once (ext/memx/pool.go:102 grants a lock that is held).
CodesUnique == \A k \in Codes : OwnedOnce(k)

\* The rows of its page that a job has not come to.
Pend(j) == IF job[j].at = "each" THEN {i \in DOMAIN job[j].page : i >= job[j].n} ELSE {}

\* The ids whose code the recycler will give back, stored or not.
Returning(k) ==
  {job["recycle"].page[i].id :
     i \in {h \in Pend("recycle") : job["recycle"].page[h].code = k}}

Kept(k) == Keepers(k) \cup Returning(k)

Ownership ==
  INSTANCE CodeOwnership
    WITH promised <- TRUE, free <- Members(pool),
         holders <- [k \in Codes |-> Holders(k)],
         keepers <- [k \in Codes |-> Kept(k)]

\* Queue, Creates and rows in memory pass each code on as CodeOwnership says: a row the
\* recycler has copied, also one that is removed before its turn, gives its code back
\* once, when nobody else has it (cores/service.go:422, ext/memx/repo.go:112).
ImplementsOwnership == Ownership!Spec

\* No generated code is lost: it is in the queue, held, kept, or the code of a row
\* that was removed, which a rebuild brings back.
NothingLost ==
  \A k \in 1 .. startIndex * BatchSize :
     Places(k) # {} \/ Holders(k) # {} \/ Keepers(k) # {} \/ k \in removed

-----------------------------------------------------------------------------
(* Liveness.  The jobs are started every day, and go on.                      *)

FairSpec == Spec /\ \A j \in Jobs : WF_vars(Pass(j))

\* No due row waits for ever, though a page comes in random order and the pass goes
\* on above whatever id was its last (ext/memx/repo.go:161), and a row that is gone
\* ends the pass: a later pass takes what this one has skipped.
NoRowWaits ==
  \A id \in 1 .. MaxRows : \A j \in Jobs : (id \in Due(j)) ~> (id \notin Due(j))

=============================================================================
