----------------------------- MODULE CodeSupply -----------------------------
(***************************************************************************)
(* How short codes of one automatic length come into being and are handed  *)
(* out: Create / Add, batchGenerate and RebuildCodePool (cores/service.go) *)
(* over the Redis pool (ext/redisx/pool.go), the Redis cache and the       *)
(* database (ext/gormx/repo.go), each shared by every server instance.     *)
(*                                                                         *)
(* A process is one goroutine.  A creator runs Create calls, a refiller    *)
(* runs batchGenerate (spawned by a creator, or by a starting server), a   *)
(* rebuilder runs RebuildCodePool.  One step is one call on a shared       *)
(* store; everything between two calls is local to the goroutine.          *)
(*                                                                         *)
(* Faults.  A process of Faulty may die between any two calls (Crash) and  *)
(* a call of it may return an error, before or after it took effect: the   *)
(* error after the effect is the successful step followed by the error     *)
(* step, and a Create that fails returns at once, which is the same as     *)
(* dying there.  The Redis lock is a key with a time to live: it may lapse *)
(* while its holder still works (LockMayLapse) and always lapses once no   *)
(* holder is left.                                                         *)
(***************************************************************************)
EXTENDS CodeGenerator, FiniteSets

CONSTANTS
  CodeLength,    \* the code length this instance is about
  BatchSize,     \* batchGenerateSize: 100 by default
  PoolLow,       \* at most this many codes left is "not enough": 100
  PageSize,      \* rows per page of removeUsedCodesFromPool: 1000
  MaxLinks,      \* bound: no Create starts once this many rows are stored
  Creators, Refillers, Rebuilders,   \* goroutines
  Faulty,        \* the goroutines that may crash or see calls fail
  LockMayLapse,  \* the lock key may expire under a live holder
  TrafficStops   \* no Create runs while the pool is rebuilt

Workers == Refillers \cup Rebuilders
Procs   == Creators \cup Workers

ASSUME SizesAssumption ==
  /\ CodeLength \in Nat \ {0} /\ BatchSize \in Nat \ {0}
  /\ PoolLow \in Nat /\ PageSize \in Nat \ {0} /\ MaxLinks \in Nat

ASSUME ProcsAssumption ==
  /\ Creators \cap Workers = {} /\ Refillers \cap Rebuilders = {}
  /\ Faulty \subseteq Procs
  /\ LockMayLapse \in BOOLEAN /\ TrafficStops \in BOOLEAN

gen == NewShortCodeGenerator(CodeLength, BatchSize)

Positions == 1 .. BatchSize

\* The code at a position of the batch with a start index.
CodeAt(i, j) == BatchCodes(gen, i)[j]

Batch(i) == {CodeAt(i, j) : j \in Positions}

\* The start indexes whose batch batchGenerate may still generate.
Indexes == 0 .. gen.step

Codes == UNION {Batch(i) : i \in Indexes}

\* "" in the source: what Pull returns from an empty pool.
NoCode == <<>>

VARIABLES
  pool,        \* the members of the ZSet; ZPOPMIN may pop any of them
  lockKey,     \* whether the lock key exists
  startIndex,  \* the stored start index
  links,       \* the table: row id is the index, its value the row's code
  cache,       \* the codes the redirect hash maps to a link
  pc,          \* the call each process makes next
  code,        \* Create's local: the code pulled
  idx,         \* startIndex of a refill; the loop's startIndex of a rebuild
  pos,         \* position of the next code of the batch being added
  end,         \* RebuildCodePool's currentStartIndex
  from,        \* removeUsedCodesFromPool's fromID
  page         \* the ids of the page still to be removed from the pool

stores == <<pool, lockKey, startIndex, links, cache>>
locals == <<code, idx, pos, end, from, page>>
vars   == <<stores, pc, locals>>

CreatorPc  == {"idle", "size", "cache", "row"}
RefillPc   == {"idle", "lock", "index", "add", "save", "unlock"}
RebuildPc  == {"idle", "lock", "clear", "bound", "regenerate", "list", "remove",
               "unlock"}
CriticalPc == (RefillPc \cup RebuildPc) \ {"idle", "lock"}

Critical(p) == pc[p] \in CriticalPc

Linked == {links[id] : id \in DOMAIN links}

Held == {code[c] : c \in {d \in Creators : pc[d] # "idle"}}

Init ==
  /\ pool = {} /\ lockKey = FALSE /\ startIndex = 0
  /\ links = <<>> /\ cache = {}
  /\ pc = [p \in Procs |-> "idle"]
  /\ code = [c \in Creators |-> NoCode]
  /\ idx = [w \in Workers |-> 0] /\ pos = [w \in Workers |-> 1]
  /\ end = [w \in Workers |-> 0] /\ from = [w \in Workers |-> 0]
  /\ page = [w \in Workers |-> {}]

Goto(p, where) == pc' = [pc EXCEPT ![p] = where]

-----------------------------------------------------------------------------
(* Create: pull a code, ask for a refill if few are left, map it, store it. *)

\* The control state after c went on to where and started `go batchGenerate`:
\* an idle refiller stands for the new goroutine (none idle: Refillers bounds
\* the goroutines that are alive at once).
GotoAndRefill(c, where) ==
  LET idle == {r \in Refillers : pc[r] = "idle"}
  IN  IF idle = {} THEN Goto(c, where)
      ELSE \E r \in idle : pc' = [pc EXCEPT ![c] = where, ![r] = "lock"]

CanCreate(c) ==
  /\ pc[c] = "idle"
  /\ Len(links) < MaxLinks
  /\ TrafficStops => \A b \in Rebuilders : pc[b] = "idle"

\* A variant of Pull that reads the first member and leaves it in the pool.
PullWithoutPop(c) ==
  /\ CanCreate(c) /\ pool # {}
  /\ \E k \in pool : code' = [code EXCEPT ![c] = k]
  /\ Goto(c, "size")
  /\ UNCHANGED <<stores, idx, pos, end, from, page>>

\* ZPOPMIN finds a code.
Pull(c) ==
  /\ CanCreate(c) /\ pool # {}
  /\ \E k \in pool : pool' = pool \ {k} /\ code' = [code EXCEPT ![c] = k]
  /\ Goto(c, "size")
  /\ UNCHANGED <<lockKey, startIndex, links, cache, idx, pos, end, from, page>>

\* ZPOPMIN finds none: "", not enough and no error, and Create goes on.
PullEmpty(c) ==
  /\ CanCreate(c) /\ pool = {}
  /\ code' = [code EXCEPT ![c] = NoCode]
  /\ GotoAndRefill(c, "cache")
  /\ UNCHANGED <<stores, idx, pos, end, from, page>>

\* ZCARD; a Faulty creator may see it fail, which counts as not enough.
PoolSize(c) ==
  /\ pc[c] = "size"
  /\ \/ Cardinality(pool) > PoolLow /\ Goto(c, "cache")
     \/ Cardinality(pool) <= PoolLow /\ GotoAndRefill(c, "cache")
     \/ c \in Faulty /\ GotoAndRefill(c, "cache")
  /\ UNCHANGED <<stores, locals>>

CacheAdd(c) ==
  /\ pc[c] = "cache"
  /\ cache' = cache \cup {code[c]}
  /\ Goto(c, "row")
  /\ UNCHANGED <<pool, lockKey, startIndex, links, locals>>

RowCreate(c) ==
  /\ pc[c] = "row"
  /\ links' = Append(links, code[c])
  /\ code' = [code EXCEPT ![c] = NoCode]
  /\ Goto(c, "idle")
  /\ UNCHANGED <<pool, lockKey, startIndex, cache, idx, pos, end, from, page>>

Create(c) == Pull(c) \/ PullEmpty(c) \/ PoolSize(c) \/ CacheAdd(c) \/ RowCreate(c)

-----------------------------------------------------------------------------
(* The lock.  Lock's other path, GET and retry when the key is gone or its *)
(* value is past, is LockLapse followed by this step.                      *)

\* A variant of Lock that, like ext/memx/pool.go:102, never reports a holder.
LockUnchecked(w, first) ==
  /\ pc[w] = "lock"
  /\ lockKey' = TRUE /\ Goto(w, first)
  /\ UNCHANGED <<pool, startIndex, links, cache, locals>>

\* SETNX; a key that exists is ErrPoolLocked, and the caller gives up.
Lock(w, first) ==
  /\ pc[w] = "lock"
  /\ lockKey' = TRUE
  /\ Goto(w, IF lockKey THEN "idle" ELSE first)
  /\ UNCHANGED <<pool, startIndex, links, cache, locals>>

\* The worker returns: its locals are gone.
Return(w) ==
  /\ Goto(w, "idle")
  /\ idx' = [idx EXCEPT ![w] = 0] /\ pos' = [pos EXCEPT ![w] = 1]
  /\ end' = [end EXCEPT ![w] = 0] /\ from' = [from EXCEPT ![w] = 0]
  /\ page' = [page EXCEPT ![w] = {}]
  /\ UNCHANGED code

\* DEL, whoever holds the key.
Unlock(w) ==
  /\ pc[w] = "unlock"
  /\ lockKey' = FALSE
  /\ Return(w)
  /\ UNCHANGED <<pool, startIndex, links, cache>>

\* A variant of LockLapse: a key without a time to live.
LockNeverLapses == FALSE /\ UNCHANGED vars

\* A variant of LockLapse: a time to live shorter than a refill.
LockLapsesEarly ==
  /\ lockKey
  /\ lockKey' = FALSE
  /\ UNCHANGED <<pool, startIndex, links, cache, pc, locals>>

\* The key's time to live is over.
LockLapse ==
  /\ lockKey
  /\ LockMayLapse \/ \A w \in Workers : ~Critical(w)
  /\ lockKey' = FALSE
  /\ UNCHANGED <<pool, startIndex, links, cache, pc, locals>>

-----------------------------------------------------------------------------
(* batchGenerate. *)

\* A server starts: NewShortLinkService refills a pool that is low.
Startup(r) ==
  /\ pc[r] = "idle"
  /\ Cardinality(pool) < PoolLow
  /\ Goto(r, "lock")
  /\ UNCHANGED <<stores, locals>>

\* A variant of ReadIndex that goes on when the length is exhausted.
ReadIndexUnchecked(r) ==
  /\ pc[r] = "index"
  /\ idx' = [idx EXCEPT ![r] = startIndex]
  /\ Goto(r, "add")
  /\ UNCHANGED <<stores, code, pos, end, from, page>>

\* GetStartIndex and GenerateBatchNumbers.
ReadIndex(r) ==
  /\ pc[r] = "index"
  /\ IF Exhausted(gen, startIndex)
     THEN Goto(r, "unlock") /\ UNCHANGED idx
     ELSE Goto(r, "add") /\ idx' = [idx EXCEPT ![r] = startIndex]
  /\ UNCHANGED <<stores, code, pos, end, from, page>>

\* ZADD of the next code of the batch; after the last one, on to the index.
AddCode(r) ==
  /\ pc[r] = "add"
  /\ pool' = pool \cup {CodeAt(idx[r], pos[r])}
  /\ IF pos[r] < BatchSize
     THEN pos' = [pos EXCEPT ![r] = pos[r] + 1] /\ UNCHANGED pc
     ELSE Goto(r, "save") /\ UNCHANGED pos
  /\ UNCHANGED <<lockKey, startIndex, links, cache, code, idx, end, from, page>>

\* A variant of SaveIndex that saves the index it read.
SaveIndexStale(r) ==
  /\ pc[r] = "save"
  /\ startIndex' = idx[r]
  /\ Goto(r, "unlock")
  /\ UNCHANGED <<pool, lockKey, links, cache, locals>>

\* SaveStartIndex of the index read under the lock, plus one.
SaveIndex(r) ==
  /\ pc[r] = "save"
  /\ startIndex' = idx[r] + 1
  /\ Goto(r, "unlock")
  /\ UNCHANGED <<pool, lockKey, links, cache, locals>>

\* A variant of RefillFails that leaves the loop but still saves the index.
RefillFailsButSaves(r) ==
  /\ r \in Faulty /\ pc[r] \in {"index", "add", "save"}
  /\ Goto(r, "save")
  /\ UNCHANGED <<stores, locals>>

\* GetStartIndex, Pool.Add or SaveStartIndex fails: return, Unlock deferred.
RefillFails(r) ==
  /\ r \in Faulty /\ pc[r] \in {"index", "add", "save"}
  /\ Goto(r, "unlock")
  /\ UNCHANGED <<stores, locals>>

Refill(r) ==
  \/ Startup(r)
  \/ Lock(r, "index")
  \/ ReadIndex(r) \/ AddCode(r) \/ SaveIndex(r) \/ RefillFails(r)
  \/ Unlock(r)

-----------------------------------------------------------------------------
(* RebuildCodePool. *)

RebuildStart(b) ==
  /\ pc[b] = "idle"
  /\ TrafficStops => \A c \in Creators : pc[c] = "idle"
  /\ Goto(b, "lock")
  /\ UNCHANGED <<stores, locals>>

\* DEL of the whole ZSet.
ClearPool(b) ==
  /\ pc[b] = "clear"
  /\ pool' = {}
  /\ Goto(b, "bound")
  /\ UNCHANGED <<lockKey, startIndex, links, cache, locals>>

\* GetStartIndex: the batches 0 .. end - 1 are to be restored.
ReadBound(b) ==
  /\ pc[b] = "bound"
  /\ end' = [end EXCEPT ![b] = startIndex]
  /\ Goto(b, IF startIndex = 0 THEN "list" ELSE "regenerate")
  /\ UNCHANGED <<stores, code, idx, pos, from, page>>

\* The two loops go on to the next code, the next batch, or the listing.
\* (GenerateBatchNumbers cannot fail here: idx < end <= step + 1.)
NextCode(b) ==
  IF pos[b] < BatchSize
  THEN pos' = [pos EXCEPT ![b] = pos[b] + 1] /\ UNCHANGED <<idx, pc>>
  ELSE /\ pos' = [pos EXCEPT ![b] = 1]
       /\ idx' = [idx EXCEPT ![b] = idx[b] + 1]
       /\ Goto(b, IF idx[b] + 1 < end[b] THEN "regenerate" ELSE "list")

\* ZADD of the next code; a failed call is logged and skipped.
Regenerate(b) ==
  /\ pc[b] = "regenerate"
  /\ \/ pool' = pool \cup {CodeAt(idx[b], pos[b])}
     \/ b \in Faulty /\ UNCHANGED pool
  /\ NextCode(b)
  /\ UNCHANGED <<lockKey, startIndex, links, cache, code, end, from, page>>

\* A code that is not "" has the length the rows are listed by.
OfLength(id) == Len(links[id]) = CodeLength

\* The ids of the rows of this length after an id, and the first page of them.
\* (Rows here are active: neither removal nor recycling is in this module.)
Later(id) == {i \in DOMAIN links : i > id /\ OfLength(i)}

PageAfter(id) ==
  {i \in Later(id) : Cardinality({k \in Later(id) : k < i}) < PageSize}

\* A page is at hand; its last id starts the next one.
TakePage(b) ==
  /\ page' = [page EXCEPT ![b] = PageAfter(from[b])]
  /\ \E last \in PageAfter(from[b]) :
        /\ \A id \in PageAfter(from[b]) : id <= last
        /\ from' = [from EXCEPT ![b] = last]
  /\ Goto(b, "remove")

\* A variant of ListPage that never looks for a second page.
ListPageOnce(b) ==
  /\ pc[b] = "list"
  /\ IF from[b] > 0 \/ Later(from[b]) = {}
     THEN Goto(b, "unlock") /\ UNCHANGED <<from, page>>
     ELSE TakePage(b)
  /\ UNCHANGED <<stores, code, idx, pos, end>>

\* List: a page without rows ends the rebuild.
ListPage(b) ==
  /\ pc[b] = "list"
  /\ IF Later(from[b]) = {}
     THEN Goto(b, "unlock") /\ UNCHANGED <<from, page>>
     ELSE TakePage(b)
  /\ UNCHANGED <<stores, code, idx, pos, end>>

\* ZREM of the code of the page's next row; a failed call is skipped.
RemoveUsed(b) ==
  /\ pc[b] = "remove"
  /\ \E id \in page[b] :
        /\ \A k \in page[b] : id <= k
        /\ \/ pool' = pool \ {links[id]}
           \/ b \in Faulty /\ UNCHANGED pool
        /\ page' = [page EXCEPT ![b] = page[b] \ {id}]
        /\ Goto(b, IF page[b] = {id} THEN "list" ELSE "remove")
  /\ UNCHANGED <<lockKey, startIndex, links, cache, code, idx, pos, end, from>>

\* Clear, GetStartIndex or List fails: return, Unlock deferred.
RebuildFails(b) ==
  /\ b \in Faulty /\ pc[b] \in {"clear", "bound", "list"}
  /\ Goto(b, "unlock")
  /\ UNCHANGED <<stores, locals>>

Rebuild(b) ==
  \/ RebuildStart(b)
  \/ Lock(b, "clear")
  \/ ClearPool(b) \/ ReadBound(b) \/ Regenerate(b)
  \/ ListPage(b) \/ RemoveUsed(b) \/ RebuildFails(b)
  \/ Unlock(b)

-----------------------------------------------------------------------------
\* A goroutine stops where it is, alone or with its whole server; what it did
\* to the shared stores stays.
CrashCreator(c) ==
  /\ c \in Faulty /\ pc[c] # "idle"
  /\ Goto(c, "idle")
  /\ code' = [code EXCEPT ![c] = NoCode]
  /\ UNCHANGED <<stores, idx, pos, end, from, page>>

CrashWorker(w) ==
  /\ w \in Faulty /\ pc[w] # "idle"
  /\ Return(w)
  /\ UNCHANGED stores

Next ==
  \/ \E c \in Creators : Create(c) \/ CrashCreator(c)
  \/ \E r \in Refillers : Refill(r)
  \/ \E b \in Rebuilders : Rebuild(b)
  \/ \E w \in Workers : CrashWorker(w)
  \/ LockLapse

Spec == Init /\ [][Next]_vars

-----------------------------------------------------------------------------
(* What the supply guarantees.  Which of the fault assumptions a property   *)
(* needs is said by the runs that check it.                                 *)

StoresOK ==
  /\ pool \subseteq Codes
  /\ lockKey \in BOOLEAN
  /\ startIndex \in 0 .. gen.step + 1
  /\ links \in Seq(Codes \cup {NoCode})
  /\ cache \subseteq Codes \cup {NoCode}

PcOK ==
  /\ pc \in [Procs -> CreatorPc \cup RefillPc \cup RebuildPc]
  /\ \A c \in Creators : pc[c] \in CreatorPc
  /\ \A r \in Refillers : pc[r] \in RefillPc
  /\ \A b \in Rebuilders : pc[b] \in RebuildPc

LocalsOK ==
  /\ code \in [Creators -> Codes \cup {NoCode}]
  /\ idx \in [Workers -> 0 .. gen.step + 1]
  /\ pos \in [Workers -> Positions]
  /\ end \in [Workers -> 0 .. gen.step + 1]
  /\ from \in [Workers -> Nat]
  /\ page \in [Workers -> SUBSET (Nat \ {0})]

\* Every store, control state and local has its type; among them the bound of
\* the start index that cores/gen.go:41 sets, one past the step.
TypeOK == StoresOK /\ PcOK /\ LocalsOK

\* At most one refill or rebuild is between Lock and Unlock (cores/service.go:319
\* and 449), and while it is, the key exists: nothing deletes it under its holder.
MutualExclusion ==
  \A v, w \in Workers : Critical(v) => lockKey /\ (Critical(w) => v = w)

\* The stored start index never goes back (cores/service.go:350 writes the index
\* it read before it added a whole batch): a step back would generate batches
\* again whose codes are already given out.
StartIndexNeverRegresses == [][startIndex' >= startIndex]_vars

Generated == UNION {Batch(i) : i \in 0 .. startIndex - 1}

\* No code is lost: unless a rebuild has cleared the pool and not yet restored
\* it, each code of a batch the start index has passed is in the pool, in the
\* hands of a Create, or stored with a link.  A refill that fails half way
\* (cores/service.go:342) must not advance the index past the codes it dropped,
\* and a rebuild must restore what it cleared (cores/service.go:456).
NothingLost ==
  (\A b \in Rebuilders : pc[b] \notin {"bound", "regenerate"}) =>
     Generated \subseteq pool \cup Held \cup Linked

\* The batch at start index step has been started: it repeats earlier codes.
Wrapped ==
  \/ startIndex > gen.step
  \/ \E r \in Refillers : pc[r] \in {"add", "save"} /\ idx[r] >= gen.step

\* A code is given to one Create only: no two rows and no two running Creates
\* have the same code, and no running Create has that of a row.  This is what
\* the lock, the order of Add and SaveStartIndex and the removal of used codes
\* are for (doc/design.md:420: short codes are guaranteed to be unique).
GivenOutOnce ==
  /\ \A i, k \in DOMAIN links : links[i] = links[k] => i = k \/ links[i] = NoCode
  /\ Held \cap Linked \subseteq {NoCode}
  /\ \A c, d \in Creators : code[c] = code[d] => c = d \/ code[c] = NoCode

UniqueUntilWrap == ~Wrapped => GivenOutOnce

\* Between the clearing of the pool and its end a rebuild has used codes in it.
Rebuilding ==
  \E b \in Rebuilders : pc[b] \in {"regenerate", "list", "remove"}

HoldersOf(k) == {c \in Creators : code[c] = k}

KeepersOf(k) == {id \in DOMAIN links : links[id] = k}

Ownership ==
  INSTANCE CodeOwnership
    WITH promised <- ~Wrapped,
         free <- IF Rebuilding THEN {} ELSE pool,
         holders <- [k \in Codes |-> HoldersOf(k)],
         keepers <- [k \in Codes |-> KeepersOf(k)]

\* Until the batches repeat, each code passes from the pool to one Create and to one
\* row, as CodeOwnership says: no refill and no rebuild offers a code that a Create
\* or a row has (cores/service.go:319, 449), and no two Creates pull the same.
ImplementsOwnership == Ownership!Spec

\* When a rebuild reaches Unlock, the pool is exactly what it should have been:
\* the generated codes no stored link uses (cores/service.go:438-439), also those
\* a Create took from the pool and never stored.
RebuildExact ==
  \A b \in Rebuilders : pc[b] = "unlock" => pool = Generated \ Linked

\* Create takes a code from the pool after it was refilled (doc/design.md:139-140),
\* so no link is stored under the empty code.
EveryLinkHasACode == NoCode \notin Linked

-----------------------------------------------------------------------------
(* Liveness.  A running goroutine is scheduled, and Redis expires keys; no  *)
(* client has to call Create or RebuildCodePool and no server has to start. *)

CreatorStep(c) == PoolSize(c) \/ CacheAdd(c) \/ RowCreate(c)

RefillStep(r) ==
  Lock(r, "index") \/ ReadIndex(r) \/ AddCode(r) \/ SaveIndex(r) \/ Unlock(r)

RebuildStep(b) ==
  \/ Lock(b, "clear") \/ ClearPool(b) \/ ReadBound(b) \/ Regenerate(b)
  \/ ListPage(b) \/ RemoveUsed(b) \/ Unlock(b)

Fairness ==
  /\ \A c \in Creators : WF_vars(CreatorStep(c))
  /\ \A r \in Refillers : WF_vars(RefillStep(r))
  /\ \A b \in Rebuilders : WF_vars(RebuildStep(b))
  /\ WF_vars(LockLapse)

FairSpec == Spec /\ Fairness

\* A held lock is always free again, also when its holder died or its Unlock
\* was lost (ext/redisx/pool.go:136 gives the key a time to live).
LockEventuallyFree == lockKey ~> ~lockKey

\* A refill that has the lock and is not refused by the generator makes a new
\* batch available: it is not undone by another refill or a rebuild.
RefillAdvances ==
  \A r \in Refillers : \A i \in Indexes :
     (pc[r] = "index" /\ startIndex = i) ~> startIndex > i

=============================================================================
