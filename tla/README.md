# A TLA+ model of vshortlink

vshortlink turns long URLs into short codes and redirects the codes. This
directory holds its model: TLA+ modules translated from the Go source, TLC
configurations that check them on small instances, and theorems that TLAPS
proves for every value of the constants.

## The system

| Component | State it keeps | Operations |
|---|---|---|
| Code generator (`cores/gen.go`, `cores/util.go`) | none: a step and a batch size per code length | `GenerateBatchNumbers`, `ToBase62`, `FromBase62` |
| Service (`cores/service.go`) | none of its own that is shared; goroutines | `Create`, `Add`, `Update`, `Remove`, `batchGenerate`, `ExpireActives`, `RecycleExpires`, `RebuildCodePool`, `Close` |
| Pool (`ext/redisx/pool.go`) | per length: a ZSet of free codes and a lock key with a time to live | `Pull`, `Add`, `Remove`, `Size`, `Clear`, `Lock`, `Unlock` |
| Repository (`ext/gormx/repo.go`) | the table of links, the start index per length | `Create`, `Update`, `Updates`, `DeleteByCode`, `GetByCode`, `List`, `FindExpiredActives`, `FindExpires`, `GetStartIndex`, `SaveStartIndex` |
| Cache (`ext/redisx/cache.go`) | per length: a hash from code to link and expiry | `Get` (removes what it finds expired), `Add`, `Remove` |
| Redirects (`cores/http.go`, `cores/lru.go`) | an in-memory LRU with a five-minute lifetime | `HttpHandle`, the management handlers |
| Statistics (`cores/stats_recorder.go`, `ext/*/stats.go`) | a bounded channel, a merge map, daily counts | `Record`, `run`, `drain`, `flushNow`, `IncrBatch`, `Get` |
| In-memory backends (`ext/memx`) | the same stores in one process | the same operations |

How they interact: every server instance runs the service over one Redis and
one database, which all instances share. `Create` pulls a code from the pool,
starts a refill in the background when few are left, maps the code in the cache
and stores a row. A refill takes the pool's lock, reads the start index, adds
the batch that belongs to it, code by code, saves the index plus one and
unlocks. A rebuild takes the same lock, clears the pool, restores every batch
below the start index and removes the codes that rows use. Two daily jobs move
rows from active to expired and from expired to recycled; recycling puts the
code back into the pool. A redirect asks the LRU, then the cache, and records a
hit for the statistics.

What makes this hard to get right is that no operation is atomic: each is a
sequence of calls on two or three stores, any of which may fail, with other
instances' calls in between, under a lock that `Create` does not take, that has
no owner and that expires by itself. The hazards are listed line by line in
`PROJECT.json`. What makes each component correct:

* generator: batches do not meet, fit the length, leave no hole;
* supply: no code is given to two links, no code is lost, the start index never
  goes back, the lock is exclusive and always free again, a rebuild is exact;
* lock: one worker at a time fills a pool, and a dead one does not stop the others;
* lifecycle: a code has one owner at a time, a row and its mapping agree, and the
  codes of expired links come back;
* redirects: a code redirects to the link last stored, up to the known delays;
* statistics: every recorded hit is stored once, dropped and counted, or still
  in the buffer, and a query misses none of those stored for its days.

## Modules

| Module | Extends, instantiates | What it models |
|---|---|---|
| `CodeGenerator` | | the generator and the conversions, as operators |
| `MCCodeGenerator` | `CodeGenerator` | a machine that asks a generator for one batch after the other |
| `CodeOwnership` | | what becomes of a code, whatever stores it lies in |
| `CodeSupply`, `MCCodeSupply` | `CodeGenerator`, instantiates `CodeOwnership` | `Create`, `batchGenerate`, `RebuildCodePool` |
| `Mutex` | | what the pool's lock promises |
| `PoolLock`, `MCPoolLock` | instantiates `Mutex` | `Lock` and `Unlock` with clocks |
| `LinkLifecycle`, `MCLinkLifecycle` | instantiates `CodeOwnership` | `Create`, `Add`, `Update`, `Remove`, the two daily jobs, the lazy removal of redirects |
| `RedirectCache` | | redirects, the LRU and the store of mappings |
| `StatsRecorder` | | the buffered recorder and `Close` |
| `StatsDays`, `MCStatsRecorder` | `StatsRecorder` | the daily tables under it, their expiry, the queries |
| `MemoryBackend`, `MCMemoryBackend` | instantiates `CodeOwnership` | the service over `ext/memx` |
| `CodeSupplyProofs`, `PoolLockProofs`, `LinkLifecycleProofs`, `RedirectCacheProofs`, `MemoryBackendProofs`, `StatsDaysProofs` | the module of their name | theorems; those about `StatsRecorder` are in `StatsDaysProofs` |
| `CodeGeneratorProofs` | `MCCodeGenerator` | theorems about the generator and the conversions |
| `Recursion` | | induction over numbers, and what a recursive function is |

In all of them a step is one call on a shared store, or what happens under one
mutex, together with the assignments around it; `pc`, `op`, `job`, `visit`, `at`
say which call a goroutine makes next. `PROJECT.json` gives the source lines of
every definition. Definitions that begin "A variant of" are plausible mistakes:
no `Next` uses them, they are there to show that the properties would notice.

**CodeGenerator.** A code is the sequence of its digits; the alphabet's size
`Base` is a constant. Numbers do not wrap: lengths up to 10 fit `int64`.

**CodeOwnership.** Three modules look at the same codes from different sides, and each
implements this one under its own mapping. A code is `free`, held by one Create
(`holders`), or kept by one row (`keepers`); `Take`, `Store`, `Drop` and `GiveBack` are
the only ways from one to the other, and only nobody's code is offered. In
`CodeSupply` a code that a rebuild has put back and not yet sifted counts as not
free, and `promised` ends with the batch at start index step. In `LinkLifecycle` and
`MemoryBackend` a row keeps its code also while an Update or a page may still write it
back or give it back (`Claims`, `Kept`), so that removed rows do not hide an owner.

**CodeSupply.** Creators, refillers and rebuilders are goroutines; `pool`,
`lockKey`, `startIndex`, `links`, `cache` are the shared stores, the other
variables are locals of the Go functions. ZPOPMIN may pop any member: scores are
whole seconds and a batch is usually added in one. The goroutines in `Faulty` may
die between any two calls and may see any call fail, before or after it took
effect (the failure after the effect is the step of the call followed by the step
of the failure). A dead worker leaves the lock key; the key lapses when no live
worker is inside (`LockLapse`), and at any time if `LockMayLapse`. That it does not
lapse under a worker in time is what `PoolLock` shows; there the GET, the comparison, the
DEL and the second SETNX of `Lock` are steps of their own, which `CodeSupply` folds
into `LockLapse` and `Lock`. With `TrafficStops` rebuilds and Creates do not overlap.

**PoolLock.** `Lock` in full: SETNX, else GET, else compare the stamped end with
the clock, DEL and try again. Times are what is left until now. `skew`, up to
`MaxSkew`, stands for clocks that differ, for a SETNX that arrives after the end was
computed, and for the cut to seconds. `reliable` turns false when a worker stays
longer than `Limit`, or when a DEL meets a key other than the one its worker has
read; from then on nothing is promised. `ImplementsMutex` maps the workers inside
and `reliable` to the variables of `Mutex`.

**LinkLifecycle.** `rows` is the table (all columns that matter), `mapping` the Redis
hash, `pool` the codes to hand out; `op` is a client's request with what it has
read, `job` a job's page with what it has read. A life is a row's expiry minus
the clock, in days; `Tick` is a day going by, while nothing is under way (a pass
takes less than a day). `auto`, chosen at the start, says which codes have an
automatic length. Deaths and failing calls are `FailClient`, `FailJob`,
`UnmapFails`. `Save` in gorm is an upsert, so `RowSave` and `SavePage` bring rows
back that were removed. A redirect matters here when it finds a mapping expired: it
deletes, in a second call, whatever is mapped by then (`GetFindsExpired`,
`GetRemoves`). `Update` takes a row of any status and age, a manual create any code, as
in the source; any number of servers run their jobs on the same rows.

Three variables are history. `overlapped` has the requests and pages that met another on
their code, `suspect` the codes about which table and hash may disagree because of
that, or of a failure, until an Update of an active link, a creation or a removal that
runs alone has put them in order. `strayed` has the codes that the program itself
has taken off their round, each at the step that does it (`Strays`), and these are all:

* `CheckManual` of a code of the generator;
* `ReadRow` of a row that is a year past its expiry, or about to be (`Late`), as the recycler
  may have it, or take it, before the row is written back;
* `FailJob` of a recycler that has given back codes of its page (`Returned`), whose
  rows stay expired;
* `TakePage` of a row, a year past its expiry, that another server's job of the same kind
  has on its page (`Shared`).

What a code that has strayed may come to is under Findings; of all others the
properties speak without conditions on requests, failures or servers.

**RedirectCache.** `backend` is "redis" or "memory", chosen at the start. Over Redis
the lazy removal of `Get` is a second call (`GetRemoves`); in memory it happens
under the read lock, which keeps writers out but not other readers: one deletes from a Go
map that another reads or deletes from (`ConcurrentAccess`), which the runtime answers
with a fatal error, at its choice. Other codes exist only in that they may evict this
one (`Evict`). A request takes at most `Latency` ticks. `since` is history.

**StatsRecorder, StatsDays.** The channel is the number of times it holds each code
(the merge map forgets the order); `pc` says where `run` is; `recorded`,
`rejected`, `lost`, `reported`, `before` and `accepted` are history. `IncrBatch` is a
Redis pipeline, so a failed one may have counted any of its codes, and may have
failed before EXPIRE. `StatsDays` adds the tables by age, `FlushStarts` (the day is
taken before the call), `Midnight` and `TableExpires`; every other step is one of
`StatsRecorder` that leaves the days alone, so `DaysSpec` implements
`StatsRecorder!Spec`. `Exit` is the server program's `log.Fatal`.

**MemoryBackend.** The same service over one process: the pool is a sequence that
may hold a code twice, the lock is always granted, a row is found through an index
from codes, pages come in the order of a Go map, and a job that sets a field of a
row it was given changes the stored row at once. The empty queue hands out
`NoCode`, which belongs to a length of its own. `RebuildCodePool` is one step, while
nothing else runs, as the example does it.

## Runs

| Run | Instance | Question |
|---|---|---|
| `generator` | `Base` 3, lengths 1-3, all batch sizes to 9 with a step of at least 1 | round trip, range, disjointness, no holes |
| `supply_faults` | 2 creators, 2 faulty refillers, 1 rebuilder, overlap | types, mutual exclusion, no code is lost, the index never regresses |
| `supply_unique` | 2 faulty creators, 2 refillers, 1 rebuilder, no overlap | codes change hands as `CodeOwnership` says; no code is given out twice; the rebuild is exact |
| `supply_live` | 1 creator, 2 refillers, 1 faulty rebuilder, fairness | the lock is freed; a refill that has the lock advances |
| `pool_lock` | 3 workers, a lock of 4 ticks, clocks 2 ticks apart, fairness | the lock implements `Mutex`; the worker inside keeps its key; the key goes |
| `lifecycle` | 2 clients (one faulty, it also creates links by hand), an expirer, a faulty recycler, 2 creates, a year of one day, pages of one row, fairness | types, one owner per code, `CodeOwnership`, table and hash agree, codes come back |
| `redirect` | both backends, 2 servers, 2 visitors, an LRU of 2 ticks, requests of 1, 3 edits, fairness | bounded staleness, who may end a mapping, every server comes to the last link |
| `recorder` | 2 codes, a channel of one, 3 hits, both backends, a retention of one day, failing flushes, Close, exit, fairness | conservation of hits, complete queries, clean shutdown, no hit waits for ever, Close returns |
| `memory` | 2 clients, one refill, both jobs, 2 batches of one code, 2 rows, pages of one row, fairness | types and index, one owner per code, `CodeOwnership`, no code is lost, no due row waits for ever |
| `supply_empty_pool`, `recorder_exit`, `lifecycle_two_servers` | as named | violated, see below |

Bounds. `CodeSupply` runs with `Base` 5, one digit and batches of two: step 2,
batches {0, 2} and {1, 3}, then {2, 4} at start index step, which repeats a code,
then exhaustion. So refills below the step, the wrapping one and the refused one
all occur. `MaxLinks` stops new Creates after two rows, which with two creators
gives up to three rows: two codes can clash, and with pages of one row a rebuild
lists more than one page. `PoolLow` is 1 (100 in the source), so a pool is both low
and not low; in `supply_live` it is above the number of codes, so a starting server
always refills. At most one refill per refiller process is alive: a spawn when all
are busy is dropped, which the source would turn into one more `ErrPoolLocked` or
one more refill in turn.

`PoolLock`: with three workers one can be inside, one about to delete and one about
to set; a difference of two clocks makes keys that are over for one server and not
for another; `Overtime` lets workers stay until their lock is as good as over.

`LinkLifecycle` (606,000 states): one code is enough, as properties are about one
code; it is linked, expired, recycled and linked again within two creates, renewed
at any time, while the other client edits it or a redirect removes it. Two rows of one
code occur (a recycled one and its successor, or two manual ones), so a page and a pass
have a next. A year of one day keeps expired and a year expired apart, so does the single
term, which renews a link for one day. With one link and one term a mapping and a row
differ in the day they end; two Updates on one day write the same. That Updates write
different links, or past expiries, that two servers run two jobs of each kind, and that
the expirer fails too, was checked apart, each with fewer clients, rows or failures to
stay in reach: safety and `ImplementsOwnership` with `Links = {l1, l2}` and `Faulty = {r1}` (7.3
million states), with `Terms = {-2, 0}`, pages of two rows and one create (3.2 million),
with two expirers and two recyclers next to one client (690,000). The theorems
cover all of it. `lifecycle_two_servers` shows what happens when jobs meet.

`RedirectCache` (420,000 states): lives of 0 and for ever, so that mappings end
while requests are under way; three edits are a mapping, its end and its renewal.
The recorder (550,000 states) runs with a channel of one place, so a second hit
before a receive is dropped, and three hits, so one flush merges two and hits
arrive while another flush runs and after Close; one day of retention has a today,
a yesterday and a last day. `MemoryBackend` (340,000 states): two batches of one
code, so that each refill adds a batch and the pool is empty in between.

Fairness, and why the code justifies it:

* `supply_live`: a goroutine that is between two calls goes on, and Redis expires
  keys: weak fairness on the steps of each started operation and on `LockLapse`.
  Nothing is assumed of clients, of servers starting, or of failures. The faulty
  rebuilder may die inside and leave the key.
* `pool_lock`: weak fairness of `Expire` and `Tick` only; no worker has to return.
* `lifecycle`: a daily timer starts the jobs and their calls return (weak fairness
  of a pass). A job that may fail, the recycler here, does not fail for ever in the same
  place: strong fairness of its last call on a page and of the save. Clients owe nothing.
* `redirect`: time goes by and a request that has begun is served.
* `recorder`: the goroutine is scheduled, the backend answers within the timeout of
  `flushNow`, and `select` takes a ready case at random, so a case that is ready
  again and again is taken (strong fairness). Hits are finitely many: with traffic
  that never pauses `drain` need not end. No day has to pass.
* `memory`: weak fairness of the passes.

Deadlock is not checked in `generator`, the `CodeSupply` runs, `lifecycle*`,
`recorder`, `recorder_exit` and `memory`: with all creates done, or the process
ended, those instances have nothing left to do.

## Findings

Three runs show a disagreement between the code and what its documents say.

* `Pull` on an empty pool returns `""` without an error and `Create` stores a link
  under the empty code (`supply_empty_pool`).
* The server program ends in `log.Fatal`, so its deferred `Close` never runs and
  the buffered hits are gone (`recorder_exit`).
* The recyclers of two servers return one code twice; a Create that has pulled it in
  between shares it with the next (`lifecycle_two_servers`).

The following are limits of the same kind. Each is the reason for an assumption or a
bound of a run or a theorem, and is reproduced by changing one constant, or adding
one invariant, in the run named; TLC then prints the steps.

* The batch at start index `step` is let through (`cores/gen.go:41`) and repeats all
  but one code of batch 0: `generator` with the invariant `CodesUnique`.
* A refill that fails after some `Pool.Add` returns without saving the index; the
  next offers the same codes again, and one pulled in between goes to two links
  (`cores/service.go:342`): `supply_unique` with `r1`, `r2` in `Faulty`.
* The lock has a fixed life and no owner; a refill slower than that shares its batch
  with the next (`cores/service.go:319`): `supply_unique` with `LockMayLapse` TRUE.
* `RebuildCodePool` takes the lock, `Pull` takes none: a code in the hands of a
  running Create returns to the pool (`cores/service.go:448`): `supply_unique` with
  `TrafficStops` FALSE.
* `Lock` that finds a stale key deletes whatever key there is when its DEL arrives
  (`ext/redisx/pool.go:172`), so that two workers can be inside although none is
  late: `pool_lock` with the invariant `Exclusive` and `Overtime` FALSE.
* Recycling gives codes back before it stores that it has
  (`cores/service.go:422`), so a recycler that fails in between does alone what two
  do together: `lifecycle` with the invariant `NeverTwoOwners` and `Admins = {}`.
* `Update` does not look at the status or the age of the row (`cores/service.go:298`), and
  writes back a row that was recycled since it was read: `lifecycle` with
  `NeverTwoOwners`, `Admins = {}` and `Faulty = {}`. A link renewed after it has
  expired is mapped, and stays expired in the table: so `suspect` is kept by an Update of
  a row that is not active (`doc/design.md:71` has only active links mapped).
* A manual create does not check that its code has a manual length
  (`cores/http.go:153`): `lifecycle` with `NeverTwoOwners` and `Faulty = {}`.
* Pages are written back as they were read: an expirer may bring back a row that
  another server's jobs have expired and recycled (`cores/service.go:380`). `lifecycle` with two
  `Expirers` violates `OneOwner` if `TakePage` does not mark the rows of `Shared`.
* A redirect that has found a mapping expired deletes the one a renewal has just stored
  (`ext/redisx/cache.go:94`): the link is active in the table and does not redirect, until it
  is renewed again. `lifecycle` violates `MappingAgrees` if `About` leaves redirects
  out, so that they do not count as meeting the renewal.
* The in-memory lock is always granted (`ext/memx/pool.go:102`): `memory` with
  `Refills = {g1, g2}` and `Low = 1` violates `CodesUnique`.
* In memory the recycler's `Updates` index the row they are given (`ext/memx/repo.go:80`): when a
  Create has pulled its code in between, the code leads to the recycled row from then
  on, and edits and removals miss the active one. `memory` with an invariant that no code
  of an active row leads to a recycled one.

Noted while reading, and not modelled: the in-memory `GetByCode` returns an error for
a code without a row, so over memory a manual create is always refused
(`cores/http.go:160`); the cool-down of recycled codes (`doc/design.md:214`, `:230`,
`:238`) is not in the code, which scores them with the current time.

## Proofs

Every invariant, every action property and every refinement that a passing run checks is
a theorem for all values of the constants, under the assumptions named with it.

`Recursion` is what the recursive definitions need. The library states induction
for a predicate, which the provers cannot instantiate; here it is stated for a set of
numbers, from `WFMin` of `WellFoundedInduction` (`LeastNumber`, `StrongInduction`,
`Induction`). A recursive function is a `CHOOSE` of a function that satisfies its
equation; `RecursiveExists` builds one, from its values below each rank, and
`RecursiveUnique` says that there is no other. Start, predecessor and step are
functions there, not operators.

`CodeGeneratorProofs` proves, for every alphabet, code length and batch size:

* `CodesOfNumbers`: the largest number of a code is a natural number, each number up to
  it has a code of exactly the code length, and no two numbers have the same code. The
  digits of a number are read back as the number (`NumberOfDigits`), zeros in front do
  not count (`NumberPadded`), and a number of the length has at most that many digits
  (`DigitsLength`): each by induction over the number or the length.
* `CodesRoundTripHolds`, `BatchesFitHolds`, `BatchesDisjointHolds`, `NoHolesHolds`: the
  four invariants of `generator`, from what a batch holds and `CodesOfNumbers`. That the
  step times the batch size is at most the largest number keeps the last batch in
  range; that a number below step times batch size is `j * step + i` for one `i` below
  the step fills the holes and keeps batches apart.

`CodeSupplyProofs` proves, for every code length, batch size, page size and number of
goroutines:

* `TypeCorrect`: `Spec => []TypeOK`. The types alone are not inductive: that a
  refill's index is at most the step while it adds, and that a rebuild's loop
  index is below its bound, need `LoopsOK`, which also says where the loops start.
  `TypeInv == TypeOK /\ LoopsOK` is inductive.
* `MutualExclusionHolds` and `StartIndexMonotone`, if `~LockMayLapse`, for any set
  of faulty goroutines. `LockInv` adds to mutual exclusion that a refill inside
  its loop still holds the stored index in its hands; so `SaveIndex` adds one.
* `NothingLostInRefills`, if there are no rebuilders and creators are reliable,
  with or without a lapsing lock. `LostInv` says that the batches below the index
  a refill read, and the part of its batch behind it, are accounted for; it needs
  no lock, since what is accounted for only grows.
* `NothingLostHolds`, with rebuilds while Creates run, if the lock does not lapse and
  only refillers are faulty, as in `supply_faults`. Between `Clear` and the end of the
  first loop nothing holds of the codes as a whole; `PutBack` says instead that those
  the loop has passed are accounted for, in the pool or where a Create has taken them
  since, and that the bound of the loop still is the start index, which mutual
  exclusion gives. The second loop removes codes of rows only, and these are not lost.
  While a refill is in its loop no rebuild is, so `KeptInv` does not need what `LostInv`
  says of the batches before.
* `RebuildExactHolds` and `UniqueUntilWrapHolds`, if `Reliable`: the lock does not
  lapse, workers do not fail (Creates may, anywhere) and Creates and rebuilds do
  not overlap; these are the assumptions of the run `supply_unique`, and the
  findings show that without each of them the properties fail. Codes at different
  places below the step differ (`CodesDiffer`, from the spacing of the numbers in a
  batch and the injectivity of the conversion). `RebuildInv` says what a rebuild
  has restored and removed so far; a page has no gaps (`PageComplete`), which makes
  "up to `from`" mean "all rows up to there". `LedgerInv` says that every code in
  the pool, in a Create or in a row has been offered by a batch or by the part a
  refill has added; so the code a refill adds next is new (`NextCodeIsFresh`).
  Pool and taken codes are disjoint except while a rebuild is inside its loops,
  where `RebuildInv` takes over.
* `SupplyImplementsOwnership`, if `Reliable`: what `LedgerInv` says of a code before
  and after a step leaves one move of `CodeOwnership` for each (`OwnersStay`,
  `OwnersCreate`).

`StatsDaysProofs` proves, for every set of codes and channel size,
`ConservationHolds` and `CleanShutdownHolds` of the recorder. `ShutdownInv` follows a
Close through the recorder: when `drain` finds the channel empty, conservation says
that all that was recorded, so all that was recorded before Close, is in the map or
behind it; the last flush takes the map. `TypesHold` needs that the channel holds no
more than its size: `SumFunction` recurs over sets of codes; `SumsExist` shows
that the recursion ends, `SumChanges` that the sum moves with one of its numbers, for
any finite set of codes.

It proves also that the recorder over daily tables implements the recorder
over plain counts (`DaysImplementRecorder`: each step is one of its steps or a
stutter), hence `DaysConserve`, and `WindowCompleteHolds` for every retention that
Redis is configured to cover: `DaysInv` says that the table of each day a query may
reach is what the backend took for it, and will live until no query reaches it,
also after a flush that came after midnight or failed before EXPIRE. `DaysTypesHold`
follows from `TypesHold` by the refinement.

`PoolLockProofs` proves `TypesHold`, `KeepsItsKeyHolds` and `LockImplementsMutex` for every set of
workers, every term and every difference of the clocks smaller than it. `LockInv`
counts the stay of the worker inside against the time its key has left (`Counts`): a
worker in time has a key with more left than any clock is ahead, so no key that was
judged expired is its key.

`RedirectCacheProofs` proves `TypeCorrect`, `BoundedStalenessHolds` and
`OnlyEditsEndMappingsHolds` for every lifetime, latency and number of servers and
visitors. `Fresh` bounds the age of a link wherever it is: a request that is about to
fill the LRU has a link no staler than the request is old, an LRU entry one no
staler than one request and the part of the lifetime that is over.
`RemovesExpired` says that a Get about to remove in memory holds an expired mapping,
as no writer gets in.

`LinkLifecycleProofs` proves its theorems of `Spec`, without assumptions on requests,
terms, failures or the number of servers: `TypeCorrect`, `OneOwnerHolds`,
`LifecycleImplementsOwnership` and `MappingAgreesHolds`. The last three say nothing of codes
that have strayed; as `Strays` names the steps that take a code off its round, the
theorems say that there are no others.

`OneOwner` alone is not inductive: an Update or a page that is under way will write a row
back as it was read, so a row that is gone or recycled may yet keep its code.
`Ledger` counts these as claims (`Claimed`), keeps for every id the code it was given out
for (`Named`, a function that `RowCreate` extends), and says that a code has one claim, or
one Create, or the pool (`Owned`). `Limits` says what a row may look like while something
has it: an Update that may make it keep its code is in time, and no recycler has its row
(`EditsInTime`); an Update of a recycled row writes what nobody claims (`EditsInVain`); a
row on a page of an expirer is not recycled, nor late in the table unless the page says so too
(`ExpirerPages`); one on a page of a recycler is expired and late (`RecyclerPages`); and jobs
of one kind share no late row (`PagesApart`), although expirers may share a row that is
not late. A client's steps and those of an expirer only take claims away
(`FewerClaims`, `OwnersGo`); `Pull` finds a code without a claim, `RowCreate` turns the
Create into a claim, and a recycler's `Each` gives up the last claim with the code.

`LifecycleImplementsOwnership`: `Ledger` makes owners exclude each other (`Apart`) and claims
those of `LinkLifecycle` (`ClaimsOK`), before and after a step. So a step that only takes
owners away lets a code stay or drops it (`FewerOwners`), also when the code strays; that
of `Pull`, `RowCreate` and a recycler's `Each` is `Take`, `Store` and `GiveBack` of one code.

`MappingAgreesHolds` is about two stores that no step changes together: every request and
every page of an expirer makes them disagree for a while. `Agreement` says what
holds meanwhile. `Meets`: two that are under way on one code are both marked as
overlapping, so an unmarked one is alone on its code. `Prepared`: an unmarked
request about to write its row has mapped what it will write, one about to map
works on the newest row, one about to delete has taken the mapping away, and a redirect
about to delete finds the mapping expired still. `Swept`: an unmarked expirer has unmapped
every row of its page it is done with. `LateRows` is about the recyclers, which are under way
on a code without counting as such and may put a removed row back: no client edits, and no
active row is older than, a row that is due for recycling (`Overdue`), so the row that comes
back is never the newest of a code somebody works on. `CreatesInTime` says that a new row is
never due at once. When a request ends alone, `Prepared` gives agreement; when it ends
marked, the code is `suspect` until a lone one repairs it. A redirect that ran alone
takes away a mapping that is past its expiry and so breaks nothing: agreement holds
while it is under way already (`Quiet`).

`MemoryBackendProofs` proves, for any number of clients, refills, batches and rows:

* `TypesHold`: the index leads to stored rows of its codes. What a client, a job's page
  or a refill carries has to be known for it: an id it was given belongs to its code as
  long as the row is stored (`Agrees`), a refill's rest is the end of its batch.
* `NothingLostHolds`, however many refills meet: `Lossless` adds what a refill has
  put into the queue of its batch.
* `CodesUniqueHolds`, if there is one refill. A row that the recycler has on its page
  may be removed, and another Create may not have its code before the recycler gives
  it back: `Ledger` counts the rest of the recycler's page as owners (`Returning`),
  says that the rows of a page have kept the status they were found with and that none
  is on it twice (`PagesFit`), and that a code with an owner has been added, so the one
  a refill adds next has none.
* `MemoryImplementsOwnership`, if there is one refill, from `Ledger` in the same way: most
  steps only take owners away (`OwnersGo`).

Assumptions: `SizesAssumption` and `ProcsAssumption` on the constants of `CodeSupply`,
`BaseAssumption` on the alphabet (two digits at least); `LockAssumption`,
`LifecycleAssumption`, `RedirectAssumption`, `MemoryAssumption`, `DaysAssumption` and
the recorder's (a channel with a place, finitely many codes) on theirs. They bound
types and sizes and say nothing of behaviour. TLC evaluates all of them on every run
of the module. Nothing is assumed of the conversions: `CodeSupplyProofs` takes what it
needs of them from `CodesOfNumbers`.

Only model-checked: the liveness properties (`LockEventuallyFree`, `RefillAdvances`,
`CodesComeBack`, `EventuallyCurrent`, `KeyGoes`, `NoRowWaits`, `EveryHitSettles`,
`CloseReturns`), which need fairness and `ENABLED`, out of the provers' reach; and the
properties that are violated.

## Not modelled

* The `get` and `list` handlers, which only read; authentication, parsing of requests,
  JSON, HTTP responses, logging, configuration: input and output.
* `Delete` by id of the repositories, which nothing calls.
* The order of the pool's ZSet, link texts and titles, the text form of a mapping in
  Redis: abstracted. `CodeSupply` is about one automatic length; lengths share no
  state but the LRU and the table, where codes differ by length.
* The interfaces in `cores/` have no behaviour; the examples use the library and
  add none.

## Plan

The plan is carried out. If the code changes to give the lock an owner, to let
recycling store its status before it returns codes, or to write only the columns it
changes, the instances named under Findings become runs that pass, and the theorems
lose the assumptions that stand for them.
