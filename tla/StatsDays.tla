------------------------------ MODULE StatsDays ------------------------------
(***************************************************************************)
(* The statistics backends under the recorder (ext/redisx/stats.go,        *)
(* ext/memx/stats.go): counts are kept in one table per day, which Redis   *)
(* drops some days after it was last written, and a query adds nothing but *)
(* reads the tables of the last days (cores/service.go GetStats and        *)
(* BatchGetStats).                                                         *)
(*                                                                         *)
(* Every step is a step of StatsRecorder, or a matter of days.  Days are   *)
(* counted back from today: the age of a table is 0 today, 1 tomorrow.     *)
(***************************************************************************)
EXTENDS StatsRecorder

CONSTANTS
  Retention,    \* days a query may reach back: 7 by default
  BackendDays   \* the retention Redis is configured with

ASSUME DaysAssumption ==
  Retention \in Nat \ {0} /\ BackendDays \in Nat /\ BackendDays >= Retention

VARIABLES
  backend,    \* "redis" or "memory"; never changed
  tables,     \* by age: the table's counts
  ttl,        \* by age: days until Redis drops the table
  flushDay,   \* the age of the day flushNow has taken
  accepted    \* history, by age: what the backend took for the day

dayVars == <<backend, tables, ttl, flushDay, accepted>>
allVars == <<vars, dayVars>>

Never == BackendDays + 2     \* the table has no expiry
Ages  == 0 .. Retention + 1  \* no query reaches further back

DaysInit ==
  /\ Init
  /\ backend \in {"redis", "memory"}
  /\ tables = [a \in Ages |-> Zero] /\ ttl = [a \in Ages |-> Never]
  /\ flushDay = 0 /\ accepted = [a \in Ages |-> Zero]

-----------------------------------------------------------------------------
\* flushNow takes the day first.
FlushStarts ==
  /\ Tick \/ Drained
  /\ flushDay' = 0
  /\ UNCHANGED <<backend, tables, ttl, accepted>>

\* A variant of TableLife without the extra day.
TableLifeExact == BackendDays

\* One day more than the retention.
TableLife == BackendDays + 1

\* IncrBatch counts in the table of that day, and sets its expiry anew; a pipeline
\* that fails may not get that far.
CountInTable ==
  /\ IncrBatch
  /\ tables' = [tables EXCEPT ![flushDay] =
                  [c \in Codes |-> @[c] + (stored'[c] - stored[c])]]
  /\ accepted' = [accepted EXCEPT ![flushDay] =
                  [c \in Codes |-> @[c] + (stored'[c] - stored[c])]]
  /\ ttl' \in IF backend = "memory" THEN {ttl}
              ELSE {[ttl EXCEPT ![flushDay] = TableLife]}
                   \cup IF BackendFails THEN {ttl} ELSE {}
  /\ UNCHANGED <<backend, flushDay>>

\* The memory backend forgets everything when it is closed.
CloseTables ==
  /\ CloseBackend
  /\ tables' = IF backend = "memory" THEN [a \in Ages |-> Zero] ELSE tables
  /\ UNCHANGED <<backend, ttl, flushDay, accepted>>

\* Redis drops a table in the course of its last day.
TableExpires(a) ==
  /\ alive /\ backend = "redis" /\ ttl[a] = 0
  /\ tables' = [tables EXCEPT ![a] = Zero] /\ ttl' = [ttl EXCEPT ![a] = Never]
  /\ UNCHANGED <<vars, backend, flushDay, accepted>>

\* The tables, a day older.
Older(f, new) == [a \in Ages |-> IF a = 0 THEN new ELSE f[a - 1]]

\* Midnight.  A flush takes seconds: it sees one midnight at most.
Midnight ==
  /\ alive /\ \A a \in Ages : ttl[a] # 0
  /\ pc = "flush" => flushDay = 0
  /\ tables' = Older(tables, Zero) /\ accepted' = Older(accepted, Zero)
  /\ ttl' = Older([a \in Ages |-> IF ttl[a] = Never THEN Never ELSE ttl[a] - 1], Never)
  /\ flushDay' = IF pc = "flush" THEN 1 ELSE 0
  /\ UNCHANGED <<vars, backend>>

DaysNext ==
  \/ ( \/ \E c \in Codes : Record(c) \/ Receive(c)
       \/ SeeStop \/ Report \/ Close \/ Exit ) /\ UNCHANGED dayVars
  \/ FlushStarts \/ CountInTable \/ CloseTables
  \/ \E a \in Ages : TableExpires(a)
  \/ Midnight

DaysSpec == DaysInit /\ [][DaysNext]_allVars

-----------------------------------------------------------------------------
\* The answer about a code: the days of the list that have a count.
Get(table, c, ages) ==
  [a \in {x \in ages : table[x][c] # 0} |-> table[a][c]]

\* The answer about many codes: those that have a count.
BatchGet(table, codes, ages) ==
  [c \in {x \in codes : Get(table, x, ages) # <<>>} |-> Get(table, c, ages)]

\* GetStats and BatchGetStats limit the days to the retention.
Days(asked) == IF asked <= 0 \/ asked > Retention THEN Retention ELSE asked

\* dayList, for a server whose clock is late by that many days.
DayList(late, days) == late .. late + days - 1

\* Counts are kept by day, and every table's expiry is ahead.
DaysOK ==
  /\ TypeOK
  /\ tables \in [Ages -> Counter] /\ accepted \in [Ages -> Counter]
  /\ ttl \in [Ages -> 0 .. Never] /\ flushDay \in {0, 1}

\* Until the service is closed, a query about any of the days it may ask for gets
\* every hit the backend took for them, also from a server on whose clock it is
\* still yesterday (ext/redisx/stats.go:77), also for a day whose last flush came
\* after midnight, or failed half-way.
WindowComplete ==
  closer # "closed" =>
    \A late \in 0 .. 1 : \A asked \in 0 .. Retention :
       LET ages == DayList(late, Days(asked)) IN
       /\ BatchGet(tables, Codes, ages) = BatchGet(accepted, Codes, ages)
       /\ \A c \in Codes : Get(tables, c, ages) = Get(accepted, c, ages)

-----------------------------------------------------------------------------
(* The fairness of StatsRecorder; nothing makes days go by. *)

DaysFairness ==
  /\ \A c \in Codes : SF_allVars(Receive(c) /\ UNCHANGED dayVars)
  /\ SF_allVars(Tick /\ FlushStarts) /\ SF_allVars(SeeStop /\ UNCHANGED dayVars)
  /\ WF_allVars(Drained /\ FlushStarts) /\ WF_allVars(CountInTable)
  /\ WF_allVars(Report /\ UNCHANGED dayVars) /\ WF_allVars(CloseTables)

DaysFairSpec == DaysSpec /\ DaysFairness

=============================================================================
