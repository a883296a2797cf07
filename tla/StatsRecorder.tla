---------------------------- MODULE StatsRecorder ----------------------------
(***************************************************************************)
(* The hit recorder (cores/stats_recorder.go): redirects put codes into a  *)
(* bounded channel without ever waiting, one goroutine (run) counts them   *)
(* in a merge map and flushes the map to the statistics backend at every   *)
(* tick and when the service is closed (cores/service.go, Close).          *)
(*                                                                         *)
(* The merge map does not depend on the order of the channel, so the       *)
(* channel is the number of times it holds each code.  The days under      *)
(* which a backend keeps its counts are the subject of StatsDays.          *)
(*                                                                         *)
(* IncrBatch is a pipeline, not a transaction: a call that fails may have  *)
(* counted some of the codes, or all of them.                              *)
(***************************************************************************)
EXTENDS Integers, FiniteSets, Functions

CONSTANTS
  Codes,         \* the codes that are redirected
  BufferSize,    \* capacity of the channel: 10000 by default
  MaxHits,       \* bound: hits recorded over a whole run
  BackendFails,  \* IncrBatch may fail
  ExitAllowed    \* the process may end without Close

ASSUME RecorderAssumption ==
  /\ IsFiniteSet(Codes) /\ BufferSize \in Nat \ {0} /\ MaxHits \in Nat
  /\ BackendFails \in BOOLEAN /\ ExitAllowed \in BOOLEAN

VARIABLES
  ch,        \* the channel
  drops,     \* the atomic counter of hits that found it full
  pc,        \* what run does: its select, the drain loop, flushNow or done
  last,      \* flushNow was called on the way out
  merge,     \* run's map from code to count
  stored,    \* the backend's counts
  closer,    \* Close: not called, stopped and waiting for done, returned
  alive,     \* the process runs
  recorded, rejected,  \* history: hits that were buffered, hits that were not
  lost,                \* history: counts of a flush the backend did not take
  reported,            \* history: drops that were written to the log
  before               \* history: recorded when Close was called

counts == <<recorded, rejected, lost, reported, before>>
vars   == <<ch, drops, pc, last, merge, stored, closer, alive, counts>>

Zero == [c \in Codes |-> 0]

Init ==
  /\ ch = Zero /\ drops = 0
  /\ pc = "select" /\ last = FALSE /\ merge = Zero
  /\ stored = Zero /\ closer = "open" /\ alive = TRUE
  /\ recorded = Zero /\ rejected = 0 /\ lost = Zero /\ reported = 0
  /\ before = Zero

-----------------------------------------------------------------------------
\* A variant of Record that finds room in a full channel.
RecordOneTooMany(c) ==
  /\ alive /\ SumFunction(recorded) + rejected < MaxHits
  /\ IF SumFunction(ch) <= BufferSize
     THEN /\ ch' = [ch EXCEPT ![c] = @ + 1]
          /\ recorded' = [recorded EXCEPT ![c] = @ + 1]
          /\ UNCHANGED <<drops, rejected>>
     ELSE /\ drops' = drops + 1 /\ rejected' = rejected + 1
          /\ UNCHANGED <<ch, recorded>>
  /\ UNCHANGED <<pc, last, merge, stored, closer, alive, lost, reported, before>>

\* A redirect records its hit: a full channel drops it.
Record(c) ==
  /\ alive /\ SumFunction(recorded) + rejected < MaxHits
  /\ IF SumFunction(ch) < BufferSize
     THEN /\ ch' = [ch EXCEPT ![c] = @ + 1]
          /\ recorded' = [recorded EXCEPT ![c] = @ + 1]
          /\ UNCHANGED <<drops, rejected>>
     ELSE /\ drops' = drops + 1 /\ rejected' = rejected + 1
          /\ UNCHANGED <<ch, recorded>>
  /\ UNCHANGED <<pc, last, merge, stored, closer, alive, lost, reported, before>>

\* run or drain receives a code.
Receive(c) ==
  /\ alive /\ pc \in {"select", "drain"} /\ ch[c] > 0
  /\ ch' = [ch EXCEPT ![c] = @ - 1]
  /\ merge' = [merge EXCEPT ![c] = @ + 1]
  /\ UNCHANGED <<drops, pc, last, stored, closer, alive, counts>>

\* A variant of Tick that waits for a map larger than the channel.
TickWhenLarge ==
  /\ alive /\ pc = "select" /\ SumFunction(merge) > BufferSize
  /\ pc' = "flush" /\ last' = FALSE
  /\ UNCHANGED <<ch, drops, merge, stored, closer, alive, counts>>

\* The ticker fires and there is something to flush.
Tick ==
  /\ alive /\ pc = "select" /\ merge # Zero
  /\ pc' = "flush" /\ last' = FALSE
  /\ UNCHANGED <<ch, drops, merge, stored, closer, alive, counts>>

\* A variant of SeeStop that flushes what was merged and leaves the channel.
SeeStopNoDrain ==
  /\ alive /\ pc = "select" /\ closer # "open"
  /\ pc' = (IF merge = Zero THEN "done" ELSE "flush") /\ last' = TRUE
  /\ UNCHANGED <<ch, drops, merge, stored, closer, alive, counts>>

\* select takes a ready case at random: stop may win over waiting codes.
SeeStop ==
  /\ alive /\ pc = "select" /\ closer # "open"
  /\ pc' = "drain"
  /\ UNCHANGED <<ch, drops, last, merge, stored, closer, alive, counts>>

\* A variant of Drained where only a flush leads to done.
DrainedMustFlush ==
  /\ alive /\ pc = "drain" /\ ch = Zero /\ merge # Zero
  /\ pc' = "flush" /\ last' = TRUE
  /\ UNCHANGED <<ch, drops, merge, stored, closer, alive, counts>>

\* drain found the channel empty; flushNow returns at once for an empty map.
Drained ==
  /\ alive /\ pc = "drain" /\ ch = Zero
  /\ pc' = (IF merge = Zero THEN "done" ELSE "flush") /\ last' = TRUE
  /\ UNCHANGED <<ch, drops, merge, stored, closer, alive, counts>>

\* IncrBatch takes the counts of some codes, of all if it does not fail; what
\* the backend did not take is not sent again.
IncrBatch ==
  /\ alive /\ pc = "flush"
  /\ \E taken \in IF BackendFails THEN SUBSET Codes ELSE {Codes} :
        /\ stored' = [c \in Codes |-> stored[c] + IF c \in taken THEN merge[c] ELSE 0]
        /\ lost' = [c \in Codes |-> lost[c] + IF c \in taken THEN 0 ELSE merge[c]]
  /\ pc' = "report"
  /\ UNCHANGED <<ch, drops, last, merge, closer, alive, recorded, rejected,
                 reported, before>>

\* A variant of Report that goes on with the map it has flushed.
ReportKeepsMerge ==
  /\ alive /\ pc = "report"
  /\ reported' = reported + drops /\ drops' = 0
  /\ pc' = (IF last THEN "done" ELSE "select")
  /\ UNCHANGED <<ch, last, merge, stored, closer, alive, recorded, rejected, lost,
                 before>>

\* The drops are logged; run goes on with a new map, or returns.
Report ==
  /\ alive /\ pc = "report"
  /\ reported' = reported + drops /\ drops' = 0
  /\ pc' = (IF last THEN "done" ELSE "select")
  /\ merge' = (IF last THEN merge ELSE Zero)
  /\ UNCHANGED <<ch, last, stored, closer, alive, recorded, rejected, lost, before>>

\* Close stops the runner, whose channel run selects on.
Close ==
  /\ alive /\ closer = "open"
  /\ closer' = "wait" /\ before' = recorded
  /\ UNCHANGED <<ch, drops, pc, last, merge, stored, alive, recorded, rejected, lost,
                 reported>>

\* Close waits for done and closes the backends.
CloseBackend ==
  /\ alive /\ closer = "wait" /\ pc = "done"
  /\ closer' = "closed"
  /\ UNCHANGED <<ch, drops, pc, last, merge, stored, alive, counts>>

\* main ends in log.Fatal: the process exits and its deferred Close never runs.
Exit ==
  /\ ExitAllowed /\ alive
  /\ alive' = FALSE
  /\ UNCHANGED <<ch, drops, pc, last, merge, stored, closer, counts>>

Next ==
  \/ \E c \in Codes : Record(c) \/ Receive(c)
  \/ Tick \/ SeeStop \/ Drained \/ IncrBatch \/ Report
  \/ Close \/ CloseBackend \/ Exit

Spec == Init /\ [][Next]_vars

-----------------------------------------------------------------------------
(* What the recorder guarantees. *)

Counter == [Codes -> Nat]

\* Every counter is a natural number: none goes below zero.
CountersOK ==
  /\ ch \in Counter /\ merge \in Counter /\ stored \in Counter
  /\ recorded \in Counter /\ lost \in Counter /\ before \in Counter
  /\ drops \in Nat /\ rejected \in Nat /\ reported \in Nat
  /\ pc \in {"select", "drain", "flush", "report", "done"}
  /\ closer \in {"open", "wait", "closed"}
  /\ last \in BOOLEAN /\ alive \in BOOLEAN

\* The types, and the channel's capacity.
TypeOK == CountersOK /\ SumFunction(ch) <= BufferSize

\* What run has received and not yet handed to the backend.
Pending(c) == IF pc \in {"select", "drain", "flush"} THEN merge[c] ELSE 0

\* Each hit is in one place: in the channel, in the map, counted once by the
\* backend, or lost with a failed flush (cores/stats_recorder.go:107); and each
\* hit that found the channel full is a drop, logged or still to be logged
\* (line 60): the map given away is never counted again.
Conservation ==
  /\ \A c \in Codes : recorded[c] = ch[c] + Pending(c) + stored[c] + lost[c]
  /\ rejected = drops + reported

\* When Close has returned, no hit that was recorded before it was called is left
\* behind, however its stop races with the channel (cores/service.go:198: the
\* recorder drains and flushes before the backend is closed).
CleanShutdown ==
  closer = "closed" => \A c \in Codes : before[c] <= stored[c] + lost[c]

\* The in-memory hit buffer is flushed before exit (README.md:107).
FlushedBeforeExit ==
  ~alive => \A c \in Codes : recorded[c] = stored[c] + lost[c]

-----------------------------------------------------------------------------
(* Liveness.  Goroutines are scheduled, the backend answers within the        *)
(* timeout of IncrBatch, and select takes a case at random: one that is ready *)
(* again and again is taken.  Hits are finitely many here: a drain that new   *)
(* hits refill for ever would not end.                                        *)

Fairness ==
  /\ \A c \in Codes : SF_vars(Receive(c))
  /\ SF_vars(Tick) /\ SF_vars(SeeStop)
  /\ WF_vars(Drained) /\ WF_vars(IncrBatch) /\ WF_vars(Report)
  /\ WF_vars(CloseBackend)

FairSpec == Spec /\ Fairness

\* Every recorded hit reaches the backend, or is lost with a failed flush, unless
\* the service is closed or the process ends: as hits are finitely many, again and
\* again none waits in the buffer or the map because nothing follows it.
EveryHitSettles ==
  \A c \in Codes :
     []<>(recorded[c] = stored[c] + lost[c] \/ closer # "open" \/ ~alive)

\* Close returns, unless the process ends.
CloseReturns == closer = "wait" ~> closer = "closed" \/ ~alive

=============================================================================
