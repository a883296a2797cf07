--------------------------- MODULE StatsDaysProofs ---------------------------
(***************************************************************************)
(* What StatsRecorder guarantees for every set of codes and every size of  *)
(* the channel, proved; that the recorder over its backends is the         *)
(* recorder of StatsRecorder, and that no query misses a hit, for every    *)
(* retention.                                                              *)
(***************************************************************************)
EXTENDS StatsDays, Recursion, FiniteSetTheorems

(* What SumFunction adds up, whatever the order in which it does. *)

\* What SumFunction takes next from a set of indices.
Taken(s) == CHOOSE x \in s : TRUE

\* The sums of a function over the subsets of a set.
SumsOver(g, f, S) ==
  g = [s \in SUBSET S |-> IF s = {} THEN 0 ELSE f[Taken(s)] + g[s \ {Taken(s)}]]

LEMMA TakenFrom ==
  ASSUME NEW s, s # {}, IsFiniteSet(s)
  PROVE  /\ Taken(s) \in s /\ IsFiniteSet(s \ {Taken(s)})
         /\ Cardinality(s) \in Nat /\ Cardinality(s \ {Taken(s)}) = Cardinality(s) - 1
<1>1. Taken(s) \in s
  BY DEF Taken
<1> QED BY <1>1, FS_RemoveElement, FS_CardinalityType

\* The same, one sum at a time.
SumsStep(g, f, S) ==
  /\ g = [s \in SUBSET S |-> g[s]] /\ g[{}] = 0
  /\ \A s \in SUBSET S : s # {} => g[s] = f[Taken(s)] + g[s \ {Taken(s)}]

LEMMA SumsAt == \A S, f, g : SumsOver(g, f, S) => SumsStep(g, f, S)
<1> SUFFICES ASSUME NEW S, NEW f, NEW g, SumsOver(g, f, S) PROVE SumsStep(g, f, S)
  OBVIOUS
<1> DEFINE sum(s) == IF s = {} THEN 0 ELSE f[Taken(s)] + g[s \ {Taken(s)}]
<1>1. g = [s \in SUBSET S |-> sum(s)]
  BY DEF SumsOver
<1> HIDE DEF sum
<1>2. g = [s \in SUBSET S |-> g[s]] /\ \A s \in SUBSET S : g[s] = sum(s)
  BY <1>1
<1> QED BY <1>2 DEF sum, SumsStep

\* What holds of the empty set, and of a set when it holds of what remains, holds
\* of every subset of a finite set.
LEMMA SubsetInduction ==
  ASSUME NEW S, IsFiniteSet(S), NEW T, {} \in T,
         \A s \in SUBSET S : s # {} /\ s \ {Taken(s)} \in T => s \in T
  PROVE  \A s \in SUBSET S : s \in T
<1>1. \A s \in SUBSET S : IsFiniteSet(s) /\ Cardinality(s) \in Nat
  BY FS_Subset, FS_CardinalityType
<1> DEFINE U == {n \in Nat : \A s \in SUBSET S : Cardinality(s) = n => s \in T}
<1>2. 0 \in U
  BY <1>1, FS_EmptySet
<1>3. ASSUME NEW n \in Nat, n \in U PROVE n + 1 \in U
  <2>1. ASSUME NEW s \in SUBSET S, Cardinality(s) = n + 1 PROVE s \in T
    <3>1. s # {}
      BY <2>1, FS_EmptySet
    <3>2. s \ {Taken(s)} \in SUBSET S /\ Cardinality(s \ {Taken(s)}) = n
      BY <1>1, <2>1, <3>1, TakenFrom
    <3> QED BY <1>3, <3>1, <3>2
  <2> QED BY <2>1
<1> HIDE DEF U
<1>4. \A n \in Nat : n \in U
  BY <1>2, <1>3, Induction
<1> QED BY <1>1, <1>4 DEF U

LEMMA SumsAreNumbers ==
  ASSUME NEW S, IsFiniteSet(S), NEW f \in [S -> Nat], NEW g, SumsOver(g, f, S)
  PROVE  g \in [SUBSET S -> Nat]
<1> DEFINE T == {s \in SUBSET S : g[s] \in Nat}
<1>1. /\ g = [s \in SUBSET S |-> g[s]] /\ g[{}] = 0
      /\ \A s \in SUBSET S : s # {} => g[s] = f[Taken(s)] + g[s \ {Taken(s)}]
  <2>1. SumsStep(g, f, S)
    BY SumsAt
  <2> QED BY <2>1 DEF SumsStep
<1>2. ASSUME NEW s \in SUBSET S, s # {}, s \ {Taken(s)} \in T PROVE s \in T
  <2>1. Taken(s) \in S
    BY <1>2, FS_Subset, TakenFrom
  <2>2. f[Taken(s)] \in Nat /\ g[s \ {Taken(s)}] \in Nat
    BY <1>2, <2>1
  <2>3. g[s] = f[Taken(s)] + g[s \ {Taken(s)}]
    BY <1>1, <1>2
  <2> QED BY <2>2, <2>3
<1>3. {} \in T
  BY <1>1
<1> HIDE DEF T
<1>4. \A s \in SUBSET S : s \in T
  BY <1>2, <1>3, SubsetInduction
<1> QED BY <1>1, <1>4 DEF T

\* SumFunction is what its definition says: the recursion ends.
LEMMA SumsExist ==
  ASSUME NEW S, IsFiniteSet(S), NEW f \in [S -> Nat]
  PROVE  \E g \in [SUBSET S -> Nat] : SumsOver(g, f, S) /\ SumFunction(f) = g[S]
<1>1. \A s \in SUBSET S : IsFiniteSet(s) /\ Cardinality(s) \in Nat
  BY FS_Subset, FS_CardinalityType
<1>2. ASSUME NEW s \in SUBSET S, s # {}
      PROVE  /\ Taken(s) \in S /\ s \ {Taken(s)} \in SUBSET S
             /\ Cardinality(s \ {Taken(s)}) < Cardinality(s)
  BY <1>1, <1>2, TakenFrom
<1> DEFINE D == SUBSET S
           rank == [s \in D |-> Cardinality(s)]
           first == {{}}
           prev == [s \in D |-> s \ {Taken(s)}]
           step == [p \in Nat \X D |-> IF p[2] = {} THEN 0 ELSE f[Taken(p[2])] + p[1]]
<1>3. Descends(D, rank, first, prev)
  BY <1>1, <1>2 DEF Descends
<1>4. step \in [Nat \X D -> Nat]
  <2>1. ASSUME NEW p \in Nat \X D PROVE step[p] \in Nat
    <3>1. p[1] \in Nat /\ p[2] \in SUBSET S
      BY <2>1
    <3>2. p[2] # {} => f[Taken(p[2])] \in Nat
      BY <1>2, <3>1
    <3>3. step[p] = IF p[2] = {} THEN 0 ELSE f[Taken(p[2])] + p[1]
      OBVIOUS
    <3> QED BY <3>1, <3>2, <3>3
  <2> QED BY <2>1
<1>5. \E g \in [D -> Nat] : Recursive(g, D, 0, first, prev, step)
  <2> HIDE DEF D, rank, first, prev, step
  <2> QED BY <1>3, <1>4, RecursiveExists
<1>6. PICK g \in [D -> Nat] : Recursive(g, D, 0, first, prev, step)
  BY <1>5
<1>7. ASSUME NEW s \in D
      PROVE  g[s] = IF s = {} THEN 0 ELSE f[Taken(s)] + g[s \ {Taken(s)}]
  <2>1. g[s] = IF s \in first THEN 0 ELSE step[<<g[prev[s]], s>>]
    BY <1>6 DEF Recursive, Right
  <2>2. ASSUME s # {} PROVE step[<<g[prev[s]], s>>] = f[Taken(s)] + g[s \ {Taken(s)}]
    <3>1. prev[s] = s \ {Taken(s)} /\ prev[s] \in D /\ g[prev[s]] \in Nat
      BY <1>2, <1>6, <2>2
    <3> QED BY <2>2, <3>1
  <2> QED BY <2>1, <2>2
<1>8. SumsOver(g, f, S)
  BY <1>6, <1>7 DEF SumsOver
<1> DEFINE h == CHOOSE h : SumsOver(h, f, S)
<1>9. SumsOver(h, f, S)
  BY <1>8
<1>10. SumFunction(f) = h[S]
  BY DEF SumFunction, SumFunctionOnSet, FoldFunctionOnSet, MapThenFoldSet, SumsOver, Taken
<1> HIDE DEF h
<1>11. h \in [SUBSET S -> Nat]
  BY <1>9, SumsAreNumbers
<1> QED BY <1>9, <1>10, <1>11

\* A value that changes at one index changes the sums over the sets that hold it.
LEMMA SumChanges ==
  ASSUME NEW S, IsFiniteSet(S), NEW f \in [S -> Nat], NEW c \in S, NEW v \in Nat
  PROVE  /\ SumFunction(f) \in Nat
         /\ SumFunction([f EXCEPT ![c] = v]) = SumFunction(f) + v - f[c]
<1> DEFINE f2 == [f EXCEPT ![c] = v]
<1>1. f2 \in [S -> Nat] /\ f2[c] = v /\ \A d \in S \ {c} : f2[d] = f[d]
  OBVIOUS
<1> HIDE DEF f2
<1>2. PICK g \in [SUBSET S -> Nat] : SumsOver(g, f, S) /\ SumFunction(f) = g[S]
  BY SumsExist
<1>3. PICK h \in [SUBSET S -> Nat] : SumsOver(h, f2, S) /\ SumFunction(f2) = h[S]
  BY <1>1, SumsExist
<1> DEFINE T == {s \in SUBSET S : h[s] = g[s] + IF c \in s THEN v - f[c] ELSE 0}
<1>4. /\ g[{}] = 0
      /\ \A s \in SUBSET S : s # {} => g[s] = f[Taken(s)] + g[s \ {Taken(s)}]
  <2>1. SumsStep(g, f, S)
    BY <1>2, SumsAt
  <2> QED BY <2>1 DEF SumsStep
<1>5. /\ h[{}] = 0
      /\ \A s \in SUBSET S : s # {} => h[s] = f2[Taken(s)] + h[s \ {Taken(s)}]
  <2>1. SumsStep(h, f2, S)
    BY <1>3, SumsAt
  <2> QED BY <2>1 DEF SumsStep
<1>6. ASSUME NEW s \in SUBSET S, s # {}, s \ {Taken(s)} \in T PROVE s \in T
  <2>1. PICK x \in S : x = Taken(s) /\ x \in s
    BY <1>6, FS_Subset, TakenFrom
  <2>2. PICK r \in SUBSET S : r = s \ {x}
    OBVIOUS
  <2>3. g[s] = f[x] + g[r] /\ h[s] = f2[x] + h[r]
    BY <1>4, <1>5, <1>6, <2>1, <2>2
  <2>4. h[r] = g[r] + IF c \in r THEN v - f[c] ELSE 0
    BY <1>6, <2>1, <2>2
  <2>5. f[x] \in Nat /\ f[c] \in Nat /\ g[r] \in Nat /\ h[r] \in Nat
    BY <1>2, <1>3
  <2>6. CASE x = c
    <3>1. c \in s /\ c \notin r
      BY <2>1, <2>2, <2>6
    <3> QED BY <1>1, <2>3, <2>4, <2>5, <2>6, <3>1
  <2>7. CASE x # c
    <3>1. f2[x] = f[x] /\ (c \in s <=> c \in r)
      BY <1>1, <2>1, <2>2, <2>7
    <3> QED BY <2>3, <2>4, <2>5, <3>1
  <2> QED BY <2>6, <2>7
<1>7. {} \in T
  BY <1>4, <1>5
<1>8. S \in T
  <2> HIDE DEF T
  <2> QED BY <1>6, <1>7, SubsetInduction
<1>9. f[c] \in Nat /\ g[S] \in Nat
  BY <1>2
<1> QED BY <1>2, <1>3, <1>8, <1>9 DEF f2

\* Nothing adds up to nothing.
LEMMA SumOfZeros ==
  ASSUME NEW S, IsFiniteSet(S)
  PROVE  SumFunction([s \in S |-> 0]) = 0
<1> DEFINE f == [s \in S |-> 0]
<1>1. f \in [S -> Nat] /\ \A s \in S : f[s] = 0
  OBVIOUS
<1> HIDE DEF f
<1>2. PICK g \in [SUBSET S -> Nat] : SumsOver(g, f, S) /\ SumFunction(f) = g[S]
  BY <1>1, SumsExist
<1> DEFINE T == {s \in SUBSET S : g[s] = 0}
<1>3. /\ g[{}] = 0
      /\ \A s \in SUBSET S : s # {} => g[s] = f[Taken(s)] + g[s \ {Taken(s)}]
  <2>1. SumsStep(g, f, S)
    BY <1>2, SumsAt
  <2> QED BY <2>1 DEF SumsStep
<1>4. ASSUME NEW s \in SUBSET S, s # {}, s \ {Taken(s)} \in T PROVE s \in T
  <2>1. Taken(s) \in S
    BY <1>4, FS_Subset, TakenFrom
  <2> QED BY <1>1, <1>3, <1>4, <2>1
<1>5. {} \in T
  BY <1>3
<1>6. S \in T
  <2> HIDE DEF T
  <2> QED BY <1>4, <1>5, SubsetInduction
<1> QED BY <1>2, <1>6 DEF f

-----------------------------------------------------------------------------
(* The recorder. *)

\* Close is why the recorder drains, flushes for the last time and ends; and at
\* each of these points what was recorded before Close is no longer behind it.
ShutdownInv ==
  /\ pc \in {"drain", "done"} \/ (last /\ pc # "select") => closer # "open"
  /\ closer = "closed" => pc = "done"
  /\ pc = "select" => ~last
  /\ closer # "open" => \A c \in Codes : before[c] <= recorded[c]
  /\ last /\ pc = "flush" =>
        \A c \in Codes : before[c] <= merge[c] + stored[c] + lost[c]
  /\ pc = "done" \/ (last /\ pc = "report") =>
        \A c \in Codes : before[c] <= stored[c] + lost[c]

RecorderInv == CountersOK /\ Conservation /\ ShutdownInv

LEMMA RecorderInit == Init => RecorderInv
<1> SUFFICES ASSUME Init PROVE RecorderInv
  OBVIOUS
<1>1. Zero \in Counter /\ \A c \in Codes : Zero[c] = 0
  BY DEF Zero, Counter
<1>2. CountersOK
  BY <1>1 DEF Init, CountersOK
<1>3. Conservation /\ ShutdownInv
  BY <1>1 DEF Init, Conservation, Pending, ShutdownInv
<1> QED BY <1>2, <1>3 DEF RecorderInv

\* A hit goes into the channel or is a drop.
LEMMA RecordKeeps ==
  ASSUME RecorderInv, NEW c \in Codes, Record(c)
  PROVE  RecorderInv'
<1> USE DEF RecorderInv, counts
<1>u. UNCHANGED <<pc, last, merge, stored, closer, lost, reported, before, alive>>
  BY DEF Record
<1>1. CASE SumFunction(ch) < BufferSize
  <2>1. /\ ch' = [ch EXCEPT ![c] = @ + 1] /\ recorded' = [recorded EXCEPT ![c] = @ + 1]
        /\ UNCHANGED <<drops, rejected>>
    BY <1>1 DEF Record
  <2>2. /\ ch' \in Counter /\ recorded' \in Counter
        /\ \A d \in Codes : recorded'[d] - ch'[d] = recorded[d] - ch[d]
        /\ \A d \in Codes : recorded[d] <= recorded'[d]
    BY <2>1 DEF CountersOK, Counter
  <2>3. CountersOK'
    BY <1>u, <2>1, <2>2 DEF CountersOK
  <2>4. Conservation'
    BY <1>u, <2>1, <2>2 DEF CountersOK, Counter, Conservation, Pending
  <2>5. ShutdownInv'
    BY <1>u, <2>2 DEF CountersOK, Counter, ShutdownInv
  <2> QED BY <2>3, <2>4, <2>5
<1>2. CASE ~(SumFunction(ch) < BufferSize)
  <2>1. /\ drops' = drops + 1 /\ rejected' = rejected + 1 /\ UNCHANGED <<ch, recorded>>
    BY <1>2 DEF Record
  <2> QED BY <1>u, <2>1 DEF CountersOK, Conservation, Pending, ShutdownInv
<1> QED BY <1>1, <1>2

\* A code moves from the channel to the map.
LEMMA ReceiveKeeps ==
  ASSUME RecorderInv, NEW c \in Codes, Receive(c)
  PROVE  RecorderInv'
<1> USE DEF RecorderInv, counts
<1>1. /\ pc \in {"select", "drain"} /\ ch[c] > 0
      /\ ch' = [ch EXCEPT ![c] = @ - 1] /\ merge' = [merge EXCEPT ![c] = @ + 1]
      /\ UNCHANGED <<drops, pc, last, stored, closer, alive, counts>>
  BY DEF Receive
<1>2. /\ ch' \in Counter /\ merge' \in Counter
      /\ \A d \in Codes : ch'[d] + merge'[d] = ch[d] + merge[d]
  BY <1>1 DEF CountersOK, Counter
<1>3. CountersOK'
  BY <1>1, <1>2 DEF CountersOK
<1>4. Conservation'
  BY <1>1, <1>2 DEF CountersOK, Counter, Conservation, Pending
<1>5. ShutdownInv'
  BY <1>1 DEF ShutdownInv
<1> QED BY <1>3, <1>4, <1>5

\* The counts of the map go to the backend, or are lost.
LEMMA IncrBatchKeeps ==
  ASSUME RecorderInv, IncrBatch
  PROVE  RecorderInv'
<1> USE DEF RecorderInv, counts
<1>1. PICK taken : 
        /\ stored' = [c \in Codes |-> stored[c] + IF c \in taken THEN merge[c] ELSE 0]
        /\ lost' = [c \in Codes |-> lost[c] + IF c \in taken THEN 0 ELSE merge[c]]
  BY DEF IncrBatch
<1>2. /\ pc = "flush" /\ pc' = "report"
      /\ UNCHANGED <<ch, drops, last, merge, closer, alive, recorded, rejected,
                     reported, before>>
  BY DEF IncrBatch
<1>3. /\ stored' \in Counter /\ lost' \in Counter
      /\ \A c \in Codes : stored'[c] + lost'[c] = merge[c] + stored[c] + lost[c]
  BY <1>1 DEF CountersOK, Counter
<1>4. CountersOK'
  BY <1>2, <1>3 DEF CountersOK
<1>5. Conservation'
  BY <1>2, <1>3, <1>4 DEF CountersOK, Counter, Conservation, Pending
<1>6. ShutdownInv'
  BY <1>2, <1>3, <1>4 DEF CountersOK, Counter, ShutdownInv
<1> QED BY <1>4, <1>5, <1>6

\* drain and the decision to flush: the channel is empty.
LEMMA DrainedKeeps ==
  ASSUME RecorderInv, Drained
  PROVE  RecorderInv'
<1> USE DEF RecorderInv, counts
<1>1. /\ pc = "drain" /\ ch = Zero /\ last'
      /\ pc' = (IF merge = Zero THEN "done" ELSE "flush")
      /\ UNCHANGED <<ch, drops, merge, stored, closer, alive, counts>>
  BY DEF Drained
<1>2. \A c \in Codes : before[c] <= merge[c] + stored[c] + lost[c]
  BY <1>1 DEF ShutdownInv, Conservation, Pending, Zero, CountersOK, Counter
<1>3. merge = Zero => \A c \in Codes : merge[c] = 0
  BY DEF Zero
<1>4. CountersOK'
  BY <1>1 DEF CountersOK
<1>5. Conservation'
  BY <1>1, <1>3 DEF CountersOK, Counter, Conservation, Pending
<1>6. ShutdownInv'
  BY <1>1, <1>2, <1>3 DEF CountersOK, Counter, ShutdownInv
<1> QED BY <1>4, <1>5, <1>6

\* The map that was flushed is given up.
LEMMA ReportKeeps ==
  ASSUME RecorderInv, Report
  PROVE  RecorderInv'
<1> USE DEF RecorderInv, counts
<1>1. /\ pc = "report" /\ reported' = reported + drops /\ drops' = 0
      /\ pc' = (IF last THEN "done" ELSE "select")
      /\ merge' = (IF last THEN merge ELSE Zero)
      /\ UNCHANGED <<ch, last, stored, closer, alive, recorded, rejected, lost, before>>
  BY DEF Report
<1>2. merge' \in Counter /\ (~last => \A c \in Codes : merge'[c] = 0)
  BY <1>1 DEF Zero, CountersOK, Counter
<1>3. CountersOK'
  BY <1>1, <1>2 DEF CountersOK
<1>4. Conservation'
  BY <1>1, <1>2 DEF CountersOK, Counter, Conservation, Pending
<1>5. ShutdownInv'
  BY <1>1 DEF CountersOK, ShutdownInv
<1> QED BY <1>3, <1>4, <1>5

LEMMA RecorderNext == RecorderInv /\ [Next]_vars => RecorderInv'
<1> SUFFICES ASSUME RecorderInv, [Next]_vars PROVE RecorderInv'
  OBVIOUS
<1> USE DEF RecorderInv, counts
<1>1. CASE Tick
  BY <1>1 DEF Tick, CountersOK, Conservation, Pending, ShutdownInv
<1>2. CASE SeeStop
  BY <1>2 DEF SeeStop, CountersOK, Conservation, Pending, ShutdownInv
<1>3. CASE Close
  <2>1. /\ closer = "open" /\ closer' = "wait" /\ before' = recorded
        /\ UNCHANGED <<ch, drops, pc, last, merge, stored, alive, recorded,
                       rejected, lost, reported>>
    BY <1>3 DEF Close
  <2>2. CountersOK' /\ Conservation'
    BY <2>1 DEF CountersOK, Conservation, Pending
  <2>3. pc # "done" /\ (last => pc = "select")
    BY <2>1 DEF ShutdownInv
  <2>4. \A c \in Codes : recorded[c] <= recorded[c]
    BY DEF CountersOK, Counter
  <2> QED BY <2>1, <2>2, <2>3, <2>4 DEF ShutdownInv
<1>4. CASE CloseBackend
  BY <1>4 DEF CloseBackend, CountersOK, Conservation, Pending, ShutdownInv
<1>5. CASE Exit
  BY <1>5 DEF Exit, CountersOK, Conservation, Pending, ShutdownInv
<1>6. CASE UNCHANGED vars
  BY <1>6 DEF vars, CountersOK, Conservation, Pending, ShutdownInv
<1> QED BY <1>1, <1>2, <1>3, <1>4, <1>5, <1>6, RecordKeeps, ReceiveKeeps,
           IncrBatchKeeps, DrainedKeeps, ReportKeeps DEF Next

\* Each hit is in the channel, in the map, counted once, or lost with a flush that
\* failed; and no drop is forgotten.
THEOREM ConservationHolds == Spec => []Conservation
<1>1. RecorderInv => Conservation
  BY DEF RecorderInv
<1> QED BY <1>1, RecorderInit, RecorderNext, PTL DEF Spec

\* Close leaves no hit behind that was recorded before it.
THEOREM CleanShutdownHolds == Spec => []CleanShutdown
<1>1. RecorderInv => CleanShutdown
  BY DEF RecorderInv, ShutdownInv, CleanShutdown
<1> QED BY <1>1, RecorderInit, RecorderNext, PTL DEF Spec

\* A hit goes into the channel only where there is room, and takes the room of one.
LEMMA BufferNext ==
  CountersOK /\ SumFunction(ch) <= BufferSize /\ [Next]_vars
    => SumFunction(ch)' <= BufferSize
<1> SUFFICES ASSUME CountersOK, SumFunction(ch) <= BufferSize, [Next]_vars
             PROVE  SumFunction(ch') <= BufferSize
  OBVIOUS
<1>1. ch \in [Codes -> Nat] /\ IsFiniteSet(Codes) /\ BufferSize \in Nat
  BY RecorderAssumption DEF CountersOK, Counter
<1>2. ASSUME NEW c \in Codes, Record(c) PROVE SumFunction(ch') <= BufferSize
  <2>1. CASE SumFunction(ch) < BufferSize
    <3>1. ch' = [ch EXCEPT ![c] = ch[c] + 1]
      BY <1>2, <2>1 DEF Record
    <3>2. ch[c] \in Nat /\ ch[c] + 1 \in Nat
      BY <1>1
    <3>3. /\ SumFunction(ch) \in Nat
          /\ SumFunction([ch EXCEPT ![c] = ch[c] + 1]) = SumFunction(ch) + (ch[c] + 1) - ch[c]
      BY <1>1, <3>2, SumChanges
    <3> QED BY <1>1, <2>1, <3>1, <3>2, <3>3
  <2>2. CASE ~(SumFunction(ch) < BufferSize)
    BY <1>2, <2>2 DEF Record
  <2> QED BY <2>1, <2>2
<1>3. ASSUME NEW c \in Codes, Receive(c) PROVE SumFunction(ch') <= BufferSize
  <2>1. ch' = [ch EXCEPT ![c] = ch[c] - 1] /\ ch[c] > 0
    BY <1>3 DEF Receive
  <2>2. ch[c] \in Nat /\ ch[c] - 1 \in Nat
    BY <1>1, <2>1
  <2>3. /\ SumFunction(ch) \in Nat
        /\ SumFunction([ch EXCEPT ![c] = ch[c] - 1]) = SumFunction(ch) + (ch[c] - 1) - ch[c]
    BY <1>1, <2>2, SumChanges
  <2> QED BY <1>1, <2>1, <2>2, <2>3
<1>4. CASE UNCHANGED ch
  BY <1>4
<1>5. CASE Tick \/ SeeStop \/ Drained \/ IncrBatch \/ Report \/ Close \/ CloseBackend \/ Exit
  BY <1>4, <1>5 DEF Tick, SeeStop, Drained, IncrBatch, Report, Close, CloseBackend, Exit
<1> QED BY <1>2, <1>3, <1>4, <1>5 DEF Next, vars

\* The channel never holds more than its capacity (cores/stats_recorder.go:60:
\* Record tries to send, and drops), and no counter goes below zero.
THEOREM TypesHold == Spec => []TypeOK
<1> DEFINE Inv == RecorderInv /\ SumFunction(ch) <= BufferSize
<1>1. Init => Inv
  BY RecorderInit, SumOfZeros, RecorderAssumption DEF Init, Zero
<1>2. Inv /\ [Next]_vars => Inv'
  BY RecorderNext, BufferNext DEF RecorderInv
<1>3. Inv => TypeOK
  BY DEF RecorderInv, TypeOK
<1> QED BY <1>1, <1>2, <1>3, PTL DEF Spec

-----------------------------------------------------------------------------
(* The days of the backends. *)

\* With its days, a step is still a step of StatsRecorder, or none.
LEMMA DaysStep == [DaysNext]_allVars => [Next]_vars
<1> SUFFICES ASSUME [DaysNext]_allVars PROVE [Next]_vars
  OBVIOUS
<1>1. CASE \E c \in Codes : Record(c) \/ Receive(c)
  BY <1>1 DEF Next
<1>2. CASE SeeStop \/ Report \/ Close \/ Exit
  BY <1>2 DEF Next
<1>3. CASE FlushStarts \/ CountInTable \/ CloseTables
  BY <1>3 DEF Next, FlushStarts, CountInTable, CloseTables
<1>4. CASE \E a \in Ages : TableExpires(a)
  BY <1>4 DEF TableExpires
<1>5. CASE Midnight \/ UNCHANGED allVars
  BY <1>5 DEF Midnight, allVars
<1> QED BY <1>1, <1>2, <1>3, <1>4, <1>5 DEF DaysNext

\* The recorder that keeps its counts by day, in either backend, implements the
\* recorder that does not: what is proved of StatsRecorder holds for it.
THEOREM DaysImplementRecorder == DaysSpec => Spec
<1>1. DaysInit => Init
  BY DEF DaysInit
<1> QED BY <1>1, DaysStep, PTL DEF DaysSpec, Spec

\* Every hit is in one place, whatever day it is (cores/stats_recorder.go:107).
COROLLARY DaysConserve == DaysSpec => []Conservation
BY DaysImplementRecorder, ConservationHolds, PTL

\* A table that a query may still reach is not near its expiry, and complete.
DaysInv ==
  /\ flushDay \in {0, 1}
  /\ tables = [a \in Ages |-> tables[a]] /\ accepted = [a \in Ages |-> accepted[a]]
  /\ ttl \in [Ages -> Int]
  /\ \A a \in 0 .. Retention : ttl[a] >= TableLife - a
  /\ closer # "closed" => \A a \in 0 .. Retention : tables[a] = accepted[a]

LEMMA DaysInvInit == DaysInit => DaysInv
BY DaysAssumption DEF DaysInit, DaysInv, Init, Ages, Never, TableLife, Zero

LEMMA DaysInvFrame ==
  ASSUME DaysInv, UNCHANGED dayVars, closer' # "closed" => closer # "closed"
  PROVE  DaysInv'
BY DEF DaysInv, dayVars

\* A flush takes the same for the table and for the record of what was taken.
LEMMA CountKeeps == ASSUME DaysInv, CountInTable PROVE DaysInv'
<1>1. /\ UNCHANGED <<flushDay, closer>>
      /\ flushDay \in 0 .. Retention /\ flushDay \in Ages /\ 0 .. Retention \subseteq Ages
  BY DaysAssumption DEF CountInTable, IncrBatch, DaysInv, Ages
<1>2. \A a \in Ages : tables[a] = accepted[a] => tables'[a] = accepted'[a]
  BY <1>1, Zenon DEF CountInTable, DaysInv
<1>3. /\ tables' = [a \in Ages |-> tables'[a]] /\ accepted' = [a \in Ages |-> accepted'[a]]
  BY DEF CountInTable, DaysInv
<1>4. ttl' = ttl \/ ttl' = [ttl EXCEPT ![flushDay] = TableLife]
  BY DEF CountInTable
<1>5. /\ ttl' \in [Ages -> Int] /\ \A a \in 0 .. Retention : ttl'[a] >= TableLife - a
  BY <1>1, <1>4, DaysAssumption DEF DaysInv, TableLife
<1> QED BY <1>1, <1>2, <1>3, <1>5 DEF DaysInv

\* Only the memory backend forgets, and only when the service is closed.
LEMMA CloseKeeps == ASSUME DaysInv, CloseTables PROVE DaysInv'
BY DEF DaysInv, CloseTables, CloseBackend, Ages

\* What Redis drops no query reaches.
LEMMA ExpiryKeeps ==
  ASSUME DaysInv, NEW a \in Ages, TableExpires(a)
  PROVE  DaysInv'
<1>1. a \notin 0 .. Retention
  BY DaysAssumption DEF TableExpires, DaysInv, TableLife
<1>2. /\ tables' = [tables EXCEPT ![a] = Zero] /\ ttl' = [ttl EXCEPT ![a] = Never]
      /\ UNCHANGED <<closer, flushDay, accepted>>
  BY DEF TableExpires, vars
<1>3. /\ tables' = [b \in Ages |-> tables'[b]]
      /\ closer' # "closed" => \A b \in 0 .. Retention : tables'[b] = accepted'[b]
  BY <1>1, <1>2 DEF DaysInv
<1>4. /\ ttl' \in [Ages -> Int] /\ \A b \in 0 .. Retention : ttl'[b] >= TableLife - b
  BY <1>1, <1>2, DaysAssumption DEF DaysInv, Never
<1> QED BY <1>2, <1>3, <1>4 DEF DaysInv

\* At midnight a table has a day less to live, and a day less to be asked for.
LEMMA MidnightKeeps == ASSUME DaysInv, Midnight PROVE DaysInv'
<1>1. /\ tables' = Older(tables, Zero) /\ accepted' = Older(accepted, Zero)
      /\ flushDay' \in {0, 1} /\ UNCHANGED closer
      /\ \A a \in Ages : ttl[a] # 0
  BY DEF Midnight, vars
<1>2. ttl' = [a \in Ages |-> IF a = 0 THEN Never
                ELSE [b \in Ages |-> IF ttl[b] = Never THEN Never ELSE ttl[b] - 1][a - 1]]
  BY DEF Midnight, Older
<1>3. \A a \in Ages \ {0} : a - 1 \in Ages /\ (a \in 0 .. Retention => a - 1 \in 0 .. Retention)
  BY DaysAssumption DEF Ages
<1>4. \A a \in Ages : ttl'[a] = IF a = 0 \/ ttl[a - 1] = Never THEN Never ELSE ttl[a - 1] - 1
  BY <1>2, <1>3
<1>a. Never \in Int /\ Never >= TableLife /\ TableLife \in Int
  BY DaysAssumption DEF Never, TableLife
<1>5. ttl' \in [Ages -> Int]
  <2>1. \A a \in Ages : ttl[a] \in Int
    BY DEF DaysInv
  <2>2. \A a \in Ages : ttl'[a] \in Int
    BY <1>3, <1>4, <1>a, <2>1
  <2>3. ttl' = [a \in Ages |-> ttl'[a]]
    BY <1>2
  <2> QED BY <2>2, <2>3
<1>6. ASSUME NEW a \in 0 .. Retention PROVE ttl'[a] >= TableLife - a
  <2>1. a \in Ages /\ a \in Int /\ a >= 0
    BY DaysAssumption DEF Ages
  <2>2. CASE a = 0 \/ ttl[a - 1] = Never
    BY <1>4, <1>a, <2>1, <2>2
  <2>3. CASE a # 0 /\ ttl[a - 1] # Never
    <3>1. a - 1 \in 0 .. Retention /\ a - 1 \in Ages
      BY <1>3, <2>1, <2>3
    <3>2. ttl[a - 1] >= TableLife - (a - 1) /\ ttl[a - 1] \in Int
      BY <3>1 DEF DaysInv
    <3>3. ttl'[a] = ttl[a - 1] - 1
      BY <1>4, <2>1, <2>3
    <3> QED BY <1>a, <2>1, <3>2, <3>3
  <2> QED BY <2>2, <2>3
<1>7. /\ tables' = [a \in Ages |-> tables'[a]] /\ accepted' = [a \in Ages |-> accepted'[a]]
  BY <1>1 DEF Older
<1>8. ASSUME closer # "closed", NEW a \in 0 .. Retention
      PROVE  tables'[a] = accepted'[a]
  <2>1. a \in Ages
    BY DaysAssumption DEF Ages
  <2>2. CASE a = 0
    BY <1>1, <2>1, <2>2 DEF Older
  <2>3. CASE a # 0
    <3>1. tables'[a] = tables[a - 1] /\ accepted'[a] = accepted[a - 1]
      BY <1>1, <2>1, <2>3 DEF Older
    <3> QED BY <1>3, <1>8, <2>1, <2>3, <3>1 DEF DaysInv
  <2> QED BY <2>2, <2>3
<1> QED BY <1>1, <1>5, <1>6, <1>7, <1>8 DEF DaysInv

LEMMA DaysInvNext == DaysInv /\ [DaysNext]_allVars => DaysInv'
<1> SUFFICES ASSUME DaysInv, [DaysNext]_allVars PROVE DaysInv'
  OBVIOUS
<1>1. CASE UNCHANGED dayVars /\ (closer' # "closed" => closer # "closed")
  BY <1>1, DaysInvFrame
<1>2. CASE (\E c \in Codes : Record(c) \/ Receive(c)) /\ UNCHANGED dayVars
  BY <1>1, <1>2 DEF Record, Receive
<1>3. CASE (SeeStop \/ Report \/ Close \/ Exit) /\ UNCHANGED dayVars
  BY <1>1, <1>3 DEF SeeStop, Report, Close, Exit
<1>4. CASE FlushStarts
  <2>1. flushDay' = 0 /\ UNCHANGED <<closer, tables, ttl, accepted>>
    BY <1>4 DEF FlushStarts, Tick, Drained
  <2> QED BY <2>1 DEF DaysInv
<1>5. CASE CountInTable
  BY <1>5, CountKeeps
<1>6. CASE CloseTables
  BY <1>6, CloseKeeps
<1>7. CASE \E a \in Ages : TableExpires(a)
  BY <1>7, ExpiryKeeps
<1>8. CASE Midnight
  BY <1>8, MidnightKeeps
<1>9. CASE UNCHANGED allVars
  BY <1>1, <1>9 DEF allVars, vars
<1> QED BY <1>2, <1>3, <1>4, <1>5, <1>6, <1>7, <1>8, <1>9 DEF DaysNext

\* What is asked for lies in the retention, a day late at most.
LEMMA WindowReach ==
  ASSUME NEW late \in 0 .. 1, NEW asked \in 0 .. Retention
  PROVE  DayList(late, Days(asked)) \subseteq 0 .. Retention
BY DaysAssumption DEF DayList, Days

\* No query about the days of the retention misses a hit that the backend took,
\* for every retention, with a day to spare (ext/redisx/stats.go:77): Redis keeps a
\* table until no server's clock lets a query reach it.
THEOREM WindowCompleteHolds == DaysSpec => []WindowComplete
<1>1. DaysInv => WindowComplete
  <2> SUFFICES ASSUME DaysInv, closer # "closed",
                      NEW late \in 0 .. 1, NEW asked \in 0 .. Retention,
                      NEW ages, ages = DayList(late, Days(asked))
               PROVE  /\ BatchGet(tables, Codes, ages) = BatchGet(accepted, Codes, ages)
                      /\ \A c \in Codes : Get(tables, c, ages) = Get(accepted, c, ages)
    BY DEF WindowComplete
  <2>1. \A a \in ages : tables[a] = accepted[a]
    BY WindowReach DEF DaysInv
  <2>2. \A c : Get(tables, c, ages) = Get(accepted, c, ages)
    BY <2>1 DEF Get
  <2> QED BY <2>2 DEF BatchGet
<1> QED BY <1>1, DaysInvInit, DaysInvNext, PTL DEF DaysSpec

\* The counts of every day are natural numbers, and no expiry is behind.
TablesTyped ==
  /\ tables \in [Ages -> Counter] /\ accepted \in [Ages -> Counter]
  /\ ttl \in [Ages -> 0 .. Never] /\ flushDay \in {0, 1}

LEMMA AgesFacts ==
  /\ 0 \in Ages /\ 1 \in Ages /\ \A a \in Ages : a # 0 => a - 1 \in Ages
  /\ Never \in Nat /\ TableLife \in 0 .. Never
BY DaysAssumption DEF Ages, Never, TableLife

\* A flush never takes anything from the backend's counts.
LEMMA FlushAdds ==
  ASSUME CountersOK, IncrBatch
  PROVE  \A c \in Codes : stored'[c] - stored[c] \in Nat
<1>1. PICK taken :
        stored' = [c \in Codes |-> stored[c] + IF c \in taken THEN merge[c] ELSE 0]
  BY DEF IncrBatch
<1>2. ASSUME NEW c \in Codes PROVE stored'[c] - stored[c] \in Nat
  <2>1. stored[c] \in Nat /\ merge[c] \in Nat
    BY DEF CountersOK, Counter
  <2> QED BY <1>1, <2>1
<1> QED BY <1>2

LEMMA CountInTableTypes ==
  ASSUME TablesTyped, CountersOK, CountInTable
  PROVE  TablesTyped'
<1>1. flushDay \in Ages /\ flushDay' = flushDay /\ flushDay \in {0, 1}
  BY AgesFacts DEF TablesTyped, CountInTable
<1>2. \A c \in Codes : stored'[c] - stored[c] \in Nat
  BY FlushAdds DEF CountInTable
<1>3. ASSUME NEW f \in [Ages -> Counter]
      PROVE  [f EXCEPT ![flushDay] =
                [c \in Codes |-> f[flushDay][c] + (stored'[c] - stored[c])]] \in [Ages -> Counter]
  <2>1. f[flushDay] \in [Codes -> Nat]
    BY <1>1 DEF Counter
  <2>2. \A c \in Codes : f[flushDay][c] + (stored'[c] - stored[c]) \in Nat
    BY <1>2, <2>1
  <2>3. [c \in Codes |-> f[flushDay][c] + (stored'[c] - stored[c])] \in Counter
    BY <2>2 DEF Counter
  <2> QED BY <1>1, <2>3
<1>4. tables' \in [Ages -> Counter]
  <2>1. tables' = [tables EXCEPT ![flushDay] =
                     [c \in Codes |-> tables[flushDay][c] + (stored'[c] - stored[c])]]
    BY DEF CountInTable
  <2> QED BY <1>3, <2>1 DEF TablesTyped
<1>5. accepted' \in [Ages -> Counter]
  <2>1. accepted' = [accepted EXCEPT ![flushDay] =
                       [c \in Codes |-> accepted[flushDay][c] + (stored'[c] - stored[c])]]
    BY DEF CountInTable
  <2> QED BY <1>3, <2>1 DEF TablesTyped
<1>6. ttl' = ttl \/ ttl' = [ttl EXCEPT ![flushDay] = TableLife]
  BY DEF CountInTable
<1>7. ttl' \in [Ages -> 0 .. Never]
  BY <1>1, <1>6, AgesFacts DEF TablesTyped
<1> QED BY <1>1, <1>4, <1>5, <1>7 DEF TablesTyped

LEMMA MidnightTypes ==
  ASSUME TablesTyped, Midnight
  PROVE  TablesTyped'
<1>1. Zero \in Counter
  BY DEF Zero, Counter
<1>2. tables' \in [Ages -> Counter] /\ accepted' \in [Ages -> Counter]
  BY <1>1, AgesFacts DEF TablesTyped, Midnight, Older
<1>3. ASSUME NEW a \in Ages
      PROVE  (IF ttl[a] = Never THEN Never ELSE ttl[a] - 1) \in 0 .. Never
  BY AgesFacts DEF TablesTyped, Midnight
<1> DEFINE left == [a \in Ages |-> IF ttl[a] = Never THEN Never ELSE ttl[a] - 1]
<1>4. left \in [Ages -> 0 .. Never]
  BY <1>3
<1>5. ttl' = Older(left, Never)
  BY DEF Midnight
<1> HIDE DEF left
<1>6. ttl' \in [Ages -> 0 .. Never]
  BY <1>4, <1>5, AgesFacts DEF Older
<1> QED BY <1>2, <1>6 DEF TablesTyped, Midnight

LEMMA TablesTypedNext ==
  ASSUME TablesTyped, CountersOK, [DaysNext]_allVars
  PROVE  TablesTyped'
<1>1. Zero \in Counter
  BY DEF Zero, Counter
<1>2. CASE UNCHANGED dayVars
  BY <1>2 DEF TablesTyped, dayVars
<1>3. CASE FlushStarts
  BY <1>3 DEF TablesTyped, FlushStarts
<1>4. CASE CountInTable
  BY <1>4, CountInTableTypes
<1>5. CASE CloseTables
  BY <1>1, <1>5 DEF TablesTyped, CloseTables
<1>6. ASSUME NEW a \in Ages, TableExpires(a) PROVE TablesTyped'
  BY <1>1, <1>6, AgesFacts DEF TablesTyped, TableExpires
<1>7. CASE Midnight
  BY <1>7, MidnightTypes
<1> QED BY <1>2, <1>3, <1>4, <1>5, <1>6, <1>7 DEF DaysNext, allVars

\* Whatever day a flush falls on and however far it gets, the counts of each day
\* are counts, and the channel keeps to its capacity.
THEOREM DaysTypesHold == DaysSpec => []DaysOK
<1> DEFINE Inv == RecorderInv /\ TablesTyped
<1>1. DaysInit => Inv
  <2>1. DaysInit => RecorderInv
    BY RecorderInit DEF DaysInit
  <2>2. DaysInit => TablesTyped
    BY AgesFacts DEF DaysInit, TablesTyped, Zero, Counter
  <2> QED BY <2>1, <2>2
<1>2. Inv /\ [DaysNext]_allVars => Inv'
  BY RecorderNext, DaysStep, TablesTypedNext DEF RecorderInv
<1>3. TypeOK /\ Inv => DaysOK
  BY DEF DaysOK, TablesTyped
<1> QED BY <1>1, <1>2, <1>3, DaysImplementRecorder, TypesHold, PTL DEF DaysSpec

=============================================================================
