-------------------------- MODULE CodeSupplyProofs --------------------------
(***************************************************************************)
(* What CodeSupply guarantees for every code length, batch size, number of *)
(* goroutines and choice of faults, proved.                                *)
(***************************************************************************)
EXTENDS CodeSupply, FiniteSetTheorems, TLAPS

\* What is proved of the generator.
Generator == INSTANCE CodeGeneratorProofs
               WITH MaxLength <- CodeLength, MaxBatchSize <- BatchSize,
                    gen <- <<>>, batches <- <<>>

\* What the locals hold while a worker uses them, and before it does: the
\* induction needs to know where the loops over batches and codes begin and end.
LoopsOK ==
  /\ \A r \in Refillers :
        /\ pc[r] \in {"idle", "lock", "index"} => pos[r] = 1
        /\ pc[r] \in {"add", "save"} => idx[r] <= gen.step
  /\ \A b \in Rebuilders :
        /\ pc[b] \in {"idle", "lock", "clear", "bound"} => idx[b] = 0
        /\ pc[b] = "regenerate" => idx[b] < end[b]

TypeInv == TypeOK /\ LoopsOK

-----------------------------------------------------------------------------
(* Lemmas about the helpers. *)

\* The conversions of this length: the numbers end at a natural number, and each
\* has a code of its own, of exactly this length.
LEMMA NumbersFacts ==
  /\ MaxNumber(CodeLength) \in Nat
  /\ \A n \in 0 .. MaxNumber(CodeLength) :
        /\ Len(ToBase62(n, CodeLength)) = CodeLength
        /\ \A m \in 0 .. MaxNumber(CodeLength) :
              ToBase62(m, CodeLength) = ToBase62(n, CodeLength) => m = n
<1>1. CodeLength \in Nat
  BY SizesAssumption
<1>2. \A n : Generator!ToBase62(n, CodeLength) = ToBase62(n, CodeLength)
  BY Zenon DEF ToBase62, Generator!ToBase62, DigitsOf, Generator!DigitsOf
<1>3. Generator!MaxNumber(CodeLength) = MaxNumber(CodeLength)
  BY Zenon DEF MaxNumber, Generator!MaxNumber, FromBase62, Generator!FromBase62,
               Digit, Generator!Digit
<1>4. /\ Generator!MaxNumber(CodeLength) \in Nat
      /\ \A n \in 0 .. Generator!MaxNumber(CodeLength) :
            /\ Len(Generator!ToBase62(n, CodeLength)) = CodeLength
            /\ \A m \in 0 .. Generator!MaxNumber(CodeLength) :
                  Generator!ToBase62(m, CodeLength) = Generator!ToBase62(n, CodeLength) => m = n
  BY <1>1, SizesAssumption, BaseAssumption, Generator!CodesOfNumbers, Zenon
<1> QED BY <1>2, <1>3, <1>4

\* The step of the generator is a natural number.
LEMMA StepType == gen.step \in Nat
<1>1. ASSUME NEW m \in Nat, NEW n \in Nat \ {0} PROVE m \div n \in Nat
  BY <1>1
<1>2. gen.step = MaxNumber(CodeLength) \div BatchSize
  BY DEF gen, NewShortCodeGenerator
<1> QED BY <1>1, <1>2, NumbersFacts, SizesAssumption

\* The code at a position of a batch is one of the codes of this length.
LEMMA CodeAtType ==
  ASSUME NEW i \in Indexes, NEW j \in Positions
  PROVE  CodeAt(i, j) \in Codes
BY DEF Codes, Batch

\* A creator's, a refiller's and a rebuilder's next control state.
LEMMA GotoPc ==
  ASSUME PcOK, NEW p \in Procs, NEW where, Goto(p, where),
         \/ p \in Creators /\ where \in CreatorPc
         \/ p \in Refillers /\ where \in RefillPc
         \/ p \in Rebuilders /\ where \in RebuildPc
  PROVE  /\ PcOK'
         /\ pc'[p] = where
         /\ \A q \in Procs : q # p => pc'[q] = pc[q]
BY ProcsAssumption DEF PcOK, Goto, Procs, Workers

\* The same for a creator's step that may start a refill.
LEMMA GotoAndRefillPc ==
  ASSUME PcOK, NEW c \in Creators, NEW where \in CreatorPc,
         GotoAndRefill(c, where)
  PROVE  /\ PcOK'
         /\ pc'[c] = where
         /\ \A d \in Creators : d # c => pc'[d] = pc[d]
         /\ \A b \in Rebuilders : pc'[b] = pc[b]
         /\ \A r \in Refillers :
               pc'[r] = pc[r] \/ (pc[r] = "idle" /\ pc'[r] = "lock")
<1>1. CASE {r \in Refillers : pc[r] = "idle"} = {}
  <2>1. Goto(c, where)
    BY <1>1 DEF GotoAndRefill
  <2> QED BY <2>1, GotoPc, ProcsAssumption DEF Procs, Workers
<1>2. CASE {r \in Refillers : pc[r] = "idle"} # {}
  <2>1. PICK s \in Refillers : /\ pc[s] = "idle"
                               /\ pc' = [pc EXCEPT ![c] = where, ![s] = "lock"]
    BY <1>2 DEF GotoAndRefill
  <2>2. c # s /\ c \in Procs /\ s \in Procs /\ s \notin Rebuilders
    BY ProcsAssumption DEF Procs, Workers
  <2>3. \A q \in Procs :
           pc'[q] = IF q = s THEN "lock" ELSE IF q = c THEN where ELSE pc[q]
    BY <2>1, <2>2 DEF PcOK
  <2>4. pc' \in [Procs -> CreatorPc \cup RefillPc \cup RebuildPc]
    BY <2>1, <2>2 DEF PcOK, RefillPc
  <2> QED BY <2>1, <2>2, <2>3, <2>4, ProcsAssumption
          DEF PcOK, Procs, Workers, RefillPc
<1> QED BY <1>1, <1>2

\* A worker that returns is idle and its locals are as they were at the start.
LEMMA ReturnLocals ==
  ASSUME PcOK, LocalsOK, LoopsOK, NEW w \in Workers, Return(w)
  PROVE  /\ PcOK' /\ LocalsOK' /\ LoopsOK'
         /\ pc'[w] = "idle"
         /\ \A q \in Procs : q # w => pc'[q] = pc[q]
<1>1. w \in Procs /\ Goto(w, "idle")
  BY DEF Procs, Return
<1>2. /\ PcOK' /\ pc'[w] = "idle"
      /\ \A q \in Procs : q # w => pc'[q] = pc[q]
  BY <1>1, GotoPc DEF Workers, RefillPc, RebuildPc
<1>3. LocalsOK'
  BY SizesAssumption, StepType DEF Return, LocalsOK, Positions
<1>4. /\ pos'[w] = 1 /\ idx'[w] = 0
      /\ \A v \in Workers : v # w => /\ pos'[v] = pos[v] /\ idx'[v] = idx[v]
                                     /\ end'[v] = end[v]
  BY DEF Return, LocalsOK
<1>5. LoopsOK'
  BY <1>2, <1>4 DEF LoopsOK, Procs, Workers
<1> QED BY <1>2, <1>3, <1>5

-----------------------------------------------------------------------------
(* Type correctness. *)

LEMMA TypeInit == Init => TypeInv
<1> SUFFICES ASSUME Init PROVE TypeInv
  OBVIOUS
<1>1. StoresOK
  <2>1. <<>> \in Seq(Codes \cup {NoCode})
    OBVIOUS
  <2>2. links \in Seq(Codes \cup {NoCode})
    BY <2>1 DEF Init
  <2>3. startIndex \in 0 .. gen.step + 1
    BY StepType DEF Init
  <2> QED BY <2>2, <2>3 DEF Init, StoresOK
<1>2. PcOK
  BY DEF Init, PcOK, Procs, Workers, CreatorPc, RefillPc, RebuildPc
<1>3. LocalsOK
  BY SizesAssumption, StepType DEF Init, LocalsOK, Positions
<1>4. LoopsOK
  BY DEF Init, LoopsOK, Procs, Workers
<1> QED BY <1>1, <1>2, <1>3, <1>4 DEF TypeInv, TypeOK

\* The locals of workers only matter to LoopsOK.
LEMMA CreatorLoops ==
  ASSUME TypeInv, PcOK', NEW c \in Creators,
         UNCHANGED <<idx, pos, end>>,
         \A b \in Rebuilders : pc'[b] = pc[b],
         \A r \in Refillers : \/ pc'[r] = pc[r]
                              \/ pc[r] = "idle" /\ pc'[r] = "lock"
  PROVE  LoopsOK'
BY DEF TypeInv, LoopsOK

\* A step of Create keeps the types.
LEMMA TypeCreate ==
  ASSUME TypeInv, NEW c \in Creators, Create(c) \/ CrashCreator(c)
  PROVE  TypeInv'
<1> USE DEF TypeInv, TypeOK, stores, locals
<1>p. c \in Procs /\ c \notin Refillers /\ c \notin Rebuilders
  BY ProcsAssumption DEF Procs, Workers
<1>g. ASSUME NEW where \in CreatorPc, Goto(c, where)
      PROVE  /\ PcOK'
             /\ \A b \in Rebuilders : pc'[b] = pc[b]
             /\ \A r \in Refillers : pc'[r] = pc[r]
  BY <1>g, <1>p, GotoPc DEF Procs, Workers
<1>1. CASE Pull(c)
  <2>1. Goto(c, "size") /\ UNCHANGED <<lockKey, startIndex, links, cache, idx, pos, end, from, page>>
    BY <1>1 DEF Pull
  <2>2. PICK k \in pool : pool' = pool \ {k} /\ code' = [code EXCEPT ![c] = k]
    BY <1>1 DEF Pull
  <2>3. StoresOK' /\ LocalsOK'
    BY <2>1, <2>2 DEF StoresOK, LocalsOK
  <2>4. PcOK' /\ LoopsOK'
    BY <2>1, <1>g, CreatorLoops DEF CreatorPc
  <2> QED BY <2>3, <2>4
<1>2. CASE PullEmpty(c)
  <2>1. StoresOK' /\ LocalsOK'
    BY <1>2 DEF PullEmpty, StoresOK, LocalsOK
  <2>2. PcOK' /\ LoopsOK'
    BY <1>2, GotoAndRefillPc, CreatorLoops DEF PullEmpty, CreatorPc
  <2> QED BY <2>1, <2>2
<1>3. CASE PoolSize(c)
  <2>1. StoresOK' /\ LocalsOK'
    BY <1>3 DEF PoolSize, StoresOK, LocalsOK
  <2>2. CASE Goto(c, "cache")
    BY <1>3, <2>1, <2>2, <1>g, CreatorLoops DEF PoolSize, CreatorPc
  <2>3. CASE GotoAndRefill(c, "cache")
    BY <1>3, <2>1, <2>3, GotoAndRefillPc, CreatorLoops DEF PoolSize, CreatorPc
  <2> QED BY <1>3, <2>2, <2>3 DEF PoolSize
<1>4. CASE CacheAdd(c)
  <2>1. StoresOK' /\ LocalsOK'
    BY <1>4 DEF CacheAdd, StoresOK, LocalsOK
  <2>2. PcOK' /\ LoopsOK'
    BY <1>4, <1>g, CreatorLoops DEF CacheAdd, CreatorPc
  <2> QED BY <2>1, <2>2
<1>5. CASE RowCreate(c)
  <2>1. StoresOK' /\ LocalsOK'
    BY <1>5 DEF RowCreate, StoresOK, LocalsOK
  <2>2. PcOK' /\ LoopsOK'
    BY <1>5, <1>g, CreatorLoops DEF RowCreate, CreatorPc
  <2> QED BY <2>1, <2>2
<1>6. CASE CrashCreator(c)
  <2>1. StoresOK' /\ LocalsOK'
    BY <1>6 DEF CrashCreator, StoresOK, LocalsOK
  <2>2. PcOK' /\ LoopsOK'
    BY <1>6, <1>g, CreatorLoops DEF CrashCreator, CreatorPc
  <2> QED BY <2>1, <2>2
<1> QED BY <1>1, <1>2, <1>3, <1>4, <1>5, <1>6 DEF Create

\* A step of batchGenerate keeps the types.
LEMMA TypeRefill ==
  ASSUME TypeInv, NEW r \in Refillers, Refill(r)
  PROVE  TypeInv'
<1> USE DEF TypeInv, TypeOK, stores, locals
<1>p. r \in Procs /\ r \in Workers /\ r \notin Rebuilders
  BY ProcsAssumption DEF Procs, Workers
<1>g. ASSUME NEW where \in RefillPc, Goto(r, where)
      PROVE  /\ PcOK' /\ pc'[r] = where
             /\ \A q \in Procs : q # r => pc'[q] = pc[q]
  BY <1>g, <1>p, GotoPc
<1>1. CASE Startup(r)
  <2>1. StoresOK' /\ LocalsOK'
    BY <1>1 DEF Startup, StoresOK, LocalsOK
  <2>2. PcOK' /\ LoopsOK'
    BY <1>1, <1>p, <1>g DEF Startup, RefillPc, LoopsOK, Procs, Workers
  <2> QED BY <2>1, <2>2
<1>2. CASE Lock(r, "index")
  <2>1. StoresOK' /\ LocalsOK'
    BY <1>2 DEF Lock, StoresOK, LocalsOK
  <2>2. PcOK' /\ LoopsOK'
    BY <1>2, <1>p, <1>g DEF Lock, RefillPc, LoopsOK, Procs, Workers
  <2> QED BY <2>1, <2>2
<1>3. CASE ReadIndex(r)
  <2>1. CASE Exhausted(gen, startIndex)
    <3>1. Goto(r, "unlock") /\ UNCHANGED <<stores, locals>>
      BY <1>3, <2>1 DEF ReadIndex
    <3>2. PcOK' /\ LoopsOK'
      BY <3>1, <1>p, <1>g DEF RefillPc, LoopsOK, Procs, Workers
    <3> QED BY <3>1, <3>2 DEF StoresOK, LocalsOK
  <2>2. CASE ~Exhausted(gen, startIndex)
    <3>1. /\ pc[r] = "index" /\ Goto(r, "add")
          /\ idx' = [idx EXCEPT ![r] = startIndex]
          /\ UNCHANGED <<stores, code, pos, end, from, page>>
      BY <1>3, <2>2 DEF ReadIndex
    <3>2. startIndex <= gen.step
      BY <2>2, StepType DEF Exhausted, StoresOK
    <3>3. StoresOK' /\ LocalsOK'
      BY <3>1 DEF StoresOK, LocalsOK
    <3>4. idx'[r] = startIndex /\ \A v \in Workers : v # r => idx'[v] = idx[v]
      BY <3>1, <1>p DEF LocalsOK
    <3>5. PcOK' /\ LoopsOK'
      BY <3>1, <3>2, <3>4, <1>p, <1>g DEF RefillPc, LoopsOK, Procs, Workers
    <3> QED BY <3>3, <3>5
  <2> QED BY <2>1, <2>2
<1>4. CASE AddCode(r)
  <2>1. pc[r] = "add" /\ idx[r] \in Indexes /\ pos[r] \in Positions
    BY <1>4, <1>p, StepType DEF AddCode, LoopsOK, LocalsOK, Indexes
  <2>2. CodeAt(idx[r], pos[r]) \in Codes
    BY <2>1, CodeAtType
  <2>3. StoresOK'
    BY <1>4, <2>2 DEF AddCode, StoresOK
  <2>4. CASE pos[r] < BatchSize
    <3>1. pos' = [pos EXCEPT ![r] = pos[r] + 1] /\ UNCHANGED <<pc, code, idx, end, from, page>>
      BY <1>4, <2>4 DEF AddCode
    <3>2. pos[r] + 1 \in Positions
      BY <2>1, <2>4, SizesAssumption DEF Positions
    <3>3. LocalsOK'
      BY <3>1, <3>2 DEF LocalsOK
    <3>4. PcOK'
      BY <3>1 DEF PcOK
    <3>5. LoopsOK'
      BY <3>1, <2>1, <1>p DEF LoopsOK, LocalsOK, Workers
    <3> QED BY <2>3, <3>3, <3>4, <3>5
  <2>5. CASE ~(pos[r] < BatchSize)
    <3>1. Goto(r, "save") /\ UNCHANGED locals
      BY <1>4, <2>5 DEF AddCode
    <3>2. PcOK' /\ LoopsOK'
      BY <3>1, <2>1, <1>p, <1>g DEF RefillPc, LoopsOK, Procs, Workers
    <3> QED BY <2>3, <3>1, <3>2 DEF LocalsOK
  <2> QED BY <2>4, <2>5
<1>5. CASE SaveIndex(r)
  <2>1. startIndex' \in 0 .. gen.step + 1
    BY <1>5, <1>p, StepType DEF SaveIndex, LoopsOK, LocalsOK
  <2>2. StoresOK' /\ LocalsOK'
    BY <1>5, <2>1 DEF SaveIndex, StoresOK, LocalsOK
  <2>3. PcOK' /\ LoopsOK'
    BY <1>5, <1>p, <1>g DEF SaveIndex, RefillPc, LoopsOK, Procs, Workers
  <2> QED BY <2>2, <2>3
<1>6. CASE RefillFails(r)
  <2>1. StoresOK' /\ LocalsOK'
    BY <1>6 DEF RefillFails, StoresOK, LocalsOK
  <2>2. PcOK' /\ LoopsOK'
    BY <1>6, <1>p, <1>g DEF RefillFails, RefillPc, LoopsOK, Procs, Workers
  <2> QED BY <2>1, <2>2
<1>7. CASE Unlock(r)
  <2>1. StoresOK'
    BY <1>7 DEF Unlock, StoresOK
  <2> QED BY <1>7, <2>1, <1>p, ReturnLocals DEF Unlock
<1> QED BY <1>1, <1>2, <1>3, <1>4, <1>5, <1>6, <1>7 DEF Refill

\* A step of RebuildCodePool keeps the types.
LEMMA TypeRebuild ==
  ASSUME TypeInv, NEW b \in Rebuilders, Rebuild(b)
  PROVE  TypeInv'
<1> USE DEF TypeInv, TypeOK, stores, locals
<1>p. b \in Procs /\ b \in Workers /\ b \notin Refillers
  BY ProcsAssumption DEF Procs, Workers
<1>g. ASSUME NEW where \in RebuildPc, Goto(b, where)
      PROVE  /\ PcOK' /\ pc'[b] = where
             /\ \A q \in Procs : q # b => pc'[q] = pc[q]
  BY <1>g, <1>p, GotoPc
<1>1. CASE RebuildStart(b)
  <2>1. StoresOK' /\ LocalsOK'
    BY <1>1 DEF RebuildStart, StoresOK, LocalsOK
  <2>2. PcOK' /\ LoopsOK'
    BY <1>1, <1>p, <1>g DEF RebuildStart, RebuildPc, LoopsOK, Procs, Workers
  <2> QED BY <2>1, <2>2
<1>2. CASE Lock(b, "clear")
  <2>1. StoresOK' /\ LocalsOK'
    BY <1>2 DEF Lock, StoresOK, LocalsOK
  <2>2. PcOK' /\ LoopsOK'
    BY <1>2, <1>p, <1>g DEF Lock, RebuildPc, LoopsOK, Procs, Workers
  <2> QED BY <2>1, <2>2
<1>3. CASE ClearPool(b)
  <2>1. StoresOK' /\ LocalsOK'
    BY <1>3 DEF ClearPool, StoresOK, LocalsOK
  <2>2. PcOK' /\ LoopsOK'
    BY <1>3, <1>p, <1>g DEF ClearPool, RebuildPc, LoopsOK, Procs, Workers
  <2> QED BY <2>1, <2>2
<1>4. CASE ReadBound(b)
  <2>1. /\ pc[b] = "bound" /\ end' = [end EXCEPT ![b] = startIndex]
        /\ UNCHANGED <<stores, code, idx, pos, from, page>>
        /\ Goto(b, IF startIndex = 0 THEN "list" ELSE "regenerate")
    BY <1>4 DEF ReadBound
  <2>2. StoresOK' /\ LocalsOK'
    BY <2>1 DEF StoresOK, LocalsOK
  <2>3. end'[b] = startIndex /\ \A v \in Workers : v # b => end'[v] = end[v]
    BY <2>1, <1>p DEF LocalsOK
  <2>4. idx[b] = 0 /\ (startIndex # 0 => 0 < startIndex)
    BY <2>1, StepType DEF LoopsOK, StoresOK
  <2>5. PcOK' /\ LoopsOK'
    BY <2>1, <2>3, <2>4, <1>p, <1>g DEF RebuildPc, LoopsOK, Procs, Workers
  <2> QED BY <2>2, <2>5
<1>5. CASE Regenerate(b)
  <2>1. /\ pc[b] = "regenerate" /\ NextCode(b)
        /\ UNCHANGED <<lockKey, startIndex, links, cache, code, end, from, page>>
    BY <1>5 DEF Regenerate
  <2>2. /\ idx[b] < end[b] /\ idx[b] \in 0 .. gen.step + 1
        /\ end[b] \in 0 .. gen.step + 1 /\ pos[b] \in Positions
    BY <2>1, <1>p DEF LoopsOK, LocalsOK
  <2>3. idx[b] \in Indexes /\ idx[b] + 1 \in 0 .. gen.step + 1
    BY <2>2, StepType DEF Indexes
  <2>4. StoresOK'
    BY <1>5, <2>1, <2>2, <2>3, CodeAtType DEF Regenerate, StoresOK
  <2>5. CASE pos[b] < BatchSize
    <3>1. pos' = [pos EXCEPT ![b] = pos[b] + 1] /\ UNCHANGED <<idx, pc>>
      BY <2>1, <2>5 DEF NextCode
    <3>2. pos[b] + 1 \in Positions
      BY <2>2, <2>5, SizesAssumption DEF Positions
    <3>3. LocalsOK'
      BY <2>1, <3>1, <3>2 DEF LocalsOK
    <3>4. PcOK'
      BY <3>1 DEF PcOK
    <3>5. \A v \in Workers : v # b => pos'[v] = pos[v]
      BY <3>1 DEF LocalsOK
    <3>6. LoopsOK'
      BY <2>1, <3>1, <3>5, <1>p DEF LoopsOK, Workers
    <3> QED BY <2>4, <3>3, <3>4, <3>6
  <2>6. CASE ~(pos[b] < BatchSize)
    <3>1. /\ pos' = [pos EXCEPT ![b] = 1]
          /\ idx' = [idx EXCEPT ![b] = idx[b] + 1]
          /\ Goto(b, IF idx[b] + 1 < end[b] THEN "regenerate" ELSE "list")
      BY <2>1, <2>6 DEF NextCode
    <3>2. LocalsOK'
      <4>1. 1 \in Positions
        BY SizesAssumption DEF Positions
      <4> QED BY <2>1, <2>3, <3>1, <4>1 DEF LocalsOK
    <3>3. /\ idx'[b] = idx[b] + 1
          /\ \A v \in Workers : v # b => pos'[v] = pos[v] /\ idx'[v] = idx[v]
      BY <3>1, <1>p DEF LocalsOK
    <3>4. PcOK' /\ LoopsOK'
      BY <2>1, <3>1, <3>3, <1>p, <1>g DEF RebuildPc, LoopsOK, Procs, Workers
    <3> QED BY <2>4, <3>2, <3>4
  <2> QED BY <2>5, <2>6
<1>6. CASE ListPage(b)
  <2>1. PageAfter(from[b]) \subseteq Nat \ {0}
    BY DEF PageAfter, Later, StoresOK
  <2>2. /\ StoresOK' /\ UNCHANGED <<code, idx, pos, end>>
        /\ \E where \in {"unlock", "remove"} : Goto(b, where)
    BY <1>6 DEF ListPage, TakePage, StoresOK
  <2>3. PcOK' /\ LoopsOK'
    BY <2>2, <1>p, <1>g DEF RebuildPc, LoopsOK, Procs, Workers
  <2>4. LocalsOK'
    <3>1. CASE Later(from[b]) = {}
      BY <1>6, <3>1 DEF ListPage, LocalsOK
    <3>2. CASE Later(from[b]) # {}
      <4>1. PICK last \in PageAfter(from[b]) : from' = [from EXCEPT ![b] = last]
        BY <1>6, <3>2 DEF ListPage, TakePage
      <4>2. page' = [page EXCEPT ![b] = PageAfter(from[b])]
        BY <1>6, <3>2 DEF ListPage, TakePage
      <4>3. last \in Nat
        BY <2>1
      <4> QED BY <2>1, <2>2, <4>1, <4>2, <4>3 DEF LocalsOK
    <3> QED BY <3>1, <3>2
  <2> QED BY <2>2, <2>3, <2>4
<1>7. CASE RemoveUsed(b)
  <2>1. PICK id \in page[b] : /\ pool' = pool \ {links[id]} \/ UNCHANGED pool
                             /\ page' = [page EXCEPT ![b] = page[b] \ {id}]
                             /\ Goto(b, IF page[b] = {id} THEN "list" ELSE "remove")
    BY <1>7 DEF RemoveUsed
  <2>2. UNCHANGED <<lockKey, startIndex, links, cache, code, idx, pos, end, from>>
    BY <1>7 DEF RemoveUsed
  <2>3. StoresOK' /\ LocalsOK'
    BY <2>1, <2>2, <1>p DEF StoresOK, LocalsOK
  <2>4. PcOK' /\ LoopsOK'
    BY <2>1, <2>2, <1>p, <1>g DEF RebuildPc, LoopsOK, Procs, Workers
  <2> QED BY <2>3, <2>4
<1>8. CASE RebuildFails(b)
  <2>1. StoresOK' /\ LocalsOK'
    BY <1>8 DEF RebuildFails, StoresOK, LocalsOK
  <2>2. PcOK' /\ LoopsOK'
    BY <1>8, <1>p, <1>g DEF RebuildFails, RebuildPc, LoopsOK, Procs, Workers
  <2> QED BY <2>1, <2>2
<1>9. CASE Unlock(b)
  <2>1. StoresOK'
    BY <1>9 DEF Unlock, StoresOK
  <2> QED BY <1>9, <2>1, <1>p, ReturnLocals DEF Unlock
<1> QED BY <1>1, <1>2, <1>3, <1>4, <1>5, <1>6, <1>7, <1>8, <1>9 DEF Rebuild

LEMMA TypeNext == TypeInv /\ [Next]_vars => TypeInv'
<1> SUFFICES ASSUME TypeInv, [Next]_vars PROVE TypeInv'
  OBVIOUS
<1>1. ASSUME NEW c \in Creators, Create(c) \/ CrashCreator(c) PROVE TypeInv'
  BY <1>1, TypeCreate
<1>2. ASSUME NEW r \in Refillers, Refill(r) PROVE TypeInv'
  BY <1>2, TypeRefill
<1>3. ASSUME NEW b \in Rebuilders, Rebuild(b) PROVE TypeInv'
  BY <1>3, TypeRebuild
<1>4. ASSUME NEW w \in Workers, CrashWorker(w) PROVE TypeInv'
  <2>1. StoresOK' /\ Return(w)
    BY <1>4 DEF TypeInv, TypeOK, StoresOK, CrashWorker, stores
  <2> QED BY <2>1, ReturnLocals DEF TypeInv, TypeOK
<1>5. CASE LockLapse
  BY <1>5 DEF TypeInv, TypeOK, StoresOK, PcOK, LocalsOK, LoopsOK, LockLapse, locals
<1>6. CASE UNCHANGED vars
  BY <1>6 DEF TypeInv, TypeOK, StoresOK, PcOK, LocalsOK, LoopsOK, vars, stores, locals
<1> QED BY <1>1, <1>2, <1>3, <1>4, <1>5, <1>6 DEF Next

\* Every store, control state and local has its type in every execution; among
\* them the start index is at most one past the step (cores/gen.go:41).
THEOREM TypeCorrect == Spec => []TypeOK
<1>1. Init => TypeInv
  BY TypeInit
<1>2. TypeInv /\ [Next]_vars => TypeInv'
  BY TypeNext
<1>3. TypeInv => TypeOK
  BY DEF TypeInv
<1> QED BY <1>1, <1>2, <1>3, PTL DEF Spec

-----------------------------------------------------------------------------
(* The lock, as long as it does not lapse under a live holder. *)

\* A refill writes back the index it read: while it adds its batch, no one else
\* moved the stored one.
LockInv ==
  /\ MutualExclusion
  /\ \A r \in Refillers : pc[r] \in {"add", "save"} => idx[r] = startIndex

\* A step that neither enters the critical section nor touches the key or the
\* start index keeps LockInv.
LEMMA LockFrame ==
  ASSUME LockInv, UNCHANGED <<lockKey, startIndex>>,
         \A w \in Workers : Critical(w)' => Critical(w),
         \A r \in Refillers : pc'[r] \in {"add", "save"} =>
            pc[r] \in {"add", "save"} /\ idx'[r] = idx[r]
  PROVE  LockInv'
BY DEF LockInv, MutualExclusion

\* The step of one worker that stays outside, or was inside already.
LEMMA LockFrameStep ==
  ASSUME TypeInv, LockInv, UNCHANGED <<lockKey, startIndex>>,
         NEW w \in Workers, NEW where, pc'[w] = where,
         \A q \in Procs : q # w => pc'[q] = pc[q],
         \A r \in Refillers : r # w => idx'[r] = idx[r],
         Critical(w) \/ where \in {"idle", "lock"},
         where \in {"add", "save"} =>
            pc[w] \in {"add", "save"} /\ idx'[w] = idx[w]
  PROVE  LockInv'
<1>1. ASSUME NEW v \in Workers, Critical(v)' PROVE Critical(v)
  BY <1>1 DEF Critical, CriticalPc, Procs
<1>2. ASSUME NEW r \in Refillers, pc'[r] \in {"add", "save"}
      PROVE  pc[r] \in {"add", "save"} /\ idx'[r] = idx[r]
  BY <1>2 DEF Procs, Workers
<1> QED BY <1>1, <1>2, LockFrame

\* A creator's step leaves the lock and the workers' control state alone, but
\* may make an idle refiller try the lock.
LEMMA LockCreate ==
  ASSUME TypeInv, LockInv, NEW c \in Creators, Create(c) \/ CrashCreator(c)
  PROVE  LockInv'
<1>1. PcOK
  BY DEF TypeInv, TypeOK
<1>2. c \in Procs /\ c \notin Workers
  BY ProcsAssumption DEF Procs
<1>3. UNCHANGED <<lockKey, startIndex, idx>>
  BY DEF Create, Pull, PullEmpty, PoolSize, CacheAdd, RowCreate, CrashCreator,
         stores, locals
<1>4. \E where \in CreatorPc : Goto(c, where) \/ GotoAndRefill(c, where)
  BY DEF Create, Pull, PullEmpty, PoolSize, CacheAdd, RowCreate, CrashCreator,
         CreatorPc
<1>5. \A w \in Workers : pc'[w] = pc[w] \/ (pc[w] = "idle" /\ pc'[w] = "lock")
  <2>1. ASSUME NEW where \in CreatorPc, Goto(c, where)
        PROVE  \A w \in Workers : pc'[w] = pc[w]
    BY <2>1, <1>1, <1>2, GotoPc DEF Procs
  <2>2. ASSUME NEW where \in CreatorPc, GotoAndRefill(c, where)
        PROVE  \A w \in Workers :
                  pc'[w] = pc[w] \/ (pc[w] = "idle" /\ pc'[w] = "lock")
    BY <2>2, <1>1, GotoAndRefillPc DEF Workers
  <2> QED BY <1>4, <2>1, <2>2
<1>6. \A w \in Workers : Critical(w)' => Critical(w)
  BY <1>5 DEF Critical, CriticalPc
<1> QED BY <1>3, <1>5, <1>6, LockFrame DEF Workers

\* A step of batchGenerate keeps LockInv.
LEMMA LockRefill ==
  ASSUME TypeInv, LockInv, NEW r \in Refillers, Refill(r)
  PROVE  LockInv'
<1> USE DEF stores, locals
<1>p. /\ r \in Procs /\ r \in Workers /\ PcOK
      /\ r \notin Rebuilders
  BY ProcsAssumption DEF Procs, Workers, TypeInv, TypeOK
<1>g. ASSUME NEW where \in RefillPc, Goto(r, where)
      PROVE  pc'[r] = where /\ \A q \in Procs : q # r => pc'[q] = pc[q]
  BY <1>g, <1>p, GotoPc
<1>1. CASE Startup(r)
  BY <1>1, <1>p, <1>g, LockFrameStep
     DEF Startup, RefillPc, Critical, CriticalPc, RefillPc, RebuildPc
<1>2. CASE Lock(r, "index")
  <2>1. pc'[r] = (IF lockKey THEN "idle" ELSE "index") /\ lockKey'
        /\ UNCHANGED <<startIndex, idx>> /\ \A q \in Procs : q # r => pc'[q] = pc[q]
    BY <1>2, <1>p, <1>g DEF Lock, RefillPc
  <2>2. CASE lockKey
    BY <2>1, <2>2, <1>p, LockFrameStep DEF LockInv, MutualExclusion
  <2>3. CASE ~lockKey
    <3>1. \A v \in Workers : ~Critical(v)
      BY <2>3 DEF LockInv, MutualExclusion
    <3>2. \A v \in Workers : Critical(v)' => v = r
      BY <2>1, <3>1 DEF Critical, Procs
    <3>3. \A s \in Refillers : pc'[s] \notin {"add", "save"}
      BY <2>1, <2>3, <3>1, <1>p DEF Critical, CriticalPc, RefillPc, RebuildPc, Procs, Workers
    <3> QED BY <2>1, <3>2, <3>3 DEF LockInv, MutualExclusion
  <2> QED BY <2>2, <2>3
<1>3. CASE ReadIndex(r)
  <2>1. pc[r] = "index" /\ UNCHANGED <<lockKey, startIndex>> /\ idx \in [Workers -> 0 .. gen.step + 1]
    BY <1>3 DEF ReadIndex, TypeInv, TypeOK, LocalsOK
  <2>2. CASE Exhausted(gen, startIndex)
    BY <1>3, <2>1, <2>2, <1>p, <1>g, LockFrameStep
       DEF ReadIndex, RefillPc, RebuildPc, Critical, CriticalPc
  <2>3. CASE ~Exhausted(gen, startIndex)
    <3>1. Goto(r, "add") /\ idx' = [idx EXCEPT ![r] = startIndex]
      BY <1>3, <2>3 DEF ReadIndex
    <3>2. /\ pc'[r] = "add" /\ idx'[r] = startIndex
          /\ \A q \in Procs : q # r => pc'[q] = pc[q]
      BY <2>1, <3>1, <1>p, <1>g DEF RefillPc
    <3>3. Critical(r) /\ lockKey /\ \A v \in Workers : Critical(v) => v = r
      BY <2>1, <1>p DEF LockInv, MutualExclusion, Critical, CriticalPc, RefillPc
    <3>4. \A v \in Workers : Critical(v)' => v = r
      BY <3>2, <3>3 DEF Critical, Procs
    <3>5. \A s \in Refillers : pc'[s] \in {"add", "save"} => s = r
      BY <3>4 DEF Critical, CriticalPc, RefillPc, Workers
    <3> QED BY <2>1, <3>2, <3>3, <3>4, <3>5 DEF LockInv, MutualExclusion
  <2> QED BY <2>2, <2>3
<1>4. CASE AddCode(r)
  <2>1. pc[r] = "add" /\ UNCHANGED <<lockKey, startIndex, idx>> /\ (UNCHANGED pc \/ Goto(r, "save"))
    BY <1>4 DEF AddCode
  <2>2. CASE UNCHANGED pc
    BY <2>1, <2>2, LockFrame DEF Critical
  <2>3. CASE Goto(r, "save")
    BY <2>1, <2>3, <1>p, <1>g, LockFrameStep DEF RefillPc, RebuildPc, Critical, CriticalPc
  <2> QED BY <2>1, <2>2, <2>3
<1>5. CASE SaveIndex(r)
  <2>1. /\ pc[r] = "save" /\ UNCHANGED lockKey /\ pc'[r] = "unlock"
        /\ \A q \in Procs : q # r => pc'[q] = pc[q]
    BY <1>5, <1>p, <1>g DEF SaveIndex, RefillPc
  <2>2. Critical(r) /\ lockKey /\ \A v \in Workers : Critical(v) => v = r
    BY <2>1, <1>p DEF LockInv, MutualExclusion, Critical, CriticalPc, RefillPc
  <2>3. \A v \in Workers : Critical(v)' => v = r
    BY <2>1, <2>2 DEF Critical, Procs
  <2>4. \A s \in Refillers : pc'[s] \notin {"add", "save"}
    BY <2>1, <2>3 DEF Critical, CriticalPc, RefillPc, Workers
  <2> QED BY <2>1, <2>2, <2>3, <2>4 DEF LockInv, MutualExclusion
<1>6. CASE RefillFails(r)
  BY <1>6, <1>p, <1>g, LockFrameStep
     DEF RefillFails, RefillPc, Critical, CriticalPc, RefillPc, RebuildPc
<1>7. CASE Unlock(r)
  <2>1. pc[r] = "unlock" /\ Return(r) /\ UNCHANGED startIndex
    BY <1>7 DEF Unlock
  <2>2. \A v \in Workers : Critical(v) => v = r
    BY <2>1, <1>p DEF LockInv, MutualExclusion, Critical, CriticalPc, RefillPc
  <2>3. \A v \in Workers : ~Critical(v)'
    BY <2>1, <2>2, <1>p, ReturnLocals DEF TypeInv, TypeOK, Critical, CriticalPc, Procs
  <2> QED BY <2>3 DEF LockInv, MutualExclusion, Critical, CriticalPc, RefillPc,
                      Workers
<1> QED BY <1>1, <1>2, <1>3, <1>4, <1>5, <1>6, <1>7 DEF Refill

\* A step of RebuildCodePool keeps LockInv.
LEMMA LockRebuild ==
  ASSUME TypeInv, LockInv, NEW b \in Rebuilders, Rebuild(b)
  PROVE  LockInv'
<1> USE DEF stores, locals
<1>p. /\ b \in Procs /\ b \in Workers /\ PcOK
      /\ b \notin Refillers
  BY ProcsAssumption DEF Procs, Workers, TypeInv, TypeOK
<1>g. ASSUME NEW where \in RebuildPc, Goto(b, where)
      PROVE  pc'[b] = where /\ \A q \in Procs : q # b => pc'[q] = pc[q]
  BY <1>g, <1>p, GotoPc
<1>1. CASE RebuildStart(b)
  BY <1>1, <1>p, <1>g, LockFrameStep
     DEF RebuildStart, RebuildPc, Critical, CriticalPc, RefillPc, RebuildPc
<1>2. CASE Lock(b, "clear")
  <2>1. pc'[b] = (IF lockKey THEN "idle" ELSE "clear") /\ lockKey'
        /\ UNCHANGED <<startIndex, idx>> /\ \A q \in Procs : q # b => pc'[q] = pc[q]
    BY <1>2, <1>p, <1>g DEF Lock, RebuildPc
  <2>2. CASE lockKey
    BY <2>1, <2>2, <1>p, LockFrameStep DEF LockInv, MutualExclusion
  <2>3. CASE ~lockKey
    <3>1. \A v \in Workers : ~Critical(v)
      BY <2>3 DEF LockInv, MutualExclusion
    <3>2. \A v \in Workers : Critical(v)' => v = b
      BY <2>1, <3>1 DEF Critical, Procs
    <3>3. \A s \in Refillers : pc'[s] \notin {"add", "save"}
      BY <2>1, <2>3, <3>1, <1>p DEF Critical, CriticalPc, RefillPc, RebuildPc, Procs, Workers
    <3> QED BY <2>1, <3>2, <3>3 DEF LockInv, MutualExclusion
  <2> QED BY <2>2, <2>3
<1>3. CASE ClearPool(b)
  BY <1>3, <1>p, <1>g, LockFrameStep
     DEF ClearPool, RebuildPc, Critical, CriticalPc, RefillPc, RebuildPc
<1>4. CASE ReadBound(b)
  BY <1>4, <1>p, <1>g, LockFrameStep
     DEF ReadBound, RebuildPc, Critical, CriticalPc, RefillPc, RebuildPc
<1>5. CASE Regenerate(b)
  <2>1. /\ pc[b] = "regenerate" /\ UNCHANGED <<lockKey, startIndex>>
        /\ UNCHANGED idx \/ idx' = [idx EXCEPT ![b] = idx[b] + 1]
        /\ UNCHANGED pc \/ \E where \in {"regenerate", "list"} : Goto(b, where)
    BY <1>5 DEF Regenerate, NextCode
  <2>2. \A s \in Refillers : idx'[s] = idx[s]
    BY <2>1, <1>p DEF TypeInv, TypeOK, LocalsOK, Workers
  <2>3. CASE UNCHANGED pc
    BY <2>1, <2>2, <2>3, LockFrame DEF Critical
  <2>4. CASE \E where \in {"regenerate", "list"} : Goto(b, where)
    BY <2>1, <2>2, <2>4, <1>p, <1>g, LockFrameStep DEF RefillPc, RebuildPc, Critical, CriticalPc
  <2> QED BY <2>1, <2>3, <2>4
<1>6. CASE ListPage(b)
  <2>1. /\ pc[b] = "list" /\ UNCHANGED <<lockKey, startIndex, idx>>
        /\ \E where \in {"unlock", "remove"} : Goto(b, where)
    BY <1>6 DEF ListPage, TakePage
  <2> QED BY <2>1, <1>p, <1>g, LockFrameStep DEF RefillPc, RebuildPc, Critical, CriticalPc
<1>7. CASE RemoveUsed(b)
  <2>1. /\ pc[b] = "remove" /\ UNCHANGED <<lockKey, startIndex, idx>>
        /\ \E where \in {"list", "remove"} : Goto(b, where)
    BY <1>7 DEF RemoveUsed
  <2> QED BY <2>1, <1>p, <1>g, LockFrameStep DEF RefillPc, RebuildPc, Critical, CriticalPc
<1>8. CASE RebuildFails(b)
  BY <1>8, <1>p, <1>g, LockFrameStep
     DEF RebuildFails, RebuildPc, Critical, CriticalPc, RefillPc, RebuildPc
<1>9. CASE Unlock(b)
  <2>1. pc[b] = "unlock" /\ Return(b) /\ UNCHANGED startIndex
    BY <1>9 DEF Unlock
  <2>2. \A v \in Workers : Critical(v) => v = b
    BY <2>1, <1>p DEF LockInv, MutualExclusion, Critical, CriticalPc, RefillPc
  <2>3. \A v \in Workers : ~Critical(v)'
    BY <2>1, <2>2, <1>p, ReturnLocals DEF TypeInv, TypeOK, Critical, CriticalPc, Procs
  <2> QED BY <2>3 DEF LockInv, MutualExclusion, Critical, CriticalPc, RefillPc,
                      Workers
<1> QED BY <1>1, <1>2, <1>3, <1>4, <1>5, <1>6, <1>7, <1>8, <1>9 DEF Rebuild

LEMMA LockNext ==
  ASSUME ~LockMayLapse
  PROVE  TypeInv /\ LockInv /\ [Next]_vars => LockInv'
<1> SUFFICES ASSUME TypeInv, LockInv, [Next]_vars PROVE LockInv'
  OBVIOUS
<1>1. ASSUME NEW c \in Creators, Create(c) \/ CrashCreator(c) PROVE LockInv'
  BY <1>1, LockCreate
<1>2. ASSUME NEW r \in Refillers, Refill(r) PROVE LockInv'
  BY <1>2, LockRefill
<1>3. ASSUME NEW b \in Rebuilders, Rebuild(b) PROVE LockInv'
  BY <1>3, LockRebuild
<1>4. ASSUME NEW w \in Workers, CrashWorker(w) PROVE LockInv'
  <2>1. UNCHANGED <<lockKey, startIndex>> /\ Return(w)
    BY <1>4 DEF CrashWorker, stores
  <2>2. \A r \in Refillers : r # w => idx'[r] = idx[r]
    BY <2>1 DEF Return, TypeInv, TypeOK, LocalsOK, Workers
  <2> QED BY <2>1, <2>2, ReturnLocals, LockFrameStep DEF TypeInv, TypeOK
<1>5. CASE LockLapse
  BY <1>5 DEF LockInv, MutualExclusion, LockLapse, Critical, locals
<1>6. CASE UNCHANGED vars
  BY <1>6, LockFrame DEF vars, stores, locals, Critical
<1> QED BY <1>1, <1>2, <1>3, <1>4, <1>5, <1>6 DEF Next

LEMMA LockInit == Init => LockInv
BY DEF Init, LockInv, MutualExclusion, Critical, CriticalPc, Procs, Workers

\* At most one refill or rebuild is inside the critical section, with any calls
\* failing and any goroutines dying, if the lock's time to live is long enough.
THEOREM MutualExclusionHolds ==
  ASSUME ~LockMayLapse
  PROVE  Spec => []MutualExclusion
<1>1. Init => TypeInv /\ LockInv
  BY TypeInit, LockInit
<1>2. TypeInv /\ LockInv /\ [Next]_vars => (TypeInv /\ LockInv)'
  BY TypeNext, LockNext
<1>3. LockInv => MutualExclusion
  BY DEF LockInv
<1> QED BY <1>1, <1>2, <1>3, PTL DEF Spec

\* Under the same assumption no refill writes back an old start index.
THEOREM StartIndexMonotone ==
  ASSUME ~LockMayLapse
  PROVE  Spec => StartIndexNeverRegresses
<1>1. Init => TypeInv /\ LockInv
  BY TypeInit, LockInit
<1>2. TypeInv /\ LockInv /\ [Next]_vars => (TypeInv /\ LockInv)'
  BY TypeNext, LockNext
<1>3. TypeInv /\ LockInv /\ [Next]_vars => [startIndex' >= startIndex]_vars
  <2> SUFFICES ASSUME TypeInv, LockInv, Next PROVE startIndex' >= startIndex
    OBVIOUS
  <2>1. startIndex \in Nat
    BY StepType DEF TypeInv, TypeOK, StoresOK
  <2>2. ASSUME NEW r \in Refillers, SaveIndex(r) PROVE startIndex' = startIndex + 1
    BY <2>2 DEF SaveIndex, LockInv
  <2>3. UNCHANGED startIndex \/ \E r \in Refillers : SaveIndex(r)
    BY DEF Next, Create, Pull, PullEmpty, PoolSize, CacheAdd, RowCreate,
           CrashCreator, CrashWorker, LockLapse, Refill, Startup, Lock, ReadIndex,
           AddCode, RefillFails, Unlock, Rebuild, RebuildStart, ClearPool,
           ReadBound, Regenerate, ListPage, TakePage, RemoveUsed, RebuildFails, stores
  <2> QED BY <2>1, <2>2, <2>3
<1> QED BY <1>1, <1>2, <1>3, PTL DEF Spec, StartIndexNeverRegresses

-----------------------------------------------------------------------------
(* No code is lost: without rebuilds, with reliable creators, whatever fails *)
(* in the refills and also when the lock lapses under them.                  *)

\* Where a code is accounted for.
Accounted == pool \cup Held \cup Linked

\* All batches before the one a refill works on, and the codes of that batch it
\* has passed, are accounted for: so are all batches up to the index it saves.
LostInv ==
  /\ Generated \subseteq Accounted
  /\ \A r \in Refillers :
        /\ pc[r] \in {"add", "save"} =>
              \A i \in 0 .. idx[r] - 1 : Batch(i) \subseteq Accounted
        /\ pc[r] = "add" =>
              \A j \in Positions : j < pos[r] => CodeAt(idx[r], j) \in Accounted
        /\ pc[r] = "save" => Batch(idx[r]) \subseteq Accounted

\* Rows and held codes after a step that leaves links, or the creators, alone.
LEMMA HeldSame ==
  ASSUME UNCHANGED code,
         \A c \in Creators : pc[c] # "idle" => pc'[c] # "idle"
  PROVE  Held \subseteq Held'
BY DEF Held

\* Neither a Create that succeeds nor a refill makes a code disappear.
LEMMA AccountedCreate ==
  ASSUME TypeInv, NEW c \in Creators, Create(c)
  PROVE  Accounted \subseteq Accounted'
<1>p. c \in Procs /\ PcOK /\ code \in [Creators -> Codes \cup {NoCode}]
  BY DEF Procs, TypeInv, TypeOK, LocalsOK
<1>g. ASSUME NEW where \in CreatorPc, Goto(c, where) \/ GotoAndRefill(c, where)
      PROVE  pc'[c] = where /\ \A d \in Creators : d # c => pc'[d] = pc[d]
  BY <1>g, <1>p, GotoPc, GotoAndRefillPc DEF Procs
<1>1. CASE Pull(c)
  <2>1. PICK k \in pool : pool' = pool \ {k} /\ code' = [code EXCEPT ![c] = k]
    BY <1>1 DEF Pull
  <2>2. pc[c] = "idle" /\ pc'[c] = "size" /\ links' = links
    BY <1>1, <1>g DEF Pull, CanCreate, CreatorPc
  <2>3. \A d \in Creators : d # c => pc'[d] = pc[d] /\ code'[d] = code[d]
    BY <1>1, <1>g, <1>p, <2>1 DEF Pull, CreatorPc
  <2>4. Held \subseteq Held' /\ k \in Held'
    BY <2>1, <2>2, <2>3, <1>p DEF Held
  <2> QED BY <2>1, <2>2, <2>4 DEF Accounted, Linked
<1>2. CASE PullEmpty(c)
  <2>1. /\ pc[c] = "idle" /\ UNCHANGED <<pool, links>>
        /\ code' = [code EXCEPT ![c] = NoCode]
    BY <1>2 DEF PullEmpty, CanCreate, stores
  <2>2. \A d \in Creators : d # c => pc'[d] = pc[d] /\ code'[d] = code[d]
    BY <1>2, <1>g, <1>p, <2>1 DEF PullEmpty, CreatorPc
  <2>3. Held \subseteq Held'
    BY <2>1, <2>2 DEF Held
  <2> QED BY <2>1, <2>3 DEF Accounted, Linked
<1>3. CASE PoolSize(c) \/ CacheAdd(c)
  <2>1. UNCHANGED <<pool, links, code>>
    BY <1>3 DEF PoolSize, CacheAdd, stores, locals
  <2>2. \E where \in {"cache", "row"} : Goto(c, where) \/ GotoAndRefill(c, where)
    BY <1>3 DEF PoolSize, CacheAdd
  <2>3. \A d \in Creators : pc[d] # "idle" => pc'[d] # "idle"
    BY <2>2, <1>g DEF CreatorPc
  <2> QED BY <2>1, <2>3, HeldSame DEF Accounted, Linked
<1>4. CASE RowCreate(c)
  <2>1. /\ UNCHANGED pool /\ links' = Append(links, code[c])
        /\ code' = [code EXCEPT ![c] = NoCode] /\ Goto(c, "idle")
    BY <1>4 DEF RowCreate
  <2>2. \A d \in Creators : d # c => pc'[d] = pc[d] /\ code'[d] = code[d]
    BY <2>1, <1>g, <1>p DEF CreatorPc
  <2>3. links \in Seq(Codes \cup {NoCode}) /\ code[c] \in Codes \cup {NoCode}
    BY <1>p DEF TypeInv, TypeOK, StoresOK
  <2>4. /\ Len(links') = Len(links) + 1 /\ links'[Len(links) + 1] = code[c]
        /\ \A id \in 1 .. Len(links) : links'[id] = links[id]
    BY <2>1, <2>3
  <2>5. Linked \subseteq Linked' /\ code[c] \in Linked'
    BY <2>1, <2>3, <2>4 DEF Linked
  <2>6. Held \subseteq Held' \cup {code[c]}
    BY <2>2 DEF Held
  <2> QED BY <2>1, <2>5, <2>6 DEF Accounted
<1> QED BY <1>1, <1>2, <1>3, <1>4 DEF Create

LEMMA AccountedRefill ==
  ASSUME TypeInv, NEW r \in Refillers, Refill(r) \/ CrashWorker(r)
  PROVE  Accounted \subseteq Accounted'
<1>1. pool \subseteq pool' /\ UNCHANGED <<links, code>>
  BY DEF Refill, Startup, Lock, ReadIndex, AddCode, SaveIndex, RefillFails, Unlock,
         CrashWorker, Return, stores, locals
<1>2. UNCHANGED pc \/ \E where \in RefillPc : Goto(r, where)
  BY DEF Refill, Startup, Lock, ReadIndex, AddCode, SaveIndex, RefillFails, Unlock,
         CrashWorker, Return, RefillPc
<1>3. \A c \in Creators : pc'[c] = pc[c]
  BY <1>2, GotoPc, ProcsAssumption DEF TypeInv, TypeOK, Procs, Workers
<1> QED BY <1>1, <1>3, HeldSame DEF Accounted, Linked

\* A step that does not move the index, nor bring a refill into its loop.
LEMMA LostFrame ==
  ASSUME LostInv, Accounted \subseteq Accounted', UNCHANGED startIndex,
         \A r \in Refillers : pc'[r] \in {"add", "save"} =>
            pc'[r] = pc[r] /\ idx'[r] = idx[r] /\ pos'[r] = pos[r]
  PROVE  LostInv'
<1>1. Generated' = Generated
  BY DEF Generated
<1>2. \A r \in Refillers :
        /\ pc'[r] \in {"add", "save"} =>
              \A i \in 0 .. idx'[r] - 1 : Batch(i) \subseteq Accounted'
        /\ pc'[r] = "add" =>
              \A j \in Positions : j < pos'[r] => CodeAt(idx'[r], j) \in Accounted'
        /\ pc'[r] = "save" => Batch(idx'[r]) \subseteq Accounted'
  BY DEF LostInv
<1> QED BY <1>1, <1>2 DEF LostInv

LEMMA LostRefill ==
  ASSUME TypeInv, LostInv, NEW r \in Refillers, Refill(r) \/ CrashWorker(r)
  PROVE  LostInv'
<1>a. Accounted \subseteq Accounted'
  BY AccountedRefill
<1>p. r \in Procs /\ r \in Workers /\ PcOK /\ LocalsOK
  BY DEF Procs, Workers, TypeInv, TypeOK
<1>g. ASSUME NEW where \in RefillPc, Goto(r, where)
      PROVE  pc'[r] = where /\ \A q \in Procs : q # r => pc'[q] = pc[q]
  BY <1>g, <1>p, GotoPc
<1>o. \A s \in Refillers : s # r => /\ pc'[s] = pc[s] /\ idx'[s] = idx[s]
                                    /\ pos'[s] = pos[s]
  <2>1. UNCHANGED pc \/ \E where \in RefillPc : Goto(r, where)
    BY DEF Refill, Startup, Lock, ReadIndex, AddCode, SaveIndex, RefillFails,
           Unlock, CrashWorker, Return, RefillPc
  <2>2. /\ UNCHANGED idx \/ \E n : idx' = [idx EXCEPT ![r] = n]
        /\ UNCHANGED pos \/ \E n : pos' = [pos EXCEPT ![r] = n]
    BY DEF Refill, Startup, Lock, ReadIndex, AddCode, SaveIndex, RefillFails,
           Unlock, CrashWorker, Return, stores, locals
  <2> QED BY <2>1, <2>2, <1>p, <1>g DEF LocalsOK, Procs, Workers
<1>1. CASE Startup(r) \/ Lock(r, "index") \/ RefillFails(r) \/ Unlock(r)
           \/ CrashWorker(r)
  <2>1. UNCHANGED startIndex /\ \E where \in RefillPc \ {"add", "save"} : Goto(r, where)
    BY <1>1 DEF Startup, Lock, RefillFails, Unlock, CrashWorker, Return, stores,
                RefillPc
  <2>2. pc'[r] \notin {"add", "save"}
    BY <2>1, <1>g
  <2> QED BY <2>1, <2>2, <1>a, <1>o, LostFrame
<1>2. CASE ReadIndex(r)
  <2>1. pc[r] = "index" /\ pos[r] = 1 /\ UNCHANGED <<startIndex, pos>>
    BY <1>2 DEF ReadIndex, TypeInv, LoopsOK, stores
  <2>2. CASE Exhausted(gen, startIndex)
    BY <1>2, <2>1, <2>2, <1>a, <1>o, <1>g, LostFrame DEF ReadIndex, RefillPc
  <2>3. CASE ~Exhausted(gen, startIndex)
    <3>1. pc'[r] = "add" /\ idx'[r] = startIndex /\ pos'[r] = 1
      BY <1>2, <2>1, <2>3, <1>p, <1>g DEF ReadIndex, RefillPc, LocalsOK
    <3>2. Generated' = Generated /\ Generated \subseteq Accounted'
      BY <2>1, <1>a DEF Generated, LostInv
    <3>3. \A i \in 0 .. idx'[r] - 1 : Batch(i) \subseteq Accounted'
      BY <3>1, <3>2 DEF Generated
    <3>4. \A j \in Positions : ~(j < pos'[r])
      BY <3>1, SizesAssumption DEF Positions
    <3> QED BY <3>1, <3>2, <3>3, <3>4, <1>a, <1>o DEF LostInv
  <2> QED BY <2>2, <2>3
<1>3. CASE AddCode(r)
  <2>1. /\ pc[r] = "add" /\ pos[r] \in Positions
        /\ UNCHANGED <<startIndex, idx>>
        /\ CodeAt(idx[r], pos[r]) \in Accounted'
    BY <1>3, <1>p DEF AddCode, LocalsOK, Accounted
  <2>2. Generated' \subseteq Accounted'
    BY <2>1, <1>a DEF Generated, LostInv
  <2>3. \A i \in 0 .. idx'[r] - 1 : Batch(i) \subseteq Accounted'
    BY <2>1, <1>a DEF LostInv
  <2>4. \A j \in Positions : j <= pos[r] => CodeAt(idx[r], j) \in Accounted'
    <3> SUFFICES ASSUME NEW j \in Positions, j <= pos[r]
                 PROVE  CodeAt(idx[r], j) \in Accounted'
      OBVIOUS
    <3>1. j < pos[r] \/ j = pos[r]
      BY <2>1, SizesAssumption DEF Positions
    <3> QED BY <2>1, <3>1, <1>a DEF LostInv
  <2>5. CASE pos[r] < BatchSize
    <3>1. pc'[r] = "add" /\ pos'[r] = pos[r] + 1
      BY <1>3, <2>1, <2>5, <1>p DEF AddCode, LocalsOK
    <3>2. \A j \in Positions : j < pos'[r] => j <= pos[r]
      BY <2>1, <3>1, SizesAssumption DEF Positions
    <3> QED BY <2>1, <2>2, <2>3, <2>4, <3>1, <3>2, <1>a, <1>o DEF LostInv
  <2>6. CASE ~(pos[r] < BatchSize)
    <3>1. pc'[r] = "save"
      BY <1>3, <2>6, <1>g DEF AddCode, RefillPc
    <3>2. \A j \in Positions : j <= pos[r]
      BY <2>1, <2>6, SizesAssumption DEF Positions
    <3>3. Batch(idx[r]) \subseteq Accounted'
      BY <2>4, <3>2 DEF Batch
    <3> QED BY <2>1, <2>2, <2>3, <3>1, <3>3, <1>a, <1>o DEF LostInv
  <2> QED BY <2>5, <2>6
<1>4. CASE SaveIndex(r)
  <2>1. pc[r] = "save" /\ pc'[r] = "unlock" /\ startIndex' = idx[r] + 1
    BY <1>4, <1>g DEF SaveIndex, RefillPc
  <2>2. idx[r] \in Nat
    BY <1>p, StepType DEF LocalsOK
  <2>3. \A i \in 0 .. startIndex' - 1 : i \in 0 .. idx[r] - 1 \/ i = idx[r]
    BY <2>1, <2>2
  <2>4. \A i \in 0 .. startIndex' - 1 : Batch(i) \subseteq Accounted'
    BY <2>1, <2>3, <1>a DEF LostInv
  <2>5. Generated' \subseteq Accounted'
    BY <2>4 DEF Generated
  <2> QED BY <2>1, <2>5, <1>a, <1>o DEF LostInv
<1> QED BY <1>1, <1>2, <1>3, <1>4 DEF Refill

LEMMA LostNext ==
  ASSUME Rebuilders = {}, Creators \cap Faulty = {}
  PROVE  TypeInv /\ LostInv /\ [Next]_vars => LostInv'
<1> SUFFICES ASSUME TypeInv, LostInv, [Next]_vars PROVE LostInv'
  OBVIOUS
<1>1. ASSUME NEW c \in Creators, Create(c) \/ CrashCreator(c) PROVE LostInv'
  <2>1. Create(c)
    BY <1>1 DEF CrashCreator
  <2>2. UNCHANGED <<startIndex, idx, pos>>
    BY <2>1 DEF Create, Pull, PullEmpty, PoolSize, CacheAdd, RowCreate, stores, locals
  <2>3. \E where \in CreatorPc : Goto(c, where) \/ GotoAndRefill(c, where)
    BY <2>1 DEF Create, Pull, PullEmpty, PoolSize, CacheAdd, RowCreate, CreatorPc
  <2>4. \A r \in Refillers : pc'[r] = pc[r] \/ pc'[r] = "lock"
    BY <2>3, GotoPc, GotoAndRefillPc, ProcsAssumption
       DEF TypeInv, TypeOK, Procs, Workers
  <2> QED BY <2>1, <2>2, <2>4, AccountedCreate, LostFrame
<1>2. ASSUME NEW r \in Refillers, Refill(r) \/ CrashWorker(r) PROVE LostInv'
  BY <1>2, LostRefill
<1>3. CASE LockLapse
  <2>1. UNCHANGED <<pool, links, code, pc, startIndex, idx, pos>>
    BY <1>3 DEF LockLapse, locals
  <2> QED BY <2>1, LostFrame DEF Accounted, Held, Linked
<1>4. CASE UNCHANGED vars
  <2>1. UNCHANGED <<pool, links, code, pc, startIndex, idx, pos>>
    BY <1>4 DEF vars, stores, locals
  <2> QED BY <2>1, LostFrame DEF Accounted, Held, Linked
<1> QED BY <1>1, <1>2, <1>3, <1>4 DEF Next, Workers

\* Refills that fail, die, run into each other or outlive their lock drop no code
\* for good: each is in the pool, in the hands of a Create or stored.
THEOREM NothingLostInRefills ==
  ASSUME Rebuilders = {}, Creators \cap Faulty = {}
  PROVE  Spec => []NothingLost
<1>1. Init => TypeInv /\ LostInv
  <2>1. Init => LostInv
    BY DEF Init, LostInv, Generated, Procs, Workers
  <2> QED BY <2>1, TypeInit
<1>2. TypeInv /\ LostInv /\ [Next]_vars => (TypeInv /\ LostInv)'
  BY TypeNext, LostNext
<1>3. LostInv => NothingLost
  BY DEF LostInv, NothingLost, Accounted
<1> QED BY <1>1, <1>2, <1>3, PTL DEF Spec

-----------------------------------------------------------------------------
(* Each code is given out once, and a rebuild restores exactly the unused  *)
(* codes: with a lock that outlives its holder, workers that do not fail,  *)
(* creators that may fail and die at any call, and rebuilds while no       *)
(* Create runs.                                                            *)

Reliable ==
  /\ ~LockMayLapse /\ Faulty \cap Workers = {}
  /\ TrafficStops \/ Rebuilders = {}

-----------------------------------------------------------------------------
(* The invariants. *)

\* No Create runs during a rebuild, and one that does not run holds no code.
QuietInv ==
  /\ \A b \in Rebuilders : pc[b] # "idle" => \A c \in Creators : pc[c] = "idle"
  /\ \A c \in Creators : pc[c] = "idle" => code[c] = NoCode

\* Where the loops of a rebuild start.
RebuildStarts(b) ==
  /\ pc[b] \in {"idle", "lock", "clear", "bound"} => pos[b] = 1
  /\ pc[b] \in {"idle", "lock", "clear", "bound", "regenerate"} =>
        from[b] = 0 /\ page[b] = {}

\* What a rebuild has put back into the pool it cleared.
Restored(b) ==
  /\ pc[b] = "bound" => pool = {}
  /\ pc[b] = "regenerate" =>
        /\ end[b] = startIndex
        /\ pool \subseteq Generated
        /\ \A i \in 0 .. idx[b] - 1 : Batch(i) \subseteq pool
        /\ \A j \in Positions : j < pos[b] => CodeAt(idx[b], j) \in pool
  /\ pc[b] \in {"list", "remove", "unlock"} =>
        pool \subseteq Generated /\ Generated \subseteq pool \cup Linked

\* Which rows a rebuild is done with: their codes are out of the pool.
Removed(b) ==
  /\ pc[b] = "list" => page[b] = {}
  /\ pc[b] \in {"list", "remove"} =>
        /\ page[b] \subseteq DOMAIN links
        /\ \A id \in DOMAIN links :
              id <= from[b] => id \in page[b] \/ links[id] \notin pool
  /\ pc[b] = "unlock" => pool \cap Linked = {}

RebuildOK(b) == RebuildStarts(b) /\ Restored(b) /\ Removed(b)

RebuildInv == \A b \in Rebuilders : RebuildOK(b)

\* The codes of the batches the index has passed, and those a refill has added.
IsOffered(k) ==
  \/ k \in Generated
  \/ \E r \in Refillers, j \in Positions :
        /\ k = CodeAt(idx[r], j)
        /\ pc[r] = "save" \/ (pc[r] = "add" /\ j < pos[r])

Taken == (Linked \cup {code[c] : c \in Creators}) \ {NoCode}

AllOffered == \A k \in pool \cup Taken : IsOffered(k)

PoolApart == ~Rebuilding => pool \cap Taken = {}

TakenApart ==
  /\ \A i, k \in DOMAIN links : links[i] = links[k] => i = k \/ links[i] = NoCode
  /\ \A c \in Creators, i \in DOMAIN links :
        code[c] = links[i] => code[c] = NoCode
  /\ \A c, d \in Creators : code[c] = code[d] => c = d \/ code[c] = NoCode

LedgerOK == AllOffered /\ PoolApart /\ TakenApart

LedgerInv == ~Wrapped => LedgerOK

-----------------------------------------------------------------------------
(* The codes of the batches. *)

LEMMA Products ==
  ASSUME NEW s \in Nat
  PROVE  /\ \A a, b \in Nat : a <= b => a * s <= b * s
         /\ \A a, b \in Nat : a < b => a * s + s <= b * s
<1>1. \A a, b \in Nat : a <= b => a * s <= b * s
  OBVIOUS
<1>2. ASSUME NEW a \in Nat, NEW b \in Nat, a < b PROVE a * s + s <= b * s
  <2>1. (a + 1) * s <= b * s
    BY <1>2, <1>1
  <2> QED BY <2>1
<1> QED BY <1>1, <1>2

\* The number behind a code, which no batch up to the step makes too large.
LEMMA CodeNumber ==
  ASSUME NEW i \in Indexes, NEW j \in Positions
  PROVE  /\ CodeAt(i, j) = ToBase62(i + (j - 1) * gen.step, CodeLength)
         /\ i + (j - 1) * gen.step \in 0 .. MaxNumber(CodeLength)
<1> DEFINE s == gen.step
           n == MaxNumber(CodeLength)
<1>1. /\ gen.batchSize = BatchSize /\ gen.length = CodeLength
      /\ s = n \div BatchSize
  BY DEF gen, NewShortCodeGenerator
<1>2. CodeAt(i, j) = ToBase62(i + (j - 1) * s, CodeLength)
  BY <1>1 DEF CodeAt, BatchCodes, BatchNumbers, Positions
<1>3. s \in Nat /\ n \in Nat /\ BatchSize \in Nat \ {0} /\ i \in Nat /\ j - 1 \in Nat
  BY StepType, NumbersFacts, SizesAssumption DEF Positions, Indexes
<1>4. BatchSize * s <= n
  <2>1. ASSUME NEW a \in Nat, NEW b \in Nat \ {0} PROVE b * (a \div b) <= a
    BY <2>1
  <2> QED BY <1>1, <1>3, <2>1
<1>5. (j - 1) * s + s <= BatchSize * s
  <2>1. j - 1 < BatchSize /\ BatchSize \in Nat
    BY <1>3 DEF Positions
  <2> HIDE DEF s
  <2> QED BY <1>3, <2>1, Products
<1>6. i <= s /\ (j - 1) * s \in Nat /\ BatchSize * s \in Nat
  <2>1. i <= s
    BY DEF Indexes
  <2> HIDE DEF s
  <2> QED BY <1>3, <2>1
<1>7. i + (j - 1) * s \in 0 .. n
  <2> HIDE DEF s, n
  <2> QED BY <1>3, <1>4, <1>5, <1>6
<1> QED BY <1>2, <1>7

\* Every code has the code length, so none is the empty one.
LEMMA CodeLengths == \A k \in Codes : Len(k) = CodeLength /\ k # NoCode
<1> SUFFICES ASSUME NEW k \in Codes PROVE Len(k) = CodeLength /\ k # NoCode
  OBVIOUS
<1>1. PICK i \in Indexes, j \in Positions : k = CodeAt(i, j)
  BY DEF Codes, Batch
<1>2. Len(k) = CodeLength
  BY <1>1, CodeNumber, NumbersFacts
<1>3. Len(NoCode) = 0
  BY DEF NoCode
<1> QED BY <1>2, <1>3, SizesAssumption

\* Below the step, different places have different codes.
LEMMA CodesDiffer ==
  ASSUME NEW i \in 0 .. gen.step - 1, NEW k \in 0 .. gen.step - 1,
         NEW j \in Positions, NEW m \in Positions, CodeAt(i, j) = CodeAt(k, m)
  PROVE  i = k /\ j = m
<1> DEFINE s == gen.step
<1>1. i \in Indexes /\ k \in Indexes
  BY StepType DEF Indexes
<1>2. i + (j - 1) * s = k + (m - 1) * s
  BY <1>1, CodeNumber, NumbersFacts
<1>3. s \in Nat /\ j - 1 \in Nat /\ m - 1 \in Nat
  BY StepType DEF Positions
<1> HIDE DEF s
<1>4. i \in 0 .. s - 1 /\ k \in 0 .. s - 1
  BY DEF s
<1>5. (j - 1) * s \in Nat /\ (m - 1) * s \in Nat
  BY <1>3
<1>6. ~(j - 1 < m - 1)
  <2>1. j - 1 < m - 1 => (j - 1) * s + s <= (m - 1) * s
    BY <1>3, Products
  <2> QED BY <1>2, <1>3, <1>4, <1>5, <2>1
<1>7. ~(m - 1 < j - 1)
  <2>1. m - 1 < j - 1 => (m - 1) * s + s <= (j - 1) * s
    BY <1>3, Products
  <2> QED BY <1>2, <1>3, <1>4, <1>5, <2>1
<1>8. j = m
  BY <1>3, <1>6, <1>7 DEF Positions
<1> QED BY <1>2, <1>4, <1>5, <1>8

\* The codes of the batches the index has passed are codes.
LEMMA GeneratedCodes == StoresOK => Generated \subseteq Codes
<1> SUFFICES ASSUME StoresOK, NEW i \in 0 .. startIndex - 1 PROVE i \in Indexes
  BY DEF Generated, Codes
<1> QED BY StepType DEF StoresOK, Indexes

-----------------------------------------------------------------------------
(* What the steps leave alone. *)

\* A step of a worker leaves every other process alone.
LEMMA WorkerEffect ==
  ASSUME TypeInv, NEW w \in Workers,
         \/ w \in Refillers /\ Refill(w)
         \/ w \in Rebuilders /\ Rebuild(w)
         \/ CrashWorker(w)
  PROVE  /\ UNCHANGED code
         /\ \A q \in Procs : q # w => pc'[q] = pc[q]
         /\ \A v \in Workers : v # w => /\ idx'[v] = idx[v] /\ pos'[v] = pos[v]
                                        /\ end'[v] = end[v] /\ from'[v] = from[v]
                                        /\ page'[v] = page[v]
<1> USE DEF stores, locals
<1>1. UNCHANGED pc \/ \E where : Goto(w, where)
  BY DEF Refill, Startup, Lock, ReadIndex, AddCode, SaveIndex, RefillFails, Unlock,
         Return, CrashWorker, Rebuild, RebuildStart, ClearPool, ReadBound,
         Regenerate, NextCode, ListPage, TakePage, RemoveUsed, RebuildFails
<1>2. /\ UNCHANGED code
      /\ UNCHANGED idx \/ \E x : idx' = [idx EXCEPT ![w] = x]
      /\ UNCHANGED pos \/ \E x : pos' = [pos EXCEPT ![w] = x]
      /\ UNCHANGED end \/ \E x : end' = [end EXCEPT ![w] = x]
      /\ UNCHANGED from \/ \E x : from' = [from EXCEPT ![w] = x]
      /\ UNCHANGED page \/ \E x : page' = [page EXCEPT ![w] = x]
  BY DEF Refill, Startup, Lock, ReadIndex, AddCode, SaveIndex, RefillFails, Unlock,
         Return, CrashWorker, Rebuild, RebuildStart, ClearPool, ReadBound,
         Regenerate, NextCode, ListPage, TakePage, RemoveUsed, RebuildFails
<1>3. \A q \in Procs : q # w => pc'[q] = pc[q]
  BY <1>1 DEF Goto, TypeInv, TypeOK, PcOK
<1> QED BY <1>2, <1>3 DEF TypeInv, TypeOK, LocalsOK

\* A step of a creator leaves the others alone, but may wake an idle refiller.
LEMMA CreatorEffect ==
  ASSUME TypeInv, NEW c \in Creators, Create(c) \/ CrashCreator(c)
  PROVE  /\ UNCHANGED <<lockKey, startIndex, idx, pos, end, from, page>>
         /\ \A d \in Creators : d # c => pc'[d] = pc[d] /\ code'[d] = code[d]
         /\ \A b \in Rebuilders : pc'[b] = pc[b]
         /\ \A r \in Refillers :
               pc'[r] = pc[r] \/ (pc[r] = "idle" /\ pc'[r] = "lock")
         /\ pc[c] = "idle" => CanCreate(c)
         /\ pc'[c] = "idle" => code'[c] = NoCode
<1> USE DEF stores, locals
<1>p. c \in Procs /\ PcOK /\ code \in [Creators -> Codes \cup {NoCode}]
      /\ c \notin Workers
  BY ProcsAssumption DEF Procs, TypeInv, TypeOK, LocalsOK
<1>1. UNCHANGED <<lockKey, startIndex, idx, pos, end, from, page>>
  BY DEF Create, Pull, PullEmpty, PoolSize, CacheAdd, RowCreate, CrashCreator
<1>2. UNCHANGED code \/ \E k : code' = [code EXCEPT ![c] = k]
  BY DEF Create, Pull, PullEmpty, PoolSize, CacheAdd, RowCreate, CrashCreator
<1>3. \/ \E where \in CreatorPc \ {"idle"} : Goto(c, where) \/ GotoAndRefill(c, where)
      \/ Goto(c, "idle") /\ code' = [code EXCEPT ![c] = NoCode]
  BY DEF Create, Pull, PullEmpty, PoolSize, CacheAdd, RowCreate, CrashCreator,
         CreatorPc
<1>4. pc[c] = "idle" => CanCreate(c)
  BY DEF Create, Pull, PullEmpty, PoolSize, CacheAdd, RowCreate, CrashCreator
<1>5. ASSUME NEW where \in CreatorPc, Goto(c, where) \/ GotoAndRefill(c, where)
      PROVE  /\ pc'[c] = where
             /\ \A d \in Creators : d # c => pc'[d] = pc[d]
             /\ \A b \in Rebuilders : pc'[b] = pc[b]
             /\ \A r \in Refillers :
                   pc'[r] = pc[r] \/ (pc[r] = "idle" /\ pc'[r] = "lock")
  BY <1>5, <1>p, GotoPc, GotoAndRefillPc DEF Procs, Workers
<1>6. "idle" \in CreatorPc
  BY DEF CreatorPc
<1>7. CASE \E where \in CreatorPc \ {"idle"} : Goto(c, where) \/ GotoAndRefill(c, where)
  BY <1>1, <1>2, <1>4, <1>5, <1>7, <1>p
<1>8. CASE Goto(c, "idle") /\ code' = [code EXCEPT ![c] = NoCode]
  BY <1>1, <1>4, <1>5, <1>6, <1>8, <1>p
<1> QED BY <1>3, <1>7, <1>8

LEMMA QuietNext ==
  ASSUME Reliable
  PROVE  TypeInv /\ QuietInv /\ [Next]_vars => QuietInv'
<1> SUFFICES ASSUME TypeInv, QuietInv, [Next]_vars PROVE QuietInv'
  OBVIOUS
<1>p. Creators \subseteq Procs /\ Workers \subseteq Procs
      /\ Creators \cap Workers = {} /\ Rebuilders \subseteq Workers
  BY ProcsAssumption DEF Procs, Workers
<1>1. ASSUME NEW c \in Creators, Create(c) \/ CrashCreator(c) PROVE QuietInv'
  <2>1. (\E b \in Rebuilders : pc[b] # "idle") => pc[c] = "idle" /\ ~CanCreate(c)
    BY DEF QuietInv, CanCreate, Reliable
  <2> QED BY <1>1, <2>1, CreatorEffect DEF QuietInv
<1>2. ASSUME NEW w \in Workers,
             \/ w \in Refillers /\ Refill(w)
             \/ w \in Rebuilders /\ Rebuild(w)
             \/ CrashWorker(w)
      PROVE  QuietInv'
  <2>1. UNCHANGED code /\ \A q \in Procs : q # w => pc'[q] = pc[q]
    BY <1>2, WorkerEffect
  <2>2. w \in Rebuilders /\ pc[w] = "idle" =>
           pc'[w] = "idle" \/ \A c \in Creators : pc[c] = "idle"
    <3> SUFFICES ASSUME w \in Rebuilders, pc[w] = "idle"
                 PROVE  pc'[w] = "idle" \/ \A c \in Creators : pc[c] = "idle"
      OBVIOUS
    <3>1. ~CrashWorker(w) /\ Rebuild(w)
      BY <1>2, <1>p, ProcsAssumption DEF CrashWorker, Workers
    <3>2. RebuildStart(w)
      BY <3>1 DEF Rebuild, Lock, ClearPool, ReadBound, Regenerate, ListPage,
                  RemoveUsed, RebuildFails, Unlock
    <3> QED BY <3>2 DEF RebuildStart, Reliable
  <2>3. \A c \in Creators : pc'[c] = pc[c] /\ code'[c] = code[c]
    BY <2>1, <1>p
  <2> QED BY <2>1, <2>2, <2>3, <1>p DEF QuietInv
<1>3. CASE LockLapse
  BY <1>3 DEF LockLapse, QuietInv, locals
<1>4. CASE UNCHANGED vars
  BY <1>4 DEF vars, QuietInv, locals
<1> QED BY <1>1, <1>2, <1>3, <1>4 DEF Next, Workers

-----------------------------------------------------------------------------
(* A rebuild restores exactly the generated codes that no row uses. *)

\* A rebuild whose locals stay, and under which nothing moves while it is inside.
LEMMA RebuildFrame ==
  ASSUME NEW b \in Rebuilders, RebuildOK(b),
         pc'[b] = pc[b], idx'[b] = idx[b], pos'[b] = pos[b],
         end'[b] = end[b], from'[b] = from[b], page'[b] = page[b],
         Critical(b) => UNCHANGED <<pool, startIndex, links>>
  PROVE  RebuildOK(b)'
<1>1. RebuildStarts(b)'
  BY DEF RebuildOK, RebuildStarts
<1>2. CASE Critical(b)
  <2>1. UNCHANGED <<pool, startIndex, links, Generated, Linked>>
    BY <1>2 DEF Generated, Linked
  <2> QED BY <1>1, <2>1 DEF RebuildOK, Restored, Removed
<1>3. CASE ~Critical(b)
  BY <1>1, <1>3 DEF RebuildOK, Restored, Removed, Critical, CriticalPc, RefillPc,
                    RebuildPc
<1> QED BY <1>2, <1>3

\* A rebuild before it has the lock.
LEMMA RebuildOutside ==
  ASSUME NEW b \in Rebuilders, pc'[b] \in {"idle", "lock", "clear"},
         pos'[b] = 1, from'[b] = 0, page'[b] = {}
  PROVE  RebuildOK(b)'
BY DEF RebuildOK, RebuildStarts, Restored, Removed

\* The steps of a rebuild that clear and refill the pool.
LEMMA RebuildRestores ==
  ASSUME Reliable, TypeInv, NEW b \in Rebuilders, RebuildOK(b),
         ClearPool(b) \/ ReadBound(b) \/ Regenerate(b)
  PROVE  RebuildOK(b)'
<1> USE DEF stores, locals
<1>p. /\ b \in Procs /\ b \in Workers /\ PcOK /\ LocalsOK
      /\ b \notin Faulty
  BY DEF Procs, Workers, TypeInv, TypeOK, Reliable
<1>g. ASSUME NEW where \in RebuildPc, Goto(b, where) PROVE pc'[b] = where
  BY <1>g, <1>p, GotoPc
<1>1. CASE ClearPool(b)
  <2>1. pc[b] = "clear" /\ pc'[b] = "bound" /\ pool' = {} /\ UNCHANGED locals
    BY <1>1, <1>g DEF ClearPool, RebuildPc
  <2> QED BY <2>1 DEF RebuildOK, RebuildStarts, Restored, Removed
<1>2. CASE ReadBound(b)
  <2>1. /\ pc[b] = "bound" /\ pool = {} /\ pos[b] = 1 /\ idx[b] = 0
        /\ from[b] = 0 /\ page[b] = {}
    BY <1>2 DEF ReadBound, RebuildOK, Restored, RebuildStarts, TypeInv, LoopsOK
  <2>2. /\ pc'[b] = IF startIndex = 0 THEN "list" ELSE "regenerate"
        /\ end'[b] = startIndex /\ UNCHANGED <<stores, idx, pos, from, page>>
    BY <1>2, <1>g, <1>p DEF ReadBound, RebuildPc, LocalsOK
  <2>3. startIndex = 0 => Generated' = {}
    BY <2>2 DEF Generated
  <2>4. \A j \in Positions : ~(j < 1)
    BY DEF Positions
  <2>5. \A id \in DOMAIN links : ~(id <= 0)
    BY DEF TypeInv, TypeOK, StoresOK
  <2>6. RebuildStarts(b)'
    BY <2>1, <2>2 DEF RebuildStarts
  <2>7. Restored(b)'
    BY <2>1, <2>2, <2>3, <2>4 DEF Restored
  <2>8. Removed(b)'
    BY <2>1, <2>2, <2>5 DEF Removed
  <2> QED BY <2>6, <2>7, <2>8 DEF RebuildOK
<1>3. CASE Regenerate(b)
  <2>1. /\ pc[b] = "regenerate" /\ from[b] = 0 /\ page[b] = {}
        /\ end[b] = startIndex /\ pool \subseteq Generated
        /\ \A i \in 0 .. idx[b] - 1 : Batch(i) \subseteq pool
        /\ \A j \in Positions : j < pos[b] => CodeAt(idx[b], j) \in pool
    BY <1>3 DEF Regenerate, RebuildOK, RebuildStarts, Restored
  <2>2. /\ pool' = pool \cup {CodeAt(idx[b], pos[b])} /\ NextCode(b)
        /\ UNCHANGED <<startIndex, links, end, from, page>>
    BY <1>3, <1>p DEF Regenerate
  <2>3. idx[b] \in 0 .. startIndex - 1 /\ pos[b] \in Positions
        /\ startIndex \in Nat /\ Generated' = Generated
    BY <2>1, <2>2, <1>p, StepType
       DEF TypeInv, TypeOK, LoopsOK, LocalsOK, StoresOK, Generated
  <2>4. CodeAt(idx[b], pos[b]) \in Generated
    BY <2>3 DEF Generated, Batch
  <2>5. \A j \in Positions : j <= pos[b] => CodeAt(idx[b], j) \in pool'
    <3> SUFFICES ASSUME NEW j \in Positions, j <= pos[b]
                 PROVE  CodeAt(idx[b], j) \in pool'
      OBVIOUS
    <3>1. j < pos[b] \/ j = pos[b]
      BY <2>3 DEF Positions
    <3> QED BY <2>1, <2>2, <3>1
  <2>6. CASE pos[b] < BatchSize
    <3>1. pos'[b] = pos[b] + 1 /\ UNCHANGED <<pc, idx>>
      BY <2>2, <2>6, <1>p DEF NextCode, LocalsOK
    <3>2. \A j \in Positions : j < pos'[b] => j <= pos[b]
      BY <2>3, <3>1 DEF Positions
    <3>3. Restored(b)'
      BY <2>1, <2>2, <2>3, <2>4, <2>5, <3>1, <3>2 DEF Restored
    <3> QED BY <2>1, <2>2, <3>1, <3>3 DEF RebuildOK, RebuildStarts, Removed
  <2>7. CASE ~(pos[b] < BatchSize)
    <3>1. /\ pos'[b] = 1 /\ idx'[b] = idx[b] + 1
          /\ pc'[b] = IF idx[b] + 1 < end[b] THEN "regenerate" ELSE "list"
      BY <2>2, <2>7, <1>g, <1>p DEF NextCode, LocalsOK, RebuildPc
    <3>2. \A j \in Positions : j <= pos[b] /\ ~(j < 1)
      BY <2>3, <2>7, SizesAssumption DEF Positions
    <3>3. Batch(idx[b]) \subseteq pool'
      BY <2>5, <3>2 DEF Batch
    <3>4. \A i \in 0 .. idx[b] : Batch(i) \subseteq pool'
      <4>1. \A i \in 0 .. idx[b] : i \in 0 .. idx[b] - 1 \/ i = idx[b]
        BY <2>3
      <4> QED BY <2>1, <2>2, <3>3, <4>1
    <3>5. ASSUME idx[b] + 1 < end[b] PROVE Restored(b)'
      BY <2>1, <2>2, <2>3, <2>4, <3>1, <3>2, <3>4, <3>5 DEF Restored
    <3>6. ASSUME ~(idx[b] + 1 < end[b]) PROVE Restored(b)' /\ Removed(b)'
      <4>1. 0 .. startIndex - 1 \subseteq 0 .. idx[b]
        BY <2>1, <2>3, <3>6
      <4>2. Generated' \subseteq pool'
        BY <2>3, <3>4, <4>1 DEF Generated
      <4>3. \A id \in DOMAIN links : ~(id <= 0)
        BY DEF TypeInv, TypeOK, StoresOK
      <4>4. Restored(b)'
        BY <2>1, <2>2, <2>3, <2>4, <3>1, <3>6, <4>2 DEF Restored
      <4>5. Removed(b)'
        BY <2>1, <2>2, <3>1, <3>6, <4>3 DEF Removed
      <4> QED BY <4>4, <4>5
    <3>7. RebuildStarts(b)'
      BY <2>1, <2>2, <3>1 DEF RebuildStarts
    <3> QED BY <3>1, <3>5, <3>6, <3>7 DEF RebuildOK, Removed
  <2> QED BY <2>6, <2>7
<1> QED BY <1>1, <1>2, <1>3

\* A page holds every row of this length between its first and its last one.
LEMMA PageComplete ==
  ASSUME StoresOK, NEW f \in Nat, NEW last \in PageAfter(f),
         NEW id \in Later(f), id <= last
  PROVE  id \in PageAfter(f)
<1> DEFINE Before(i) == {k \in Later(f) : k < i}
<1>1. DOMAIN links = 1 .. Len(links) /\ Len(links) \in Nat
  BY DEF StoresOK
<1>2. id \in Nat /\ last \in Nat
  BY <1>1 DEF Later, PageAfter
<1>3. IsFiniteSet(Before(last))
  <2>1. IsFiniteSet(1 .. Len(links))
    BY <1>1, FS_Interval
  <2>2. Before(last) \in SUBSET (1 .. Len(links))
    BY <1>1 DEF Later
  <2> HIDE DEF Before
  <2> QED BY <2>1, <2>2, FS_Subset
<1>4. Before(id) \in SUBSET Before(last)
  <2>1. \A k \in Later(f) : k < id => k < last
    <3>1. \A k \in Later(f) : k \in Nat
      BY <1>1 DEF Later
    <3> QED BY <1>2, <3>1
  <2> QED BY <2>1
<1>5. Cardinality(Before(id)) <= Cardinality(Before(last))
      /\ Cardinality(Before(id)) \in Nat /\ Cardinality(Before(last)) \in Nat
  <2> HIDE DEF Before
  <2> QED BY <1>3, <1>4, FS_Subset, FS_CardinalityType
<1>6. Cardinality(Before(last)) < PageSize
  BY DEF PageAfter
<1>7. Cardinality(Before(id)) < PageSize
  <2> HIDE DEF Before
  <2> QED BY <1>5, <1>6, SizesAssumption
<1> QED BY <1>7 DEF PageAfter

\* The steps of a rebuild that take the used codes out of the pool again.
LEMMA RebuildRemoves ==
  ASSUME Reliable, TypeInv, NEW b \in Rebuilders, RebuildOK(b),
         ListPage(b) \/ RemoveUsed(b)
  PROVE  RebuildOK(b)'
<1> USE DEF stores, locals
<1>p. /\ b \in Procs /\ b \in Workers /\ PcOK /\ LocalsOK /\ StoresOK
      /\ b \notin Faulty
  BY DEF Procs, Workers, TypeInv, TypeOK, Reliable
<1>g. ASSUME NEW where \in RebuildPc, Goto(b, where) PROVE pc'[b] = where
  BY <1>g, <1>p, GotoPc
<1>s. pc[b] \in {"list", "remove"} /\ UNCHANGED <<startIndex, links>>
  BY DEF ListPage, RemoveUsed
<1>r. /\ pool \subseteq Generated /\ Generated \subseteq pool \cup Linked
      /\ page[b] \subseteq DOMAIN links
      /\ \A id \in DOMAIN links :
            id <= from[b] => id \in page[b] \/ links[id] \notin pool
  BY <1>s DEF RebuildOK, Restored, Removed
<1>l. DOMAIN links = 1 .. Len(links) /\ Len(links) \in Nat /\ from[b] \in Nat
  BY <1>p DEF StoresOK, LocalsOK
<1>u. Generated' = Generated /\ Linked' = Linked
  BY <1>s DEF Generated, Linked
<1>o. \A id \in DOMAIN links : links[id] \in pool => OfLength(id)
  BY <1>r, <1>p, CodeLengths, GeneratedCodes DEF OfLength
<1>1. CASE ListPage(b)
  <2>1. UNCHANGED <<pool, links>> /\ page[b] = {}
    BY <1>1 DEF ListPage, RebuildOK, Removed
  <2>2. CASE Later(from[b]) = {}
    <3>1. pc'[b] = "unlock"
      BY <1>1, <2>2, <1>g DEF ListPage, RebuildPc
    <3>2. \A id \in DOMAIN links : links[id] \notin pool
      <4>1. \A id \in DOMAIN links : id <= from[b] \/ id > from[b]
        BY <1>l
      <4> QED BY <4>1, <2>1, <2>2, <1>r, <1>o DEF Later
    <3>3. pool \cap Linked = {}
      BY <3>2 DEF Linked
    <3> QED BY <3>1, <3>3, <2>1, <1>r, <1>u
            DEF RebuildOK, RebuildStarts, Restored, Removed
  <2>3. CASE Later(from[b]) # {}
    <3>1. PICK last \in PageAfter(from[b]) :
             /\ page' = [page EXCEPT ![b] = PageAfter(from[b])]
             /\ from' = [from EXCEPT ![b] = last]
      BY <1>1, <2>3 DEF ListPage, TakePage
    <3>2. pc'[b] = "remove" /\ page'[b] = PageAfter(from[b]) /\ from'[b] = last
      BY <1>1, <2>3, <3>1, <1>g, <1>p DEF ListPage, TakePage, RebuildPc, LocalsOK
    <3>3. page'[b] \subseteq DOMAIN links
      BY <3>2 DEF PageAfter, Later
    <3>4. ASSUME NEW id \in DOMAIN links, id <= last, links[id] \in pool
          PROVE  id \in PageAfter(from[b])
      <4>1. id > from[b]
        BY <3>4, <2>1, <1>r, <1>l
      <4>2. id \in Later(from[b])
        BY <3>4, <4>1, <1>o DEF Later
      <4> QED BY <3>4, <4>2, <1>p, <1>l, PageComplete
    <3> QED BY <3>2, <3>3, <3>4, <2>1, <1>r, <1>u
            DEF RebuildOK, RebuildStarts, Restored, Removed
  <2> QED BY <2>2, <2>3
<1>2. CASE RemoveUsed(b)
  <2>1. PICK id \in page[b] :
           /\ pool' = pool \ {links[id]}
           /\ page' = [page EXCEPT ![b] = page[b] \ {id}]
           /\ Goto(b, IF page[b] = {id} THEN "list" ELSE "remove")
    BY <1>2, <1>p DEF RemoveUsed
  <2>2. /\ pc'[b] = IF page[b] = {id} THEN "list" ELSE "remove"
        /\ page'[b] = page[b] \ {id} /\ from'[b] = from[b]
    BY <1>2, <2>1, <1>g, <1>p DEF RemoveUsed, RebuildPc, LocalsOK
  <2>3. id \in DOMAIN links /\ links[id] \in Linked
    BY <1>r DEF Linked
  <2> QED BY <2>1, <2>2, <2>3, <1>s, <1>r, <1>u
          DEF RebuildOK, RebuildStarts, Restored, Removed
<1> QED BY <1>1, <1>2

LEMMA RebuildNext ==
  ASSUME Reliable
  PROVE  TypeInv /\ LockInv /\ QuietInv /\ RebuildInv /\ [Next]_vars => RebuildInv'
<1> SUFFICES ASSUME TypeInv, LockInv, QuietInv, RebuildInv, [Next]_vars,
                    NEW b \in Rebuilders
             PROVE  RebuildOK(b)'
  BY DEF RebuildInv
<1>p. /\ b \in Procs /\ b \in Workers /\ b \notin Refillers /\ RebuildOK(b)
      /\ Creators \cap Workers = {}
  BY ProcsAssumption DEF Procs, Workers, RebuildInv
<1>1. ASSUME NEW c \in Creators, Create(c) \/ CrashCreator(c)
      PROVE  RebuildOK(b)'
  <2>1. pc[b] = "idle" /\ ~Critical(b)
    BY <1>1, CreatorEffect
       DEF QuietInv, CanCreate, Reliable, Critical, CriticalPc, CrashCreator
  <2> QED BY <1>1, <2>1, <1>p, CreatorEffect, RebuildFrame
<1>2. ASSUME NEW w \in Workers, w # b,
             \/ w \in Refillers /\ Refill(w)
             \/ w \in Rebuilders /\ Rebuild(w)
             \/ CrashWorker(w)
      PROVE  RebuildOK(b)'
  <2>1. Critical(w) \/ UNCHANGED <<pool, startIndex, links>>
    <3>1. \/ pc[w] \in {"add", "save", "clear", "regenerate", "remove"}
          \/ UNCHANGED <<pool, startIndex, links>>
      BY <1>2 DEF Refill, Startup, Lock, ReadIndex, AddCode, SaveIndex, RefillFails,
         Unlock, CrashWorker, Rebuild, RebuildStart, ClearPool, ReadBound,
         Regenerate, ListPage, RemoveUsed, RebuildFails, stores
    <3> QED BY <3>1 DEF Critical, CriticalPc, RefillPc, RebuildPc
  <2>2. Critical(b) => UNCHANGED <<pool, startIndex, links>>
    BY <1>2, <2>1, <1>p DEF LockInv, MutualExclusion
  <2>3. /\ pc'[b] = pc[b] /\ idx'[b] = idx[b] /\ pos'[b] = pos[b]
        /\ end'[b] = end[b] /\ from'[b] = from[b] /\ page'[b] = page[b]
    BY <1>2, <1>p, WorkerEffect
  <2> QED BY <2>2, <2>3, <1>p, RebuildFrame
<1>3. CASE Rebuild(b) \/ CrashWorker(b)
  <2>1. Rebuild(b) /\ b \notin Faulty /\ PcOK
    BY <1>3, <1>p DEF CrashWorker, Reliable, TypeInv, TypeOK
  <2>2. ASSUME NEW where \in RebuildPc, Goto(b, where) PROVE pc'[b] = where
    BY <2>1, <2>2, <1>p, GotoPc
  <2>3. CASE RebuildStart(b) \/ Lock(b, "clear")
    <3>1. pc[b] \in {"idle", "lock"} /\ UNCHANGED locals
      BY <2>3 DEF RebuildStart, Lock
    <3>2. pc'[b] \in {"idle", "lock", "clear"}
      BY <2>2, <2>3 DEF RebuildStart, Lock, RebuildPc
    <3> QED BY <3>1, <3>2, <1>p, RebuildOutside DEF RebuildOK, RebuildStarts, locals
  <2>4. CASE Unlock(b)
    <3>1. Goto(b, "idle") /\ pos'[b] = 1 /\ from'[b] = 0 /\ page'[b] = {}
      BY <2>4, <1>p DEF Unlock, Return, TypeInv, TypeOK, LocalsOK
    <3> QED BY <3>1, <2>2, RebuildOutside DEF RebuildPc
  <2> QED BY <2>1, <2>3, <2>4, <1>p, RebuildRestores, RebuildRemoves
          DEF Rebuild, RebuildFails
<1>4. CASE LockLapse
  BY <1>4, <1>p, RebuildFrame DEF LockLapse, locals
<1>5. CASE UNCHANGED vars
  BY <1>5, <1>p, RebuildFrame DEF vars, stores, locals
<1> QED BY <1>1, <1>2, <1>3, <1>4, <1>5, <1>p DEF Next, Workers

\* A rebuild that no Create runs beside ends with exactly the generated codes that
\* no stored link uses, whatever the Creates before it left half done.
THEOREM RebuildExactHolds ==
  ASSUME Reliable
  PROVE  Spec => []RebuildExact
<1> DEFINE I == TypeInv /\ LockInv /\ QuietInv /\ RebuildInv
<1>1. Init => I
  <2>1. Init => QuietInv /\ RebuildInv
    BY DEF Init, QuietInv, RebuildInv, RebuildOK, RebuildStarts, Restored, Removed,
           Procs, Workers
  <2> QED BY <2>1, TypeInit, LockInit
<1>2. I /\ [Next]_vars => I'
  BY TypeNext, LockNext, QuietNext, RebuildNext DEF Reliable
<1>3. I => RebuildExact
  <2> SUFFICES ASSUME I, NEW b \in Rebuilders, pc[b] = "unlock"
               PROVE  pool = Generated \ Linked
    BY DEF RebuildExact
  <2> QED BY DEF RebuildInv, RebuildOK, Restored, Removed
<1> QED BY <1>1, <1>2, <1>3, PTL DEF Spec

-----------------------------------------------------------------------------
(* No code is given out twice before the batches repeat. *)

\* The batches stay used up: the index does not go back and no refill fails.
LEMMA WrappedStable ==
  ASSUME Reliable, TypeInv, LockInv, [Next]_vars, Wrapped
  PROVE  Wrapped'
<1>t. startIndex \in Nat /\ gen.step \in Nat
  BY StepType DEF TypeInv, TypeOK, StoresOK
<1>p. Creators \cap Workers = {} /\ Refillers \subseteq Workers
      /\ Refillers \cap Rebuilders = {} /\ Workers \subseteq Procs
  BY ProcsAssumption DEF Procs, Workers
<1>i. UNCHANGED startIndex \/ \E r \in Refillers : SaveIndex(r)
  BY DEF Next, Create, Pull, PullEmpty, PoolSize, CacheAdd, RowCreate,
         CrashCreator, CrashWorker, LockLapse, Refill, Startup, Lock, ReadIndex,
         AddCode, RefillFails, Unlock, Rebuild, RebuildStart, ClearPool,
         ReadBound, Regenerate, ListPage, TakePage, RemoveUsed, RebuildFails,
         vars, stores
<1>j. \A r \in Refillers : SaveIndex(r) => startIndex' = startIndex + 1
  BY DEF SaveIndex, LockInv
<1>1. CASE startIndex > gen.step
  BY <1>1, <1>i, <1>j, <1>t DEF Wrapped, gen
<1>2. ASSUME NEW r \in Refillers, pc[r] \in {"add", "save"}, idx[r] >= gen.step
      PROVE  Wrapped'
  <2>1. idx[r] = startIndex
    BY <1>2 DEF LockInv
  <2>2. CASE SaveIndex(r)
    <3>1. startIndex' > gen.step
      BY <2>2, <1>2, <2>1, <1>j, <1>t
    <3> QED BY <3>1 DEF Wrapped, gen
  <2>3. CASE AddCode(r)
    <3>1. pc'[r] \in {"add", "save"} /\ idx'[r] = idx[r]
      BY <2>3, <1>2, <1>p DEF AddCode, Goto, TypeInv, TypeOK, PcOK
    <3> QED BY <3>1, <1>2 DEF Wrapped, gen
  <2>4. CASE ~SaveIndex(r) /\ ~AddCode(r)
    <3>1. pc'[r] = pc[r] /\ idx'[r] = idx[r]
      <4>1. ASSUME NEW c \in Creators, Create(c) \/ CrashCreator(c)
            PROVE  pc'[r] = pc[r] /\ idx'[r] = idx[r]
        BY <4>1, <1>2, CreatorEffect
      <4>2. ASSUME NEW w \in Workers, w # r,
                   \/ w \in Refillers /\ Refill(w)
                   \/ w \in Rebuilders /\ Rebuild(w)
                   \/ CrashWorker(w)
            PROVE  pc'[r] = pc[r] /\ idx'[r] = idx[r]
        BY <4>2, <1>p, WorkerEffect
      <4>3. ~Refill(r) /\ ~CrashWorker(r)
        BY <1>2, <2>4, <1>p DEF Refill, Startup, Lock, ReadIndex, RefillFails,
                                Unlock, CrashWorker, Reliable
      <4>4. LockLapse \/ UNCHANGED vars => pc'[r] = pc[r] /\ idx'[r] = idx[r]
        BY DEF LockLapse, vars, locals
      <4> QED BY <4>1, <4>2, <4>3, <4>4, <1>p DEF Next, Workers
    <3> QED BY <3>1, <1>2 DEF Wrapped, gen
  <2> QED BY <2>2, <2>3, <2>4
<1> QED BY <1>1, <1>2 DEF Wrapped

\* What is offered stays offered while refills go on, start or save.
LEMMA OfferedStays ==
  ASSUME NEW k, IsOffered(k), Generated \subseteq Generated',
         \A r \in Refillers : pc[r] \in {"add", "save"} =>
            pc'[r] = pc[r] /\ idx'[r] = idx[r] /\ pos'[r] = pos[r]
  PROVE  IsOffered(k)'
BY DEF IsOffered

LEMMA LedgerCreate ==
  ASSUME Reliable, TypeInv, QuietInv, LedgerOK,
         NEW c \in Creators, Create(c) \/ CrashCreator(c)
  PROVE  LedgerOK'
<1> USE DEF stores, locals
<1>p. /\ code \in [Creators -> Codes \cup {NoCode}] /\ pool \subseteq Codes
      /\ links \in Seq(Codes \cup {NoCode})
  BY DEF TypeInv, TypeOK, LocalsOK, StoresOK
<1>e. /\ UNCHANGED <<startIndex, idx, pos>>
      /\ \A b \in Rebuilders : pc'[b] = pc[b]
      /\ \A r \in Refillers : pc'[r] = pc[r] \/ (pc[r] = "idle" /\ pc'[r] = "lock")
      /\ pc[c] = "idle" => CanCreate(c)
  BY CreatorEffect
<1>o. \A k : IsOffered(k) => IsOffered(k)'
  BY <1>e, OfferedStays DEF Generated
<1>r. Rebuilding' = Rebuilding
  BY <1>e DEF Rebuilding
<1>1. CASE Pull(c)
  <2>1. PICK k \in pool : pool' = pool \ {k} /\ code' = [code EXCEPT ![c] = k]
    BY <1>1 DEF Pull
  <2>2. CanCreate(c) /\ links' = links
    BY <1>1 DEF Pull
  <2>3. ~Rebuilding
    BY <2>2 DEF CanCreate, Reliable, Rebuilding
  <2>4. code[c] = NoCode /\ code'[c] = k /\ \A d \in Creators : d # c => code'[d] = code[d]
    BY <2>1, <2>2, <1>p DEF CanCreate, QuietInv
  <2>5. k # NoCode /\ k \notin Taken /\ IsOffered(k)
    BY <2>1, <2>3, <1>p, CodeLengths DEF LedgerOK, PoolApart, AllOffered
  <2>6. Taken' = Taken \cup {k}
    BY <2>2, <2>4, <2>5 DEF Taken, Linked
  <2>7. AllOffered' /\ PoolApart'
    BY <2>1, <2>3, <2>5, <2>6, <1>o DEF LedgerOK, AllOffered, PoolApart
  <2>8. (\A d \in Creators : code[d] # k) /\ (\A i \in DOMAIN links : links[i] # k)
    BY <2>5 DEF Taken, Linked
  <2>9. TakenApart'
    BY <2>2, <2>4, <2>5, <2>8 DEF LedgerOK, TakenApart
  <2> QED BY <2>7, <2>9 DEF LedgerOK
<1>2. CASE PullEmpty(c) \/ PoolSize(c) \/ CacheAdd(c) \/ CrashCreator(c)
  <2>1. /\ UNCHANGED <<pool, links>>
        /\ \A d \in Creators : code'[d] = code[d] \/ code'[d] = NoCode
    BY <1>2, <1>p DEF PullEmpty, PoolSize, CacheAdd, CrashCreator
  <2>2. Taken' \subseteq Taken
    BY <2>1 DEF Taken, Linked
  <2>3. AllOffered' /\ PoolApart'
    BY <2>1, <2>2, <1>o, <1>r DEF LedgerOK, AllOffered, PoolApart
  <2>4. TakenApart'
    BY <2>1 DEF LedgerOK, TakenApart
  <2> QED BY <2>3, <2>4 DEF LedgerOK
<1>3. CASE RowCreate(c)
  <2>1. /\ UNCHANGED pool /\ links' = Append(links, code[c])
        /\ code' = [code EXCEPT ![c] = NoCode]
    BY <1>3 DEF RowCreate
  <2>2. code'[c] = NoCode /\ \A d \in Creators : d # c => code'[d] = code[d]
    BY <2>1, <1>p
  <2>3. /\ DOMAIN links' = DOMAIN links \cup {Len(links) + 1}
        /\ Len(links) + 1 \notin DOMAIN links
        /\ links'[Len(links) + 1] = code[c]
        /\ \A i \in DOMAIN links : links'[i] = links[i]
    BY <2>1, <1>p
  <2>4. Taken' \subseteq Taken
    BY <2>2, <2>3 DEF Taken, Linked
  <2>5. AllOffered' /\ PoolApart'
    BY <2>1, <2>4, <1>o, <1>r DEF LedgerOK, AllOffered, PoolApart
  <2>6. TakenApart'
    <3> DEFINE n == Len(links) + 1
    <3> HIDE DEF n
    <3>1. /\ DOMAIN links' = DOMAIN links \cup {n} /\ n \notin DOMAIN links
          /\ links'[n] = code[c] /\ \A i \in DOMAIN links : links'[i] = links[i]
      BY <2>3 DEF n
    <3>2. \A i, k \in DOMAIN links' :
             links'[i] = links'[k] => i = k \/ links'[i] = NoCode
      BY <3>1 DEF LedgerOK, TakenApart
    <3>3. \A d \in Creators, i \in DOMAIN links' :
             code'[d] = links'[i] => code'[d] = NoCode
      BY <2>2, <3>1 DEF LedgerOK, TakenApart
    <3>4. \A d, e \in Creators : code'[d] = code'[e] => d = e \/ code'[d] = NoCode
      BY <2>2 DEF LedgerOK, TakenApart
    <3> QED BY <3>2, <3>3, <3>4 DEF TakenApart
  <2> QED BY <2>5, <2>6 DEF LedgerOK
<1> QED BY <1>1, <1>2, <1>3 DEF Create

\* Before the batches repeat, the code a refill adds next is not yet offered.
LEMMA NextCodeIsFresh ==
  ASSUME TypeInv, LockInv, ~Wrapped, NEW r \in Refillers, pc[r] = "add"
  PROVE  ~IsOffered(CodeAt(idx[r], pos[r]))
<1>1. /\ idx[r] = startIndex /\ idx[r] \in 0 .. gen.step - 1
      /\ pos[r] \in Positions /\ gen.step \in Nat
  BY StepType
     DEF TypeInv, TypeOK, LocalsOK, LockInv, Wrapped, Workers
<1>2. CodeAt(idx[r], pos[r]) \notin Generated
  <2> SUFFICES ASSUME NEW i \in 0 .. startIndex - 1, NEW j \in Positions,
                      CodeAt(idx[r], pos[r]) = CodeAt(i, j)
               PROVE  FALSE
    BY DEF Generated, Batch
  <2>1. i \in 0 .. gen.step - 1 /\ i # idx[r]
    BY <1>1
  <2> QED BY <1>1, <2>1, CodesDiffer
<1>3. ASSUME NEW s \in Refillers, NEW j \in Positions,
             pc[s] = "save" \/ (pc[s] = "add" /\ j < pos[s]),
             CodeAt(idx[r], pos[r]) = CodeAt(idx[s], j)
      PROVE  FALSE
  <2>1. s = r
    BY <1>3 DEF LockInv, MutualExclusion, Critical, CriticalPc, RefillPc, Workers
  <2>2. j = pos[r]
    BY <1>1, <1>3, <2>1, CodesDiffer
  <2> QED BY <1>1, <1>3, <2>1, <2>2 DEF Positions
<1> QED BY <1>2, <1>3 DEF IsOffered

LEMMA LedgerRefill ==
  ASSUME Reliable, TypeInv, LockInv, LedgerOK, ~Wrapped,
         NEW r \in Refillers, Refill(r)
  PROVE  LedgerOK'
<1> USE DEF stores, locals
<1>p. /\ r \in Procs /\ r \in Workers /\ r \notin Rebuilders /\ r \notin Faulty
      /\ PcOK /\ LocalsOK /\ Rebuilders \subseteq Procs /\ Refillers \subseteq Procs
      /\ Refillers \subseteq Workers
  BY ProcsAssumption DEF Procs, Workers, TypeInv, TypeOK, Reliable
<1>e. /\ UNCHANGED code /\ \A q \in Procs : q # r => pc'[q] = pc[q]
      /\ \A v \in Workers : v # r => idx'[v] = idx[v] /\ pos'[v] = pos[v]
  BY <1>p, WorkerEffect
<1>l. UNCHANGED links
  BY DEF Refill, Startup, Lock, ReadIndex, AddCode, SaveIndex, RefillFails, Unlock
<1>t. Taken' = Taken /\ Rebuilding' = Rebuilding /\ TakenApart'
  <2>1. Taken' = Taken
    BY <1>e, <1>l DEF Taken, Linked
  <2>2. Rebuilding' = Rebuilding
    BY <1>e, <1>p DEF Rebuilding
  <2>3. TakenApart'
    BY <1>e, <1>l DEF LedgerOK, TakenApart
  <2> QED BY <2>1, <2>2, <2>3
<1>1. CASE AddCode(r)
  <2>0. PICK k : k = CodeAt(idx[r], pos[r])
    OBVIOUS
  <2>1. /\ pc[r] = "add" /\ pool' = pool \cup {k} /\ UNCHANGED <<startIndex, idx>>
        /\ pos[r] \in Positions
    BY <1>1, <2>0, <1>p DEF AddCode, LocalsOK
  <2>2. ~IsOffered(k)
    BY <2>0, <2>1, NextCodeIsFresh
  <2>3. k \notin Taken
    BY <2>2 DEF LedgerOK, AllOffered
  <2>4. \A j \in Positions : j <= pos[r] =>
           pc'[r] = "save" \/ (pc'[r] = "add" /\ j < pos'[r])
    <3>1. CASE pos[r] < BatchSize
      <4>1. pc'[r] = "add" /\ pos'[r] = pos[r] + 1
        BY <1>1, <2>1, <3>1, <1>p DEF AddCode, LocalsOK
      <4> QED BY <2>1, <4>1 DEF Positions
    <3>2. CASE ~(pos[r] < BatchSize)
      BY <1>1, <3>2, <1>p, GotoPc DEF AddCode, RefillPc
    <3> QED BY <3>1, <3>2
  <2>5. IsOffered(k)'
    <3>1. pos[r] <= pos[r]
      BY <2>1 DEF Positions
    <3> QED BY <2>0, <2>1, <2>4, <3>1 DEF IsOffered
  <2>6. ASSUME NEW x, IsOffered(x) PROVE IsOffered(x)'
    <3>1. CASE x \in Generated
      BY <2>1, <3>1 DEF IsOffered, Generated
    <3>2. ASSUME NEW s \in Refillers, NEW j \in Positions, x = CodeAt(idx[s], j),
                 pc[s] = "save" \/ (pc[s] = "add" /\ j < pos[s])
          PROVE  IsOffered(x)'
      <4>1. CASE s = r
        <5>1. j <= pos[r]
          BY <2>1, <3>2, <4>1 DEF Positions
        <5> QED BY <2>1, <2>4, <3>2, <4>1, <5>1 DEF IsOffered
      <4>2. CASE s # r
        BY <1>e, <1>p, <3>2, <4>2 DEF IsOffered
      <4> QED BY <4>1, <4>2
    <3> QED BY <2>6, <3>1, <3>2 DEF IsOffered
  <2>7. AllOffered' /\ PoolApart'
    BY <2>1, <2>3, <2>5, <2>6, <1>t DEF LedgerOK, AllOffered, PoolApart
  <2> QED BY <2>7, <1>t DEF LedgerOK
<1>2. CASE SaveIndex(r)
  <2>1. pc[r] = "save" /\ startIndex' = idx[r] + 1 /\ UNCHANGED <<pool, idx, pos>>
        /\ idx[r] = startIndex /\ startIndex \in Nat
    BY <1>2, StepType DEF SaveIndex, LockInv, TypeInv, TypeOK, StoresOK
  <2>2. Generated \subseteq Generated' /\ Batch(idx[r]) \subseteq Generated'
    <3>1. 0 .. startIndex - 1 \subseteq 0 .. startIndex' - 1
          /\ idx[r] \in 0 .. startIndex' - 1
      BY <2>1
    <3> QED BY <3>1 DEF Generated
  <2>3. ASSUME NEW x, IsOffered(x) PROVE IsOffered(x)'
    <3>1. CASE x \in Generated
      BY <2>2, <3>1 DEF IsOffered
    <3>2. ASSUME NEW s \in Refillers, NEW j \in Positions, x = CodeAt(idx[s], j),
                 pc[s] = "save" \/ (pc[s] = "add" /\ j < pos[s])
          PROVE  IsOffered(x)'
      <4>1. CASE s = r
        BY <2>2, <3>2, <4>1 DEF IsOffered, Batch
      <4>2. CASE s # r
        BY <1>e, <1>p, <3>2, <4>2 DEF IsOffered
      <4> QED BY <4>1, <4>2
    <3> QED BY <2>3, <3>1, <3>2 DEF IsOffered
  <2>4. AllOffered' /\ PoolApart'
    BY <2>1, <2>3, <1>t DEF LedgerOK, AllOffered, PoolApart
  <2> QED BY <2>4, <1>t DEF LedgerOK
<1>3. CASE Startup(r) \/ Lock(r, "index") \/ ReadIndex(r) \/ Unlock(r)
  <2>1. pc[r] \notin {"add", "save"} /\ UNCHANGED <<pool, startIndex>>
    BY <1>3 DEF Startup, Lock, ReadIndex, Unlock
  <2>2. \A x : IsOffered(x) => IsOffered(x)'
    BY <2>1, <1>e, <1>p, OfferedStays DEF Generated
  <2>3. AllOffered' /\ PoolApart'
    BY <2>1, <2>2, <1>t DEF LedgerOK, AllOffered, PoolApart
  <2> QED BY <2>3, <1>t DEF LedgerOK
<1> QED BY <1>1, <1>2, <1>3, <1>p DEF Refill, RefillFails

LEMMA LedgerRebuild ==
  ASSUME Reliable, TypeInv, QuietInv, RebuildInv, RebuildInv', LedgerOK,
         NEW b \in Rebuilders, Rebuild(b)
  PROVE  LedgerOK'
<1> USE DEF stores, locals
<1>p. /\ b \in Procs /\ b \in Workers /\ b \notin Faulty /\ PcOK
      /\ b \notin Refillers /\ b \notin Creators
      /\ Rebuilders \subseteq Procs /\ Refillers \subseteq Procs
      /\ Creators \subseteq Procs /\ Refillers \subseteq Workers
  BY ProcsAssumption DEF Procs, Workers, TypeInv, TypeOK, Reliable
<1>e. /\ UNCHANGED code /\ \A q \in Procs : q # b => pc'[q] = pc[q]
      /\ \A v \in Workers : v # b => idx'[v] = idx[v] /\ pos'[v] = pos[v]
  BY <1>p, WorkerEffect
<1>g. ASSUME NEW where \in RebuildPc, Goto(b, where) PROVE pc'[b] = where
  BY <1>g, <1>p, GotoPc
<1>l. UNCHANGED <<links, startIndex>>
  BY DEF Rebuild, RebuildStart, Lock, ClearPool, ReadBound, Regenerate, ListPage,
         TakePage, RemoveUsed, RebuildFails, Unlock
<1>o. \A x : IsOffered(x) => IsOffered(x)'
  BY <1>e, <1>l, <1>p, OfferedStays DEF Generated
<1>t. Taken' = Taken /\ TakenApart'
  BY <1>e, <1>l DEF Taken, Linked, LedgerOK, TakenApart
<1>1. AllOffered'
  <2>1. pool' \subseteq pool \cup Generated
    <3>1. CASE Regenerate(b)
      <4>1. idx[b] \in 0 .. startIndex - 1 /\ pos[b] \in Positions
        <5>1. pc[b] = "regenerate" /\ end[b] = startIndex /\ idx[b] < end[b]
          BY <3>1 DEF Regenerate, RebuildInv, RebuildOK, Restored, TypeInv, LoopsOK
        <5> QED BY <5>1, <1>p, StepType DEF TypeInv, TypeOK, LocalsOK
      <4>2. CodeAt(idx[b], pos[b]) \in Generated
        BY <4>1 DEF Generated, Batch
      <4> QED BY <3>1, <4>2 DEF Regenerate
    <3>2. CASE ~Regenerate(b)
      BY <3>2 DEF Rebuild, RebuildStart, Lock, ClearPool, ReadBound, ListPage,
                  RemoveUsed, RebuildFails, Unlock
    <3> QED BY <3>1, <3>2
  <2>2. \A x \in Generated : IsOffered(x)
    BY DEF IsOffered
  <2> QED BY <2>1, <2>2, <1>o, <1>t DEF LedgerOK, AllOffered
<1>2. ASSUME ~Rebuilding' PROVE pool' \cap Taken' = {}
  <2>1. CASE pc[b] \in {"regenerate", "list", "remove"}
    <3>1. pc'[b] \in {"regenerate", "list", "remove", "unlock"}
      BY <2>1, <1>g, <1>p
         DEF Rebuild, RebuildStart, Lock, ClearPool, ReadBound, Regenerate, NextCode,
             ListPage, TakePage, RemoveUsed, RebuildFails, Unlock, RebuildPc
    <3>2. pc'[b] = "unlock"
      BY <1>2, <3>1 DEF Rebuilding
    <3>3. pool' \cap Linked' = {}
      BY <3>2 DEF RebuildInv, RebuildOK, Removed
    <3>4. \A c \in Creators : code'[c] = NoCode
      BY <2>1, <1>e DEF QuietInv
    <3> QED BY <3>3, <3>4 DEF Taken
  <2>2. CASE pc[b] \notin {"regenerate", "list", "remove"}
    <3>1. ~Rebuilding
      BY <1>2, <2>2, <1>e, <1>p DEF Rebuilding
    <3>2. pool' \subseteq pool
      BY <2>2 DEF Rebuild, RebuildStart, Lock, ClearPool, ReadBound, Regenerate,
                  ListPage, RemoveUsed, RebuildFails, Unlock
    <3> QED BY <3>1, <3>2, <1>t DEF LedgerOK, PoolApart
  <2> QED BY <2>1, <2>2
<1> QED BY <1>1, <1>2, <1>t DEF LedgerOK, PoolApart

LEMMA LedgerNext ==
  ASSUME Reliable
  PROVE  TypeInv /\ LockInv /\ QuietInv /\ RebuildInv /\ RebuildInv' /\ LedgerInv
            /\ [Next]_vars => LedgerInv'
<1> SUFFICES ASSUME TypeInv, LockInv, QuietInv, RebuildInv, RebuildInv', LedgerInv,
                    [Next]_vars, ~Wrapped'
             PROVE  LedgerOK'
  BY DEF LedgerInv
<1>0. ~Wrapped /\ LedgerOK
  BY WrappedStable DEF LedgerInv
<1>1. ASSUME NEW c \in Creators, Create(c) \/ CrashCreator(c) PROVE LedgerOK'
  BY <1>0, <1>1, LedgerCreate
<1>2. ASSUME NEW r \in Refillers, Refill(r) PROVE LedgerOK'
  BY <1>0, <1>2, LedgerRefill
<1>3. ASSUME NEW b \in Rebuilders, Rebuild(b) PROVE LedgerOK'
  BY <1>0, <1>3, LedgerRebuild
<1>4. CASE LockLapse \/ UNCHANGED vars
  <2>1. UNCHANGED <<pool, startIndex, links, pc, code, idx, pos>>
    BY <1>4 DEF LockLapse, vars, stores, locals
  <2>2. \A x : IsOffered(x) => IsOffered(x)'
    BY <2>1, OfferedStays DEF Generated
  <2>3. Taken' = Taken /\ Rebuilding' = Rebuilding
    BY <2>1 DEF Taken, Linked, Rebuilding
  <2> QED BY <1>0, <2>1, <2>2, <2>3
          DEF LedgerOK, AllOffered, PoolApart, TakenApart
<1>5. \A w \in Workers : ~CrashWorker(w)
  BY DEF CrashWorker, Reliable
<1> QED BY <1>1, <1>2, <1>3, <1>4, <1>5 DEF Next

\* Until the batches repeat, no code is given to two Creates, whatever fails in
\* them, however many refills and rebuilds run.
THEOREM UniqueUntilWrapHolds ==
  ASSUME Reliable
  PROVE  Spec => []UniqueUntilWrap
<1> DEFINE I == TypeInv /\ LockInv /\ QuietInv /\ RebuildInv
           J == I /\ LedgerInv
<1>1. Init => J
  <2>1. Init => QuietInv /\ RebuildInv
    BY DEF Init, QuietInv, RebuildInv, RebuildOK, RebuildStarts, Restored, Removed,
           Procs, Workers
  <2>2. Init => LedgerInv
    BY DEF Init, LedgerInv, LedgerOK, AllOffered, PoolApart, TakenApart, Taken,
           Linked
  <2> QED BY <2>1, <2>2, TypeInit, LockInit
<1>2. J /\ [Next]_vars => J'
  <2>1. I /\ [Next]_vars => I'
    BY TypeNext, LockNext, QuietNext, RebuildNext DEF Reliable
  <2> QED BY <2>1, LedgerNext
<1>3. J => UniqueUntilWrap
  BY DEF LedgerInv, LedgerOK, TakenApart, UniqueUntilWrap, GivenOutOnce, Held, Linked
<1> QED BY <1>1, <1>2, <1>3, PTL DEF Spec

-----------------------------------------------------------------------------
(* The codes change hands as CodeOwnership says. *)

Offered == IF Rebuilding THEN {} ELSE pool

\* The moves of a code, in the words of this module.
LEMMA OwnershipMoves ==
  ASSUME NEW k \in Codes
  PROVE  LET owned == HoldersOf(k) # {} \/ KeepersOf(k) # {}
             ownedNext == HoldersOf(k)' # {} \/ KeepersOf(k)' # {}
         IN /\ HoldersOf(k)' = HoldersOf(k) /\ KeepersOf(k)' = KeepersOf(k)
               /\ (k \in Offered' <=> k \in Offered) => Ownership!Move(k)
            /\ ~owned /\ ~ownedNext => Ownership!Move(k)
            /\ k \in Offered /\ ~owned /\ k \notin Offered' /\ KeepersOf(k)' = {}
               /\ (\E x : HoldersOf(k)' = {x}) => Ownership!Move(k)
            /\ (\E x : HoldersOf(k) = {x}) /\ (\E x : KeepersOf(k)' = {x})
               /\ KeepersOf(k) = {} /\ HoldersOf(k)' = {} /\ k \notin Offered'
               => Ownership!Move(k)
            /\ owned /\ ~ownedNext /\ k \notin Offered' => Ownership!Move(k)
BY DEF Ownership!Move, Ownership!Stay, Ownership!Offer, Ownership!Take, Ownership!Store,
       Ownership!Drop, Ownership!Owned, Ownership!IsOne, Offered

\* A code is owned when it is taken; a taken one has one owner and is not offered.
LEMMA OwnersOfCodes ==
  ASSUME LedgerOK, NEW k \in Codes
  PROVE  /\ k \in Taken <=> HoldersOf(k) # {} \/ KeepersOf(k) # {}
         /\ k \in Taken => k \notin Offered
         /\ \A c \in Creators : code[c] = k => HoldersOf(k) = {c} /\ KeepersOf(k) = {}
         /\ \A id \in DOMAIN links :
               links[id] = k => KeepersOf(k) = {id} /\ HoldersOf(k) = {}
<1>1. k # NoCode
  BY CodeLengths
<1>2. k \in Taken <=> HoldersOf(k) # {} \/ KeepersOf(k) # {}
  BY <1>1 DEF Taken, Linked, HoldersOf, KeepersOf
<1>3. k \in Taken => k \notin Offered
  BY DEF LedgerOK, PoolApart, Offered
<1>4. ASSUME NEW c \in Creators, code[c] = k
      PROVE  HoldersOf(k) = {c} /\ KeepersOf(k) = {}
  BY <1>1, <1>4 DEF LedgerOK, TakenApart, HoldersOf, KeepersOf
<1>5. ASSUME NEW id \in DOMAIN links, links[id] = k
      PROVE  KeepersOf(k) = {id} /\ HoldersOf(k) = {}
  BY <1>1, <1>5 DEF LedgerOK, TakenApart, HoldersOf, KeepersOf
<1> QED BY <1>2, <1>3, <1>4, <1>5

\* A step that moves no code out of or into hands.
LEMMA OwnersStay ==
  ASSUME LedgerOK, LedgerOK', UNCHANGED <<code, links>>, NEW k \in Codes
  PROVE  Ownership!Move(k)
<1>1. HoldersOf(k)' = HoldersOf(k) /\ KeepersOf(k)' = KeepersOf(k) /\ Taken' = Taken
  BY DEF HoldersOf, KeepersOf, Taken, Linked
<1>2. CASE k \in Taken
  <2>1. k \notin Offered /\ k \notin Offered'
    BY <1>1, <1>2 DEF LedgerOK, PoolApart, Offered
  <2> QED BY <1>1, <2>1, OwnershipMoves
<1>3. CASE k \notin Taken
  <2>1. HoldersOf(k) = {} /\ KeepersOf(k) = {}
    BY <1>3, OwnersOfCodes
  <2> QED BY <1>1, <2>1, OwnershipMoves
<1> QED BY <1>2, <1>3

LEMMA OwnersCreate ==
  ASSUME Reliable, TypeInv, QuietInv, LedgerOK, LedgerOK', NEW k \in Codes,
         NEW c \in Creators, Create(c) \/ CrashCreator(c)
  PROVE  Ownership!Move(k)
<1> USE DEF stores, locals
<1>p. /\ code \in [Creators -> Codes \cup {NoCode}] /\ pool \subseteq Codes
      /\ links \in Seq(Codes \cup {NoCode}) /\ k # NoCode
  BY CodeLengths DEF TypeInv, TypeOK, LocalsOK, StoresOK
<1>r. Rebuilding' = Rebuilding
  BY CreatorEffect DEF Rebuilding
<1>1. CASE Pull(c)
  <2>1. PICK x \in pool : pool' = pool \ {x} /\ code' = [code EXCEPT ![c] = x]
    BY <1>1 DEF Pull
  <2>2. CanCreate(c) /\ links' = links
    BY <1>1 DEF Pull
  <2>3. Offered = pool /\ Offered' = pool \ {x}
    BY <2>1, <2>2, <1>r DEF CanCreate, Reliable, Rebuilding, Offered
  <2>4. code[c] = NoCode /\ code'[c] = x /\ \A d \in Creators : d # c => code'[d] = code[d]
    BY <2>1, <2>2, <1>p DEF CanCreate, QuietInv
  <2>5. KeepersOf(k)' = KeepersOf(k)
    BY <2>2 DEF KeepersOf
  <2>6. CASE k = x
    <3>1. HoldersOf(k) = {} /\ KeepersOf(k) = {}
      BY <2>1, <2>3, <2>6, OwnersOfCodes
    <3>2. HoldersOf(k)' = {c}
      BY <3>1, <2>4, <2>6 DEF HoldersOf
    <3> QED BY <2>1, <2>3, <2>5, <2>6, <3>1, <3>2, OwnershipMoves
  <2>7. CASE k # x
    <3>1. HoldersOf(k)' = HoldersOf(k)
      BY <2>4, <2>7, <1>p DEF HoldersOf
    <3> QED BY <2>3, <2>5, <2>7, <3>1, OwnershipMoves
  <2> QED BY <2>6, <2>7
<1>2. CASE PullEmpty(c) \/ PoolSize(c) \/ CacheAdd(c)
  <2>1. UNCHANGED links /\ UNCHANGED code
    <3>1. PullEmpty(c) => code[c] = NoCode /\ code' = [code EXCEPT ![c] = NoCode]
      BY DEF PullEmpty, CanCreate, QuietInv
    <3> QED BY <1>2, <1>p, <3>1 DEF PullEmpty, PoolSize, CacheAdd
  <2> QED BY <2>1, OwnersStay
<1>3. CASE CrashCreator(c) \/ RowCreate(c)
  <2>1. UNCHANGED pool /\ code' = [code EXCEPT ![c] = NoCode]
    BY <1>3 DEF CrashCreator, RowCreate
  <2>2. code'[c] = NoCode /\ \A d \in Creators : d # c => code'[d] = code[d]
    BY <2>1, <1>p
  <2>3. Offered' = Offered
    BY <2>1, <1>r DEF Offered
  <2>4. UNCHANGED links \/ (links' = Append(links, code[c]) /\ ~UNCHANGED links)
    BY <1>3, <1>p DEF CrashCreator, RowCreate
  <2>5. CASE code[c] # k
    <3>1. HoldersOf(k)' = HoldersOf(k)
      BY <2>2, <2>5, <1>p DEF HoldersOf
    <3>2. KeepersOf(k)' = KeepersOf(k)
      BY <2>4, <2>5, <1>p DEF KeepersOf
    <3> QED BY <2>3, <3>1, <3>2, OwnershipMoves
  <2>6. CASE code[c] = k
    <3>1. HoldersOf(k) = {c} /\ KeepersOf(k) = {} /\ k \notin Offered'
      BY <2>3, <2>6, OwnersOfCodes
    <3>2. HoldersOf(k)' = {}
      BY <2>2, <3>1, <1>p DEF HoldersOf
    <3>3. CASE UNCHANGED links
      <4>1. KeepersOf(k)' = {}
        BY <3>1, <3>3 DEF KeepersOf
      <4> QED BY <3>1, <3>2, <4>1, OwnershipMoves
    <3>4. CASE links' = Append(links, code[c])
      <4>1. KeepersOf(k)' = {Len(links) + 1}
        BY <2>6, <3>1, <3>4, <1>p DEF KeepersOf
      <4> QED BY <3>1, <3>2, <4>1, OwnershipMoves
    <3> QED BY <2>4, <3>3, <3>4
  <2> QED BY <2>5, <2>6
<1> QED BY <1>1, <1>2, <1>3 DEF Create

LEMMA OwnersInit == Init => Ownership!Init
<1> SUFFICES ASSUME Init PROVE Ownership!Init
  OBVIOUS
<1>1. ASSUME NEW k \in Codes PROVE HoldersOf(k) = {} /\ KeepersOf(k) = {}
  BY CodeLengths DEF Init, HoldersOf, KeepersOf
<1>2. (IF Rebuilding THEN {} ELSE pool) \subseteq Codes
  BY DEF Init
<1> QED BY <1>1, <1>2 DEF Ownership!Init

\* Until the batches repeat, every code changes hands as CodeOwnership says: a Create
\* takes it from the pool, stores it with one new row or drops it, and neither a
\* refill nor a rebuild (cores/service.go:319, 449) ever offers it while it is owned.
THEOREM SupplyImplementsOwnership ==
  ASSUME Reliable
  PROVE  Spec => ImplementsOwnership
<1> DEFINE I == TypeInv /\ LockInv /\ QuietInv /\ RebuildInv
           J == I /\ LedgerInv
<1>1. Init => J
  <2>1. Init => QuietInv /\ RebuildInv
    BY DEF Init, QuietInv, RebuildInv, RebuildOK, RebuildStarts, Restored, Removed,
           Procs, Workers
  <2>2. Init => LedgerInv
    BY DEF Init, LedgerInv, LedgerOK, AllOffered, PoolApart, TakenApart, Taken,
           Linked
  <2> QED BY <2>1, <2>2, TypeInit, LockInit
<1>2. J /\ [Next]_vars => J'
  <2>1. I /\ [Next]_vars => I'
    BY TypeNext, LockNext, QuietNext, RebuildNext DEF Reliable
  <2> QED BY <2>1, LedgerNext
<1>3. J /\ J' /\ [Next]_vars => Ownership!Next
  <2> SUFFICES ASSUME J, J', [Next]_vars, ~Wrapped' PROVE Ownership!Next
    BY DEF Ownership!Next
  <2>1. ~Wrapped /\ LedgerOK /\ LedgerOK'
    BY WrappedStable DEF LedgerInv
  <2>2. ASSUME NEW k \in Codes PROVE Ownership!Move(k)
    <3>1. ASSUME NEW c \in Creators, Create(c) \/ CrashCreator(c)
          PROVE  Ownership!Move(k)
      BY <2>1, <3>1, OwnersCreate
    <3>2. ASSUME NEW w \in Workers,
                 \/ w \in Refillers /\ Refill(w)
                 \/ w \in Rebuilders /\ Rebuild(w)
                 \/ CrashWorker(w)
          PROVE  Ownership!Move(k)
      <4>1. UNCHANGED code
        BY <3>2, WorkerEffect
      <4>2. UNCHANGED links
        BY <3>2 DEF Refill, Startup, Lock, ReadIndex, AddCode, SaveIndex, RefillFails,
                    Unlock, CrashWorker, Rebuild, RebuildStart, ClearPool, ReadBound,
                    Regenerate, ListPage, TakePage, RemoveUsed, RebuildFails, stores
      <4> QED BY <2>1, <4>1, <4>2, OwnersStay
    <3>3. CASE LockLapse \/ UNCHANGED vars
      <4>1. UNCHANGED <<code, links>>
        BY <3>3 DEF LockLapse, vars, stores, locals
      <4> QED BY <2>1, <4>1, OwnersStay
    <3> QED BY <3>1, <3>2, <3>3 DEF Next, Workers
  <2> QED BY <2>1, <2>2 DEF Ownership!Next
<1> QED BY <1>1, <1>2, <1>3, OwnersInit, PTL
      DEF Spec, ImplementsOwnership, Ownership!Spec

-----------------------------------------------------------------------------
(* No code is lost, with rebuilds: refills may fail and die, creators and   *)
(* rebuilders are reliable, and Creates run while the pool is rebuilt.      *)

\* A rebuild has cleared the pool and not yet put everything back.
Restoring == \E b \in Rebuilders : pc[b] \in {"bound", "regenerate"}

\* What a refill has added of its batch is accounted for.
InHand(r) ==
  /\ pc[r] = "add" =>
        \A j \in Positions : j < pos[r] => CodeAt(idx[r], j) \in Accounted
  /\ pc[r] = "save" => Batch(idx[r]) \subseteq Accounted

\* What a rebuild has passed in its loops is accounted for, also what Creates
\* have pulled again since; and it removes codes of rows only.
PutBack(b) ==
  /\ pc[b] \in {"idle", "lock", "clear", "bound"} => pos[b] = 1
  /\ page[b] \subseteq DOMAIN links
  /\ pc[b] = "regenerate" =>
        /\ end[b] = startIndex
        /\ \A i \in 0 .. idx[b] - 1 : Batch(i) \subseteq Accounted
        /\ \A j \in Positions : j < pos[b] => CodeAt(idx[b], j) \in Accounted

KeptInv ==
  /\ ~Restoring => Generated \subseteq Accounted
  /\ \A r \in Refillers : InHand(r)
  /\ \A b \in Rebuilders : PutBack(b)

\* A step that leaves the rebuilds alone and makes no code disappear.
LEMMA KeptFrame ==
  ASSUME KeptInv, Accounted \subseteq Accounted', UNCHANGED startIndex,
         DOMAIN links \subseteq DOMAIN links',
         \A b \in Rebuilders :
            /\ pc'[b] = pc[b] /\ idx'[b] = idx[b] /\ pos'[b] = pos[b]
            /\ end'[b] = end[b] /\ page'[b] = page[b],
         \A r \in Refillers : pc'[r] \in {"add", "save"} =>
            pc'[r] = pc[r] /\ idx'[r] = idx[r] /\ pos'[r] = pos[r]
  PROVE  KeptInv'
<1>1. Generated' = Generated
  BY DEF Generated
<1>2. Restoring' = Restoring
  BY DEF Restoring
<1>3. ASSUME NEW r \in Refillers PROVE InHand(r)'
  BY DEF KeptInv, InHand
<1>4. ASSUME NEW b \in Rebuilders PROVE PutBack(b)'
  BY DEF KeptInv, PutBack
<1> QED BY <1>1, <1>2, <1>3, <1>4 DEF KeptInv

LEMMA KeptCreate ==
  ASSUME TypeInv, KeptInv, NEW c \in Creators, Create(c)
  PROVE  KeptInv'
<1>1. Accounted \subseteq Accounted'
  BY AccountedCreate
<1>2. DOMAIN links \subseteq DOMAIN links'
  <2>1. UNCHANGED links \/ links' = Append(links, code[c])
    BY DEF Create, Pull, PullEmpty, PoolSize, CacheAdd, RowCreate, stores
  <2>2. links \in Seq(Codes \cup {NoCode}) /\ code[c] \in Codes \cup {NoCode}
    BY DEF TypeInv, TypeOK, StoresOK, LocalsOK
  <2> QED BY <2>1, <2>2
<1> QED BY <1>1, <1>2, CreatorEffect, KeptFrame

\* While a worker is critical, every other is outside.
LEMMA OthersOutside ==
  ASSUME TypeInv, LockInv, NEW w \in Workers, Critical(w)
  PROVE  /\ \A v \in Workers : v # w => pc[v] \in {"idle", "lock"}
         /\ \A v \in Workers : pc[v] \in CriticalPc => v = w
  BY DEF LockInv, MutualExclusion, Critical, CriticalPc, TypeInv, TypeOK, PcOK,
         Workers, RefillPc, RebuildPc

LEMMA KeptRefill ==
  ASSUME TypeInv, LockInv, KeptInv, NEW r \in Refillers, Refill(r) \/ CrashWorker(r)
  PROVE  KeptInv'
<1>a. Accounted \subseteq Accounted'
  BY AccountedRefill
<1>p. r \in Procs /\ r \in Workers /\ r \notin Rebuilders /\ PcOK /\ LocalsOK
      /\ Rebuilders \subseteq Workers /\ Refillers \subseteq Workers
      /\ Workers \subseteq Procs
  BY ProcsAssumption DEF Procs, Workers, TypeInv, TypeOK
<1>l. UNCHANGED links
  BY DEF Refill, Startup, Lock, ReadIndex, AddCode, SaveIndex, RefillFails, Unlock,
         CrashWorker, Return, stores, locals
<1>g. ASSUME NEW where \in RefillPc, Goto(r, where)
      PROVE  pc'[r] = where
  BY <1>g, <1>p, GotoPc
<1>o. \A v \in Workers : v # r =>
         /\ pc'[v] = pc[v] /\ idx'[v] = idx[v] /\ pos'[v] = pos[v]
         /\ end'[v] = end[v] /\ page'[v] = page[v]
  BY <1>p, WorkerEffect
<1>b. \A b \in Rebuilders :
         /\ pc'[b] = pc[b] /\ idx'[b] = idx[b] /\ pos'[b] = pos[b]
         /\ end'[b] = end[b] /\ page'[b] = page[b]
  BY <1>p, <1>o
<1>c. ASSUME pc[r] \in {"index", "add", "save"}
      PROVE  /\ Generated \subseteq Accounted' /\ ~Restoring'
             /\ \A b \in Rebuilders : PutBack(b)'
             /\ \A s \in Refillers : s # r => InHand(s)'
  <2>1. Critical(r)
    BY <1>c DEF Critical, CriticalPc, RefillPc
  <2>2. \A v \in Workers : v # r => pc[v] \in {"idle", "lock"}
    BY <2>1, <1>p, OthersOutside
  <2>3. \A b \in Rebuilders : pc[b] \in {"idle", "lock"} /\ pc'[b] \in {"idle", "lock"}
    BY <2>2, <1>p, <1>b
  <2>4. ~Restoring /\ ~Restoring'
    BY <2>3 DEF Restoring
  <2>5. ASSUME NEW b \in Rebuilders PROVE PutBack(b)'
    BY <2>3, <1>b, <1>l DEF KeptInv, PutBack
  <2>6. ASSUME NEW s \in Refillers, s # r PROVE InHand(s)'
    <3>1. pc'[s] \in {"idle", "lock"}
      BY <2>2, <2>6, <1>p, <1>o
    <3> QED BY <3>1 DEF InHand
  <2> QED BY <2>4, <2>5, <2>6, <1>a DEF KeptInv
<1>1. CASE Startup(r) \/ Lock(r, "index") \/ RefillFails(r) \/ Unlock(r)
           \/ CrashWorker(r)
  <2>1. UNCHANGED startIndex /\ \E where \in RefillPc \ {"add", "save"} : Goto(r, where)
    BY <1>1 DEF Startup, Lock, RefillFails, Unlock, CrashWorker, Return, stores,
                RefillPc
  <2>2. pc'[r] \notin {"add", "save"}
    BY <2>1, <1>g
  <2>3. \A s \in Refillers : pc'[s] \in {"add", "save"} =>
           pc'[s] = pc[s] /\ idx'[s] = idx[s] /\ pos'[s] = pos[s]
    BY <2>2, <1>o, <1>p
  <2> QED BY <2>1, <2>3, <1>a, <1>b, <1>l, KeptFrame
<1>2. CASE ReadIndex(r)
  <2>1. pc[r] = "index" /\ pos[r] = 1 /\ UNCHANGED <<startIndex, pos>>
    BY <1>2 DEF ReadIndex, TypeInv, LoopsOK, stores
  <2>2. Generated' = Generated
    BY <2>1 DEF Generated
  <2>3. InHand(r)'
    <3>1. pc'[r] \in {"unlock", "add"} /\ pos'[r] = 1
      BY <1>2, <2>1, <1>g DEF ReadIndex, RefillPc
    <3>2. \A j \in Positions : ~(j < pos'[r])
      BY <3>1, SizesAssumption DEF Positions
    <3> QED BY <3>1, <3>2 DEF InHand
  <2> QED BY <2>1, <2>2, <2>3, <1>c DEF KeptInv
<1>3. CASE AddCode(r)
  <2>1. /\ pc[r] = "add" /\ pos[r] \in Positions
        /\ UNCHANGED <<startIndex, idx>>
        /\ CodeAt(idx[r], pos[r]) \in Accounted'
    BY <1>3, <1>p DEF AddCode, LocalsOK, Accounted
  <2>2. Generated' = Generated
    BY <2>1 DEF Generated
  <2>3. \A j \in Positions : j <= pos[r] => CodeAt(idx[r], j) \in Accounted'
    <3> SUFFICES ASSUME NEW j \in Positions, j <= pos[r]
                 PROVE  CodeAt(idx[r], j) \in Accounted'
      OBVIOUS
    <3>1. j < pos[r] \/ j = pos[r]
      BY <2>1, SizesAssumption DEF Positions
    <3> QED BY <2>1, <3>1, <1>a DEF KeptInv, InHand
  <2>4. InHand(r)'
    <3>1. CASE pos[r] < BatchSize
      <4>1. pc'[r] = "add" /\ pos'[r] = pos[r] + 1
        BY <1>3, <2>1, <3>1, <1>p DEF AddCode, LocalsOK
      <4>2. \A j \in Positions : j < pos'[r] => j <= pos[r]
        BY <2>1, <4>1, SizesAssumption DEF Positions
      <4> QED BY <2>1, <2>3, <4>1, <4>2 DEF InHand
    <3>2. CASE ~(pos[r] < BatchSize)
      <4>1. pc'[r] = "save"
        BY <1>3, <3>2, <1>g DEF AddCode, RefillPc
      <4>2. \A j \in Positions : j <= pos[r]
        BY <2>1, <3>2, SizesAssumption DEF Positions
      <4>3. Batch(idx[r]) \subseteq Accounted'
        BY <2>3, <4>2 DEF Batch
      <4> QED BY <2>1, <4>1, <4>3 DEF InHand
    <3> QED BY <3>1, <3>2
  <2> QED BY <2>1, <2>2, <2>4, <1>c DEF KeptInv
<1>4. CASE SaveIndex(r)
  <2>1. /\ pc[r] = "save" /\ pc'[r] = "unlock" /\ startIndex' = idx[r] + 1
        /\ idx[r] = startIndex
    BY <1>4, <1>g DEF SaveIndex, RefillPc, LockInv
  <2>2. startIndex \in Nat
    BY StepType DEF TypeInv, TypeOK, StoresOK
  <2>3. \A i \in 0 .. startIndex' - 1 : i \in 0 .. startIndex - 1 \/ i = idx[r]
    BY <2>1, <2>2
  <2>4. Batch(idx[r]) \subseteq Accounted'
    BY <2>1, <1>a DEF KeptInv, InHand
  <2>5. Generated' \subseteq Accounted'
    BY <2>1, <2>3, <2>4, <1>c DEF Generated
  <2>6. InHand(r)'
    BY <2>1 DEF InHand
  <2> QED BY <2>1, <2>5, <2>6, <1>c DEF KeptInv
<1> QED BY <1>1, <1>2, <1>3, <1>4 DEF Refill

\* A step of a rebuild inside the lock: it is enough to look at this rebuild.
LEMMA KeptInside ==
  ASSUME TypeInv, LockInv, KeptInv, NEW b \in Rebuilders, Rebuild(b), Critical(b),
         PutBack(b)', pc'[b] \notin {"bound", "regenerate"} => Generated' \subseteq Accounted'
  PROVE  KeptInv'
<1>p. b \in Workers /\ Rebuilders \subseteq Workers /\ Refillers \subseteq Workers
      /\ Workers \subseteq Procs /\ b \notin Refillers
  BY ProcsAssumption DEF Workers, Procs
<1>l. UNCHANGED links
  BY DEF Rebuild, RebuildStart, Lock, ClearPool, ReadBound, Regenerate, ListPage,
         RemoveUsed, RebuildFails, Unlock, Return, stores, locals
<1>1. \A v \in Workers : v # b =>
         /\ pc'[v] \in {"idle", "lock"} /\ pc'[v] = pc[v]
         /\ pos'[v] = pos[v] /\ page'[v] = page[v]
  BY <1>p, OthersOutside, WorkerEffect
<1>2. ASSUME NEW r \in Refillers PROVE InHand(r)'
  <2>1. pc'[r] \in {"idle", "lock"}
    BY <1>1, <1>p
  <2> QED BY <2>1 DEF InHand
<1>3. ASSUME NEW a \in Rebuilders, a # b PROVE PutBack(a)'
  <2>1. /\ pc'[a] \in {"idle", "lock"} /\ pc'[a] = pc[a]
        /\ pos'[a] = pos[a] /\ page'[a] = page[a]
    BY <1>1, <1>3, <1>p
  <2> QED BY <2>1, <1>l DEF KeptInv, PutBack
<1>4. ~Restoring' => Generated' \subseteq Accounted'
  BY DEF Restoring
<1> QED BY <1>2, <1>3, <1>4 DEF KeptInv

LEMMA KeptRebuild ==
  ASSUME TypeInv, LockInv, KeptInv, NEW b \in Rebuilders, Rebuild(b), b \notin Faulty
  PROVE  KeptInv'
<1>p. b \in Procs /\ b \in Workers /\ b \notin Refillers /\ PcOK /\ LocalsOK
      /\ Rebuilders \subseteq Workers /\ Refillers \subseteq Workers
      /\ Workers \subseteq Procs /\ Creators \subseteq Procs /\ b \notin Creators
      /\ StoresOK
  BY ProcsAssumption DEF Procs, Workers, TypeInv, TypeOK
<1>s. UNCHANGED <<links, startIndex>>
  BY DEF Rebuild, RebuildStart, Lock, ClearPool, ReadBound, Regenerate, ListPage,
         RemoveUsed, RebuildFails, Unlock, Return, stores, locals
<1>h. Generated' = Generated /\ Held' = Held /\ Linked' = Linked
  <2>1. UNCHANGED code /\ \A c \in Creators : pc'[c] = pc[c]
    BY <1>p, WorkerEffect
  <2> QED BY <2>1, <1>s DEF Generated, Held, Linked
<1>g. ASSUME NEW where \in RebuildPc, Goto(b, where)
      PROVE  pc'[b] = where
  BY <1>g, <1>p, GotoPc
<1>k. PutBack(b)
  BY DEF KeptInv
<1>c. ASSUME pc[b] \in RebuildPc \ {"idle", "lock"} PROVE Critical(b)
  BY <1>c DEF Critical, CriticalPc
<1>r. ASSUME pc[b] \in {"clear", "list", "remove", "unlock"}
      PROVE  Generated \subseteq Accounted
  <2>1. Critical(b)
    BY <1>r, <1>c DEF RebuildPc
  <2>2. \A a \in Rebuilders : pc[a] \notin {"bound", "regenerate"}
    BY <2>1, <1>r, <1>p, OthersOutside
  <2> QED BY <2>2 DEF KeptInv, Restoring
<1>1. CASE RebuildStart(b) \/ Lock(b, "clear")
  <2>1. /\ UNCHANGED <<pool, idx, pos, end, page>>
        /\ pc[b] \in {"idle", "lock"} /\ pc'[b] \in {"idle", "lock", "clear"}
    BY <1>1, <1>g DEF RebuildStart, Lock, stores, locals, RebuildPc
  <2>2. \A v \in Workers : v # b => pc'[v] = pc[v]
    BY <1>p, WorkerEffect
  <2>3. Accounted' = Accounted
    BY <2>1, <1>h DEF Accounted
  <2>4. Restoring' = Restoring
    BY <2>1, <2>2, <1>p DEF Restoring
  <2>5. ASSUME NEW r \in Refillers PROVE InHand(r)'
    <3>1. pc'[r] = pc[r] /\ InHand(r)
      BY <2>2, <1>p DEF KeptInv
    <3> QED BY <3>1, <2>1, <2>3 DEF InHand
  <2>6. ASSUME NEW a \in Rebuilders PROVE PutBack(a)'
    <3>1. PutBack(a)
      BY DEF KeptInv
    <3>2. CASE a = b
      BY <3>1, <3>2, <2>1, <1>s DEF PutBack
    <3>3. CASE a # b
      <4>1. pc'[a] = pc[a]
        BY <3>3, <2>2, <1>p
      <4> QED BY <4>1, <3>1, <2>1, <2>3, <1>s DEF PutBack
    <3> QED BY <3>2, <3>3
  <2> QED BY <2>3, <2>4, <2>5, <2>6, <1>h DEF KeptInv
<1>2. CASE ClearPool(b)
  <2>1. pc[b] = "clear" /\ pc'[b] = "bound" /\ UNCHANGED <<pos, page>>
    BY <1>2, <1>g DEF ClearPool, RebuildPc, locals
  <2>2. PutBack(b)'
    BY <2>1, <1>k, <1>s DEF PutBack
  <2> QED BY <2>1, <2>2, <1>c, KeptInside DEF RebuildPc
<1>3. CASE ReadBound(b)
  <2>1. /\ pc[b] = "bound" /\ pos[b] = 1 /\ idx[b] = 0
        /\ UNCHANGED <<pos, idx, page>> /\ end'[b] = startIndex
        /\ pc'[b] = (IF startIndex = 0 THEN "list" ELSE "regenerate")
    BY <1>3, <1>g, <1>k, <1>p
       DEF ReadBound, RebuildPc, PutBack, TypeInv, LoopsOK, LocalsOK
  <2>2. \A j \in Positions : ~(j < pos'[b])
    BY <2>1, SizesAssumption DEF Positions
  <2>3. \A i \in 0 .. idx'[b] - 1 : FALSE
    BY <2>1
  <2>4. PutBack(b)'
    BY <2>1, <2>2, <2>3, <1>k, <1>s DEF PutBack
  <2>5. startIndex = 0 => Generated = {}
    BY DEF Generated
  <2> QED BY <2>1, <2>4, <2>5, <1>c, <1>h, KeptInside DEF RebuildPc
<1>4. CASE Regenerate(b)
  <2>1. /\ pc[b] = "regenerate" /\ pos[b] \in Positions /\ end[b] = startIndex
        /\ UNCHANGED <<end, page>> /\ NextCode(b) /\ pool \subseteq pool'
        /\ CodeAt(idx[b], pos[b]) \in pool'
    BY <1>4, <1>k, <1>p DEF Regenerate, LocalsOK, PutBack
  <2>2. Accounted \subseteq Accounted' /\ CodeAt(idx[b], pos[b]) \in Accounted'
    BY <2>1, <1>h DEF Accounted
  <2>3. \A i \in 0 .. idx[b] - 1 : Batch(i) \subseteq Accounted'
    BY <2>1, <2>2, <1>k DEF PutBack
  <2>4. \A j \in Positions : j <= pos[b] => CodeAt(idx[b], j) \in Accounted'
    <3> SUFFICES ASSUME NEW j \in Positions, j <= pos[b]
                 PROVE  CodeAt(idx[b], j) \in Accounted'
      OBVIOUS
    <3>1. j < pos[b] \/ j = pos[b]
      BY <2>1, SizesAssumption DEF Positions
    <3> QED BY <2>1, <2>2, <3>1, <1>k DEF PutBack
  <2>5. idx[b] \in Nat /\ startIndex \in Nat
    BY <1>p, StepType DEF LocalsOK, StoresOK
  <2>6. CASE pos[b] < BatchSize
    <3>1. pc'[b] = "regenerate" /\ pos'[b] = pos[b] + 1 /\ idx'[b] = idx[b]
      BY <2>1, <2>6, <1>p DEF NextCode, LocalsOK
    <3>2. \A j \in Positions : j < pos'[b] => j <= pos[b]
      BY <2>1, <3>1, SizesAssumption DEF Positions
    <3>3. PutBack(b)'
      BY <2>1, <2>3, <2>4, <3>1, <3>2, <1>k, <1>s DEF PutBack
    <3> QED BY <2>1, <3>1, <3>3, <1>c, KeptInside DEF RebuildPc
  <2>7. CASE ~(pos[b] < BatchSize)
    <3>1. /\ pos'[b] = 1 /\ idx'[b] = idx[b] + 1
          /\ pc'[b] = (IF idx[b] + 1 < end[b] THEN "regenerate" ELSE "list")
      BY <2>1, <2>7, <1>p, <1>g DEF NextCode, LocalsOK, RebuildPc
    <3>2. \A j \in Positions : j <= pos[b]
      BY <2>1, <2>7, SizesAssumption DEF Positions
    <3>3. Batch(idx[b]) \subseteq Accounted'
      BY <2>4, <3>2 DEF Batch
    <3>4. \A i \in 0 .. idx[b] : Batch(i) \subseteq Accounted'
      <4>1. \A i \in 0 .. idx[b] : i \in 0 .. idx[b] - 1 \/ i = idx[b]
        BY <2>5
      <4> QED BY <2>3, <3>3, <4>1
    <3>5. \A i \in 0 .. idx'[b] - 1 : i \in 0 .. idx[b]
      BY <2>5, <3>1
    <3>6. \A j \in Positions : ~(j < pos'[b])
      BY <3>1, SizesAssumption DEF Positions
    <3>7. PutBack(b)'
      BY <2>1, <3>1, <3>4, <3>5, <3>6, <1>k, <1>s DEF PutBack
    <3>8. pc'[b] = "list" => Generated' \subseteq Accounted'
      <4>1. pc'[b] = "list" => \A i \in 0 .. startIndex - 1 : i \in 0 .. idx[b]
        BY <2>1, <2>5, <3>1
      <4> QED BY <3>4, <4>1, <1>h DEF Generated
    <3> QED BY <2>1, <3>1, <3>7, <3>8, <1>c, KeptInside DEF RebuildPc
  <2> QED BY <2>6, <2>7
<1>5. CASE ListPage(b)
  <2>1. pc[b] = "list" /\ pc'[b] \in {"unlock", "remove"} /\ UNCHANGED pool
    BY <1>5, <1>g DEF ListPage, TakePage, RebuildPc, stores
  <2>p. PageAfter(from[b]) \subseteq DOMAIN links
    BY DEF PageAfter, Later
  <2>u. UNCHANGED page \/ page' = [page EXCEPT ![b] = PageAfter(from[b])]
    BY <1>5 DEF ListPage, TakePage
  <2>q. page'[b] \subseteq DOMAIN links
    BY <2>p, <2>u, <1>k, <1>p DEF PutBack, LocalsOK
  <2>2. PutBack(b)'
    BY <2>1, <2>q, <1>s DEF PutBack
  <2>3. Generated' \subseteq Accounted'
    BY <2>1, <1>h, <1>r DEF Accounted
  <2> QED BY <2>1, <2>2, <2>3, <1>c, KeptInside DEF RebuildPc
<1>6. CASE RemoveUsed(b)
  <2>1. PICK id \in page[b] :
           /\ pool' = pool \ {links[id]}
           /\ page' = [page EXCEPT ![b] = page[b] \ {id}]
           /\ Goto(b, IF page[b] = {id} THEN "list" ELSE "remove")
    BY <1>6 DEF RemoveUsed
  <2>2. pc[b] = "remove" /\ pc'[b] \in {"list", "remove"} /\ page'[b] \subseteq page[b]
    BY <1>6, <2>1, <1>g, <1>p DEF RemoveUsed, RebuildPc, LocalsOK
  <2>3. PutBack(b)'
    BY <2>2, <1>k, <1>s DEF PutBack
  <2>4. links[id] \in Linked
    BY <1>k DEF PutBack, Linked
  <2>5. Generated' \subseteq Accounted'
    BY <2>1, <2>2, <2>4, <1>h, <1>r DEF Accounted
  <2> QED BY <2>2, <2>3, <2>5, <1>c, KeptInside DEF RebuildPc
<1>7. CASE Unlock(b)
  <2>1. /\ pc[b] = "unlock" /\ UNCHANGED pool /\ pc'[b] = "idle"
        /\ pos'[b] = 1 /\ page'[b] = {}
    BY <1>7, <1>g, <1>p DEF Unlock, Return, RebuildPc, LocalsOK
  <2>2. PutBack(b)'
    BY <2>1 DEF PutBack
  <2>3. Generated' \subseteq Accounted'
    BY <2>1, <1>h, <1>r DEF Accounted
  <2> QED BY <2>1, <2>2, <2>3, <1>c, KeptInside DEF RebuildPc
<1>8. ~RebuildFails(b)
  BY DEF RebuildFails
<1> QED BY <1>1, <1>2, <1>3, <1>4, <1>5, <1>6, <1>7, <1>8 DEF Rebuild

LEMMA KeptNext ==
  ASSUME ~LockMayLapse, Faulty \subseteq Refillers
  PROVE  TypeInv /\ LockInv /\ KeptInv /\ [Next]_vars => KeptInv'
<1> SUFFICES ASSUME TypeInv, LockInv, KeptInv, [Next]_vars PROVE KeptInv'
  OBVIOUS
<1>p. /\ \A c \in Creators : c \notin Faulty
      /\ \A b \in Rebuilders : b \notin Faulty
  BY ProcsAssumption DEF Workers
<1>1. ASSUME NEW c \in Creators, Create(c) \/ CrashCreator(c) PROVE KeptInv'
  BY <1>1, <1>p, KeptCreate DEF CrashCreator
<1>2. ASSUME NEW r \in Refillers, Refill(r) PROVE KeptInv'
  BY <1>2, KeptRefill
<1>3. ASSUME NEW b \in Rebuilders, Rebuild(b) PROVE KeptInv'
  BY <1>3, <1>p, KeptRebuild
<1>4. ASSUME NEW w \in Workers, CrashWorker(w) PROVE KeptInv'
  BY <1>4, KeptRefill DEF CrashWorker
<1>5. CASE LockLapse \/ UNCHANGED vars
  <2>1. UNCHANGED <<pool, links, code, pc, startIndex, idx, pos, end, page>>
    BY <1>5 DEF LockLapse, vars, stores, locals
  <2>2. Accounted' = Accounted
    BY <2>1 DEF Accounted, Held, Linked
  <2> QED BY <2>1, <2>2, KeptFrame
<1> QED BY <1>1, <1>2, <1>3, <1>4, <1>5 DEF Next

\* Rebuilds put back all they clear, and refills that fail or die drop no code for
\* good, whatever Creates run meanwhile: outside a rebuild's first loop each code
\* is in the pool, in the hands of a Create or stored.
THEOREM NothingLostHolds ==
  ASSUME ~LockMayLapse, Faulty \subseteq Refillers
  PROVE  Spec => []NothingLost
<1>1. Init => TypeInv /\ LockInv /\ KeptInv
  <2>1. Init => KeptInv
    BY DEF Init, KeptInv, InHand, PutBack, Generated, Procs, Workers
  <2> QED BY <2>1, TypeInit, LockInit
<1>2. TypeInv /\ LockInv /\ KeptInv /\ [Next]_vars => (TypeInv /\ LockInv /\ KeptInv)'
  BY TypeNext, LockNext, KeptNext
<1>3. KeptInv => NothingLost
  BY DEF KeptInv, NothingLost, Restoring, Accounted
<1> QED BY <1>1, <1>2, <1>3, PTL DEF Spec

=============================================================================
