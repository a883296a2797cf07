--------------------------- MODULE PoolLockProofs ---------------------------
(***************************************************************************)
(* The lock of the pool is a Mutex for any number of workers, any length   *)
(* of the lock and any difference of the clocks: proved.                   *)
(***************************************************************************)
EXTENDS PoolLock, TLAPS

Key == [owner : Workers, ttl : 0 .. Term, ends : Int]

\* The key of the worker that is inside counts the time of its stay.
Counts(w) ==
  /\ key # NoKey /\ key.owner = w
  /\ inside[w] <= Limit /\ key.ttl = Term - inside[w]

\* No clock is as far ahead as a worker in time is from the end of its lock: a key
\* that was judged expired is not that of a worker in time.
LockInv ==
  /\ key = NoKey \/ (key \in Key /\ key.ends >= key.ttl)
  /\ at \in [Workers -> {"out", "set", "get", "delete", "in"}]
  /\ inside \in [Workers -> Nat]
  /\ judged # {} => key # NoKey /\ key.ttl < MaxSkew
  /\ reliable \in BOOLEAN
  /\ reliable => \A w \in Workers : Inside(w) => Counts(w)

\* A key has an owner, NoKey has none.
LEMMA KeyIsKey == \A k \in Key : k # NoKey
BY LockAssumption DEF Key, NoKey

LEMMA LockInvInit == Init => LockInv
BY LockAssumption DEF Init, LockInv, Inside

\* While a worker is inside in time, no key has been judged, or could expire.
LEMMA InsideInTime ==
  ASSUME LockInv, reliable, NEW w \in Workers, Inside(w)
  PROVE  /\ key \in Key /\ key.owner = w /\ key.ttl >= MaxSkew /\ key.ttl > 0
         /\ judged = {}
BY LockAssumption DEF LockInv, Counts, Limit, Key

\* Steps of a worker that changes nothing but its own place, outside.
LEMMA GotoKeeps ==
  ASSUME LockInv, NEW w \in Workers, NEW where \in {"out", "set", "get", "delete"},
         Goto(w, where), UNCHANGED <<key, inside, reliable>>,
         judged' \subseteq judged \/ (key # NoKey /\ key.ttl < MaxSkew)
  PROVE  LockInv'
BY DEF LockInv, Goto, Inside, Counts

LEMMA SetNXKeeps == ASSUME LockInv, NEW w \in Workers, SetNX(w) PROVE LockInv'
<1>1. PICK skew \in 0 .. MaxSkew :
        key' = [owner |-> w, ttl |-> Term, ends |-> Term + skew]
  BY DEF SetNX, KeyTtl
<1>2. key' \in Key /\ key'.ends >= key'.ttl /\ key' # NoKey
  BY <1>1, KeyIsKey, LockAssumption DEF Key
<1>3. /\ key = NoKey /\ Goto(w, "in") /\ inside' = [inside EXCEPT ![w] = 0]
      /\ judged' = {} /\ UNCHANGED reliable
  BY DEF SetNX
<1>4. reliable => \A v \in Workers : ~Inside(v)
  BY <1>3 DEF LockInv, Counts
<1>5. ASSUME reliable, NEW v \in Workers, Inside(v)' PROVE Counts(v)'
  <2>1. v = w
    BY <1>3, <1>4, <1>5 DEF Goto, Inside, LockInv
  <2>2. inside'[w] = 0
    BY <1>3 DEF LockInv
  <2> QED BY <1>1, <1>2, <2>1, <2>2, LockAssumption DEF Counts, Limit
<1> QED BY <1>2, <1>3, <1>5 DEF LockInv, Goto

LEMMA GetKeeps == ASSUME LockInv, NEW w \in Workers, Get(w) PROVE LockInv'
<1>1. UNCHANGED <<key, inside, reliable>>
  BY DEF Get
<1>2. CASE key = NoKey /\ Goto(w, "set") /\ UNCHANGED judged
  BY <1>1, <1>2, GotoKeeps
<1>3. CASE key # NoKey
  <2>1. PICK skew \in 0 .. MaxSkew :
          IF skew > key.ends
          THEN Goto(w, "delete") /\ judged' = judged \cup {w}
          ELSE Goto(w, "out") /\ UNCHANGED judged
    BY <1>3 DEF Get
  <2>2. CASE skew > key.ends
    <3>1. key.ttl < MaxSkew
      BY <1>3, <2>2, LockAssumption DEF LockInv, Key
    <3> QED BY <1>1, <1>3, <2>1, <2>2, <3>1, GotoKeeps
  <2>3. CASE ~(skew > key.ends)
    BY <1>1, <2>1, <2>3, GotoKeeps
  <2> QED BY <2>2, <2>3
<1> QED BY <1>2, <1>3 DEF Get

\* Whoever removes the key leaves nobody inside, or the lock is not reliable.
LEMMA RemovalKeeps ==
  ASSUME LockInv, key' = NoKey, judged' = {}, reliable' \in BOOLEAN,
         at' \in [Workers -> {"out", "set", "get", "delete", "in"}],
         inside' \in [Workers -> Nat],
         reliable' => \A v \in Workers : ~Inside(v)'
  PROVE  LockInv'
BY DEF LockInv

LEMMA DeleteKeeps == ASSUME LockInv, NEW w \in Workers, Delete(w) PROVE LockInv'
<1>1. /\ Goto(w, "set") /\ key' = NoKey /\ judged' = {} /\ UNCHANGED inside
      /\ reliable' = (reliable /\ (w \in judged \/ key = NoKey))
  BY DEF Delete
<1>2. reliable' => \A v \in Workers : ~Inside(v)
  BY <1>1, InsideInTime, KeyIsKey
<1>3. reliable' => \A v \in Workers : ~Inside(v)'
  BY <1>1, <1>2 DEF Goto, Inside, LockInv
<1> QED BY <1>1, <1>3, RemovalKeeps DEF LockInv, Goto

LEMMA UnlockKeeps == ASSUME LockInv, NEW w \in Workers, Unlock(w) PROVE LockInv'
<1>1. /\ at[w] = "in" /\ Goto(w, "out") /\ key' = NoKey /\ judged' = {}
      /\ inside' = [inside EXCEPT ![w] = 0] /\ UNCHANGED reliable
  BY DEF Unlock
<1>2. reliable => \A v \in Workers : Inside(v) => v = w
  BY <1>1 DEF LockInv, Counts, Inside
<1>3. reliable' => \A v \in Workers : ~Inside(v)'
  BY <1>1, <1>2 DEF Goto, Inside, LockInv
<1> QED BY <1>1, <1>3, RemovalKeeps DEF LockInv, Goto

LEMMA FailKeeps == ASSUME LockInv, NEW w \in Workers, Fail(w) PROVE LockInv'
<1>1. /\ Goto(w, "out") /\ judged' \subseteq judged
      /\ inside' = [inside EXCEPT ![w] = 0] /\ UNCHANGED <<key, reliable>>
  BY DEF Fail
<1>2. \A v \in Workers : Inside(v)' => Inside(v) /\ v # w /\ inside'[v] = inside[v]
  BY <1>1 DEF Goto, Inside, LockInv
<1>3. reliable => \A v \in Workers : Inside(v)' => Counts(v)'
  BY <1>1, <1>2 DEF LockInv, Counts
<1> QED BY <1>1, <1>3 DEF LockInv, Goto

LEMMA ExpireKeeps == ASSUME LockInv, Expire PROVE LockInv'
<1>1. /\ key.ttl = 0 /\ key' = NoKey /\ judged' = {}
      /\ UNCHANGED <<at, inside, reliable>>
  BY DEF Expire
<1>2. reliable' => \A v \in Workers : ~Inside(v)'
  BY <1>1, InsideInTime DEF Inside
<1> QED BY <1>1, <1>2, RemovalKeeps DEF LockInv

LEMMA TickKeeps == ASSUME LockInv, Tick PROVE LockInv'
<1>1. /\ key # NoKey /\ key.ttl > 0
      /\ key' = [key EXCEPT !.ttl = @ - 1, !.ends = @ - 1]
      /\ inside' = [w \in Workers |->
                      IF Inside(w) /\ inside[w] <= Limit THEN inside[w] + 1 ELSE inside[w]]
      /\ reliable' = (reliable /\ \A w \in Workers : Inside(w) => inside[w] < Limit)
      /\ UNCHANGED <<at, judged>>
  BY DEF Tick
<1>2. /\ key' \in Key /\ key'.ends >= key'.ttl /\ key'.owner = key.owner
      /\ key'.ttl = key.ttl - 1
  <2>1. key \in Key /\ key.ends >= key.ttl
    BY <1>1 DEF LockInv
  <2>2. key' = [owner |-> key.owner, ttl |-> key.ttl - 1, ends |-> key.ends - 1]
    BY <1>1, <2>1 DEF Key
  <2>3. /\ key.owner \in Workers /\ key.ttl \in 0 .. Term /\ key.ends \in Int
    BY <2>1 DEF Key
  <2>4. key.ttl - 1 \in 0 .. Term /\ key.ends - 1 \in Int
    BY <1>1, <2>3, LockAssumption
  <2>5. key' \in Key
    BY <2>2, <2>3, <2>4 DEF Key
  <2> QED BY <2>1, <2>2, <2>3, <2>5
<1>3. key' # NoKey
  BY <1>2, KeyIsKey
<1>4. inside' \in [Workers -> Nat]
  BY <1>1 DEF LockInv
<1>5. judged' # {} => key'.ttl < MaxSkew
  <2>1. key.ttl \in Int /\ UNCHANGED judged
    BY <1>1 DEF LockInv, Key
  <2> QED BY <1>2, <2>1, LockAssumption DEF LockInv
<1>6. ASSUME reliable', NEW w \in Workers, Inside(w)' PROVE Counts(w)'
  <2>0. Inside(w) /\ reliable /\ inside[w] < Limit
    BY <1>1, <1>6 DEF Inside
  <2>1. inside'[w] = inside[w] + 1
    BY <1>1, <2>0, LockAssumption DEF LockInv, Limit
  <2>2. key.owner = w /\ key.ttl = Term - inside[w] /\ inside[w] \in Nat
    BY <2>0 DEF LockInv, Counts
  <2> QED BY <1>2, <1>3, <2>0, <2>1, <2>2, LockAssumption DEF Counts, Limit
<1> QED BY <1>1, <1>2, <1>3, <1>4, <1>5, <1>6 DEF LockInv

LEMMA LockInvNext == LockInv /\ [Next]_vars => LockInv'
<1> SUFFICES ASSUME LockInv, [Next]_vars PROVE LockInv'
  OBVIOUS
<1>1. ASSUME NEW w \in Workers, Lock(w) \/ SetNXFails(w) PROVE LockInv'
  BY <1>1, GotoKeeps DEF Lock, SetNXFails
<1>2. ASSUME NEW w \in Workers, SetNX(w) \/ Get(w) \/ Delete(w) \/ Unlock(w) \/ Fail(w)
      PROVE LockInv'
  BY <1>2, SetNXKeeps, GetKeeps, DeleteKeeps, UnlockKeeps, FailKeeps
<1>3. CASE Expire \/ Tick
  BY <1>3, ExpireKeeps, TickKeeps
<1>4. CASE UNCHANGED vars
  BY <1>4 DEF vars, LockInv, Inside, Counts
<1> QED BY <1>1, <1>2, <1>3, <1>4 DEF Next

THEOREM LockInvariant == Spec => []LockInv
BY LockInvInit, LockInvNext, PTL DEF Spec

\* The key of the worker that is inside stays its own until it leaves, whatever the
\* clocks of the others say, while nobody stays too long and no Lock deletes a key it
\* has not read (ext/redisx/pool.go:170).
THEOREM KeepsItsKeyHolds == Spec => []KeepsItsKey
<1>1. LockInv => KeepsItsKey
  BY InsideInTime, KeyIsKey DEF KeepsItsKey
<1> QED BY <1>1, LockInvariant, PTL

-----------------------------------------------------------------------------
(* Types. *)

\* A worker goes somewhere, and the key is the one it was.
LEMMA GotoTypes ==
  ASSUME TypeOK, NEW w \in Workers, NEW where \in {"out", "set", "get", "delete"},
         Goto(w, where), UNCHANGED <<key, reliable>>,
         inside' \in [Workers -> 0 .. Limit + 1],
         judged' \subseteq judged \/ (judged' \subseteq judged \cup {w} /\ key # NoKey),
         w \in judged' => where = "delete"
  PROVE  TypeOK'
<1>1. at' \in [Workers -> {"out", "set", "get", "delete", "in"}]
  BY DEF TypeOK, Goto
<1>2. judged' \subseteq {v \in Workers : at'[v] = "delete"}
  BY DEF TypeOK, Goto
<1> QED BY <1>1, <1>2 DEF TypeOK

\* The key goes, and with it what was judged of it.
LEMMA NoKeyTypes ==
  ASSUME TypeOK, key' = NoKey, judged' = {}, reliable' \in BOOLEAN,
         at' \in [Workers -> {"out", "set", "get", "delete", "in"}],
         inside' \in [Workers -> 0 .. Limit + 1]
  PROVE  TypeOK'
BY DEF TypeOK

\* A stay starts again at 0.
LEMMA StayTypes ==
  ASSUME TypeOK, NEW w \in Workers, inside' = [inside EXCEPT ![w] = 0]
  PROVE  inside' \in [Workers -> 0 .. Limit + 1]
BY LockAssumption DEF TypeOK, Limit

LEMMA SetNXTypes == ASSUME TypeOK, NEW w \in Workers, SetNX(w) PROVE TypeOK'
<1>1. PICK skew \in 0 .. MaxSkew :
        key' = [owner |-> w, ttl |-> Term, ends |-> Term + skew]
  BY DEF SetNX, KeyTtl
<1>2. Term \in 0 .. Term /\ Term + skew \in 0 .. Term + MaxSkew
      /\ Term + skew \in Term .. Term + MaxSkew
  BY LockAssumption
<1>3. /\ key' \in [owner : Workers, ttl : 0 .. Term, ends : 0 .. Term + MaxSkew]
      /\ key'.ends \in key'.ttl .. key'.ttl + MaxSkew
  BY <1>1, <1>2
<1>4. at' \in [Workers -> {"out", "set", "get", "delete", "in"}]
  BY DEF SetNX, Goto, TypeOK
<1>5. inside' \in [Workers -> 0 .. Limit + 1] /\ judged' = {} /\ reliable' \in BOOLEAN
  BY StayTypes DEF SetNX, TypeOK
<1> QED BY <1>3, <1>4, <1>5 DEF TypeOK

LEMMA TickTypes == ASSUME TypeOK, Tick PROVE TypeOK'
<1>1. /\ key # NoKey /\ key.ttl > 0
      /\ key' = [key EXCEPT !.ttl = @ - 1, !.ends = @ - 1]
      /\ inside' = [w \in Workers |->
                      IF Inside(w) /\ inside[w] <= Limit THEN inside[w] + 1 ELSE inside[w]]
      /\ reliable' \in BOOLEAN /\ UNCHANGED <<at, judged>>
  BY DEF Tick, TypeOK
<1>2. /\ key \in [owner : Workers, ttl : 0 .. Term, ends : 0 .. Term + MaxSkew]
      /\ key.ends \in key.ttl .. key.ttl + MaxSkew
  BY <1>1 DEF TypeOK
<1>3. key' = [owner |-> key.owner, ttl |-> key.ttl - 1, ends |-> key.ends - 1]
  BY <1>1, <1>2
<1>4. /\ key.owner \in Workers /\ key.ttl \in 0 .. Term /\ key.ends \in 0 .. Term + MaxSkew
  BY <1>2
<1>5. /\ key.ttl - 1 \in 0 .. Term /\ key.ends - 1 \in 0 .. Term + MaxSkew
      /\ key.ends - 1 \in key.ttl - 1 .. key.ttl - 1 + MaxSkew
  BY <1>1, <1>2, <1>4, LockAssumption
<1>6. /\ key' \in [owner : Workers, ttl : 0 .. Term, ends : 0 .. Term + MaxSkew]
      /\ key'.ends \in key'.ttl .. key'.ttl + MaxSkew
  BY <1>3, <1>4, <1>5
<1>7. key' # NoKey
  BY <1>3, <1>4, LockAssumption DEF NoKey
<1>8. inside' \in [Workers -> 0 .. Limit + 1]
  BY <1>1, LockAssumption DEF TypeOK, Limit
<1> QED BY <1>1, <1>6, <1>7, <1>8 DEF TypeOK

LEMMA TypesNext == TypeOK /\ [Next]_vars => TypeOK'
<1> SUFFICES ASSUME TypeOK, [Next]_vars PROVE TypeOK'
  OBVIOUS
<1>0. inside \in [Workers -> 0 .. Limit + 1] /\ \A w \in judged : at[w] = "delete"
  BY DEF TypeOK
<1>1. ASSUME NEW w \in Workers, Lock(w) \/ SetNXFails(w) PROVE TypeOK'
  <2>1. w \notin judged
    BY <1>0, <1>1 DEF Lock, SetNXFails
  <2> QED BY <1>0, <1>1, <2>1, GotoTypes DEF Lock, SetNXFails
<1>2. ASSUME NEW w \in Workers, Get(w) PROVE TypeOK'
  <2>1. w \notin judged
    BY <1>0, <1>2 DEF Get
  <2>2. PICK where \in {"set", "out", "delete"} :
          /\ Goto(w, where)
          /\ judged' = judged \/ (judged' = judged \cup {w} /\ key # NoKey /\ where = "delete")
    BY <1>2 DEF Get
  <2> QED BY <1>0, <1>2, <2>1, <2>2, GotoTypes DEF Get
<1>3. ASSUME NEW w \in Workers, Fail(w) PROVE TypeOK'
  BY <1>3, GotoTypes, StayTypes DEF Fail
<1>4. ASSUME NEW w \in Workers, Delete(w) \/ Unlock(w) PROVE TypeOK'
  <2>1. at' \in [Workers -> {"out", "set", "get", "delete", "in"}]
    BY <1>4 DEF Delete, Unlock, Goto, TypeOK
  <2>2. inside' \in [Workers -> 0 .. Limit + 1]
    BY <1>0, <1>4, StayTypes DEF Delete, Unlock
  <2>3. reliable' \in BOOLEAN /\ key' = NoKey /\ judged' = {}
    BY <1>4 DEF Delete, Unlock, TypeOK
  <2> QED BY <2>1, <2>2, <2>3, NoKeyTypes
<1>5. CASE Expire
  BY <1>5, NoKeyTypes DEF Expire, TypeOK
<1>6. CASE UNCHANGED vars
  BY <1>6 DEF vars, TypeOK
<1> QED BY <1>1, <1>2, <1>3, <1>4, <1>5, <1>6, SetNXTypes, TickTypes DEF Next

\* The end a key is stamped with is at most MaxSkew behind the time Redis drops it,
\* and only workers that go on to delete have judged, and only a key that is there:
\* for any workers, term and clocks (ext/redisx/pool.go:136).
THEOREM TypesHold == Spec => []TypeOK
<1>1. Init => TypeOK
  BY LockAssumption DEF Init, TypeOK, Limit
<1> QED BY <1>1, TypesNext, PTL DEF Spec

-----------------------------------------------------------------------------
(* The refinement. *)

InsideSet == {w \in Workers : Inside(w)}

\* A worker that stays outside, or goes there, is a Mutex step, or none.
LEMMA StepOutside ==
  ASSUME LockInv, NEW w \in Workers, NEW where \in {"out", "set", "get", "delete"},
         Goto(w, where)
  PROVE  InsideSet' = InsideSet \ {w}
BY DEF LockInv, Goto, Inside, InsideSet

LEMMA StepIn ==
  ASSUME LockInv, NEW w \in Workers, Goto(w, "in")
  PROVE  InsideSet' = InsideSet \cup {w}
BY DEF LockInv, Goto, Inside, InsideSet

\* Every step of the lock is a step of the Mutex.
LEMMA LockStep == LockInv /\ [Next]_vars => [M!Next]_M!vars
<1> SUFFICES ASSUME LockInv, [Next]_vars PROVE [M!Next]_M!vars
  OBVIOUS
<1>0. M!vars = <<InsideSet, reliable>> /\ M!vars' = <<InsideSet', reliable'>>
  BY DEF M!vars, InsideSet
<1>a. InsideSet' \subseteq Workers
  BY DEF InsideSet
<1>b. ASSUME reliable' = reliable, NEW w \in Workers, InsideSet' = InsideSet \ {w}
      PROVE  [M!Next]_M!vars
  <2>1. CASE w \in InsideSet
    BY <1>b, <2>1 DEF M!Next, M!Leave, InsideSet
  <2>2. CASE w \notin InsideSet
    BY <1>0, <1>b, <2>2
  <2> QED BY <2>1, <2>2
<1>c. ASSUME InsideSet' = InsideSet, reliable' => reliable, reliable' \in BOOLEAN
      PROVE  [M!Next]_M!vars
  BY <1>0, <1>c DEF M!Next, M!Fail, InsideSet, LockInv
<1>1. ASSUME NEW w \in Workers,
             Lock(w) \/ SetNXFails(w) \/ Get(w) \/ Unlock(w) \/ Fail(w)
      PROVE  [M!Next]_M!vars
  <2>1. reliable' = reliable
    BY <1>1 DEF Lock, SetNXFails, Get, Unlock, Fail
  <2>2. \E where \in {"out", "set", "get", "delete"} : Goto(w, where)
    BY <1>1 DEF Lock, SetNXFails, Get, Unlock, Fail
  <2> QED BY <1>b, <2>1, <2>2, StepOutside
<1>2. ASSUME NEW w \in Workers, SetNX(w) PROVE [M!Next]_M!vars
  <2>1. InsideSet' = InsideSet \cup {w} /\ reliable' = reliable /\ key = NoKey
    BY <1>2, StepIn DEF SetNX
  <2>2. CASE reliable
    <3>1. InsideSet = {}
      BY <2>1, <2>2 DEF LockInv, Counts, InsideSet
    <3> QED BY <2>1, <2>2, <3>1 DEF M!Next, M!Enter, InsideSet
  <2>3. CASE ~reliable
    BY <1>a, <2>1, <2>3 DEF M!Next, M!Unreliable, InsideSet
  <2> QED BY <2>2, <2>3
<1>3. ASSUME NEW w \in Workers, Delete(w) PROVE [M!Next]_M!vars
  <2>1. at[w] = "delete" /\ Goto(w, "set")
        /\ reliable' = (reliable /\ (w \in judged \/ key = NoKey))
    BY <1>3 DEF Delete
  <2>2. InsideSet' = InsideSet
    BY <2>1, StepOutside DEF InsideSet, Inside
  <2> QED BY <1>c, <2>1, <2>2 DEF LockInv
<1>4. CASE Expire \/ Tick \/ UNCHANGED vars
  <2>1. InsideSet' = InsideSet
    BY <1>4 DEF Expire, Tick, vars, InsideSet, Inside
  <2>2. reliable' => reliable
    BY <1>4, Zenon DEF Expire, Tick, vars
  <2>3. reliable' \in BOOLEAN
    BY <1>4, LockInvNext DEF LockInv
  <2> QED BY <1>c, <2>1, <2>2, <2>3
<1> QED BY <1>1, <1>2, <1>3, <1>4 DEF Next

\* Lock and Unlock implement the Mutex: for any workers, term and clocks, one worker
\* at a time fills the pool (cores/service.go:448) until one stays too long or a Lock
\* deletes a key it has not read.
THEOREM LockImplementsMutex == Spec => ImplementsMutex
<1>1. Init => M!Init
  BY DEF Init, M!Init, Inside
<1> QED BY <1>1, LockInvariant, LockStep, PTL DEF Spec, ImplementsMutex, M!Spec

=============================================================================
