------------------------------ MODULE PoolLock ------------------------------
(***************************************************************************)
(* The lock of the Redis code pool (ext/redisx/pool.go Lock, Unlock): a    *)
(* key that is set if it does not exist, expires by itself, and holds the  *)
(* time of its end on the clock of the server that set it, so that another *)
(* server may delete it when Redis has not.                                *)
(*                                                                         *)
(* A worker is a goroutine in batchGenerate or RebuildCodePool             *)
(* (cores/service.go); one step is one call on Redis.  Times are what is   *)
(* left until now, in ticks.  Reading a clock gives a time up to MaxSkew   *)
(* late or early: servers disagree, a SETNX arrives after the end of the   *)
(* lock was computed, and both ends are cut to seconds.                    *)
(***************************************************************************)
EXTENDS Integers

CONSTANTS
  Workers,
  Term,      \* how long a lock lasts
  MaxSkew,   \* by how much two readings of the time may differ
  Overtime   \* a worker may stay inside until its lock is as good as over

ASSUME LockAssumption ==
  /\ MaxSkew \in Nat \ {0} /\ Term \in Nat /\ Term > MaxSkew
  /\ "none" \notin Workers /\ Overtime \in BOOLEAN

VARIABLES
  key,       \* the lock: its owner, Redis' time to live, the end it is stamped with
  at,        \* each worker's next call
  inside,    \* for how long each worker has had its lock
  judged,    \* history: the workers that will delete the very key they have read
  reliable   \* history: nobody stayed too long, nobody deleted another key

vars == <<key, at, inside, judged, reliable>>

NoKey == [owner |-> "none", ttl |-> 0, ends |-> 0]

\* The longest stay during which no clock calls the lock expired.
Limit == Term - MaxSkew

Init ==
  /\ key = NoKey
  /\ at = [w \in Workers |-> "out"] /\ inside = [w \in Workers |-> 0]
  /\ judged = {} /\ reliable = TRUE

Goto(w, where) == at' = [at EXCEPT ![w] = where]

-----------------------------------------------------------------------------
\* A refill or a rebuild is asked for.
Lock(w) ==
  /\ at[w] = "out" /\ Goto(w, "set")
  /\ UNCHANGED <<key, inside, judged, reliable>>

\* A variant of KeyTtl: the key is set without an expiry.
KeyNoTtl == -1

\* The time to live SETNX gives the key.
KeyTtl == Term

\* A variant of SetNX that overwrites the key, as SET does.
SetAnyway(w) ==
  /\ at[w] = "set"
  /\ \E skew \in 0 .. MaxSkew :
        key' = [owner |-> w, ttl |-> KeyTtl, ends |-> Term + skew]
  /\ Goto(w, "in") /\ inside' = [inside EXCEPT ![w] = 0]
  /\ judged' = {}
  /\ UNCHANGED reliable

\* SETNX finds no key: the worker has the lock.
SetNX(w) ==
  /\ at[w] = "set" /\ key = NoKey
  /\ \E skew \in 0 .. MaxSkew :
        key' = [owner |-> w, ttl |-> KeyTtl, ends |-> Term + skew]
  /\ Goto(w, "in") /\ inside' = [inside EXCEPT ![w] = 0]
  /\ judged' = {}
  /\ UNCHANGED reliable

\* SETNX finds a key.
SetNXFails(w) ==
  /\ at[w] = "set" /\ key # NoKey /\ Goto(w, "get")
  /\ UNCHANGED <<key, inside, judged, reliable>>

\* A variant of Get that calls a lock expired when it ends now.
GetEndsNow(w) ==
  /\ at[w] = "get"
  /\ \/ key = NoKey /\ Goto(w, "set") /\ UNCHANGED judged
     \/ /\ key # NoKey
        /\ \E skew \in 0 .. MaxSkew :
              IF skew >= key.ends
              THEN Goto(w, "delete") /\ judged' = judged \cup {w}
              ELSE Goto(w, "out") /\ UNCHANGED judged
  /\ UNCHANGED <<key, inside, reliable>>

\* GET, and the comparison with the clock: no key, try again; an end that is past,
\* delete it; otherwise ErrPoolLocked.
Get(w) ==
  /\ at[w] = "get"
  /\ \/ key = NoKey /\ Goto(w, "set") /\ UNCHANGED judged
     \/ /\ key # NoKey
        /\ \E skew \in 0 .. MaxSkew :
              IF skew > key.ends
              THEN Goto(w, "delete") /\ judged' = judged \cup {w}
              ELSE Goto(w, "out") /\ UNCHANGED judged
  /\ UNCHANGED <<key, inside, reliable>>

\* DEL of whatever key there is now, and the lock is tried again.
Delete(w) ==
  /\ at[w] = "delete" /\ Goto(w, "set")
  /\ key' = NoKey /\ judged' = {}
  /\ reliable' = (reliable /\ (w \in judged \/ key = NoKey))
  /\ UNCHANGED inside

\* The refill is over: DEL of whatever key there is now.
Unlock(w) ==
  /\ at[w] = "in" /\ Goto(w, "out")
  /\ key' = NoKey /\ judged' = {}
  /\ inside' = [inside EXCEPT ![w] = 0]
  /\ UNCHANGED reliable

\* The worker's process dies, or a call fails before it has the lock.
Fail(w) ==
  /\ at[w] # "out" /\ Goto(w, "out")
  /\ judged' = judged \ {w} /\ inside' = [inside EXCEPT ![w] = 0]
  /\ UNCHANGED <<key, reliable>>

\* Redis drops the key when its time is over.
Expire ==
  /\ key # NoKey /\ key.ttl = 0
  /\ key' = NoKey /\ judged' = {}
  /\ UNCHANGED <<at, inside, reliable>>

Inside(w) == at[w] = "in"

\* Time goes by.  A stay is counted until it is too long.
Tick ==
  /\ key # NoKey /\ key.ttl > 0
  /\ Overtime \/ \A w \in Workers : Inside(w) => inside[w] < Limit
  /\ key' = [key EXCEPT !.ttl = @ - 1, !.ends = @ - 1]
  /\ inside' = [w \in Workers |->
                  IF Inside(w) /\ inside[w] <= Limit THEN inside[w] + 1 ELSE inside[w]]
  /\ reliable' = (reliable /\ \A w \in Workers : Inside(w) => inside[w] < Limit)
  /\ UNCHANGED <<at, judged>>

Next ==
  \/ \E w \in Workers :
        \/ Lock(w) \/ SetNX(w) \/ SetNXFails(w) \/ Get(w) \/ Delete(w)
        \/ Unlock(w) \/ Fail(w)
  \/ Expire \/ Tick

Spec == Init /\ [][Next]_vars

-----------------------------------------------------------------------------
(* What the lock guarantees. *)

\* The key's end is not before Redis drops it, and not far behind; only workers that
\* go on to delete have judged, and only an existing key.
TypeOK ==
  /\ key = NoKey \/ /\ key \in [owner : Workers, ttl : 0 .. Term, ends : 0 .. Term + MaxSkew]
                    /\ key.ends \in key.ttl .. key.ttl + MaxSkew
  /\ at \in [Workers -> {"out", "set", "get", "delete", "in"}]
  /\ inside \in [Workers -> 0 .. Limit + 1]
  /\ judged \subseteq {w \in Workers : at[w] = "delete"}
  /\ judged # {} => key # NoKey
  /\ reliable \in BOOLEAN

\* While the lock is reliable, the key in Redis is the key of the worker that is
\* inside, and it lasts: neither Redis nor a server whose clock runs ahead takes it
\* away before the worker has stayed too long (ext/redisx/pool.go:170).
KeepsItsKey ==
  reliable => \A w \in Workers : Inside(w) =>
     key # NoKey /\ key.owner = w /\ key.ttl >= MaxSkew /\ judged = {}

\* At most one worker fills the pool (cores/service.go:448).
Exclusive == \A v, w \in Workers : Inside(v) /\ Inside(w) => v = w

\* The lock is the Mutex of its workers for as long as no worker stays longer than
\* its Limit and no Lock deletes a key it has not read: clocks that differ, workers
\* that die and keys that expire do it no harm.
M == INSTANCE Mutex WITH inside <- {w \in Workers : Inside(w)}

ImplementsMutex == M!Spec

-----------------------------------------------------------------------------
(* Liveness.  Redis expires keys and time goes by; no worker has to return.   *)

FairSpec == Spec /\ WF_vars(Expire) /\ WF_vars(Tick)

\* No lock stays for ever, also if its worker died: refills go on
\* (ext/redisx/pool.go:136).
KeyGoes == key # NoKey ~> key = NoKey

=============================================================================
