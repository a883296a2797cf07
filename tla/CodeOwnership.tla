---------------------------- MODULE CodeOwnership ----------------------------
(***************************************************************************)
(* What becomes of a code of the generator, whatever stores it lies in: it *)
(* is offered by the pool, taken by one Create, which stores it with one   *)
(* row, which keeps it until it is removed or gives it back to the pool.   *)
(* Nothing else ever makes it somebody's, and nobody's code alone is       *)
(* offered.  The supply of codes, the life of links and the backends in    *)
(* memory each keep to this, as far as they see of it.                     *)
(***************************************************************************)
CONSTANT Codes

VARIABLES
  free,      \* the codes a Create may take
  holders,   \* for each code, the running Creates that have taken it
  keepers,   \* for each code, the rows that keep it
  promised   \* the codes are still all different

vars == <<free, holders, keepers, promised>>

Init ==
  /\ free \subseteq Codes /\ promised \in BOOLEAN
  /\ holders = [k \in Codes |-> {}] /\ keepers = [k \in Codes |-> {}]

Owned(k) == holders[k] # {} \/ keepers[k] # {}

IsOne(S) == \E x \in S : S = {x}

\* A refill or a rebuild puts it into the pool, or a rebuild takes it out.
Offer(k) == ~Owned(k) /\ ~Owned(k)'

\* A Create takes it from the pool.
Take(k) ==
  /\ k \in free /\ ~Owned(k) /\ k \notin free' /\ keepers'[k] = {}
  /\ IsOne(holders'[k])

\* The Create that has it stores it with a new row.
Store(k) ==
  /\ IsOne(holders[k])
  /\ IsOne(keepers'[k])
  /\ keepers[k] = {} /\ holders'[k] = {} /\ k \notin free'

\* The Create fails, or the link is removed.
Drop(k) == Owned(k) /\ ~Owned(k)' /\ k \notin free'

\* The row that keeps it is recycled.
GiveBack(k) ==
  /\ IsOne(keepers[k])
  /\ holders[k] = {} /\ ~Owned(k)' /\ k \in free'

Stay(k) ==
  /\ holders'[k] = holders[k] /\ keepers'[k] = keepers[k]
  /\ k \in free' <=> k \in free

Move(k) == Offer(k) \/ Stay(k) \/ Take(k) \/ Store(k) \/ Drop(k) \/ GiveBack(k)

\* Every code goes its own way, and the promise ends for all at once.
Next ==
  \/ promised /\ promised' /\ \A k \in Codes : Move(k)
  \/ ~promised'

Spec == Init /\ [][Next]_vars

=============================================================================
