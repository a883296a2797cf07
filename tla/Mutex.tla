-------------------------------- MODULE Mutex --------------------------------
(***************************************************************************)
(* What the lock of a code pool promises to those that fill it, by refill  *)
(* or rebuild: one of them at a time is inside, for as long as the lock    *)
(* can be relied on.  Once it is not reliable any more it promises nothing.*)
(***************************************************************************)
CONSTANT Workers

VARIABLES
  inside,    \* the workers that fill the pool under the lock
  reliable   \* the lock still keeps others out

vars == <<inside, reliable>>

Init == inside = {} /\ reliable = TRUE

\* A worker that finds nobody inside enters.
Enter(w) == reliable /\ inside = {} /\ inside' = {w} /\ UNCHANGED reliable

\* A worker unlocks, or dies.
Leave(w) == w \in inside /\ inside' = inside \ {w} /\ UNCHANGED reliable

Fail == reliable /\ reliable' = FALSE /\ UNCHANGED inside

Unreliable == ~reliable /\ ~reliable' /\ inside' \subseteq Workers

Next == (\E w \in Workers : Enter(w) \/ Leave(w)) \/ Fail \/ Unreliable

Spec == Init /\ [][Next]_vars

=============================================================================
