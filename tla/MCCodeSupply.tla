---------------------------- MODULE MCCodeSupply ----------------------------
(***************************************************************************)
(* Small instances of CodeSupply for TLC.  With Base = 5, CodeLength = 1   *)
(* and BatchSize = 2 the step is 2: the batches are {0, 2}, {1, 3} and the *)
(* one at start index 2, {2, 4}, so two good batches, the batch that       *)
(* repeats a code and exhaustion all happen.                               *)
(***************************************************************************)
EXTENDS CodeSupply, TLC

\* Goroutines of one kind are interchangeable (safety runs only).
Symmetry == Permutations(Creators) \cup Permutations(Refillers)
              \cup Permutations(Rebuilders)

=============================================================================
