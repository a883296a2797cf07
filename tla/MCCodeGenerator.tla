--------------------------- MODULE MCCodeGenerator ---------------------------
(***************************************************************************)
(* The generator of cores/gen.go driven the way its only two callers drive *)
(* it: with the start indexes 0, 1, 2, ... of one code length, until it    *)
(* reports that the length is exhausted.  Every length in 1..MaxLength and *)
(* every batch size up to MaxBatchSize that leaves a step of at least one  *)
(* is tried.                                                               *)
(***************************************************************************)
EXTENDS CodeGenerator

CONSTANTS MaxLength, MaxBatchSize

ASSUME BoundsAssumption == /\ MaxLength \in Nat \ {0}
                           /\ MaxBatchSize \in Nat \ {0}

VARIABLES gen,      \* the generator under test
          batches   \* the batches it has returned; batch i is batches[i + 1]

vars == <<gen, batches>>

startIndex == Len(batches)

Init == \E length \in 1 .. MaxLength :
        \E size \in 1 .. MaxBatchSize :
           /\ size <= MaxNumber(length)
           /\ gen = NewShortCodeGenerator(length, size)
           /\ batches = <<>>

Generate == /\ ~Exhausted(gen, startIndex)
            /\ batches' = Append(batches, BatchCodes(gen, startIndex))
            /\ UNCHANGED gen

Next == Generate

Spec == Init /\ [][Next]_vars

-----------------------------------------------------------------------------
NumbersOf(i) == {FromBase62(batches[i][j]) : j \in 1 .. gen.batchSize}

\* A code is a string of exactly the requested length that decodes to the
\* number it was made from (cores/util.go:29 pads, cores/util.go:60 decodes):
\* a shorter code would be stored and looked up under another length.
CodesRoundTrip ==
  \A i \in 1 .. Len(batches) : \A j \in 1 .. gen.batchSize :
     /\ Len(batches[i][j]) = gen.length
     /\ FromBase62(batches[i][j]) = BatchNumbers(gen, i - 1)[j]

\* No code exceeds "ZZ...Z", even in the last batch, whose largest number is
\* a whole batch of steps away from its first (cores/gen.go:41).
BatchesFit ==
  \A i \in 1 .. Len(batches) : \A n \in NumbersOf(i) : n <= MaxNumber(gen.length)

\* Two batches whose start indexes are below the step have no number in common,
\* and no batch holds a number twice (cores/gen.go:46).
BatchesDisjoint ==
  \A i, k \in 1 .. Len(batches) : i <= gen.step /\ k <= gen.step =>
     \A j, m \in 1 .. gen.batchSize :
        batches[i][j] = batches[k][m] => i = k /\ j = m

\* When start index step is reached, every number below batchSize * step has
\* been generated: the stride of cores/gen.go:48 leaves no hole behind.
NoHoles ==
  startIndex >= gen.step =>
     0 .. gen.batchSize * gen.step - 1 \subseteq
        UNION {NumbersOf(i) : i \in 1 .. Len(batches)}

\* doc/design.md:420 promises unique codes: no code is generated twice, up to
\* the batch at which cores/gen.go:41 stops.
CodesUnique ==
  \A i, k \in 1 .. Len(batches) : \A j, m \in 1 .. gen.batchSize :
     batches[i][j] = batches[k][m] => i = k /\ j = m

==============================================================================
