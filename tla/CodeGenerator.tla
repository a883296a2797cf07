---------------------------- MODULE CodeGenerator ----------------------------
(***************************************************************************)
(* The short-code generator (cores/gen.go) and the base-62 conversion it   *)
(* feeds (cores/util.go).  A code is the sequence of its digits, most      *)
(* significant first; digit d stands for the character base62Chars[d], so  *)
(* the empty string is <<>>.  Base is 62 in the program: it is a constant  *)
(* here so that small instances are possible.                              *)
(*                                                                         *)
(* int64 arithmetic is modelled on the naturals: no number below exceeds   *)
(* Base^length - 1, and 62^10 < 2^63, so nothing wraps for code lengths up *)
(* to 10 (the program's default maximum is 9).                             *)
(***************************************************************************)
EXTENDS Integers, Sequences

CONSTANT Base        \* number of characters of the alphabet: 62

ASSUME BaseAssumption == Base \in Nat \ {0, 1}

Digit == 0 .. Base - 1

-----------------------------------------------------------------------------
(* Conversions between numbers and codes. *)

\* The characters the loop of ToBase62 writes, after reverseString.
DigitsOf[id \in Nat] ==
  IF id = 0 THEN <<>> ELSE Append(DigitsOf[id \div Base], id % Base)

\* A variant of ToBase62 that forgets the leading zeros.
ToBase62Unpadded(id, length) == DigitsOf[id]

\* Zeros pad a short result; a result longer than length stays as it is.
ToBase62(id, length) ==
  [i \in 1 .. (length - Len(DigitsOf[id])) |-> 0] \o DigitsOf[id]

\* -1 for a string with a character outside the alphabet.
FromBase62(shortCode) ==
  LET id[k \in 0 .. Len(shortCode)] ==
        IF k = 0 THEN 0 ELSE id[k - 1] * Base + shortCode[k]
  IN  IF \E k \in DOMAIN shortCode : shortCode[k] \notin Digit THEN -1 ELSE id[Len(shortCode)]

-----------------------------------------------------------------------------
(* The generator: a step and a batch size per code length. *)

\* The largest number of a code: FromBase62("ZZ...Z").
MaxNumber(length) == FromBase62([i \in 1 .. length |-> Base - 1])

NewShortCodeGenerator(length, batchSize) ==
  [length |-> length, batchSize |-> batchSize,
   step |-> MaxNumber(length) \div batchSize]

\* A variant of Exhausted that allows one batch too many.
ExhaustedOneLate(g, startIndex) == startIndex > g.step + 1

\* GenerateBatchNumbers returns an error: the pool of this length is used up.
Exhausted(g, startIndex) == startIndex > g.step

\* A variant of GenerateBatchNumbers that starts one step too far.
BatchNumbersShifted(g, startIndex) ==
  [i \in 1 .. g.batchSize |-> startIndex + i * g.step]

\* A variant of GenerateBatchNumbers whose numbers are neighbours.
BatchNumbersAdjacent(g, startIndex) ==
  [i \in 1 .. g.batchSize |-> startIndex + (i - 1)]

\* The numbers of a batch: startIndex, startIndex + step, ...
BatchNumbers(g, startIndex) ==
  [i \in 1 .. g.batchSize |-> startIndex + (i - 1) * g.step]

\* The codes of a batch, in the order in which they are added to the pool.
BatchCodes(g, startIndex) ==
  [i \in 1 .. g.batchSize |-> ToBase62(BatchNumbers(g, startIndex)[i], g.length)]

==============================================================================
