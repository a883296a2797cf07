------------------------- MODULE CodeGeneratorProofs -------------------------
(***************************************************************************)
(* The conversions and the generator, proved for every base, length and    *)
(* batch size: a code has the length it should have and decodes to its     *)
(* number, and the batches below the step are disjoint and leave no hole.  *)
(***************************************************************************)
EXTENDS MCCodeGenerator, Recursion

-----------------------------------------------------------------------------
(* Digits. *)

LEMMA Division ==
  ASSUME NEW n \in Nat, NEW b \in Nat \ {0}
  PROVE  /\ n \div b \in Nat /\ n % b \in 0 .. b - 1
         /\ n = (n \div b) * b + (n % b)
OBVIOUS

LEMMA DivisionDescends ==
  ASSUME NEW n \in Nat \ {0}
  PROVE  n \div Base \in Nat /\ n \div Base < n /\ n % Base \in Digit
<1> DEFINE q == n \div Base
<1>1. q \in Nat /\ n % Base \in 0 .. Base - 1 /\ n = q * Base + (n % Base)
  BY BaseAssumption, Division
<1>2. Base \in Nat /\ Base >= 2 /\ Base - 2 \in Nat
  BY BaseAssumption
<1>3. q * Base = q * 2 + q * (Base - 2) /\ q * (Base - 2) \in Nat
  BY <1>1, <1>2
<1> HIDE DEF q
<1>4. q < n
  BY <1>1, <1>2, <1>3
<1> QED BY <1>1, <1>4 DEF q, Digit

\* The last digit of a number, and the number without it.
LEMMA LastDigit ==
  ASSUME NEW n \in Nat \ {0}
  PROVE  /\ n \div Base \in 0 .. n - 1 /\ n \div Base \in Nat
         /\ n % Base \in Digit /\ n % Base \in Nat
         /\ n = (n \div Base) * Base + (n % Base)
<1>1. n \div Base \in Nat /\ n \div Base < n /\ n % Base \in Digit
  BY DivisionDescends
<1>2. n = (n \div Base) * Base + (n % Base) /\ n % Base \in Nat
  BY Division, BaseAssumption
<1> DEFINE q == n \div Base
<1> HIDE DEF q
<1>3. q \in Nat /\ q < n => q \in 0 .. n - 1
  OBVIOUS
<1> QED BY <1>1, <1>2, <1>3 DEF q

LEMMA DigitsFacts ==
  /\ DigitsOf \in [Nat -> Seq(Digit)]
  /\ DigitsOf[0] = <<>>
  /\ \A n \in Nat \ {0} : DigitsOf[n] = Append(DigitsOf[n \div Base], n % Base)
<1> DEFINE rank == [n \in Nat |-> n]
           first == {0}
           prev == [n \in Nat |-> n \div Base]
           step == [p \in Seq(Digit) \X Nat |-> Append(p[1], p[2] % Base)]
           Is(f) == f = [n \in Nat |-> IF n = 0 THEN <<>> ELSE Append(f[n \div Base], n % Base)]
<1>1. Descends(Nat, rank, first, prev)
  BY DivisionDescends DEF Descends
<1>2. step \in [Seq(Digit) \X Nat -> Seq(Digit)] /\ <<>> \in Seq(Digit)
  <2>1. \A n \in Nat : n % Base \in Digit
    BY BaseAssumption, Division DEF Digit
  <2> QED BY <2>1
<1>3. \A s, d : s \in Seq(Digit) /\ d \in Nat => step[<<s, d>>] = Append(s, d % Base)
  OBVIOUS
<1>4. \A n \in Nat \ {0} : prev[n] = n \div Base /\ n \div Base \in Nat
  BY DivisionDescends
<1> HIDE DEF rank, prev, step
<1>5. PICK f \in [Nat -> Seq(Digit)] : Recursive(f, Nat, <<>>, first, prev, step)
  BY <1>1, <1>2, RecursiveExists
<1>6. Is(f)
  <2>1. \A n \in Nat : f[n] = IF n = 0 THEN <<>> ELSE Append(f[n \div Base], n % Base)
    BY <1>3, <1>4, <1>5 DEF Recursive, Right
  <2> QED BY <2>1
<1>7. Is(DigitsOf)
  <2>1. DigitsOf = CHOOSE g : Is(g)
    BY DEF DigitsOf
  <2> HIDE DEF Is
  <2> QED BY <1>6, <2>1
<1>8. DOMAIN DigitsOf = Nat /\ DigitsOf[0] = <<>>
      /\ \A n \in Nat \ {0} : DigitsOf[n] = Append(DigitsOf[n \div Base], n % Base)
  BY <1>7
<1>9. \A n \in Nat : DigitsOf[n] \in Seq(Digit)
  <2> DEFINE S == {n \in Nat : DigitsOf[n] \in Seq(Digit)}
  <2>0. /\ <<>> \in Seq(Digit)
        /\ \A s, d : s \in Seq(Digit) /\ d \in Digit => Append(s, d) \in Seq(Digit)
    OBVIOUS
  <2>1. ASSUME NEW n \in Nat, \A m \in 0 .. n - 1 : m \in S PROVE n \in S
    <3>1. CASE n = 0
      BY <1>8, <2>0, <3>1
    <3>2. CASE n # 0
      <4>1. n \div Base \in 0 .. n - 1 /\ n % Base \in Digit
        BY <3>2, DivisionDescends
      <4>2. DigitsOf[n \div Base] \in Seq(Digit)
        BY <2>1, <4>1
      <4> QED BY <1>8, <2>0, <3>2, <4>1, <4>2
    <3> QED BY <3>1, <3>2
  <2> HIDE DEF S
  <2>2. \A n \in Nat : n \in S
    BY <2>1, StrongInduction
  <2> QED BY <2>2 DEF S
<1> QED BY <1>7, <1>8, <1>9

-----------------------------------------------------------------------------
(* The number of a code. *)

\* What the loop of FromBase62 computes: the numbers of the code's beginnings.
Numbers(code) ==
  CHOOSE id : id = [k \in 0 .. Len(code) |->
                      IF k = 0 THEN 0 ELSE id[k - 1] * Base + code[k]]

Number(code) == Numbers(code)[Len(code)]

LEMMA FromBase62IsNumber ==
  ASSUME NEW code \in Seq(Digit) PROVE FromBase62(code) = Number(code)
<1>1. ~ \E k \in DOMAIN code : code[k] \notin Digit
  OBVIOUS
<1>2. FromBase62(code) = IF \E k \in DOMAIN code : code[k] \notin Digit
                         THEN -1 ELSE Number(code)
  BY Zenon DEF FromBase62, Number, Numbers
<1> QED BY <1>1, <1>2

LEMMA NumbersFacts ==
  ASSUME NEW code \in Seq(Digit)
  PROVE  /\ Numbers(code) \in [0 .. Len(code) -> Nat]
         /\ Numbers(code)[0] = 0
         /\ \A k \in 1 .. Len(code) : Numbers(code)[k] = Numbers(code)[k - 1] * Base + code[k]
<1> DEFINE D == 0 .. Len(code)
           rank == [k \in D |-> k]
           first == {0}
           prev == [k \in D |-> k - 1]
           step == [p \in Nat \X D |-> IF p[2] = 0 THEN 0 ELSE p[1] * Base + code[p[2]]]
           Is(f) == f = [k \in D |-> IF k = 0 THEN 0 ELSE f[k - 1] * Base + code[k]]
<1>0. /\ Len(code) \in Nat /\ Base \in Nat /\ \A k \in D \ {0} : code[k] \in Nat /\ k - 1 \in D
      /\ \A k \in 1 .. Len(code) : k \in D \ {0}
  BY BaseAssumption DEF Digit
<1>1. Descends(D, rank, first, prev)
  BY <1>0 DEF Descends
<1>2. step \in [Nat \X D -> Nat]
  BY <1>0
<1>3. \A m, k : m \in Nat /\ k \in D /\ k # 0 => step[<<m, k>>] = m * Base + code[k]
  OBVIOUS
<1>4. \A k \in D \ {0} : prev[k] = k - 1
  OBVIOUS
<1>5. PICK f \in [D -> Nat] : Recursive(f, D, 0, first, prev, step)
  <2> HIDE DEF D, rank, prev, step, first
  <2> QED BY <1>1, <1>2, RecursiveExists
<1>6. Is(f)
  <2>1. \A k \in D : f[k] = IF k = 0 THEN 0 ELSE f[k - 1] * Base + code[k]
    <3> HIDE DEF D, rank, prev, step
    <3> QED BY <1>0, <1>3, <1>4, <1>5 DEF Recursive, Right
  <2> QED BY <2>1
<1>7. Is(Numbers(code))
  <2>1. Numbers(code) = CHOOSE id : Is(id)
    BY Zenon DEF Numbers
  <2> HIDE DEF Is
  <2> QED BY <1>6, <2>1
<1>8. /\ Numbers(code) = [k \in D |-> Numbers(code)[k]] /\ Numbers(code)[0] = 0
      /\ \A k \in D \ {0} : Numbers(code)[k] = Numbers(code)[k - 1] * Base + code[k]
  <2> DEFINE id == Numbers(code)
  <2>1. id = [k \in D |-> IF k = 0 THEN 0 ELSE id[k - 1] * Base + code[k]]
    BY <1>7
  <2> HIDE DEF id
  <2>2. 0 \in D
    BY <1>0
  <2> HIDE DEF D
  <2>3. /\ id = [k \in D |-> id[k]] /\ id[0] = 0
        /\ \A k \in D : k # 0 => id[k] = id[k - 1] * Base + code[k]
    BY <2>1, <2>2
  <2> QED BY <2>3 DEF id
<1>9. \A k \in Nat : k \in D => Numbers(code)[k] \in Nat
  <2> DEFINE S == {k \in Nat : k \in D => Numbers(code)[k] \in Nat}
  <2>1. 0 \in S
    BY <1>8
  <2>2. ASSUME NEW k \in Nat, k \in S PROVE k + 1 \in S
    <3>1. ASSUME k + 1 \in D PROVE Numbers(code)[k + 1] \in Nat
      <4>1. /\ k \in D /\ Numbers(code)[k] \in Nat /\ code[k + 1] \in Nat
            /\ k + 1 \in D \ {0} /\ (k + 1) - 1 = k
        BY <1>0, <2>2, <3>1
      <4>2. Numbers(code)[k + 1] = Numbers(code)[k] * Base + code[k + 1]
        BY <1>8, <3>1, <4>1
      <4>3. ASSUME NEW m \in Nat, NEW b \in Nat, NEW d \in Nat PROVE m * b + d \in Nat
        OBVIOUS
      <4>4. Base \in Nat
        BY <1>0
      <4> HIDE DEF D
      <4>5. Numbers(code)[k] * Base + code[k + 1] \in Nat
        BY <4>1, <4>3, <4>4
      <4> QED BY <4>2, <4>5
    <3> QED BY <3>1
  <2> HIDE DEF S
  <2>3. \A k \in Nat : k \in S
    BY <2>1, <2>2, Induction
  <2> QED BY <2>3 DEF S
<1>10. \A k \in D : Numbers(code)[k] \in Nat
  BY <1>0, <1>9
<1>11. Numbers(code) \in [D -> Nat]
  <2> HIDE DEF D
  <2> QED BY <1>8, <1>10
<1> QED BY <1>0, <1>8, <1>11

\* Codes that begin alike have the same numbers there.
LEMMA SameBeginning ==
  ASSUME NEW s \in Seq(Digit), NEW t \in Seq(Digit),
         NEW m \in Nat, m <= Len(s), m <= Len(t), \A k \in 1 .. m : s[k] = t[k]
  PROVE  Numbers(s)[m] = Numbers(t)[m]
<1> DEFINE S == {k \in Nat : k <= m => Numbers(s)[k] = Numbers(t)[k]}
<1>1. 0 \in S
  BY NumbersFacts
<1>2. ASSUME NEW k \in Nat, k \in S PROVE k + 1 \in S
  <2>1. ASSUME k + 1 <= m PROVE Numbers(s)[k + 1] = Numbers(t)[k + 1]
    <3>1. /\ k + 1 \in 1 .. Len(s) /\ k + 1 \in 1 .. Len(t) /\ k + 1 \in 1 .. m
          /\ (k + 1) - 1 = k /\ Numbers(s)[k] = Numbers(t)[k]
      BY <1>2, <2>1
    <3>2. /\ Numbers(s)[k + 1] = Numbers(s)[k] * Base + s[k + 1]
          /\ Numbers(t)[k + 1] = Numbers(t)[k] * Base + t[k + 1]
      BY <3>1, NumbersFacts
    <3> QED BY <3>1, <3>2
  <2> QED BY <2>1
<1> HIDE DEF S
<1>3. \A k \in Nat : k \in S
  BY <1>1, <1>2, Induction
<1> QED BY <1>3 DEF S

LEMMA NumberAppend ==
  ASSUME NEW s \in Seq(Digit), NEW d \in Digit
  PROVE  Number(Append(s, d)) = Number(s) * Base + d
<1> DEFINE t == Append(s, d)
           n == Len(s)
<1>1. /\ t \in Seq(Digit) /\ n \in Nat /\ Len(t) = n + 1 /\ t[n + 1] = d
      /\ \A k \in 1 .. n : t[k] = s[k]
      /\ n + 1 \in 1 .. Len(t) /\ (n + 1) - 1 = n
  OBVIOUS
<1> HIDE DEF t
<1>2. Numbers(t)[n] = Numbers(s)[n]
  <2>1. n <= Len(s) /\ n <= Len(t)
    BY <1>1
  <2> HIDE DEF n
  <2> QED BY <1>1, <2>1, SameBeginning
<1>3. Numbers(t)[n + 1] = Numbers(t)[n] * Base + d
  BY <1>1, NumbersFacts
<1> QED BY <1>1, <1>2, <1>3 DEF Number, t

\* Leading zeros do not change the number.
LEMMA NumberPadded ==
  ASSUME NEW s \in Seq(Digit), NEW m \in Nat, NEW z, z = [i \in 1 .. m |-> 0]
  PROVE  /\ z \o s \in Seq(Digit) /\ Len(z \o s) = m + Len(s)
         /\ Number(z \o s) = Number(s)
<1> DEFINE t == z \o s
<1>0. 0 \in Digit
  BY BaseAssumption DEF Digit
<1>1. z \in Seq(Digit) /\ Len(z) = m
  BY <1>0
<1>2. /\ t \in Seq(Digit) /\ Len(t) = m + Len(s) /\ Len(s) \in Nat
      /\ \A k \in 1 .. m : t[k] = 0
      /\ \A k \in 1 .. Len(s) : t[m + k] = s[k]
  BY <1>1
<1> HIDE DEF t
<1> DEFINE Z == {k \in Nat : k <= m => Numbers(t)[k] = 0}
           S == {k \in Nat : k <= Len(s) => Numbers(t)[m + k] = Numbers(s)[k]}
<1>3. 0 \in Z
  BY <1>2, NumbersFacts
<1>a. /\ Numbers(t) \in [0 .. Len(t) -> Nat]
      /\ \A k \in 1 .. Len(t) : Numbers(t)[k] = Numbers(t)[k - 1] * Base + t[k]
  BY <1>2, NumbersFacts
<1>4. ASSUME NEW k \in Nat, k \in Z PROVE k + 1 \in Z
  <2>1. ASSUME k + 1 <= m PROVE Numbers(t)[k + 1] = 0
    <3>1. k + 1 \in 1 .. Len(t) /\ k + 1 \in 1 .. m /\ (k + 1) - 1 = k /\ Numbers(t)[k] = 0
      BY <1>2, <1>4, <2>1
    <3>2. Numbers(t)[k + 1] = Numbers(t)[k] * Base + t[k + 1]
      BY <1>a, <3>1
    <3> QED BY <1>2, <3>1, <3>2, BaseAssumption
  <2> QED BY <2>1
<1>5. Numbers(t)[m] = 0
  <2> HIDE DEF Z
  <2>1. \A k \in Nat : k \in Z
    BY <1>3, <1>4, Induction
  <2> QED BY <2>1 DEF Z
<1>6. 0 \in S
  BY <1>5, NumbersFacts
<1>7. ASSUME NEW k \in Nat, k \in S PROVE k + 1 \in S
  <2>1. ASSUME k + 1 <= Len(s) PROVE Numbers(t)[m + (k + 1)] = Numbers(s)[k + 1]
    <3>1. /\ m + (k + 1) \in 1 .. Len(t) /\ k + 1 \in 1 .. Len(s)
          /\ (m + (k + 1)) - 1 = m + k /\ (k + 1) - 1 = k
          /\ Numbers(t)[m + k] = Numbers(s)[k]
      BY <1>2, <1>7, <2>1
    <3>2. /\ Numbers(t)[m + (k + 1)] = Numbers(t)[m + k] * Base + t[m + (k + 1)]
          /\ Numbers(s)[k + 1] = Numbers(s)[k] * Base + s[k + 1]
      BY <1>2, <3>1, NumbersFacts
    <3> QED BY <1>2, <3>1, <3>2
  <2> QED BY <2>1
<1>8. Numbers(t)[m + Len(s)] = Numbers(s)[Len(s)]
  <2> HIDE DEF S
  <2>1. \A k \in Nat : k \in S
    BY <1>6, <1>7, Induction
  <2> QED BY <1>2, <2>1 DEF S
<1> QED BY <1>2, <1>8 DEF Number, t

\* Digits make up the number they were made from.
LEMMA NumberOfDigits == \A n \in Nat : Number(DigitsOf[n]) = n
<1> DEFINE S == {n \in Nat : Number(DigitsOf[n]) = n}
<1>1. ASSUME NEW n \in Nat, \A m \in 0 .. n - 1 : m \in S PROVE n \in S
  <2>1. CASE n = 0
    <3>1. <<>> \in Seq(Digit) /\ Len(<<>>) = 0
      OBVIOUS
    <3>2. Numbers(<<>>)[0] = 0
      BY <3>1, NumbersFacts
    <3> QED BY <2>1, <3>1, <3>2, DigitsFacts DEF Number
  <2>2. CASE n # 0
    <3>1. /\ n \div Base \in 0 .. n - 1 /\ n % Base \in Digit
          /\ n = (n \div Base) * Base + (n % Base)
      BY <2>2, LastDigit
    <3>2. DigitsOf[n] = Append(DigitsOf[n \div Base], n % Base)
          /\ DigitsOf[n \div Base] \in Seq(Digit)
      <4>1. n \in Nat \ {0} /\ n \div Base \in Nat
        BY <2>2, LastDigit
      <4> QED BY <4>1, DigitsFacts
    <3>3. Number(DigitsOf[n \div Base]) = n \div Base
      BY <1>1, <3>1
    <3>4. Number(DigitsOf[n]) = Number(DigitsOf[n \div Base]) * Base + (n % Base)
      BY <3>1, <3>2, NumberAppend
    <3> QED BY <3>1, <3>3, <3>4
  <2> QED BY <2>1, <2>2
<1> HIDE DEF S
<1>2. \A n \in Nat : n \in S
  BY <1>1, StrongInduction
<1> QED BY <1>2 DEF S

\* The largest numbers.
LEMMA MaxNumberFacts ==
  /\ MaxNumber(0) = 0
  /\ \A l \in Nat : /\ MaxNumber(l) \in Nat
                    /\ MaxNumber(l + 1) = MaxNumber(l) * Base + (Base - 1)
<1> DEFINE last(l) == [i \in 1 .. l |-> Base - 1]
<1>1. Base - 1 \in Digit /\ Base \in Nat
  BY BaseAssumption DEF Digit
<1>2. \A l \in Nat : last(l) \in Seq(Digit) /\ Len(last(l)) = l
  BY <1>1
<1>3. \A l \in Nat : last(l + 1) = Append(last(l), Base - 1)
  BY <1>1
<1>4. \A l \in Nat : MaxNumber(l) = Number(last(l))
  <2>1. \A l : MaxNumber(l) = FromBase62(last(l))
    BY Zenon DEF MaxNumber
  <2> HIDE DEF last
  <2> QED BY <1>2, <2>1, FromBase62IsNumber
<1> HIDE DEF last
<1>5. \A l \in Nat : Number(last(l)) = Numbers(last(l))[l] /\ Numbers(last(l))[l] \in Nat
  <2>1. ASSUME NEW l \in Nat PROVE Numbers(last(l))[l] \in Nat
    <3>1. last(l) \in Seq(Digit) /\ Len(last(l)) = l
      BY <1>2
    <3>2. Numbers(last(l)) \in [0 .. Len(last(l)) -> Nat]
      BY <3>1, NumbersFacts
    <3>3. l \in 0 .. l
      OBVIOUS
    <3> QED BY <3>1, <3>2, <3>3
  <2> QED BY <1>2, <2>1 DEF Number
<1>6. MaxNumber(0) = 0
  BY <1>2, <1>4, <1>5, NumbersFacts
<1>7. \A l \in Nat : Number(last(l + 1)) = Number(last(l)) * Base + (Base - 1)
  BY <1>1, <1>2, <1>3, NumberAppend
<1>8. \A l \in Nat : l + 1 \in Nat
  OBVIOUS
<1> QED BY <1>4, <1>5, <1>6, <1>7, <1>8

\* No number up to the largest one has more digits than it.
LEMMA DigitsLength ==
  \A l \in Nat : \A n \in 0 .. MaxNumber(l) : Len(DigitsOf[n]) \in 0 .. l
<1> DEFINE S == {l \in Nat : \A n \in 0 .. MaxNumber(l) : Len(DigitsOf[n]) \in 0 .. l}
<1>1. 0 \in S
  BY MaxNumberFacts, DigitsFacts
<1>2. ASSUME NEW l \in Nat, l \in S PROVE l + 1 \in S
  <2>1. ASSUME NEW n \in 0 .. MaxNumber(l + 1) PROVE Len(DigitsOf[n]) \in 0 .. l + 1
    <3>0. /\ MaxNumber(l) \in Nat /\ Base \in Nat
          /\ MaxNumber(l + 1) = MaxNumber(l) * Base + (Base - 1) /\ l + 1 \in Nat
          /\ MaxNumber(l + 1) \in Nat
      <4>1. l + 1 \in Nat
        OBVIOUS
      <4> QED BY <4>1, MaxNumberFacts, BaseAssumption
    <3>1. CASE n = 0
      BY <3>1, DigitsFacts
    <3>2. CASE n # 0
      <4> DEFINE q == n \div Base
                 r == n % Base
                 m == MaxNumber(l)
      <4>1. n \in Nat /\ q \in Nat /\ r \in Nat /\ n = q * Base + r
        <5>1. n \in Nat \ {0}
          BY <3>0, <3>2
        <5> QED BY <5>1, LastDigit
      <4>2. q * Base <= m * Base + (Base - 1)
        <5> HIDE DEF q, r, m
        <5>1. n <= m * Base + (Base - 1) /\ m \in Nat
          BY <3>0 DEF m
        <5>2. q * Base \in Nat /\ m * Base \in Nat
          BY <3>0, <4>1, <5>1
        <5> QED BY <3>0, <4>1, <5>1, <5>2
      <4>3. q <= m
        <5> HIDE DEF q, r
        <5>1. m \in Nat
          BY <3>0
        <5> HIDE DEF m
        <5>2. ASSUME q > m PROVE FALSE
          <6>1. (q - m - 1) * Base >= 0
            <7>1. q - m - 1 \in Nat
              BY <4>1, <5>1, <5>2
            <7> QED BY <3>0, <7>1
          <6>2. (q - m - 1) * Base = q * Base - m * Base - Base
            BY <3>0, <4>1, <5>1
          <6>3. q * Base \in Nat /\ m * Base \in Nat
            BY <3>0, <4>1, <5>1
          <6> QED BY <3>0, <4>2, <6>1, <6>2, <6>3
        <5> QED BY <4>1, <5>1, <5>2
      <4>4. Len(DigitsOf[q]) \in 0 .. l
        BY <1>2, <3>0, <4>1, <4>3
      <4>5. DigitsOf[n] = Append(DigitsOf[q], r) /\ DigitsOf[q] \in Seq(Digit)
        BY <3>2, <4>1, DigitsFacts
      <4>6. Len(DigitsOf[n]) = Len(DigitsOf[q]) + 1
        BY <4>5
      <4> QED BY <4>4, <4>6
    <3> QED BY <3>1, <3>2
  <2> QED BY <2>1
<1> HIDE DEF S
<1>3. \A l \in Nat : l \in S
  BY <1>1, <1>2, Induction
<1> QED BY <1>3 DEF S

\* A number that fits has a code of exactly that length, and comes back from it
\* (cores/util.go:29 pads, cores/util.go:60 decodes).
LEMMA RoundTrip ==
  ASSUME NEW l \in Nat, NEW n \in 0 .. MaxNumber(l)
  PROVE  /\ ToBase62(n, l) \in Seq(Digit) /\ Len(ToBase62(n, l)) = l
         /\ FromBase62(ToBase62(n, l)) = n
<1> DEFINE s == DigitsOf[n]
           m == l - Len(s)
           z == [i \in 1 .. m |-> 0]
<1>1. n \in Nat
  BY MaxNumberFacts
<1>2. s \in Seq(Digit) /\ Len(s) \in 0 .. l /\ Number(s) = n
  BY <1>1, DigitsFacts, DigitsLength, NumberOfDigits
<1>3. ToBase62(n, l) = z \o s
  BY Zenon DEF ToBase62
<1>4. m \in Nat /\ m + Len(s) = l
  BY <1>2
<1> HIDE DEF s
<1>5. z \o s \in Seq(Digit) /\ Len(z \o s) = m + Len(s) /\ Number(z \o s) = Number(s)
  <2>1. z = [i \in 1 .. m |-> 0]
    OBVIOUS
  <2> HIDE DEF z, m
  <2> QED BY <1>2, <1>4, <2>1, NumberPadded
<1> HIDE DEF z
<1> QED BY <1>2, <1>3, <1>4, <1>5, FromBase62IsNumber

\* For every base and every length, the numbers of a length end at a natural number,
\* and each has a code of its own, of exactly this length.
THEOREM CodesOfNumbers ==
  \A l \in Nat :
     /\ MaxNumber(l) \in Nat
     /\ \A n \in 0 .. MaxNumber(l) :
           /\ Len(ToBase62(n, l)) = l
           /\ \A m \in 0 .. MaxNumber(l) : ToBase62(m, l) = ToBase62(n, l) => m = n
<1> SUFFICES ASSUME NEW l \in Nat
             PROVE  /\ MaxNumber(l) \in Nat
                    /\ \A n \in 0 .. MaxNumber(l) :
                          /\ Len(ToBase62(n, l)) = l
                          /\ \A m \in 0 .. MaxNumber(l) :
                                ToBase62(m, l) = ToBase62(n, l) => m = n
  OBVIOUS
<1>1. MaxNumber(l) \in Nat
  BY MaxNumberFacts
<1>2. \A n \in 0 .. MaxNumber(l) :
         Len(ToBase62(n, l)) = l /\ FromBase62(ToBase62(n, l)) = n
  BY RoundTrip
<1>3. ASSUME NEW n \in 0 .. MaxNumber(l), NEW m \in 0 .. MaxNumber(l),
             ToBase62(m, l) = ToBase62(n, l)
      PROVE  m = n
  BY <1>2, <1>3
<1> QED BY <1>1, <1>2, <1>3

-----------------------------------------------------------------------------
(* The batches. *)

LEMMA StepsApart ==
  ASSUME NEW s \in Nat
  PROVE  /\ \A a, b \in Nat : a <= b => a * s <= b * s
         /\ \A a, b \in Nat : a < b => a * s + s <= b * s
<1>1. \A a, b \in Nat : a <= b => a * s <= b * s
  OBVIOUS
<1>2. ASSUME NEW a \in Nat, NEW b \in Nat, a < b PROVE a * s + s <= b * s
  <2>1. (a + 1) * s <= b * s
    BY <1>2, <1>1
  <2> QED BY <2>1
<1> QED BY <1>1, <1>2

\* Start indexes up to the step, and positions.
LEMMA BatchFacts ==
  ASSUME NEW l \in Nat, NEW size \in Nat \ {0}, NEW g, g = NewShortCodeGenerator(l, size),
         NEW i \in 0 .. g.step, NEW j \in 1 .. size
  PROVE  /\ g.step \in Nat /\ size * g.step <= MaxNumber(l)
         /\ BatchNumbers(g, i)[j] = i + (j - 1) * g.step
         /\ BatchNumbers(g, i)[j] \in 0 .. MaxNumber(l)
         /\ BatchCodes(g, i)[j] \in Seq(Digit) /\ Len(BatchCodes(g, i)[j]) = l
         /\ FromBase62(BatchCodes(g, i)[j]) = BatchNumbers(g, i)[j]
<1> DEFINE s == g.step
           n == MaxNumber(l)
<1>1. g.batchSize = size /\ g.length = l /\ s = n \div size /\ n \in Nat
  BY MaxNumberFacts DEF NewShortCodeGenerator
<1>2. s \in Nat /\ n = s * size + (n % size) /\ n % size \in Nat
  <2>1. /\ n \div size \in Nat /\ n % size \in 0 .. size - 1
        /\ n = (n \div size) * size + (n % size)
    BY <1>1, Division
  <2> HIDE DEF n, s
  <2> QED BY <1>1, <2>1
<1>3. BatchNumbers(g, i)[j] = i + (j - 1) * s
  BY <1>1 DEF BatchNumbers
<1>4. BatchCodes(g, i)[j] = ToBase62(BatchNumbers(g, i)[j], l)
  BY <1>1 DEF BatchCodes
<1>5. i \in Nat /\ i <= s /\ j - 1 \in Nat /\ j - 1 < size /\ size \in Nat
  BY <1>2
<1> HIDE DEF s, n
<1>6. (j - 1) * s + s <= size * s /\ (j - 1) * s \in Nat
  BY <1>2, <1>5, StepsApart
<1>7. size * s <= n
  BY <1>1, <1>2
<1>8. i + (j - 1) * s \in 0 .. n
  <2> DEFINE p == (j - 1) * s
             q == size * s
  <2>1. /\ p \in Nat /\ q \in Nat /\ s \in Nat /\ n \in Nat /\ i \in Nat
        /\ i <= s /\ p + s <= q /\ q <= n
    BY <1>1, <1>2, <1>5, <1>6, <1>7
  <2> HIDE DEF p, q
  <2>2. i + p \in 0 .. n
    BY <2>1
  <2> QED BY <2>2 DEF p
<1> QED BY <1>2, <1>3, <1>4, <1>7, <1>8, RoundTrip DEF s, n

\* Start indexes below the step.
LEMMA NumbersDiffer ==
  ASSUME NEW s \in Nat, NEW i \in 0 .. s - 1, NEW k \in 0 .. s - 1,
         NEW a \in Nat, NEW b \in Nat, i + a * s = k + b * s
  PROVE  i = k /\ a = b
<1>1. a * s \in Nat /\ b * s \in Nat
  OBVIOUS
<1>2. ~(a < b)
  <2>1. a < b => a * s + s <= b * s
    BY StepsApart
  <2> QED BY <1>1, <2>1
<1>3. ~(b < a)
  <2>1. b < a => b * s + s <= a * s
    BY StepsApart
  <2> QED BY <1>1, <2>1
<1>4. a = b
  BY <1>2, <1>3
<1> QED BY <1>4

\* The generator keeps its parameters, and what it has returned are the batches of the
\* start indexes so far.
GeneratorInv ==
  /\ gen = NewShortCodeGenerator(gen.length, gen.batchSize)
  /\ gen.length \in Nat /\ gen.batchSize \in Nat \ {0}
  /\ gen.step \in Nat /\ Len(batches) \in 0 .. gen.step + 1
  /\ \A i \in 1 .. Len(batches) : batches[i] = BatchCodes(gen, i - 1)
  /\ DOMAIN batches = 1 .. Len(batches)

LEMMA GeneratorInit == Init => GeneratorInv
<1> SUFFICES ASSUME Init PROVE GeneratorInv
  OBVIOUS
<1>1. PICK l \in Nat, size \in Nat \ {0} :
        gen = NewShortCodeGenerator(l, size) /\ batches = <<>>
  BY BoundsAssumption DEF Init
<1>2. gen.length = l /\ gen.batchSize = size /\ gen.step = MaxNumber(l) \div size
  BY <1>1 DEF NewShortCodeGenerator
<1>3. gen.step \in Nat
  <2>1. MaxNumber(l) \in Nat
    BY MaxNumberFacts
  <2>2. MaxNumber(l) \div size \in Nat
    BY <2>1, Division
  <2> QED BY <1>2, <2>2
<1>4. Len(batches) = 0 /\ DOMAIN batches = 1 .. 0
  BY <1>1
<1> QED BY <1>1, <1>2, <1>3, <1>4 DEF GeneratorInv

LEMMA GeneratorNext == GeneratorInv /\ [Next]_vars => GeneratorInv'
<1> SUFFICES ASSUME GeneratorInv, [Next]_vars PROVE GeneratorInv'
  OBVIOUS
<1>1. CASE Generate
  <2> DEFINE new == BatchCodes(gen, startIndex)
  <2>1. /\ batches' = Append(batches, new) /\ gen' = gen
        /\ Len(batches) <= gen.step /\ Len(batches) \in Nat /\ gen.step \in Nat
    BY <1>1 DEF Generate, Exhausted, startIndex, GeneratorInv
  <2> DEFINE n == Len(batches)
  <2> HIDE DEF new
  <2>2. /\ DOMAIN batches' = 1 .. n + 1 /\ Len(batches') = n + 1
        /\ \A i \in 1 .. n : batches'[i] = batches[i]
        /\ batches'[n + 1] = new
    BY <2>1 DEF GeneratorInv
  <2>3. new = BatchCodes(gen, (n + 1) - 1)
    BY <2>1 DEF new, startIndex
  <2>4. \A i \in 1 .. n + 1 : batches'[i] = BatchCodes(gen, i - 1)
    <3>1. \A i \in 1 .. n + 1 : i \in 1 .. n \/ i = n + 1
      BY <2>1
    <3> QED BY <2>2, <2>3, <3>1 DEF GeneratorInv
  <2>5. n + 1 \in 0 .. gen.step + 1
    BY <2>1
  <2> HIDE DEF n
  <2> QED BY <2>1, <2>2, <2>4, <2>5 DEF GeneratorInv
<1>2. CASE UNCHANGED vars
  BY <1>2 DEF vars, GeneratorInv
<1> QED BY <1>1, <1>2 DEF Next

LEMMA GeneratorCorrect == Spec => []GeneratorInv
BY GeneratorInit, GeneratorNext, PTL DEF Spec

\* Where a batch has a code.
LEMMA CodeFacts ==
  ASSUME GeneratorInv, NEW i \in 1 .. Len(batches), NEW j \in 1 .. gen.batchSize
  PROVE  /\ BatchNumbers(gen, i - 1)[j] = (i - 1) + (j - 1) * gen.step
         /\ BatchNumbers(gen, i - 1)[j] \in 0 .. MaxNumber(gen.length)
         /\ Len(batches[i][j]) = gen.length
         /\ FromBase62(batches[i][j]) = BatchNumbers(gen, i - 1)[j]
<1>1. PICK k \in 0 .. gen.step : k = i - 1
  BY DEF GeneratorInv
<1>2. batches[i] = BatchCodes(gen, k)
  BY <1>1 DEF GeneratorInv
<1>3. /\ BatchNumbers(gen, k)[j] = k + (j - 1) * gen.step
      /\ BatchNumbers(gen, k)[j] \in 0 .. MaxNumber(gen.length)
      /\ Len(BatchCodes(gen, k)[j]) = gen.length
      /\ FromBase62(BatchCodes(gen, k)[j]) = BatchNumbers(gen, k)[j]
  <2>1. PICK g : g = gen
    OBVIOUS
  <2>2. PICK l \in Nat, size \in Nat \ {0} : l = gen.length /\ size = gen.batchSize
    BY DEF GeneratorInv
  <2>3. g = NewShortCodeGenerator(l, size)
    BY <2>1, <2>2 DEF GeneratorInv
  <2>4. k \in 0 .. g.step /\ j \in 1 .. size
    BY <2>1, <2>2
  <2>5. /\ BatchNumbers(g, k)[j] = k + (j - 1) * g.step
        /\ BatchNumbers(g, k)[j] \in 0 .. MaxNumber(l)
        /\ Len(BatchCodes(g, k)[j]) = l
        /\ FromBase62(BatchCodes(g, k)[j]) = BatchNumbers(g, k)[j]
    BY <2>3, <2>4, BatchFacts
  <2> QED BY <2>1, <2>2, <2>5
<1> QED BY <1>1, <1>2, <1>3

\* Every code has the length it was generated for and decodes to its number, for
\* every base, length and batch size (cores/util.go:29, cores/util.go:60).
THEOREM CodesRoundTripHolds == Spec => []CodesRoundTrip
<1>1. GeneratorInv => CodesRoundTrip
  BY CodeFacts DEF CodesRoundTrip
<1> QED BY <1>1, GeneratorCorrect, PTL

\* No batch goes beyond "ZZ...Z", the last one included (cores/gen.go:41).
THEOREM BatchesFitHolds == Spec => []BatchesFit
<1>1. GeneratorInv => BatchesFit
  <2> SUFFICES ASSUME GeneratorInv, NEW i \in 1 .. Len(batches), NEW n \in NumbersOf(i)
               PROVE  n <= MaxNumber(gen.length)
    BY DEF BatchesFit
  <2>1. PICK j \in 1 .. gen.batchSize : n = FromBase62(batches[i][j])
    BY DEF NumbersOf
  <2> QED BY <2>1, CodeFacts
<1> QED BY <1>1, GeneratorCorrect, PTL

\* Batches with start indexes below the step are disjoint, and hold no code twice
\* (cores/gen.go:46).
THEOREM BatchesDisjointHolds == Spec => []BatchesDisjoint
<1>1. GeneratorInv => BatchesDisjoint
  <2> SUFFICES ASSUME GeneratorInv, NEW i \in 1 .. Len(batches), NEW k \in 1 .. Len(batches),
                      i <= gen.step, k <= gen.step,
                      NEW j \in 1 .. gen.batchSize, NEW m \in 1 .. gen.batchSize,
                      batches[i][j] = batches[k][m]
               PROVE  i = k /\ j = m
    BY DEF BatchesDisjoint
  <2>1. (i - 1) + (j - 1) * gen.step = (k - 1) + (m - 1) * gen.step
    BY CodeFacts
  <2>2. /\ i - 1 \in 0 .. gen.step - 1 /\ k - 1 \in 0 .. gen.step - 1 /\ gen.step \in Nat
        /\ j - 1 \in Nat /\ m - 1 \in Nat
    BY DEF GeneratorInv
  <2>3. i - 1 = k - 1 /\ j - 1 = m - 1
    <3> DEFINE i0 == i - 1
               k0 == k - 1
               j0 == j - 1
               m0 == m - 1
               s == gen.step
    <3>1. /\ i0 \in 0 .. s - 1 /\ k0 \in 0 .. s - 1 /\ s \in Nat /\ j0 \in Nat /\ m0 \in Nat
          /\ i0 + j0 * s = k0 + m0 * s
      BY <2>1, <2>2
    <3> HIDE DEF i0, k0, j0, m0, s
    <3>2. i0 = k0 /\ j0 = m0
      BY <3>1, NumbersDiffer
    <3> QED BY <3>2 DEF i0, k0, j0, m0
  <2> QED BY <2>3
<1> QED BY <1>1, GeneratorCorrect, PTL

\* The stride leaves no number out (cores/gen.go:48).
THEOREM NoHolesHolds == Spec => []NoHoles
<1>1. GeneratorInv => NoHoles
  <2> SUFFICES ASSUME GeneratorInv, Len(batches) >= gen.step,
                      NEW n \in 0 .. gen.batchSize * gen.step - 1
               PROVE  \E i \in 1 .. Len(batches) : n \in NumbersOf(i)
    BY DEF NoHoles, startIndex
  <2> DEFINE s == gen.step
             size == gen.batchSize
             q == n \div s
             r == n % s
  <2>1. s \in Nat /\ size \in Nat \ {0} /\ n \in Nat /\ n < size * s /\ Len(batches) \in Nat
    BY DEF GeneratorInv
  <2>2. s # 0
    BY <2>1
  <2>3. q \in Nat /\ r \in 0 .. s - 1 /\ n = q * s + r
    BY <2>1, <2>2, Division
  <2> HIDE DEF q, r, s, size
  <2>4. q < size
    <3>1. size <= q => size * s <= q * s
      BY <2>1, <2>3, StepsApart
    <3>2. q * s \in Nat /\ size * s \in Nat
      BY <2>1, <2>3
    <3> QED BY <2>1, <2>3, <3>1, <3>2
  <2> DEFINE i == r + 1
             j == q + 1
  <2>5. i \in 1 .. Len(batches) /\ j \in 1 .. size /\ i - 1 = r /\ j - 1 = q
    BY <2>1, <2>3, <2>4 DEF s
  <2> HIDE DEF i, j
  <2>6. FromBase62(batches[i][j]) = (i - 1) + (j - 1) * s
    BY <2>5, CodeFacts DEF s, size
  <2>7. r + q * s = n
    BY <2>1, <2>3
  <2>8. n \in NumbersOf(i)
    BY <2>5, <2>6, <2>7 DEF NumbersOf, size
  <2> QED BY <2>5, <2>8
<1> QED BY <1>1, GeneratorCorrect, PTL

=============================================================================
