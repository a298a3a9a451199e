----------------------------- MODULE HttpUriProofs -----------------------------
(***************************************************************************)
(* Proofs about the conversions of parse_uri, for every width of a long, a *)
(* value_t and an idx_t: a value_t survives the number that is made of it, *)
(* and an index is what the URI says as long as it fits.                   *)
(***************************************************************************)
EXTENDS HttpUri, WellFoundedInduction, TLAPS

-----------------------------------------------------------------------------
(* Induction, from the well-foundedness of < instead of an operator.  *)

\* < is well-founded.
LEMMA LessIsWellFounded ==
  IsWellFoundedOn({p \in Nat \X Nat : p[1] < p[2]}, Nat)
BY NatLessThanWellFounded DEF OpToRel

\* A set that has 0 and the successor of each of its numbers has them all.
LEMMA FromZero ==
  ASSUME NEW S, 0 \in S, \A n \in Nat : n \in S => n + 1 \in S
  PROVE  Nat \subseteq S
<1> DEFINE less == {p \in Nat \X Nat : p[1] < p[2]}
<1> SUFFICES ASSUME Nat \ S # {} PROVE FALSE
  OBVIOUS
<1>1. PICK n \in Nat \ S : \A m \in Nat \ S : ~(<<m, n>> \in less)
  <2>1. IsWellFoundedOn(less, Nat)
    BY LessIsWellFounded
  <2>2. Nat \ S \subseteq Nat
    OBVIOUS
  <2> HIDE DEF less
  <2>3. QED
    BY <2>1, <2>2, WFMin
<1>2. n # 0 /\ n - 1 \in Nat
  BY <1>1
<1>3. <<n - 1, n>> \in less
  BY <1>2
<1>4. n - 1 \in S
  BY <1>1, <1>2, <1>3
<1>5. QED
  BY <1>1, <1>2, <1>4

-----------------------------------------------------------------------------
(* Powers of two. *)

\* What TwoTo is up to k, and what its definition asks for.
TwoToUpTo(k) ==
  {h \in [0 .. k -> Nat] : \A i \in 0 .. k : h[i] = IF i = 0 THEN 1 ELSE 2 * h[i - 1]}

\* There is such a function up to each number.
LEMMA TwoToExists == \A k \in Nat : TwoToUpTo(k) # {}
<1> DEFINE S == {k \in Nat : TwoToUpTo(k) # {}}
<1>1. 0 \in S
  <2>1. [i \in 0 .. 0 |-> 1] \in TwoToUpTo(0)
    BY DEF TwoToUpTo
  <2>2. QED
    BY <2>1
<1>2. ASSUME NEW n \in Nat, n \in S
      PROVE  n + 1 \in S
  <2>1. PICK h : h \in TwoToUpTo(n)
    BY <1>2
  <2> DEFINE g == [i \in 0 .. n + 1 |-> IF i = n + 1 THEN 2 * h[n] ELSE h[i]]
  <2>2. h \in [0 .. n -> Nat] /\ \A i \in 0 .. n : h[i] = IF i = 0 THEN 1 ELSE 2 * h[i - 1]
    BY <2>1 DEF TwoToUpTo
  <2>3. g \in [0 .. n + 1 -> Nat]
    BY <2>2
  <2>4. ASSUME NEW i \in 0 .. n + 1
        PROVE  g[i] = IF i = 0 THEN 1 ELSE 2 * g[i - 1]
    <3>1. CASE i = n + 1
      BY <3>1
    <3>2. CASE i # n + 1
      <4>1. i \in 0 .. n /\ (i # 0 => i - 1 \in 0 .. n)
        BY <3>2
      <4>2. QED
        BY <2>2, <3>2, <4>1
    <3>3. QED
      BY <3>1, <3>2
  <2>5. g \in TwoToUpTo(n + 1)
    BY <2>3, <2>4 DEF TwoToUpTo
  <2>6. QED
    BY <2>5
<1>3. Nat \subseteq S
  <2> HIDE DEF S
  <2>1. QED
    BY <1>1, <1>2, FromZero
<1>4. QED
  BY <1>3

\* Two of them agree as far as both go.
LEMMA TwoToUnique ==
  \A n \in Nat : \A k, l \in Nat :
    n =< k /\ n =< l =>
      \A g \in TwoToUpTo(k), h \in TwoToUpTo(l) : g[n] = h[n]
<1> DEFINE Agree(n) == \A k, l \in Nat :
             n =< k /\ n =< l => \A g \in TwoToUpTo(k), h \in TwoToUpTo(l) : g[n] = h[n]
           S == {n \in Nat : Agree(n)}
<1>1. 0 \in S
  BY DEF TwoToUpTo
<1>2. ASSUME NEW n \in Nat, n \in S
      PROVE  n + 1 \in S
  <2> SUFFICES ASSUME NEW k \in Nat, NEW l \in Nat, n + 1 =< k, n + 1 =< l,
                      NEW g \in TwoToUpTo(k), NEW h \in TwoToUpTo(l)
               PROVE  g[n + 1] = h[n + 1]
    OBVIOUS
  <2>1. g[n] = h[n]
    BY <1>2
  <2>2. n + 1 \in 0 .. k /\ n + 1 \in 0 .. l /\ n + 1 # 0 /\ (n + 1) - 1 = n
    OBVIOUS
  <2>3. g[n + 1] = 2 * g[n] /\ h[n + 1] = 2 * h[n]
    BY <2>2 DEF TwoToUpTo
  <2>4. QED
    BY <2>1, <2>3
<1>3. Nat \subseteq S
  <2> HIDE DEF S
  <2>1. QED
    BY <1>1, <1>2, FromZero
<1>4. QED
  BY <1>3

\* The function that TwoTo's definition describes is there.
LEMMA TwoToUnfolds ==
  TwoTo = [n \in Nat |-> IF n = 0 THEN 1 ELSE 2 * TwoTo[n - 1]]
<1> DEFINE c(n) == CHOOSE h : h \in TwoToUpTo(n)
           G == [n \in Nat |-> c(n)[n]]
<1>1. \A n \in Nat : c(n) \in TwoToUpTo(n)
  BY TwoToExists
<1> HIDE DEF c
<1>2. ASSUME NEW n \in Nat
      PROVE  G[n] = IF n = 0 THEN 1 ELSE 2 * G[n - 1]
  <2>1. c(n)[n] = IF n = 0 THEN 1 ELSE 2 * c(n)[n - 1]
    BY <1>1 DEF TwoToUpTo
  <2>2. ASSUME n # 0
        PROVE  c(n)[n - 1] = c(n - 1)[n - 1]
    <3>1. n - 1 \in Nat /\ n - 1 =< n /\ n - 1 =< n - 1
      BY <2>2
    <3>2. c(n) \in TwoToUpTo(n) /\ c(n - 1) \in TwoToUpTo(n - 1)
      BY <1>1, <3>1
    <3>3. QED
      BY <3>1, <3>2, TwoToUnique
  <2>3. n # 0 => n - 1 \in Nat
    OBVIOUS
  <2>4. QED
    BY <2>1, <2>2, <2>3
<1>3. G = [n \in Nat |-> IF n = 0 THEN 1 ELSE 2 * G[n - 1]]
  <2>1. G = [n \in Nat |-> G[n]]
    OBVIOUS
  <2> HIDE DEF G
  <2>2. QED
    BY <1>2, <2>1
<1> HIDE DEF G
<1>4. QED
  BY <1>3 DEF TwoTo

\* 1 << 0 is 1, and each further bit doubles it.
LEMMA TwoToSteps ==
  /\ TwoTo[0] = 1
  /\ \A n \in Nat : TwoTo[n + 1] = 2 * TwoTo[n]
  /\ \A n \in Nat : TwoTo[n] \in Nat /\ TwoTo[n] > 0
<1>1. TwoTo[0] = 1
  BY TwoToUnfolds
<1>2. \A n \in Nat : TwoTo[n + 1] = 2 * TwoTo[n]
  <2> TAKE n \in Nat
  <2>1. n + 1 \in Nat /\ n + 1 # 0 /\ (n + 1) - 1 = n
    OBVIOUS
  <2>2. QED
    BY <2>1, TwoToUnfolds
<1> DEFINE S == {n \in Nat : TwoTo[n] \in Nat /\ TwoTo[n] > 0}
<1>3. 0 \in S
  BY <1>1
<1>4. \A n \in Nat : n \in S => n + 1 \in S
  BY <1>2
<1>5. Nat \subseteq S
  <2> HIDE DEF S
  <2>1. QED
    BY <1>3, <1>4, FromZero
<1>6. QED
  BY <1>1, <1>2, <1>5

\* 1 << (m + k) is the product.
LEMMA TwoToSum ==
  \A m, k \in Nat : TwoTo[m + k] = TwoTo[k] * TwoTo[m]
<1> SUFFICES ASSUME NEW m \in Nat
             PROVE  \A k \in Nat : TwoTo[m + k] = TwoTo[k] * TwoTo[m]
  OBVIOUS
<1> DEFINE S == {k \in Nat : TwoTo[m + k] = TwoTo[k] * TwoTo[m]}
<1>1. 0 \in S
  BY TwoToSteps
<1>2. ASSUME NEW k \in Nat, k \in S
      PROVE  k + 1 \in S
  <2>1. m + k \in Nat /\ m + (k + 1) = (m + k) + 1
    OBVIOUS
  <2>2. TwoTo[m + (k + 1)] = 2 * TwoTo[m + k] /\ TwoTo[k + 1] = 2 * TwoTo[k]
    BY <2>1, TwoToSteps
  <2>3. TwoTo[m] \in Nat /\ TwoTo[k] \in Nat
    BY TwoToSteps
  <2>4. 2 * (TwoTo[k] * TwoTo[m]) = (2 * TwoTo[k]) * TwoTo[m]
    BY <2>3
  <2>5. QED
    BY <1>2, <2>2, <2>4
<1>3. Nat \subseteq S
  <2> HIDE DEF S
  <2>1. QED
    BY <1>1, <1>2, FromZero
<1>4. QED
  BY <1>3

\* A wider type holds what a narrower one does.
LEMMA TwoToGrows ==
  \A m, n \in Nat : m =< n => TwoTo[m] =< TwoTo[n]
<1> SUFFICES ASSUME NEW m \in Nat, NEW n \in Nat, m =< n
             PROVE  TwoTo[m] =< TwoTo[n]
  OBVIOUS
<1>1. n - m \in Nat /\ m + (n - m) = n
  OBVIOUS
<1>2. TwoTo[n] = TwoTo[n - m] * TwoTo[m]
  BY <1>1, TwoToSum
<1>3. TwoTo[m] \in Nat /\ TwoTo[n - m] \in Nat /\ TwoTo[n - m] >= 1
  BY <1>1, TwoToSteps
<1>4. QED
  BY <1>2, <1>3

\* There are fewer bits in a type than numbers.
LEMMA TwoToAbove ==
  \A n \in Nat : n < TwoTo[n]
<1> DEFINE S == {n \in Nat : n < TwoTo[n]}
<1>1. 0 \in S
  BY TwoToSteps
<1>2. \A n \in Nat : n \in S => n + 1 \in S
  BY TwoToSteps
<1>3. Nat \subseteq S
  <2> HIDE DEF S
  <2>1. QED
    BY <1>1, <1>2, FromZero
<1>4. QED
  BY <1>3

-----------------------------------------------------------------------------
(* The bits of a number. *)

BitOf(n, i) == (n \div TwoTo[i]) % 2

\* Adding a higher bit leaves the lower ones as they are, and sets itself.
LEMMA HigherBit ==
  ASSUME NEW k \in Nat, NEW n \in 0 .. TwoTo[k] - 1
  PROVE  /\ \A i \in 0 .. k - 1 : BitOf(n + TwoTo[k], i) = BitOf(n, i)
         /\ BitOf(n, k) = 0
         /\ BitOf(n + TwoTo[k], k) = 1
<1>1. TwoTo[k] \in Nat /\ TwoTo[k] > 0 /\ n \in Nat /\ n < TwoTo[k]
  BY TwoToSteps
<1>2. ASSUME NEW i \in 0 .. k - 1
      PROVE  BitOf(n + TwoTo[k], i) = BitOf(n, i)
  <2>1. /\ i \in Nat /\ k - i - 1 \in Nat /\ (k - i - 1) + 1 = k - i
        /\ k - i \in Nat /\ i + (k - i) = k
    OBVIOUS
  <2> DEFINE b == TwoTo[i]  h == TwoTo[k - i - 1]
  <2>2. b \in Nat /\ b > 0 /\ h \in Nat
    BY <2>1, TwoToSteps
  <2>3. TwoTo[k - i] = 2 * h
    BY <2>1, TwoToSteps
  <2>4. TwoTo[k] = TwoTo[k - i] * b
    BY <2>1, TwoToSum
  <2>5. TwoTo[k] = (2 * h) * b
    BY <2>3, <2>4
  <2> HIDE DEF b, h
  <2>6. (n + (2 * h) * b) \div b = n \div b + 2 * h
    BY <1>1, <2>2
  <2>7. n \div b \in Nat
    BY <1>1, <2>2
  <2>8. (n \div b + 2 * h) % 2 = (n \div b) % 2
    BY <2>2, <2>7
  <2>9. QED
    BY <2>5, <2>6, <2>8 DEF BitOf, b
<1>3. n \div TwoTo[k] = 0 /\ (n + TwoTo[k]) \div TwoTo[k] = 1
  BY <1>1
<1>4. QED
  BY <1>2, <1>3 DEF BitOf

\* Each set of bits is the bits of a number.
LEMMA BitsAreNumbers ==
  \A k \in Nat : \A bits \in SUBSET (0 .. k - 1) :
    \E n \in 0 .. TwoTo[k] - 1 : \A i \in 0 .. k - 1 : BitOf(n, i) = 1 <=> i \in bits
<1> DEFINE Is(n, k, bits) == \A i \in 0 .. k - 1 : BitOf(n, i) = 1 <=> i \in bits
           S == {k \in Nat : \A bits \in SUBSET (0 .. k - 1) :
                               \E n \in 0 .. TwoTo[k] - 1 : Is(n, k, bits)}
<1>1. 0 \in S
  <2>1. 0 \in 0 .. TwoTo[0] - 1
    BY TwoToSteps
  <2>2. QED
    BY <2>1
<1>2. ASSUME NEW k \in Nat, k \in S
      PROVE  k + 1 \in S
  <2> SUFFICES ASSUME NEW bits \in SUBSET (0 .. (k + 1) - 1)
               PROVE  \E n \in 0 .. TwoTo[k + 1] - 1 : Is(n, k + 1, bits)
    OBVIOUS
  <2>1. bits \ {k} \in SUBSET (0 .. k - 1)
    OBVIOUS
  <2>2. PICK n \in 0 .. TwoTo[k] - 1 : Is(n, k, bits \ {k})
    BY <1>2, <2>1
  <2>3. /\ \A i \in 0 .. k - 1 : BitOf(n + TwoTo[k], i) = BitOf(n, i)
        /\ BitOf(n, k) = 0
        /\ BitOf(n + TwoTo[k], k) = 1
    BY HigherBit
  <2>4. TwoTo[k + 1] = 2 * TwoTo[k] /\ TwoTo[k] \in Nat
    BY TwoToSteps
  <2>5. \A i \in 0 .. (k + 1) - 1 : i = k \/ (i \in 0 .. k - 1 /\ i # k)
    OBVIOUS
  <2>6. CASE k \in bits
    <3>1. Is(n + TwoTo[k], k + 1, bits)
      BY <2>2, <2>3, <2>5, <2>6
    <3>2. n + TwoTo[k] \in 0 .. TwoTo[k + 1] - 1
      BY <2>4
    <3>3. QED
      BY <3>1, <3>2
  <2>7. CASE k \notin bits
    <3>1. Is(n, k + 1, bits)
      BY <2>2, <2>3, <2>5, <2>7
    <3>2. n \in 0 .. TwoTo[k + 1] - 1
      BY <2>4
    <3>3. QED
      BY <3>1, <3>2
  <2>8. QED
    BY <2>6, <2>7
<1>3. Nat \subseteq S
  <2> HIDE DEF S
  <2>1. QED
    BY <1>1, <1>2, FromZero
<1>4. QED
  BY <1>3

\* The widths.
LEMMA Widths ==
  /\ LongBits \in Nat /\ IdxBits \in Nat /\ ValueBits \in Nat
  /\ 2 =< IdxBits /\ IdxBits =< LongBits /\ 1 =< ValueBits /\ ValueBits =< LongBits
BY WidthAssumption

\* Number gives a value_t's number, which has the bits of the value_t.
LEMMA NumberOfBits ==
  ASSUME NEW bits \in SUBSET Word
  PROVE  Number(bits) \in 0 .. TwoTo[ValueBits] - 1 /\ Bits(Number(bits)) = bits
<1>1. PICK n \in 0 .. TwoTo[ValueBits] - 1 :
        \A i \in 0 .. ValueBits - 1 : BitOf(n, i) = 1 <=> i \in bits
  BY Widths, BitsAreNumbers DEF Word
<1>2. Bits(n) = bits
  BY <1>1 DEF Bits, BitOf, Word
<1>3. QED
  BY <1>2 DEF Number

\* 0 is the only number of a value_t that has no bits.
LEMMA NoBits ==
  ASSUME NEW n \in 0 .. TwoTo[ValueBits] - 1
  PROVE  Bits(n) = {} <=> n = 0
<1>1. ASSUME n = 0
      PROVE  Bits(n) = {}
  <2>1. \A i \in Word : TwoTo[i] \in Nat /\ TwoTo[i] > 0
    BY TwoToSteps DEF Word
  <2>2. \A i \in Word : n \div TwoTo[i] = 0
    BY <1>1, <2>1
  <2>3. QED
    BY <2>2 DEF Bits
<1>2. ASSUME n # 0
      PROVE  Bits(n) # {}
  <2> DEFINE S == {k \in Nat : k =< ValueBits => TwoTo[k] =< n}
  <2>1. n \in Nat /\ TwoTo[ValueBits] \in Nat /\ n < TwoTo[ValueBits] /\ ValueBits \in Nat
    BY Widths, TwoToSteps
  <2>2. 0 \in S
    BY <1>2, <2>1, TwoToSteps
  <2>3. ValueBits \notin S
    BY <2>1
  <2>4. ~ Nat \subseteq S
    BY <2>1, <2>3
  <2>5. PICK k \in Nat : k \in S /\ k + 1 \notin S
    <3> HIDE DEF S
    <3>1. QED
      BY <2>2, <2>4, FromZero
  <2>6. k + 1 =< ValueBits /\ TwoTo[k] =< n /\ ~(TwoTo[k + 1] =< n)
    BY <2>1, <2>5
  <2>7. TwoTo[k] \in Nat /\ TwoTo[k] > 0 /\ TwoTo[k + 1] = 2 * TwoTo[k]
    BY TwoToSteps
  <2>8. n \div TwoTo[k] = 1
    BY <2>1, <2>6, <2>7
  <2>9. k \in Word
    BY <2>1, <2>6 DEF Word
  <2>10. k \in Bits(n)
    BY <2>8, <2>9 DEF Bits
  <2>11. QED
    BY <2>10
<1>3. QED
  BY <1>1, <1>2

-----------------------------------------------------------------------------
(* strtoul and strtol. *)

\* strtoul reads the numbers of an unsigned long.
LEMMA StrtoulExact ==
  ASSUME NEW f \in Field, f.num \in 0 .. TwoTo[LongBits] - 1
  PROVE  Strtoul(f) = f.num
<1>1. TwoTo[LongBits] \in Nat /\ TwoTo[LongBits] > 0
  BY Widths, TwoToSteps
<1>2. f.num \in Nat /\ f.num < TwoTo[LongBits] /\ ~(f.num <= -TwoTo[LongBits])
  BY <1>1
<1>3. f.num % TwoTo[LongBits] = f.num
  BY <1>1, <1>2
<1>4. QED
  BY <1>1, <1>2, <1>3 DEF Strtoul

\* A number of a value_t is one of an unsigned long.
LEMMA ValuesAreLong ==
  0 .. TwoTo[ValueBits] - 1 \subseteq 0 .. TwoTo[LongBits] - 1
<1>1. TwoTo[ValueBits] =< TwoTo[LongBits]
  BY Widths, TwoToGrows
<1>2. TwoTo[ValueBits] \in Nat /\ TwoTo[LongBits] \in Nat
  BY Widths, TwoToSteps
<1>3. QED
  BY <1>1, <1>2

\* What the page puts into a URI is what parse_value makes of it: every value_t
\* survives its number and strtoul, for every width of the types.
THEOREM ValueSurvives ==
  \A bits \in SUBSET Word : Bits(Strtoul(Num(Number(bits)))) = bits
<1> SUFFICES ASSUME NEW bits \in SUBSET Word
             PROVE  Bits(Strtoul(Num(Number(bits)))) = bits
  OBVIOUS
<1>1. Number(bits) \in 0 .. TwoTo[LongBits] - 1 /\ Bits(Number(bits)) = bits
  BY NumberOfBits, ValuesAreLong
<1>2. Num(Number(bits)) \in Field /\ Num(Number(bits)).num = Number(bits)
  BY <1>1 DEF Num, Field
<1>3. Strtoul(Num(Number(bits))) = Number(bits)
  BY <1>1, <1>2, StrtoulExact
<1>4. QED
  BY <1>1, <1>3

\* The numbers of an idx_t.
Indices == -TwoTo[IdxBits - 1] .. TwoTo[IdxBits - 1] - 1

\* Half the width of an idx_t, and of a long; both are even.
LEMMA Tops ==
  /\ TwoTo[IdxBits] = 2 * TwoTo[IdxBits - 1]
  /\ TwoTo[IdxBits - 1] \in Nat /\ TwoTo[LongBits - 1] \in Nat
  /\ TwoTo[IdxBits - 1] =< TwoTo[LongBits - 1]
  /\ \E h \in Nat : h > 0 /\ TwoTo[IdxBits - 1] = 2 * h
<1>1. /\ IdxBits - 1 \in Nat /\ LongBits - 1 \in Nat /\ IdxBits - 2 \in Nat
      /\ (IdxBits - 1) + 1 = IdxBits /\ (IdxBits - 2) + 1 = IdxBits - 1
      /\ IdxBits - 1 =< LongBits - 1
  BY Widths
<1>2. QED
  BY <1>1, TwoToSteps, TwoToGrows

\* A long is cut to the idx_t of the same low bits.
LEMMA CutToIdx ==
  ASSUME NEW long \in Int, NEW low, low = long % TwoTo[IdxBits],
         NEW idx, idx = IF low >= TwoTo[IdxBits - 1] THEN low - TwoTo[IdxBits] ELSE low
  PROVE  idx \in Indices /\ (long \in Indices => idx = long)
<1> DEFINE top == TwoTo[IdxBits - 1]
<1>1. top \in Nat /\ top > 0 /\ TwoTo[IdxBits] = 2 * top
  BY Tops
<1>2. low = long % (2 * top) /\ idx = IF low >= top THEN low - 2 * top ELSE low
  BY <1>1
<1> HIDE DEF top
<1>3. low \in 0 .. 2 * top - 1
  BY <1>1, <1>2
<1>4. idx \in -top .. top - 1
  BY <1>1, <1>2, <1>3
<1>5. ASSUME long \in 0 .. top - 1
      PROVE  low = long
  BY <1>1, <1>2, <1>5
<1>6. ASSUME long \in -top .. -1
      PROVE  low = long + 2 * top
  <2> DEFINE m == 2 * top
             q == long \div m
  <2>1. m \in Nat /\ m > 0 /\ -m < long /\ long < 0 /\ long \in Int
    BY <1>1, <1>6
  <2> HIDE DEF m
  <2>2. q \in Int /\ m * q =< long /\ long < m * (q + 1) /\ long % m = long - m * q
    BY <2>1
  <2> HIDE DEF q
  <2>3. q = -1
    <3>1. ASSUME q >= 0 PROVE FALSE
      <4>1. m * q >= 0
        BY <2>1, <2>2, <3>1
      <4>2. QED
        BY <2>1, <2>2, <4>1
    <3>2. ASSUME q =< -2 PROVE FALSE
      <4>1. m * (q + 1) =< -m
        BY <2>1, <2>2, <3>2
      <4>2. QED
        BY <2>1, <2>2, <4>1
    <3>3. QED
      BY <2>2, <3>1, <3>2
  <2>4. QED
    BY <1>2, <2>1, <2>2, <2>3 DEF m
<1>7. ASSUME long \in -top .. top - 1
      PROVE  idx = long
  BY <1>1, <1>2, <1>5, <1>6, <1>7
<1>8. QED
  BY <1>4, <1>7 DEF Indices, top

\* strtol gives an index whatever it is given, and what the field says if that
\* is an index.
LEMMA StrtolExact ==
  ASSUME NEW f \in Field
  PROVE  Strtol(f) \in Indices /\ (f.num \in Indices => Strtol(f) = f.num)
<1> DEFINE top  == TwoTo[LongBits - 1]
           long == IF f.num < -top THEN -top ELSE IF f.num >= top THEN top - 1 ELSE f.num
           low  == long % TwoTo[IdxBits]
           idx  == IF low >= TwoTo[IdxBits - 1] THEN low - TwoTo[IdxBits] ELSE low
<1>1. f.num \in Int
  BY DEF Field
<1>2. top \in Nat /\ TwoTo[IdxBits - 1] \in Nat /\ TwoTo[IdxBits - 1] =< top
  BY Tops
<1>3. long \in Int /\ (f.num \in Indices => long = f.num)
  BY <1>1, <1>2 DEF Indices
<1>4. Strtol(f) = idx
  BY DEF Strtol
<1> HIDE DEF long
<1>5. idx \in Indices /\ (long \in Indices => idx = long)
  BY <1>3, CutToIdx
<1>6. QED
  BY <1>3, <1>4, <1>5

\* Where a long is as wide as an idx_t, any other number becomes the lowest or
\* the highest index.
LEMMA StrtolSaturates ==
  ASSUME NEW f \in Field, IdxBits = LongBits, f.num \notin Indices
  PROVE  Strtol(f) \in {-TwoTo[IdxBits - 1], TwoTo[IdxBits - 1] - 1}
<1> DEFINE top  == TwoTo[LongBits - 1]
           long == IF f.num < -top THEN -top ELSE IF f.num >= top THEN top - 1 ELSE f.num
           low  == long % TwoTo[IdxBits]
           idx  == IF low >= TwoTo[IdxBits - 1] THEN low - TwoTo[IdxBits] ELSE low
<1>1. f.num \in Int
  BY DEF Field
<1>2. top \in Nat /\ top > 0 /\ top = TwoTo[IdxBits - 1]
  BY Tops
<1>3. long \in {-top, top - 1} /\ long \in Indices
  BY <1>1, <1>2 DEF Indices
<1>4. Strtol(f) = idx
  BY DEF Strtol
<1> HIDE DEF long
<1>5. idx = long
  BY <1>3, CutToIdx DEF Indices
<1>6. QED
  BY <1>2, <1>3, <1>4, <1>5

\* A field that gives the index of the PiFace or of its bus, or of no sub-device,
\* says so: its number is that one, unless a long is wider than an idx_t and the
\* number past an idx_t.
THEOREM IndexAsWritten ==
  ASSUME NEW f \in Field, IdxBits = LongBits \/ f.num \in Indices,
         Strtol(f) \in {IDX_INVALID, 0, 2}
  PROVE  f.num = Strtol(f)
<1>1. CASE f.num \in Indices
  BY <1>1, StrtolExact
<1>2. CASE f.num \notin Indices
  <2>1. Strtol(f) \in {-TwoTo[IdxBits - 1], TwoTo[IdxBits - 1] - 1}
    BY <1>2, StrtolSaturates
  <2>2. \E h \in Nat : h > 0 /\ TwoTo[IdxBits - 1] = 2 * h
    BY Tops
  <2>3. QED
    BY <2>1, <2>2 DEF IDX_INVALID
<1>3. QED
  BY <1>1, <1>2
================================================================================
