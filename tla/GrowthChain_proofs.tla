------------------------- MODULE GrowthChain_proofs -------------------------
(* The growth policies meet the contract that the engine assumes of them,  *)
(* for every word width, factor and table of primes; and what follows for  *)
(* the bucket count of a table.                                            *)
EXTENDS GrowthChain, Foundations

-----------------------------------------------------------------------------
(* Powers of two. *)

Exponents == 0 .. Precision + WordBits + 8

LEMMA Doubled == Precision + WordBits + 8 \in Nat /\ Doubling(Precision + WordBits + 8)
<1>1. /\ Precision + WordBits + 8 \in Nat
      /\ (Precision + WordBits + 8) - 1 = Precision + WordBits + 7
  BY WordAssumption, PrecisionAssumption
<1> QED
  BY <1>1, PowerLaw DEF Doubling

LEMMA PowerSum ==
  ASSUME NEW i \in Nat, NEW j \in Nat, i + j \in Exponents
  PROVE  2 ^ (i + j) = 2 ^ i * 2 ^ j
BY Doubled, DoublingSum DEF Exponents

LEMMA PowerPositive ==
  ASSUME NEW k \in Exponents
  PROVE  2 ^ k \in Nat \ {0}
BY Doubled, DoublingPositive DEF Exponents

LEMMA PowersDivide ==
  ASSUME NEW i \in Exponents, NEW j \in Exponents, i <= j
  PROVE  \E c \in Nat \ {0} : 2 ^ j = c * 2 ^ i /\ (i < j => c >= 2)
BY Doubled, DoublingDivides DEF Exponents

LEMMA PowersGrow ==
  ASSUME NEW i \in Exponents, NEW j \in Exponents
  PROVE  /\ i < j => 2 * 2 ^ i <= 2 ^ j
         /\ i <= j => 2 ^ i <= 2 ^ j
BY Doubled, DoublingGrows DEF Exponents

-----------------------------------------------------------------------------
(* Words and vectors. *)

LEMMA Words ==
  /\ PowerOfTwoMax = 2 ^ (WordBits - 1) /\ PowerOfTwoMax \in Nat /\ PowerOfTwoMax >= 2
  /\ WordMax = 2 * PowerOfTwoMax - 1 /\ VectorMax = PowerOfTwoMax - 1
<1> DEFINE p == 2 ^ (WordBits - 1)
<1>1. /\ WordBits - 1 \in 0 .. Precision + WordBits + 7 /\ (WordBits - 1) + 1 = WordBits
      /\ WordBits - 1 \in Exponents /\ 0 \in Exponents /\ 0 < WordBits - 1
  BY WordAssumption, PrecisionAssumption DEF Exponents
<1>2. 2 ^ ((WordBits - 1) + 1) = 2 * p
  BY <1>1, PowerLaw
<1>3. 2 ^ WordBits = 2 * p
  BY <1>1, <1>2
<1>4. p \in Nat /\ p >= 2
  <2>1. 2 ^ 0 = 1
    OBVIOUS
  <2>2. p \in Nat \ {0} /\ 2 * 2 ^ 0 <= p
    BY <1>1, PowerPositive, PowersGrow
  <2> HIDE DEF p
  <2> QED
    BY <2>1, <2>2
<1> HIDE DEF p
<1>5. WordMax = 2 * p - 1
  BY <1>3 DEF WordMax
<1>6. (2 * p - 1) \div 2 = p - 1
  BY <1>4
<1> QED
  BY <1>4, <1>5, <1>6 DEF PowerOfTwoMax, VectorMax, p

LEMMA Sizes ==
  /\ PowerOfTwoMax \in Nat /\ PowerOfTwoMax >= 2
  /\ WordMax = 2 * PowerOfTwoMax - 1 /\ WordMax \in Nat
  /\ VectorMax = PowerOfTwoMax - 1 /\ VectorMax \in Nat
  /\ VectorMax < WordMax /\ PowerOfTwoMax <= WordMax
BY Words

-----------------------------------------------------------------------------
(* PowerOfTwo *)

LEMMA PowersOK ==
  /\ \A p \in PowersOfTwo : p \in Nat /\ 1 <= p /\ p <= PowerOfTwoMax
  /\ PowerOfTwoMax \in PowersOfTwo /\ 1 \in PowersOfTwo
<1>1. /\ WordBits - 1 \in 0 .. WordBits - 1 /\ 0 \in 0 .. WordBits - 1
      /\ \A k \in 0 .. WordBits - 1 :
           k \in Exponents /\ WordBits - 1 \in Exponents /\ k <= WordBits - 1
  BY WordAssumption, PrecisionAssumption DEF Exponents
<1>2. \A k \in 0 .. WordBits - 1 : 2 ^ k \in Nat \ {0} /\ 2 ^ k <= 2 ^ (WordBits - 1)
  BY <1>1, PowerPositive, PowersGrow
<1>3. 2 ^ 0 = 1
  OBVIOUS
<1>4. \A p \in PowersOfTwo : p \in Nat /\ 1 <= p /\ p <= PowerOfTwoMax
  BY <1>2, Words DEF PowersOfTwo
<1>5. 2 ^ (WordBits - 1) \in PowersOfTwo /\ 2 ^ 0 \in PowersOfTwo
  BY <1>1 DEF PowersOfTwo
<1> QED
  BY <1>3, <1>4, <1>5, Words

(* An odd number that divides a power of two is 1.                         *)
LEMMA OddDivisor ==
  ASSUME NEW p \in PowersOfTwo
  PROVE  \A d \in 1 .. p : p % d = 0 => d = 1 \/ d % 2 = 0
<1> DEFINE Bad == { k \in 0 .. WordBits - 1 :
                     \E d \in Nat \ {0} : Divides(d, 2 ^ k) /\ d # 1 /\ d % 2 = 1 }
<1>1. SUFFICES Bad = {}
  <2>1. PICK k \in 0 .. WordBits - 1 : p = 2 ^ k
    BY DEF PowersOfTwo
  <2>2. p \in Nat
    BY PowersOK
  <2>3. ASSUME NEW d \in 1 .. p, p % d = 0, ~ (d = 1 \/ d % 2 = 0)
        PROVE  k \in Bad
    <3>1. d \in Nat \ {0} /\ d # 1 /\ d % 2 = 1
      BY <2>2, <2>3
    <3>2. Divides(d, p)
      BY <2>2, <2>3, <3>1, ModZero
    <3> QED
      BY <2>1, <3>1, <3>2
  <2> QED
    BY <2>3
<1>2. SUFFICES ASSUME Bad # {}
               PROVE  FALSE
  OBVIOUS
<1>3. PICK k \in Bad : \A j \in Bad : k <= j
  <2>1. Bad \subseteq Nat
    OBVIOUS
  <2> HIDE DEF Bad
  <2> QED
    BY <1>2, <2>1, LeastNatural
<1>4. PICK d \in Nat \ {0} : Divides(d, 2 ^ k) /\ d # 1 /\ d % 2 = 1
  OBVIOUS
<1>5. PICK q \in Int : 2 ^ k = d * q
  BY <1>4 DEF Divides
<1>6. k # 0
  <2> SUFFICES ASSUME k = 0
               PROVE  FALSE
    OBVIOUS
  <2>1. d * q = 1 /\ d >= 2
    <3>1. 2 ^ 0 = 1
      OBVIOUS
    <3> QED
      BY <1>4, <1>5, <3>1
  <2>2. q <= 0 \/ q >= 1
    OBVIOUS
  <2>3. CASE q <= 0
    <3>1. d * (0 - q) \in Nat /\ d * (0 - q) = 0 - d * q
      BY <2>3, NatProduct
    <3> QED
      BY <2>1, <3>1
  <2>4. CASE q >= 1
    <3>1. d * (q - 1) \in Nat /\ d * q = d + d * (q - 1)
      BY <2>4, NatProduct
    <3> QED
      BY <2>1, <3>1
  <2> QED
    BY <2>2, <2>3, <2>4
<1>7. /\ k \in 0 .. WordBits - 1 /\ k - 1 \in 0 .. WordBits - 1
      /\ k - 1 \in 0 .. Precision + WordBits + 7
      /\ (k - 1) + 1 = k /\ k - 1 \in Exponents
  BY <1>6, WordAssumption, PrecisionAssumption DEF Exponents
<1> DEFINE a == 2 ^ (k - 1)
<1>8. 2 ^ k = 2 * a
  <2>1. 2 ^ ((k - 1) + 1) = 2 * 2 ^ (k - 1)
    BY <1>7, PowerLaw
  <2> QED
    BY <1>7, <2>1
<1>9. a \in Nat
  BY <1>7, PowerPositive
<1> HIDE DEF a
(* d is odd and d * q is even, so q is even and d divides the smaller power. *)
<1>10. q = 2 * (q \div 2)
  <2> SUFFICES ASSUME q # 2 * (q \div 2)
               PROVE  FALSE
    OBVIOUS
  <2> DEFINE s == q \div 2
             e == d \div 2
  <2>1. s \in Int /\ q = 2 * s + 1
    OBVIOUS
  <2>2. e \in Nat /\ d = 2 * e + 1
    BY <1>4
  <2> HIDE DEF s, e
  <2>3. d * q = 2 * (2 * (e * s) + e + s) + 1
    BY <2>1, <2>2
  <2>4. 2 * (e * s) + e + s \in Int
    BY <2>1, <2>2
  <2> DEFINE z == 2 * (e * s) + e + s
  <2>5. 2 * a = 2 * z + 1 /\ z \in Int
    BY <1>5, <1>8, <2>3, <2>4
  <2> HIDE DEF z
  <2> QED
    BY <1>9, <2>5
<1>11. Divides(d, a)
  <2> DEFINE s == q \div 2
             w == d * s
  <2>1. s \in Int /\ q = 2 * s
    BY <1>10
  <2> HIDE DEF s
  <2>2. w \in Int /\ d * q = 2 * w
    BY <2>1
  <2> HIDE DEF w
  <2>3. a = w
    BY <1>5, <1>8, <1>9, <2>2
  <2> QED
    BY <2>1, <2>3 DEF Divides, w
<1>12. k - 1 \in Bad
  BY <1>4, <1>7, <1>11 DEF a
<1> QED
  BY <1>3, <1>7, <1>12

LEMMA RoundUpOK ==
  ASSUME NEW value \in Nat, value <= PowerOfTwoMax
  PROVE  /\ RoundUpToPowerOfTwo(value) \in PowersOfTwo
         /\ RoundUpToPowerOfTwo(value) >= value
         /\ \A q \in PowersOfTwo : q >= value => RoundUpToPowerOfTwo(value) <= q
<1> DEFINE S == { p \in PowersOfTwo : p >= value }
<1>1. S \subseteq Nat /\ S # {}
  BY PowersOK, Sizes
<1>2. \E p \in S : \A q \in S : p <= q
  <2> HIDE DEF S
  <2> QED
    BY <1>1, LeastNatural
<1>3. \E p \in PowersOfTwo : p >= value /\ \A q \in PowersOfTwo : q >= value => p <= q
  BY <1>2
<1> QED
  BY <1>3 DEF RoundUpToPowerOfTwo

(* A power of two is not rounded up.                                       *)
LEMMA RoundUpFixed ==
  ASSUME NEW p \in PowersOfTwo
  PROVE  RoundUpToPowerOfTwo(p) = p
<1>1. p \in Nat /\ p <= PowerOfTwoMax
  BY PowersOK
<1> DEFINE r == RoundUpToPowerOfTwo(p)
<1>2. r \in PowersOfTwo /\ r >= p /\ (p >= p => r <= p)
  BY <1>1, RoundUpOK
<1> HIDE DEF r
<1>3. r \in Nat
  BY <1>2, PowersOK
<1>4. r = p
  BY <1>1, <1>2, <1>3
<1> QED
  BY <1>4 DEF r

LEMMA PowerOfTwoNewOK ==
  ASSUME NEW min \in Requested
  PROVE  \/ PowerOfTwoNew(min) = LengthError
         \/ /\ PowerOfTwoNew(min) \in {0} \cup PowersOfTwo
            /\ PowerOfTwoNew(min) \in min .. WordMax
            /\ min > 0 => PowerOfTwoNew(min) > 0
<1>1. min \in Nat
  BY Sizes DEF Requested
<1>2. CASE min > PowerOfTwoMax
  BY <1>2 DEF PowerOfTwoNew
<1>3. CASE min <= PowerOfTwoMax
  <2> DEFINE r == RoundUpToPowerOfTwo(min)
  <2>1. r \in PowersOfTwo /\ r \in min .. WordMax
    <3>1. r \in PowersOfTwo /\ r >= min
      BY <1>1, <1>3, RoundUpOK
    <3> HIDE DEF r
    <3>2. r \in Nat /\ r <= PowerOfTwoMax
      BY <3>1, PowersOK
    <3> QED
      BY <1>1, <3>1, <3>2, Sizes
  <2>2. ~ (min > PowerOfTwoMax)
    BY <1>1, <1>3, Sizes
  <2> QED
    BY <1>1, <2>1, <2>2, Sizes DEF PowerOfTwoNew
<1> QED
  BY <1>1, <1>2, <1>3, Sizes

LEMMA PowerOfTwoNextOK ==
  ASSUME NEW n \in Nat
  PROVE  \/ PowerOfTwoNext(n) = LengthError
         \/ PowerOfTwoNext(n) \in n + 1 .. WordMax /\ PowerOfTwoNext(n) >= 2 * n
<1> DEFINE m == Larger(n, 1)
<1>1. m \in Nat \ {0} /\ m >= n
  BY DEF Larger
<1>2. Factor \in Nat /\ Factor >= 2
  <2>1. PICK k \in 1 .. WordBits - 1 : Factor = 2 ^ k
    BY FactorAssumption
  <2>2. k \in Exponents /\ 0 \in Exponents /\ 0 < k
    BY WordAssumption, PrecisionAssumption DEF Exponents
  <2>3. 2 ^ k \in Nat \ {0} /\ 2 * 2 ^ 0 <= 2 ^ k /\ 2 ^ 0 = 1
    BY <2>2, PowerPositive, PowersGrow
  <2> QED
    BY <2>1, <2>3
<1> DEFINE q == PowerOfTwoMax \div Factor
<1> HIDE DEF m
<1>5. q \in Nat
  BY <1>2, Sizes, DivMod
<1>3. CASE m > q
  BY <1>3 DEF PowerOfTwoNext, m
<1>4. CASE m <= q
  <2>1. Factor * m <= PowerOfTwoMax
    BY <1>1, <1>2, <1>4, Sizes, Quotient
  <2>2. (Factor - 2) * m \in Nat /\ Factor * m = 2 * m + (Factor - 2) * m
        /\ m * Factor = Factor * m
    BY <1>1, <1>2, NatProduct
  <2>3. m * Factor \in n + 1 .. WordMax /\ m * Factor >= 2 * n
    BY <1>1, <2>1, <2>2, Sizes
  <2>4. ~ (m > q)
    <3> HIDE DEF q
    <3> QED
      BY <1>1, <1>4, <1>5
  <2> QED
    BY <2>3, <2>4 DEF PowerOfTwoNext, m
<1> HIDE DEF q
<1> QED
  BY <1>1, <1>3, <1>4, <1>5

-----------------------------------------------------------------------------
(* Mod *)

LEMMA ModMaxOK == ModMax \in Nat /\ 1 <= ModMax /\ ModMax <= WordMax
<1> DEFINE x == WordMax * Den
<1>1. /\ Num \in Nat /\ Den \in Nat /\ WordMax \in Nat /\ Den >= 1 /\ Num <= WordMax
      /\ 10 * Num >= 11 * Den /\ Num > Den
  BY FactorAssumption, Sizes
<1>2. x \in Nat /\ WordMax * 1 <= x
  <2>1. WordMax * (Den - 1) \in Nat /\ x = WordMax + WordMax * (Den - 1)
    BY <1>1, NatProduct
  <2> QED
    BY <1>1, <2>1
<1>3. x < Num * (WordMax + 1)
  <2>1. (Num - Den) * WordMax \in Nat
    BY <1>1, NatProduct
  <2>2. Num * (WordMax + 1) = x + (Num - Den) * WordMax + Num
    BY <1>1
  <2> QED
    BY <1>1, <1>2, <2>1, <2>2
<1> HIDE DEF x
<1>4. x \div Num \in Nat
  BY <1>1, <1>2, DivMod
<1>5. 1 <= x \div Num
  BY <1>1, <1>2, Quotient
<1>6. ~ (WordMax + 1 <= x \div Num)
  <2>1. WordMax + 1 \in Nat /\ Num \in Nat \ {0} /\ ~ (Num * (WordMax + 1) <= x)
    BY <1>1, <1>2, <1>3
  <2> QED
    BY <1>2, <2>1, Quotient
<1> DEFINE q == x \div Num
<1> HIDE DEF q
<1>7. q \in Nat /\ 1 <= q /\ q <= WordMax
  BY <1>1, <1>4, <1>5, <1>6 DEF q
<1> QED
  BY <1>7 DEF ModMax, q, x

LEMMA ModNewOK ==
  ASSUME NEW min \in Requested
  PROVE  ModNew(min) = LengthError \/ (ModNew(min) = min /\ min <= ModMax)
BY ModMaxOK, Sizes DEF ModNew, Requested

(* The quotient is rounded up, and the factor is at least 1.1.             *)
LEMMA ModProduct ==
  ASSUME NEW m \in Nat \ {0}
  PROVE  /\ (m * Num + Den - 1) \div Den \in Nat
         /\ 11 * m <= 10 * ((m * Num + Den - 1) \div Den)
         /\ m < (m * Num + Den - 1) \div Den
<1> DEFINE x == m * Num + Den - 1
           q == x \div Den
           r == x % Den
<1>1. /\ Num \in Nat /\ Den \in Nat \ {0} /\ 10 * Num >= 11 * Den
  BY FactorAssumption, Sizes
<1>2. m * Num \in Nat /\ x \in Nat
  BY <1>1, NatProduct
<1>3. q \in Nat /\ r \in 0 .. Den - 1 /\ x = Den * q + r
  <2> HIDE DEF x
  <2> QED
    BY <1>1, <1>2, DivMod
<1> HIDE DEF q, r
<1>4. m * Num <= Den * q /\ Den * q \in Nat
  <2>1. Den * q \in Nat
    BY <1>1, <1>3, NatProduct
  <2> QED
    BY <1>1, <1>2, <1>3, <2>1
<1>5. Den * (11 * m) <= Den * (10 * q)
  <2>1. m * (10 * Num - 11 * Den) \in Nat
    BY <1>1, NatProduct
  <2>2. m * (10 * Num - 11 * Den) = 10 * (m * Num) - Den * (11 * m)
    BY <1>1
  <2>3. Den * (10 * q) = 10 * (Den * q)
    BY <1>1, <1>3
  <2>4. Den * (11 * m) \in Nat
    BY <1>1, NatProduct
  <2> QED
    BY <1>2, <1>4, <2>1, <2>2, <2>3, <2>4
<1>6. 11 * m <= 10 * q
  <2> SUFFICES ASSUME 10 * q < 11 * m
               PROVE  FALSE
    BY <1>3
  <2> DEFINE a == Den * (10 * q)
             b == Den * (11 * m)
  <2>1. a + Den <= b
    BY <1>1, <1>3, MultiplesApart
  <2>2. a \in Nat /\ b \in Nat /\ b <= a
    BY <1>1, <1>3, <1>5, NatProduct
  <2> HIDE DEF a, b
  <2> QED
    BY <1>1, <2>1, <2>2
<1>7. m < q
  BY <1>3, <1>6
<1> QED
  BY <1>3, <1>6, <1>7 DEF q, x

LEMMA ModNextOK ==
  ASSUME NEW n \in Nat, n <= ModMax
  PROVE  \/ ModNext(n) = LengthError
         \/ /\ ModNext(n) \in n + 1 .. WordMax
            /\ 10 * ModNext(n) >= 11 * n \/ ModNext(n) = ModMax
<1> DEFINE m == Larger(n, 1)
           next == (m * Num + Den - 1) \div Den
<1>1. m \in Nat \ {0} /\ m >= n /\ m <= ModMax
  BY ModMaxOK DEF Larger
<1> HIDE DEF m
<1>2. next \in Nat /\ 11 * m <= 10 * next /\ m < next
  BY <1>1, ModProduct
<1>3. ModNext(n) = IF m = ModMax THEN LengthError ELSE IF next > ModMax THEN ModMax ELSE next
  BY DEF ModNext, m
<1> HIDE DEF next
<1>4. m # ModMax => ModMax \in n + 1 .. WordMax
  BY <1>1, ModMaxOK, Sizes
<1>5. next <= ModMax => next \in n + 1 .. WordMax /\ 10 * next >= 11 * n
  BY <1>1, <1>2, ModMaxOK, Sizes
<1>6. next > ModMax \/ next <= ModMax
  BY <1>2, ModMaxOK
<1> QED
  BY <1>2, <1>3, <1>4, <1>5, <1>6

-----------------------------------------------------------------------------
(* Prime *)

LEMMA PrimesOK ==
  /\ Len(PrimesTable) \in Nat \ {0} /\ DOMAIN PrimesTable = 1 .. Len(PrimesTable)
  /\ \A i \in 1 .. Len(PrimesTable) : PrimesTable[i] \in Nat /\ PrimesTable[i] <= WordMax
  /\ \A i \in 1 .. Len(PrimesTable) : PrimesTable[i] >= 1
  /\ \A i, j \in 1 .. Len(PrimesTable) :
       i < j => PrimesTable[i] < PrimesTable[j] /\ 11 * PrimesTable[i] <= 10 * PrimesTable[j]
<1>1. /\ PrimesTable \in Seq(0 .. WordMax) /\ PrimesTable # <<>> /\ PrimesTable[1] = 1
      /\ \A i, j \in DOMAIN PrimesTable :
           i < j => PrimesTable[i] < PrimesTable[j]
                    /\ 11 * PrimesTable[i] <= 10 * PrimesTable[j]
  BY PrimesAssumption
<1>2. Len(PrimesTable) \in Nat \ {0} /\ DOMAIN PrimesTable = 1 .. Len(PrimesTable)
  BY <1>1
<1>3. \A i \in 1 .. Len(PrimesTable) : PrimesTable[i] \in Nat /\ PrimesTable[i] <= WordMax
  BY <1>1, <1>2, Sizes
<1>4. ASSUME NEW i \in 1 .. Len(PrimesTable)
      PROVE  PrimesTable[i] >= 1
  BY <1>1, <1>2, <1>3
<1> QED
  BY <1>1, <1>2, <1>3, <1>4

LEMMA PrimeIndexOK ==
  ASSUME NEW min \in Nat, min <= PrimeMax
  PROVE  /\ PrimeIndex(min) \in 1 .. Len(PrimesTable)
         /\ PrimesTable[PrimeIndex(min)] >= min
         /\ \A j \in 1 .. PrimeIndex(min) - 1 : PrimesTable[j] < min
<1> DEFINE L == Len(PrimesTable)
           S == { i \in 1 .. L : PrimesTable[i] >= min }
<1>1. L \in S
  BY PrimesOK DEF PrimeMax
<1>2. PICK i \in S : \A j \in S : i <= j
  <2>1. S \subseteq Nat /\ S # {}
    BY <1>1, PrimesOK
  <2> HIDE DEF S
  <2> QED
    BY <2>1, LeastNatural
<1>3. /\ i \in 1 .. L /\ PrimesTable[i] >= min
      /\ \A j \in 1 .. i - 1 : PrimesTable[j] < min
  <2>1. i \in 1 .. L /\ PrimesTable[i] >= min
    OBVIOUS
  <2>2. ASSUME NEW j \in 1 .. i - 1
        PROVE  PrimesTable[j] < min
    <3>1. j \in 1 .. L /\ ~ (i <= j)
      BY <2>1, PrimesOK
    <3>2. j \notin S
      BY <1>2, <3>1
    <3>3. PrimesTable[j] \in Nat
      BY <3>1, PrimesOK
    <3> QED
      BY <3>1, <3>2, <3>3
  <2> QED
    BY <2>1, <2>2
<1> HIDE DEF S
<1> QED
  BY <1>3 DEF PrimeIndex

LEMMA PrimeNewOK ==
  ASSUME NEW min \in Requested
  PROVE  \/ PrimeNew(min) = LengthError
         \/ /\ PrimeNew(min) \in min .. WordMax
            /\ \/ PrimeNew(min) = 0
               \/ \E i \in 1 .. Len(PrimesTable) : PrimeNew(min) = PrimesTable[i]
<1>1. min \in Nat /\ PrimeMax \in Nat
  BY Sizes, PrimesOK DEF Requested, PrimeMax
<1>2. CASE min > PrimeMax
  BY <1>2 DEF PrimeNew
<1>3. CASE min <= PrimeMax /\ min # 0
  <2> DEFINE i == PrimeIndex(min)
  <2>1. i \in 1 .. Len(PrimesTable) /\ PrimesTable[i] >= min
    BY <1>1, <1>3, PrimeIndexOK
  <2>2. PrimeNew(min) = PrimesTable[i]
    BY <1>1, <1>3 DEF PrimeNew
  <2> HIDE DEF i
  <2>3. PrimesTable[i] \in min .. WordMax
    BY <1>1, <2>1, PrimesOK, Sizes
  <2> QED
    BY <2>1, <2>2, <2>3
<1>4. CASE min = 0
  BY <1>1, <1>4, Sizes DEF PrimeNew
<1> QED
  BY <1>1, <1>2, <1>3, <1>4

(* A prime of the table is not rounded up.                                 *)
LEMMA PrimeFixed ==
  ASSUME NEW m \in 1 .. Len(PrimesTable)
  PROVE  PrimeNew(PrimesTable[m]) = PrimesTable[m]
<1> DEFINE p == PrimesTable[m]
           i == PrimeIndex(p)
<1>1. p \in Nat /\ p >= 1 /\ p <= PrimeMax /\ PrimeMax \in Nat
  <2> DEFINE L == Len(PrimesTable)
             q == PrimesTable[L]
  <2>1. L \in 1 .. L /\ L \in Nat
    BY PrimesOK
  <2>2. p \in Nat /\ p >= 1 /\ q \in Nat
    BY <2>1, PrimesOK
  <2>3. m < L => p < q
    BY <2>1, PrimesOK
  <2>4. m = L => p = q
    OBVIOUS
  <2>5. m < L \/ m = L
    BY <2>1
  <2> HIDE DEF p, q, L
  <2>6. p <= q
    BY <2>2, <2>3, <2>4, <2>5
  <2> QED
    BY <2>2, <2>6 DEF PrimeMax, q, L
<1>2. /\ i \in 1 .. Len(PrimesTable) /\ PrimesTable[i] >= p
      /\ \A j \in 1 .. i - 1 : PrimesTable[j] < p
  BY <1>1, PrimeIndexOK
<1>3. PrimeNew(p) = PrimesTable[i]
  BY <1>1 DEF PrimeNew
<1> HIDE DEF i
<1>4. ~ (m < i)
  BY <1>1, <1>2
<1>5. ~ (i < m)
  BY <1>1, <1>2, PrimesOK
<1>6. i = m
  BY <1>2, <1>4, <1>5, PrimesOK
<1> QED
  BY <1>3, <1>6

LEMMA PrimeNextOK ==
  ASSUME NEW n \in Nat, n <= PrimeMax
  PROVE  \/ PrimeNext(n) = LengthError
         \/ PrimeNext(n) \in n + 1 .. WordMax /\ 10 * PrimeNext(n) >= 11 * n
<1> DEFINE i == PrimeIndex(n)
<1>1. i \in 1 .. Len(PrimesTable) /\ PrimesTable[i] >= n
  BY PrimeIndexOK
<1>2. PrimeNext(n) =
        IF i + 1 > Len(PrimesTable) THEN LengthError ELSE PrimesTable[i + 1]
  BY DEF PrimeNext
<1> HIDE DEF i
<1>3. CASE i + 1 <= Len(PrimesTable)
  <2> DEFINE a == PrimesTable[i]
             b == PrimesTable[i + 1]
  <2>1. i + 1 \in 1 .. Len(PrimesTable) /\ i < i + 1
    BY <1>1, <1>3, PrimesOK
  <2>2. a \in Nat /\ b \in Nat /\ b <= WordMax /\ a < b /\ 11 * a <= 10 * b
    BY <1>1, <2>1, PrimesOK
  <2>3. a >= n
    BY <1>1
  <2> HIDE DEF a, b
  <2>4. b \in n + 1 .. WordMax /\ 10 * b >= 11 * n
    BY <2>2, <2>3, Sizes
  <2>5. PrimeNext(n) = b
    BY <1>1, <1>2, <1>3, PrimesOK DEF b
  <2> QED
    BY <2>4, <2>5
<1>4. CASE i + 1 > Len(PrimesTable)
  BY <1>2, <1>4
<1> QED
  BY <1>1, <1>3, <1>4, PrimesOK

-----------------------------------------------------------------------------
(* The contract of the trait. *)

Policies == {"PowerOfTwo", "Mod", "Prime"}

(* The counts a table can settle on.                                       *)
SettledCounts(k) == { PolicyNew(k, min) : min \in Requested } \cap (0 .. VectorMax)

LEMMA PolicyNewOK ==
  ASSUME NEW k \in Policies, NEW min \in Requested
  PROVE  PolicyNew(k, min) \in (min .. WordMax) \cup {LengthError}
<1>1. CASE k = "PowerOfTwo"
  BY <1>1, PowerOfTwoNewOK DEF PolicyNew
<1>2. CASE k = "Mod"
  <2>1. ModNew(min) = LengthError \/ ModNew(min) = min
    BY ModNewOK
  <2>2. min \in min .. WordMax
    BY Sizes DEF Requested
  <2> QED
    BY <1>2, <2>1, <2>2 DEF PolicyNew
<1>3. CASE k = "Prime"
  BY <1>3, PrimeNewOK DEF PolicyNew
<1> QED
  BY <1>1, <1>2, <1>3 DEF Policies

(* A settled count settles on itself.                                      *)
LEMMA SettledFixed ==
  ASSUME NEW k \in Policies, NEW n \in SettledCounts(k)
  PROVE  PolicyNew(k, n) = n /\ n \in Requested /\ n \in Nat
<1>1. PICK min \in Requested : n = PolicyNew(k, min)
  BY DEF SettledCounts
<1>2. n \in 0 .. VectorMax /\ n \in Requested /\ n # LengthError /\ n \in Nat
  BY Sizes, WordAssumption DEF SettledCounts, Requested
<1>3. CASE k = "PowerOfTwo"
  <2>1. n \in {0} \cup PowersOfTwo
    BY <1>1, <1>2, <1>3, PowerOfTwoNewOK DEF PolicyNew
  <2>2. CASE n = 0
    BY <1>2, <1>3, <2>2, Sizes DEF PolicyNew, PowerOfTwoNew
  <2>3. CASE n \in PowersOfTwo /\ n # 0
    <3>1. n <= PowerOfTwoMax /\ ~ (n > PowerOfTwoMax)
      BY <1>2, <2>3, PowersOK, Sizes
    <3>2. PowerOfTwoNew(n) = RoundUpToPowerOfTwo(n)
      BY <2>3, <3>1 DEF PowerOfTwoNew
    <3> QED
      BY <1>2, <1>3, <2>3, <3>2, RoundUpFixed DEF PolicyNew
  <2> QED
    BY <2>1, <2>2, <2>3
<1>4. CASE k = "Mod"
  <2>1. ModNew(min) # LengthError /\ ModNew(min) = min /\ min <= ModMax
    BY <1>1, <1>2, <1>4, ModNewOK DEF PolicyNew
  <2> QED
    BY <1>1, <1>2, <1>4, <2>1 DEF PolicyNew
<1>5. CASE k = "Prime"
  <2>1. n = 0 \/ \E i \in 1 .. Len(PrimesTable) : n = PrimesTable[i]
    BY <1>1, <1>2, <1>5, PrimeNewOK DEF PolicyNew
  <2>2. CASE n = 0
    <3>1. PrimeMax \in Nat
      BY PrimesOK DEF PrimeMax
    <3> QED
      BY <1>2, <1>5, <2>2, <3>1 DEF PolicyNew, PrimeNew
  <2>3. CASE \E i \in 1 .. Len(PrimesTable) : n = PrimesTable[i]
    BY <1>2, <1>5, <2>3, PrimeFixed DEF PolicyNew
  <2> QED
    BY <2>1, <2>2, <2>3
<1> QED
  BY <1>3, <1>4, <1>5 DEF Policies

LEMMA PolicyNextOK ==
  ASSUME NEW k \in Policies, NEW n \in SettledCounts(k)
  PROVE  \/ PolicyNext(k, n) = LengthError
         \/ /\ PolicyNext(k, n) \in n + 1 .. WordMax
            /\ \/ 10 * PolicyNext(k, n) >= 11 * n
               \/ k = "Mod" /\ PolicyNext(k, n) = PolicyMax(k)
<1>1. PolicyNew(k, n) = n /\ n \in Requested /\ n \in Nat /\ n # LengthError
  BY SettledFixed, WordAssumption
<1>2. CASE k = "PowerOfTwo"
  <2> DEFINE next == PowerOfTwoNext(n)
  <2>1. next = LengthError \/ (next \in n + 1 .. WordMax /\ next >= 2 * n)
    BY <1>1, PowerOfTwoNextOK
  <2> HIDE DEF next
  <2>2. next = LengthError \/ (next \in n + 1 .. WordMax /\ 10 * next >= 11 * n)
    BY <1>1, <2>1, Sizes
  <2> QED
    BY <1>2, <2>2 DEF next, PolicyNext
<1>3. CASE k = "Mod"
  <2>1. n <= ModMax
    BY <1>1, <1>3, ModNewOK DEF PolicyNew
  <2> QED
    BY <1>1, <1>3, <2>1, ModNextOK DEF PolicyNext, PolicyMax
<1>4. CASE k = "Prime"
  <2>1. n <= PrimeMax
    <3>1. PrimeMax \in Nat /\ ~ (n > PrimeMax)
      BY <1>1, <1>4, PrimesOK DEF PolicyNew, PrimeNew, PrimeMax
    <3> QED
      BY <1>1, <3>1
  <2> QED
    BY <1>1, <1>4, <2>1, PrimeNextOK DEF PolicyNext
<1> QED
  BY <1>2, <1>3, <1>4 DEF Policies

(* The three policies meet the contract that the proofs about the engine   *)
(* assume of a policy (PolicyAssumption of SparseHash), at every word      *)
(* width: new() settles on no less than was asked, next_bucket_count()     *)
(* asks for more than there is, or they fail.                              *)
THEOREM PoliciesMeetContract ==
  \A k \in Policies :
    /\ \A n \in 0 .. WordMax : PolicyNew(k, n) \in (n .. WordMax) \cup {LengthError}
    /\ \A n \in SettledCounts(k) :
         PolicyNext(k, n) \in (n + 1 .. WordMax) \cup {LengthError}
BY PolicyNewOK, PolicyNextOK DEF Requested

(* The default policy has only tables of a power of two of buckets: the    *)
(* hypothesis of the theorems about such tables (OnlyPowersOfTwo).         *)
THEOREM PowerOfTwoIsOne ==
  ASSUME NEW n \in SettledCounts("PowerOfTwo")
  PROVE  \A d \in 1 .. n : n % d = 0 => d = 1 \/ d % 2 = 0
<1>1. n = 0 \/ n \in PowersOfTwo
  <2>1. PICK min \in Requested : n = PowerOfTwoNew(min)
    BY DEF SettledCounts, PolicyNew
  <2>2. n # LengthError
    BY SettledFixed, WordAssumption DEF Policies
  <2> QED
    BY <2>1, <2>2, PowerOfTwoNewOK
<1>2. CASE n = 0
  BY <1>2
<1>3. CASE n \in PowersOfTwo
  BY <1>3, OddDivisor
<1> QED
  BY <1>1, <1>2, <1>3

-----------------------------------------------------------------------------
(* Floats. *)

LEMMA Units ==
  /\ 2 ^ Precision \in Nat /\ 2 ^ Precision >= 4 /\ One = 8 * 2 ^ Precision
  /\ \E h \in Nat : h >= 2 /\ 2 ^ Precision = 2 * h
  /\ \A k \in 0 .. WordBits + 7 :
       /\ k \in Exponents /\ Precision + k \in Exponents
       /\ 2 ^ k \in Nat \ {0} /\ 2 ^ (Precision + k) = 2 ^ Precision * 2 ^ k
<1>1. ASSUME NEW k \in 0 .. WordBits + 7
      PROVE  /\ k \in Exponents /\ Precision + k \in Exponents
             /\ 2 ^ k \in Nat \ {0} /\ 2 ^ (Precision + k) = 2 ^ Precision * 2 ^ k
  <2>1. k \in Exponents /\ Precision + k \in Exponents /\ k \in Nat /\ Precision \in Nat
    BY WordAssumption, PrecisionAssumption DEF Exponents
  <2> QED
    BY <2>1, PowerPositive, PowerSum
<1>2. /\ Precision - 1 \in Exponents /\ Precision \in Exponents /\ 1 \in Exponents
      /\ 1 <= Precision - 1 /\ Precision - 1 \in 0 .. Precision + WordBits + 7
      /\ (Precision - 1) + 1 = Precision /\ 3 \in 0 .. WordBits + 7
  BY WordAssumption, PrecisionAssumption DEF Exponents
<1> DEFINE h == 2 ^ (Precision - 1)
<1>3. 2 ^ Precision = 2 * h
  <2>1. 2 ^ ((Precision - 1) + 1) = 2 * 2 ^ (Precision - 1)
    BY <1>2, PowerLaw
  <2> QED
    BY <1>2, <2>1
<1>4. h \in Nat /\ h >= 2
  <2>1. h \in Nat \ {0} /\ 2 ^ 1 <= h
    BY <1>2, PowerPositive, PowersGrow
  <2>2. 2 ^ 1 = 2
    OBVIOUS
  <2> QED
    BY <2>1, <2>2
<1>5. One = 8 * 2 ^ Precision
  <2>1. 2 ^ (Precision + 3) = 2 ^ Precision * 2 ^ 3
    BY <1>1, <1>2
  <2>2. 2 ^ 3 = 8
    OBVIOUS
  <2>3. One = 2 ^ Precision * 8
    BY <2>1, <2>2 DEF One
  <2> QED
    BY <1>3, <1>4, <2>3
<1>6. 2 ^ Precision \in Nat /\ 2 ^ Precision >= 4
  <2> HIDE DEF h
  <2> QED
    BY <1>3, <1>4
<1> HIDE DEF h
<1> QED
  BY <1>1, <1>3, <1>4, <1>5, <1>6

(* The spacing of the floats next to num/den is the smallest power of two  *)
(* at which they need no more than Precision bits.                         *)
LEMMA SpacingOK ==
  ASSUME NEW num \in Nat, NEW den \in Nat \ {0}, NEW top \in 0 .. WordBits + 7,
         num < 2 ^ (Precision + top) * den
  PROVE  \E k \in 0 .. top :
           /\ Spacing(num, den) = 2 ^ k
           /\ num < 2 ^ (Precision + k) * den
           /\ \A j \in 0 .. WordBits + 7 : num < 2 ^ (Precision + j) * den => k <= j
<1> DEFINE above == { k \in 0 .. WordBits + 7 : num \div 2 ^ (Precision + k) < den }
<1>1. ASSUME NEW k \in 0 .. WordBits + 7
      PROVE  k \in above <=> num < 2 ^ (Precision + k) * den
  <2> DEFINE p == 2 ^ (Precision + k)
             q == num \div p
  <2>1. p \in Nat \ {0}
    BY Units, PowerPositive
  <2> HIDE DEF p
  <2>2. q \in Nat /\ (den <= q <=> p * den <= num)
    BY <2>1, DivMod, Quotient
  <2>3. p * den \in Nat
    BY <2>1, NatProduct
  <2> HIDE DEF q
  <2>4. q < den <=> num < p * den
    BY <2>2, <2>3
  <2> QED
    BY <2>4 DEF q, p
<1>2. top \in above
  BY <1>1
<1>3. \E k \in above : \A j \in above : k <= j
  <2>1. above \subseteq Nat /\ above # {}
    BY <1>2, WordAssumption
  <2> HIDE DEF above
  <2> QED
    BY <2>1, LeastNatural
<1> DEFINE k == CHOOSE i \in above : \A j \in above : i <= j
<1>4. k \in above /\ \A j \in above : k <= j
  BY <1>3
<1>5. Spacing(num, den) = 2 ^ k
  BY DEF Spacing
<1>6. above \subseteq 0 .. WordBits + 7
  OBVIOUS
<1> HIDE DEF k, above
<1>7. k \in 0 .. WordBits + 7 /\ k <= top
  BY <1>2, <1>4, <1>6
<1>8. k \in 0 .. top
  BY <1>7, WordAssumption
<1> QED
  BY <1>1, <1>4, <1>5, <1>7, <1>8

(* A rounded quotient is a mantissa of Precision bits, or the next power   *)
(* of two, times a spacing.                                                *)
LEMMA NearestOK ==
  ASSUME NEW num \in Nat, NEW den \in Nat \ {0}, NEW top \in 0 .. WordBits + 7,
         num < 2 ^ (Precision + top) * den
  PROVE  \E k \in 0 .. top : \E m \in 0 .. 2 ^ Precision :
           /\ Nearest(num, den) = 2 ^ k * m
           /\ m \in {num \div (2 ^ k * den), num \div (2 ^ k * den) + 1}
           /\ \A j \in 0 .. WordBits + 7 : num < 2 ^ (Precision + j) * den => k <= j
<1>1. PICK k \in 0 .. top :
        /\ Spacing(num, den) = 2 ^ k
        /\ num < 2 ^ (Precision + k) * den
        /\ \A j \in 0 .. WordBits + 7 : num < 2 ^ (Precision + j) * den => k <= j
  BY SpacingOK
<1> DEFINE s == 2 ^ k
           f == 2 ^ Precision
           step == s * den
           below == num \div step
<1>2. k \in 0 .. WordBits + 7
  BY WordAssumption
<1>3. s \in Nat \ {0} /\ f \in Nat \ {0} /\ 2 ^ (Precision + k) = f * s
  BY <1>2, Units
<1>4. step \in Nat \ {0} /\ num < step * f
  <2>1. num < (f * s) * den
    BY <1>1, <1>3
  <2> HIDE DEF s, f
  <2>2. (f * s) * den = (s * den) * f
    BY <1>3
  <2>3. s * den \in Nat \ {0}
    BY <1>3
  <2> QED
    BY <2>1, <2>2, <2>3
<1>5. below \in Nat /\ below + 1 <= f
  <2> HIDE DEF s, f, step
  <2>1. below \in Nat /\ ~ (f <= below)
    <3>1. step * f \in Nat
      BY <1>3, <1>4, NatProduct
    <3>2. ~ (step * f <= num)
      BY <1>4, <3>1
    <3> QED
      BY <1>3, <1>4, <3>2, DivMod, Quotient
  <2> HIDE DEF below
  <2> QED
    BY <1>3, <2>1
<1>6. \E m \in {below, below + 1} : Nearest(num, den) = s * m
  BY <1>1 DEF Nearest
<1>7. below \in 0 .. f /\ below + 1 \in 0 .. f
  <2> HIDE DEF below, f
  <2> QED
    BY <1>3, <1>5
<1>8. PICK m \in {below, below + 1} : Nearest(num, den) = s * m
  BY <1>6
<1>9. m \in 0 .. f
  BY <1>7
<1> QED
  BY <1>1, <1>8, <1>9

LEMMA NearestBelow ==
  ASSUME NEW num \in Nat, NEW den \in Nat \ {0}, NEW top \in 0 .. WordBits + 7,
         num < 2 ^ (Precision + top) * den
  PROVE  Nearest(num, den) \in 0 .. 2 ^ (Precision + top)
<1>1. PICK k \in 0 .. top, m \in 0 .. 2 ^ Precision : Nearest(num, den) = 2 ^ k * m
  BY NearestOK
<1> DEFINE s == 2 ^ k
           f == 2 ^ Precision
           u == 2 ^ top
<1>2. k \in 0 .. WordBits + 7
  BY WordAssumption
<1>3. /\ s \in Nat \ {0} /\ f \in Nat \ {0} /\ u \in Nat \ {0}
      /\ 2 ^ (Precision + top) = f * u /\ s <= u
  BY <1>2, Units, PowersGrow
<1>4. m \in Nat /\ m <= f
  BY <1>3
<1> HIDE DEF s, f, u
<1>5. s * m \in Nat /\ s * m <= f * u
  <2>1. /\ s * m \in Nat /\ s * (f - m) \in Nat /\ f * (u - s) \in Nat
    BY <1>3, <1>4, NatProduct
  <2>2. f * u = s * m + s * (f - m) + f * (u - s)
    BY <1>3, <1>4
  <2> QED
    BY <1>3, <2>1, <2>2
<1>6. f * u \in Nat
  BY <1>3, NatProduct
<1> DEFINE x == s * m
           y == f * u
<1>7. x \in 0 .. y
  <2> HIDE DEF x, y
  <2> QED
    BY <1>5, <1>6 DEF x, y
<1> QED
  BY <1>1, <1>3, <1>7 DEF s

(* A mantissa of Precision bits times a power of two is a float: a         *)
(* quotient that comes out as one is not rounded.                          *)
LEMMA NearestExact ==
  ASSUME NEW k \in 0 .. WordBits + 6, NEW m \in 0 .. 2 ^ Precision, NEW den \in Nat \ {0}
  PROVE  2 ^ k * m \in Nat /\ Nearest((2 ^ k * m) * den, den) = 2 ^ k * m
<1> DEFINE f == 2 ^ Precision
           s == 2 ^ k
           x == s * m
           num == x * den
<1>1. /\ k \in 0 .. WordBits + 7 /\ k + 1 \in 0 .. WordBits + 7 /\ k \in Exponents
      /\ k + 1 \in Exponents /\ k \in 0 .. Precision + WordBits + 7
  BY WordAssumption, PrecisionAssumption DEF Exponents
<1>2. /\ f \in Nat \ {0} /\ s \in Nat \ {0} /\ 2 ^ (Precision + k) = f * s
      /\ 2 ^ (k + 1) = 2 * s /\ 2 ^ (Precision + (k + 1)) = f * (2 * s)
  <2>1. 2 ^ (k + 1) = 2 * 2 ^ k
    BY <1>1, PowerLaw
  <2>2. 2 ^ (Precision + (k + 1)) = 2 ^ Precision * 2 ^ (k + 1)
    BY <1>1, Units
  <2> QED
    BY <1>1, <2>1, <2>2, Units
<1>3. m \in Nat /\ m <= f
  BY <1>2
<1> HIDE DEF f, s
<1>4. x \in Nat /\ x < f * (2 * s) /\ f * (2 * s) \in Nat /\ f * s \in Nat
  <2>1. x \in Nat /\ s * (f - m) \in Nat /\ s * f \in Nat \ {0}
    <3>1. s * f \in Nat /\ s * (f - 1) \in Nat /\ s * f = s + s * (f - 1)
      BY <1>2, NatProduct
    <3> QED
      BY <1>2, <1>3, <3>1, NatProduct
  <2>2. f * (2 * s) = s * m + s * (f - m) + s * f
    BY <1>2, <1>3
  <2> QED
    BY <1>2, <2>1, <2>2, NatProduct
<1> DEFINE y == f * (2 * s)
           z == f * s
<1>5. num \in Nat /\ num < 2 ^ (Precision + (k + 1)) * den
  <2>1. x \in Nat /\ y \in Nat /\ x < y
    BY <1>4
  <2> HIDE DEF x, y
  <2>2. x * den \in Nat /\ x * den < y * den
    BY <2>1, ScaledOrder
  <2> QED
    BY <1>2, <2>2 DEF y
<1>5a. num < 2 ^ (Precision + k) * den <=> x < z
  <2>1. x \in Nat /\ z \in Nat
    BY <1>4
  <2> HIDE DEF x, z
  <2>2. x < z <=> x * den < z * den
    BY <2>1, ScaledOrder
  <2> QED
    BY <1>2, <2>2 DEF z
<1>5b. \A e \in Nat \ {0} : x * (e * den) = (x * e) * den
  BY <1>4
<1> HIDE DEF num
<1>6. PICK i \in 0 .. k + 1 :
        /\ Spacing(num, den) = 2 ^ i
        /\ \A j \in 0 .. WordBits + 7 : num < 2 ^ (Precision + j) * den => i <= j
  BY <1>1, <1>5, SpacingOK
<1> DEFINE t == 2 ^ i
<1>7. i \in Exponents /\ i \in 0 .. WordBits + 7 /\ t \in Nat \ {0}
  <2>1. i \in Exponents /\ i \in 0 .. WordBits + 7
    BY <1>1, WordAssumption, PrecisionAssumption DEF Exponents
  <2> QED
    BY <2>1, PowerPositive
<1>8. \E q \in Nat : x = t * q
  <2>1. CASE i <= k
    <3>1. PICK c \in Nat \ {0} : 2 ^ k = c * 2 ^ i
      BY <1>1, <1>7, <2>1, PowersDivide
    <3> HIDE DEF t
    <3>2. s = c * t
      BY <3>1 DEF s, t
    <3>3. c * m \in Nat /\ (c * t) * m = t * (c * m)
      BY <1>3, <1>7, NatProduct
    <3> QED
      BY <3>2, <3>3 DEF x
  <2>2. CASE i = k + 1
    <3>1. ~ (x < z)
      <4>1. ~ (i <= k)
        BY <1>1, <2>2
      <4>2. ~ (num < 2 ^ (Precision + k) * den)
        BY <1>1, <1>6, <4>1
      <4> QED
        BY <1>5a, <4>2
    <3>2. m = f
      <4> SUFFICES ASSUME m # f
                   PROVE  x < z
        BY <3>1
      <4>1. s * (f - m - 1) \in Nat
        BY <1>2, <1>3, NatProduct
      <4>2. f * s = s * m + s + s * (f - m - 1)
        BY <1>2, <1>3
      <4> QED
        BY <1>2, <1>4, <4>1, <4>2 DEF x
    <3>3. PICK h \in Nat : f = 2 * h
      BY Units DEF f
    <3>4. t = 2 * s
      BY <1>2, <2>2
    <3> HIDE DEF t
    <3>5. s * (2 * h) = (2 * s) * h
      BY <1>2
    <3> QED
      BY <3>2, <3>3, <3>4, <3>5 DEF x
  <2> QED
    BY <1>1, <1>6, <2>1, <2>2
<1>9. PICK q \in Nat : x = t * q
  BY <1>8
<1> HIDE DEF t, x
<1> DEFINE step == t * den
<1>10. /\ step \in Nat \ {0} /\ num = step * q
       /\ (step * q) \div step = q /\ (step * q) % step = 0
  <2>1. step \in Nat \ {0} /\ (t * q) * den = (t * den) * q
    BY <1>7
  <2> QED
    BY <1>9, <2>1, ExactQuotient DEF num
<1> HIDE DEF step
<1>11. Nearest(num, den) = x
  <2>1. 2 * 0 = 0 /\ ~ (0 > step) /\ 0 # step
    BY <1>10
  <2>2. Spacing(num, den) = t
    BY <1>6 DEF t
  <2>3. num \div (t * den) = q /\ num % (t * den) = 0
    BY <1>10 DEF step
  <2>4. t * den = step
    BY DEF step
  <2>5. Nearest(num, den) = t * q
    BY <2>1, <2>2, <2>3, <2>4 DEF Nearest
  <2> QED
    BY <1>9, <2>5
<1> QED
  BY <1>4, <1>11 DEF num, x, s

LEMMA NearestFixed ==
  ASSUME NEW k \in 0 .. WordBits + 6, NEW m \in 0 .. 2 ^ Precision
  PROVE  2 ^ k * m \in Nat /\ Nearest(2 ^ k * m, 1) = 2 ^ k * m
<1>1. 2 ^ k * m \in Nat /\ Nearest((2 ^ k * m) * 1, 1) = 2 ^ k * m
  BY NearestExact
<1>2. (2 ^ k * m) * 1 = 2 ^ k * m
  BY <1>1
<1> QED
  BY <1>1, <1>2

(* The range of a load factor: more than a half of 2^Precision units, so   *)
(* that dividing by it multiplies by less than 16.                         *)
LEMMA LoadsOK ==
  /\ MinLoad \in Nat /\ 2 ^ Precision < 2 * MinLoad
  /\ MinLoad <= MaxLoad /\ MinLoad \in Floats /\ MaxLoad \in Floats
<1> DEFINE f == 2 ^ Precision
<1>1. PICK h \in Nat : h >= 2 /\ f = 2 * h
  BY Units
<1>2. f \in Nat /\ f >= 4 /\ One = 8 * f
  BY Units
<1>3. 2 ^ (Precision + 0) = f /\ 2 ^ (Precision + 3) = One
  BY PrecisionAssumption DEF One
<1>4. /\ 2 ^ 0 = 1 /\ 2 ^ 1 = 2 /\ 2 ^ 2 = 4 /\ 2 ^ 3 = 8
      /\ 0 \in 0 .. WordBits + 7 /\ 3 \in 0 .. WordBits + 7
      /\ \A k \in 0 .. 3 : k \in 0 .. WordBits + 6
  BY WordAssumption
<1> HIDE DEF f
<1>5. PICK k1 \in 0 .. 0 : \E m \in 0 .. 2 ^ Precision :
        /\ Nearest(One, 10) = 2 ^ k1 * m
        /\ m \in {One \div (2 ^ k1 * 10), One \div (2 ^ k1 * 10) + 1}
  <2>1. One < 2 ^ (Precision + 0) * 10 /\ One \in Nat /\ 10 \in Nat \ {0}
    BY <1>2, <1>3
  <2> QED
    BY <1>4, <2>1, NearestOK, Zenon
<1>5a. PICK m1 \in 0 .. 2 ^ Precision :
        /\ Nearest(One, 10) = 2 ^ k1 * m1
        /\ m1 \in {One \div (2 ^ k1 * 10), One \div (2 ^ k1 * 10) + 1}
  BY <1>5
<1>6. MinLoad = m1 /\ m1 \in {One \div 10, One \div 10 + 1} /\ m1 \in Nat /\ m1 <= f
  <2>1. k1 = 0 /\ m1 \in Nat /\ m1 <= f
    BY <1>2 DEF f
  <2>2. 1 * m1 = m1 /\ 1 * 10 = 10
    BY <2>1
  <2> QED
    BY <1>4, <1>5a, <2>1, <2>2 DEF MinLoad
<1>7. f < 2 * m1
  <2>1. h + 1 <= One \div 10
    <3>1. 10 * (h + 1) <= One /\ h + 1 \in Nat /\ One \in Nat
      BY <1>1, <1>2
    <3> QED
      BY <3>1, Quotient
  <2>2. One \div 10 \in Nat
    BY <1>2, DivMod
  <2> DEFINE q == One \div 10
  <2> HIDE DEF q
  <2>3. q \in Nat /\ h + 1 <= q /\ m1 \in {q, q + 1}
    BY <1>6, <2>1, <2>2 DEF q
  <2> QED
    BY <1>1, <2>3
<1>8. 8 * One \in Nat /\ 8 * One < 2 ^ (Precision + 3) * 10
  BY <1>2, <1>3
<1>8a. PICK k2 \in 0 .. 3 : \E m \in 0 .. 2 ^ Precision :
        /\ Nearest(8 * One, 10) = 2 ^ k2 * m
        /\ m \in {(8 * One) \div (2 ^ k2 * 10), (8 * One) \div (2 ^ k2 * 10) + 1}
  <2>1. 10 \in Nat \ {0}
    OBVIOUS
  <2> QED
    BY <1>4, <1>8, <2>1, NearestOK, Zenon
<1>9. PICK m2 \in 0 .. 2 ^ Precision :
        /\ Nearest(8 * One, 10) = 2 ^ k2 * m2
        /\ m2 \in {(8 * One) \div (2 ^ k2 * 10), (8 * One) \div (2 ^ k2 * 10) + 1}
  BY <1>8a
<1> DEFINE s == 2 ^ k2
<1>10. s \in {1, 2, 4, 8}
  <2>1. k2 = 0 \/ k2 = 1 \/ k2 = 2 \/ k2 = 3
    OBVIOUS
  <2> QED
    BY <1>4, <2>1
<1>11. MaxLoad = s * m2 /\ m2 \in Nat
  BY <1>2, <1>9 DEF MaxLoad, f
<1> HIDE DEF s
<1>12. f <= MaxLoad
  <2> DEFINE q == (8 * One) \div (s * 10)
             r == (8 * One) % (s * 10)
  <2>1. s * 10 \in Nat \ {0}
    BY <1>10
  <2>2. q \in Nat /\ r \in 0 .. s * 10 - 1 /\ 8 * One = (s * 10) * q + r
    BY <1>8, <2>1, DivMod
  <2>3. m2 \in {q, q + 1}
    BY <1>9 DEF s
  <2> HIDE DEF q, r
  <2>4. s * q <= s * m2 /\ 64 * f < (s * 10) * q + 10 * s
    BY <1>2, <1>10, <1>11, <2>2, <2>3
  <2>5. (s * 10) * q = 10 * (s * q) /\ s * q \in Nat
    BY <1>10, <2>2
  <2>6. s * m2 \in Nat /\ s <= 8
    BY <1>10, <1>11
  <2> DEFINE x == s * q
             y == s * m2
  <2>7. x \in Nat /\ y \in Nat /\ x <= y /\ 64 * f < 10 * x + 10 * s /\ MaxLoad = y
    BY <1>11, <2>4, <2>5, <2>6
  <2> HIDE DEF x, y
  <2> QED
    BY <1>2, <1>10, <2>7
<1>13. MaxLoad \in 0 .. One
  BY <1>3, <1>4, <1>8, NearestBelow DEF MaxLoad
<1>14. MinLoad \in Floats
  <2>1. Nearest(2 ^ 0 * m1, 1) = 2 ^ 0 * m1
    <3>1. 0 \in 0 .. WordBits + 6
      BY <1>4
    <3> QED
      BY <3>1, NearestFixed, Zenon
  <2>2. 2 ^ 0 * m1 = m1
    BY <1>4, <1>6
  <2> QED
    BY <1>2, <1>6, <2>1, <2>2 DEF Floats
<1>15. MaxLoad \in Floats
  <2>1. Nearest(2 ^ k2 * m2, 1) = 2 ^ k2 * m2
    BY <1>4, NearestFixed
  <2> QED
    BY <1>11, <1>13, <2>1 DEF Floats, s
<1>16. MinLoad <= MaxLoad
  BY <1>2, <1>6, <1>12, <1>13
<1> QED
  BY <1>6, <1>7, <1>14, <1>15, <1>16 DEF f

LEMMA ClampOK ==
  ASSUME NEW ml \in Floats
  PROVE  Clamp(ml) \in Floats /\ Clamp(ml) \in MinLoad .. MaxLoad
<1>1. /\ ml \in Int /\ MinLoad \in Int /\ MaxLoad \in Int /\ MinLoad <= MaxLoad
  BY LoadsOK, Units DEF Floats
<1> QED
  BY <1>1, LoadsOK DEF Clamp, Larger

(* A reservation asks for a word: the quotient needs no coarser spacing    *)
(* than Spacing looks at, and the conversion saturates.                    *)
LEMMA BucketsForOK ==
  ASSUME NEW count \in Requested, NEW load \in MinLoad .. MaxLoad
  PROVE  BucketsFor(count, load) \in Requested
<1> DEFINE f == 2 ^ Precision
           a == 2 ^ (Precision + (WordBits + 3))
           w == 2 ^ WordBits
<1>1. /\ f \in Nat /\ f >= 4 /\ One = 8 * f
      /\ load \in Nat /\ f < 2 * load
  <2>1. load \in Nat /\ MinLoad <= load
    BY LoadsOK, Units DEF Floats
  <2> HIDE DEF f
  <2>2. 2 * MinLoad <= 2 * load
    BY <2>1, LoadsOK
  <2> QED
    BY <2>1, <2>2, LoadsOK, Units DEF f
<1>2. /\ WordBits + 3 \in 0 .. WordBits + 7 /\ WordBits + 7 \in 0 .. WordBits + 7
      /\ WordBits \in Exponents /\ WordBits \in Nat
      /\ WordBits + 3 \in Nat /\ Precision + 3 \in Nat /\ Precision \in Nat
      /\ WordBits + (Precision + 3) \in Exponents
      /\ Precision + (WordBits + 3) = WordBits + (Precision + 3)
      /\ Precision + (WordBits + 3) \in Exponents
  BY WordAssumption, PrecisionAssumption DEF Exponents
<1>3. w \in Nat \ {0} /\ WordMax = w - 1 /\ a = w * One
  <2>1. w \in Nat \ {0} /\ WordMax = w - 1
    BY <1>2, PowerPositive DEF WordMax
  <2>2. a = w * One
    BY <1>2, PowerSum DEF One
  <2> QED
    BY <2>1, <2>2
<1>4. a \in Nat \ {0} /\ 2 ^ (Precision + (WordBits + 7)) = 16 * a
  <2> DEFINE e == Precision + (WordBits + 3)
  <2>1. /\ \A k \in {e, e + 1, e + 2, e + 3} : k \in 0 .. Precision + WordBits + 7
        /\ (e + 1) + 1 = e + 2 /\ (e + 2) + 1 = e + 3 /\ (e + 3) + 1 = Precision + (WordBits + 7)
        /\ e \in Exponents
    BY WordAssumption, PrecisionAssumption DEF Exponents
  <2> HIDE DEF e
  <2>2. /\ 2 ^ (e + 1) = 2 * 2 ^ e /\ 2 ^ (e + 2) = 2 * 2 ^ (e + 1)
        /\ 2 ^ (e + 3) = 2 * 2 ^ (e + 2)
        /\ 2 ^ (Precision + (WordBits + 7)) = 2 * 2 ^ (e + 3)
    <3>1. \A k \in {e, e + 1, e + 2, e + 3} : 2 ^ (k + 1) = 2 * 2 ^ k
      BY <2>1, PowerLaw
    <3>2. /\ 2 ^ (e + 1) = 2 * 2 ^ e /\ 2 ^ ((e + 1) + 1) = 2 * 2 ^ (e + 1)
          /\ 2 ^ ((e + 2) + 1) = 2 * 2 ^ (e + 2) /\ 2 ^ ((e + 3) + 1) = 2 * 2 ^ (e + 3)
      BY <3>1, Zenon
    <3> QED
      BY <2>1, <3>2, Zenon
  <2>3. 2 ^ e \in Nat \ {0}
    BY <2>1, PowerPositive
  <2> DEFINE b == 2 ^ e
  <2>4. 2 * (2 * (2 * (2 * b))) = 16 * b
    BY <2>3
  <2>5. 2 ^ (Precision + (WordBits + 7)) = 2 * (2 * (2 * (2 * b)))
    BY <2>2, Zenon
  <2>6. a = b
    BY DEF e
  <2> QED
    BY <2>3, <2>4, <2>5, <2>6
<1> HIDE DEF f, a, w
<1>5. count \in Nat /\ count + 1 <= w
  BY <1>3 DEF Requested
<1>6. count * One \in Nat /\ count * One < a
  <2>1. One \in Nat /\ One > 0
    BY <1>1
  <2>2. (w - count - 1) * One \in Nat /\ count * One \in Nat
    BY <1>3, <1>5, <2>1, NatProduct
  <2>3. w * One = count * One + One + (w - count - 1) * One
    BY <1>3, <1>5, <2>1
  <2> QED
    BY <1>3, <2>1, <2>2, <2>3
<1>7. AsFloat(count) \in Nat /\ AsFloat(count) <= a
  <2> DEFINE num == count * One
  <2>1. num < 2 ^ (Precision + (WordBits + 3)) * 1
    <3>1. a * 1 = a
      BY <1>4
    <3> QED
      BY <1>6, <3>1 DEF a
  <2>2. num \in Nat
    BY <1>6
  <2> HIDE DEF num
  <2>3. Nearest(num, 1) \in 0 .. a
    <3>1. 1 \in Nat \ {0}
      OBVIOUS
    <3> QED
      BY <1>2, <2>1, <2>2, <3>1, NearestBelow, Zenon DEF a
  <2> QED
    BY <1>4, <2>3 DEF AsFloat, num
<1> DEFINE x == AsFloat(count)
<1>8. x * One \in Nat /\ load \in Nat \ {0} /\ x * One < (16 * a) * load
  <2> HIDE DEF x
  <2>1. x \in Nat /\ x <= a
    BY <1>7 DEF x
  <2>2. /\ (a - x) * f \in Nat /\ x * f \in Nat /\ a * (2 * load - f - 1) \in Nat
    BY <1>1, <1>4, <2>1, NatProduct
  <2>3. a * (2 * load) = x * f + (a - x) * f + a + a * (2 * load - f - 1)
    BY <1>1, <1>4, <2>1
  <2>4. x * One = 8 * (x * f) /\ (16 * a) * load = 8 * (a * (2 * load))
    BY <1>1, <1>4, <2>1
  <2> DEFINE y == x * f
             z == a * (2 * load)
  <2>5. y \in Nat /\ z \in Int /\ y < z
    BY <1>1, <1>4, <2>2, <2>3
  <2>6. x * One = 8 * y /\ (16 * a) * load = 8 * z
    BY <2>4
  <2> HIDE DEF y, z
  <2>7. load \in Nat \ {0}
    BY <1>1
  <2> QED
    BY <2>5, <2>6, <2>7
<1> DEFINE o == Over(x, load)
<1>9. o \in Nat
  <2> DEFINE num == x * One
  <2>1. num \in Nat /\ num < 2 ^ (Precision + (WordBits + 7)) * load
    BY <1>4, <1>8
  <2>2. o = Nearest(num, load)
    BY DEF Over
  <2> HIDE DEF num, x
  <2>3. Nearest(num, load) \in 0 .. 2 ^ (Precision + (WordBits + 7))
    BY <1>2, <1>8, <2>1, NearestBelow
  <2>4. 2 ^ (Precision + (WordBits + 7)) \in Nat
    BY <1>4
  <2> QED
    BY <2>2, <2>3, <2>4
<1>10. BucketsFor(count, load) = CeilingAsWord(o)
  BY DEF BucketsFor
<1> HIDE DEF o
<1>11. AsWord(o + One - 1) \in Requested
  <2> DEFINE q == (o + One - 1) \div One
  <2>1. One \in Nat \ {0} /\ o + One - 1 \in Nat
    BY <1>1, <1>9
  <2>2. q \in Nat
    BY <2>1, DivMod
  <2>3. AsWord(o + One - 1) = IF q > WordMax THEN WordMax ELSE q
    BY DEF AsWord
  <2> HIDE DEF q
  <2> QED
    BY <2>2, <2>3, Sizes DEF Requested
<1> QED
  BY <1>10, <1>11 DEF CeilingAsWord
-----------------------------------------------------------------------------
(* The table's bucket count. *)

(* What the policies guarantee is known of the counts they settle on, so   *)
(* the invariant says that the table's is one.                             *)
GrowthInv == TypeOK /\ bucket_count \in SettledCounts(kind)

LEMMA SettleOK ==
  ASSUME NEW k \in Kinds, NEW min \in Requested, Settle(k, min) # LengthError
  PROVE  /\ Settle(k, min) \in SettledCounts(k) /\ Settle(k, min) \in 0 .. VectorMax
         /\ Settle(k, min) = PolicyNew(k, min) /\ min <= Settle(k, min)
<1> DEFINE n == PolicyNew(k, min)
<1>1. n # LengthError /\ ~ (n > VectorMax) /\ Settle(k, min) = n
  BY DEF Settle
<1>2. n \in (min .. WordMax) \cup {LengthError}
  BY KindAssumption, PolicyNewOK DEF Policies
<1>3. n \in { PolicyNew(k, m) : m \in Requested }
  OBVIOUS
<1>4. Settle(k, min) = PolicyNew(k, min)
  BY <1>1
<1> HIDE DEF n
<1>5. n \in 0 .. VectorMax /\ min <= n
  BY <1>1, <1>2, Sizes DEF Requested
<1> QED
  BY <1>1, <1>3, <1>4, <1>5 DEF SettledCounts

LEMMA SettledKept ==
  ASSUME NEW k \in Kinds, NEW n \in SettledCounts(k)
  PROVE  Settle(k, n) = n
<1>1. PolicyNew(k, n) = n /\ n \in Nat /\ n \in 0 .. VectorMax
  BY KindAssumption, SettledFixed DEF Policies, SettledCounts
<1>2. n # LengthError /\ ~ (n > VectorMax)
  BY <1>1, WordAssumption, Sizes
<1> QED
  BY <1>1, <1>2 DEF Settle

LEMMA NextRequested ==
  ASSUME NEW k \in Kinds, NEW n \in SettledCounts(k), PolicyNext(k, n) # LengthError
  PROVE  PolicyNext(k, n) \in Requested /\ PolicyNext(k, n) > n
<1> DEFINE next == PolicyNext(k, n)
<1>1. next \in n + 1 .. WordMax
  BY KindAssumption, PolicyNextOK DEF Policies
<1>2. n \in Nat
  BY KindAssumption, SettledFixed DEF Policies
<1> HIDE DEF next
<1>3. next \in Requested /\ next > n
  BY <1>1, <1>2, Sizes DEF Requested
<1> QED
  BY <1>3 DEF next

(* A request is granted with a settled count or changes no count.          *)
LEMMA RequestOK ==
  ASSUME GrowthInv, NEW min \in Requested, Request(min)
  PROVE  /\ GrowthInv'
         /\ ~refused' => bucket_count' = PolicyNew(kind, min) /\ bucket_count' >= min
<1>1. kind' = kind /\ max_load_factor' = max_load_factor /\ refused' \in BOOLEAN
  BY DEF Request
<1>2. kind \in Kinds
  BY DEF GrowthInv, TypeOK
<1>3. CASE refused'
  <2>1. bucket_count' = bucket_count
    BY <1>3 DEF Request
  <2> QED
    BY <1>1, <1>3, <2>1 DEF GrowthInv, TypeOK
<1>4. CASE ~refused'
  <2>1. Settle(kind, min) # LengthError /\ bucket_count' = Settle(kind, min)
    BY <1>4 DEF Request
  <2>2. bucket_count' \in SettledCounts(kind) /\ bucket_count' \in 0 .. VectorMax
        /\ bucket_count' = PolicyNew(kind, min) /\ bucket_count' >= min
    <3> DEFINE n == Settle(kind, min)
    <3>1. /\ n \in SettledCounts(kind) /\ n \in 0 .. VectorMax
          /\ n = PolicyNew(kind, min) /\ min <= n
      BY <1>2, <2>1, SettleOK
    <3> HIDE DEF n
    <3>2. min \in Nat /\ n \in Nat
      BY <3>1, Sizes DEF Requested
    <3>3. n >= min /\ bucket_count' = n
      BY <2>1, <3>1, <3>2 DEF n
    <3> QED
      BY <3>1, <3>3
  <2> QED
    BY <1>1, <2>2 DEF GrowthInv, TypeOK
<1> QED
  BY <1>3, <1>4

LEMMA GrowthInitial == Init => GrowthInv
<1> SUFFICES ASSUME Init
             PROVE  GrowthInv
  OBVIOUS
<1>1. kind \in Kinds /\ refused = FALSE
  BY DEF Init
<1>2. PICK min \in Requested :
        Settle(kind, min) # LengthError /\ bucket_count = Settle(kind, min)
  BY DEF Init
<1>3. PICK ml \in Floats : max_load_factor = Clamp(ml)
  BY DEF Init
<1>4. bucket_count \in SettledCounts(kind) /\ bucket_count \in 0 .. VectorMax
  BY <1>1, <1>2, SettleOK
<1>5. max_load_factor \in Floats /\ max_load_factor \in MinLoad .. MaxLoad
  BY <1>3, ClampOK
<1> QED
  BY <1>1, <1>4, <1>5 DEF GrowthInv, TypeOK

LEMMA GrowthStep == GrowthInv /\ [Next]_vars => GrowthInv'
<1> SUFFICES ASSUME GrowthInv, [Next]_vars
             PROVE  GrowthInv'
  OBVIOUS
<1>1. CASE Rebuild
  <2>1. PICK count \in Requested : Request(count)
    BY <1>1 DEF Rebuild
  <2> QED
    BY <2>1, RequestOK
<1>2. CASE Reserve
  <2>1. PICK count \in Requested : Request(BucketsFor(count, max_load_factor))
    BY <1>2 DEF Reserve, ReserveRoom
  <2>2. max_load_factor \in MinLoad .. MaxLoad
    BY DEF GrowthInv, TypeOK
  <2>3. BucketsFor(count, max_load_factor) \in Requested
    BY <2>2, BucketsForOK
  <2> QED
    BY <2>1, <2>3, RequestOK
<1>3. CASE SetMaxLoadFactor
  <2>1. PICK ml \in Floats : max_load_factor' = Clamp(ml)
    BY <1>3 DEF SetMaxLoadFactor
  <2>2. max_load_factor' \in Floats /\ max_load_factor' \in MinLoad .. MaxLoad
    BY <2>1, ClampOK
  <2>3. UNCHANGED <<kind, bucket_count, refused>>
    BY <1>3 DEF SetMaxLoadFactor
  <2> QED
    BY <2>2, <2>3 DEF GrowthInv, TypeOK
<1>4. CASE Grow
  <2>1. CASE PolicyNext(kind, bucket_count) = LengthError
    <3>1. refused' = TRUE /\ UNCHANGED <<kind, bucket_count, max_load_factor>>
      BY <1>4, <2>1 DEF Grow
    <3> QED
      BY <3>1 DEF GrowthInv, TypeOK
  <2>2. CASE PolicyNext(kind, bucket_count) # LengthError
    <3>1. Request(PolicyNext(kind, bucket_count))
      BY <1>4, <2>2 DEF Grow
    <3>2. PolicyNext(kind, bucket_count) \in Requested
      BY <2>2, NextRequested DEF GrowthInv, TypeOK
    <3> QED
      BY <3>1, <3>2, RequestOK
  <2> QED
    BY <2>1, <2>2
<1>5. CASE UNCHANGED vars
  BY <1>5 DEF vars, GrowthInv, TypeOK
<1> QED
  BY <1>1, <1>2, <1>3, <1>4, <1>5 DEF Next

LEMMA GrowthInvariant == Spec => []GrowthInv
BY GrowthInitial, GrowthStep, PTL DEF Spec

(* The bucket count is never above the bound of the bucket vector, and the *)
(* load factor never leaves 0.1 to 0.8, for every word width and float     *)
(* precision.                                                              *)
THEOREM GrowthTypes == Spec => []TypeOK
<1>1. GrowthInv => TypeOK
  BY DEF GrowthInv
<1> QED
  BY <1>1, GrowthInvariant, PTL

(* What the engine relies on of its policy (MeetsContract).                *)
THEOREM ContractMet == Spec => []MeetsContract
<1>1. ASSUME GrowthInv
      PROVE  MeetsContract
  <2>1. kind \in Policies /\ bucket_count \in SettledCounts(kind)
    BY <1>1, KindAssumption DEF GrowthInv, TypeOK, Policies
  <2>2. bucket_count \in Nat
    BY <2>1, SettledFixed
  <2>3. ASSUME NEW hash \in Requested
        PROVE  BucketForHash(bucket_count, hash) < Larger(bucket_count, 1)
    <3>1. Larger(bucket_count, 1) \in Nat \ {0} /\ hash \in Nat
      BY <2>2, Sizes DEF Larger, Requested
    <3>2. hash % Larger(bucket_count, 1) \in 0 .. Larger(bucket_count, 1) - 1
      BY <3>1, DivMod
    <3> QED
      BY <3>1, <3>2 DEF BucketForHash
  <2> QED
    BY <2>1, <2>3, PolicyNewOK, PolicyNextOK DEF MeetsContract
<1>2. GrowthInv => MeetsContract
  BY <1>1
<1> QED
  BY <1>2, GrowthInvariant, PTL

(* Rebuilding a table with the count it has keeps the count (Rebuildable). *)
THEOREM SettlesOnItself == Spec => []Rebuildable
<1>1. GrowthInv => Rebuildable
  BY SettledKept DEF GrowthInv, TypeOK, Rebuildable
<1> QED
  BY <1>1, GrowthInvariant, PTL

(* A growth that is not refused adds a tenth, or reaches the ceiling       *)
(* (GrowsGeometrically).                                                   *)
THEOREM GrowthIsGeometric == Spec => GrowsGeometrically
<1> DEFINE Grown == /\ bucket_count' > bucket_count
                    /\ \/ 10 * bucket_count' >= 11 * bucket_count
                       \/ bucket_count' = MaxBucketCount(kind)
<1>1. ASSUME GrowthInv, Grow, ~refused'
      PROVE  Grown
  <2> DEFINE next == PolicyNext(kind, bucket_count)
  <2>1. kind \in Policies /\ kind \in Kinds /\ bucket_count \in SettledCounts(kind)
    BY <1>1, KindAssumption DEF GrowthInv, TypeOK, Policies
  <2>2. next # LengthError /\ Request(next)
    BY <1>1 DEF Grow
  <2>3. next \in Requested /\ next > bucket_count
    BY <2>1, <2>2, NextRequested
  <2>4. bucket_count' = PolicyNew(kind, next) /\ bucket_count' >= next
        /\ bucket_count' \in 0 .. VectorMax
    BY <1>1, <2>2, <2>3, RequestOK DEF GrowthInv, TypeOK
  <2>5. 10 * next >= 11 * bucket_count \/ (kind = "Mod" /\ next = PolicyMax(kind))
    BY <2>1, <2>2, PolicyNextOK
  <2>6. bucket_count \in Nat /\ next \in Nat /\ bucket_count' \in Nat
    BY <2>1, <2>3, <2>4, SettledFixed, Sizes DEF Requested
  <2>7. CASE kind = "Mod" /\ next = PolicyMax(kind)
    <3>1. ModNew(ModMax) = ModMax /\ PolicyMax(kind) = ModMax
      BY <2>7, ModMaxOK DEF ModNew, PolicyMax
    <3>2. bucket_count' = ModMax
      BY <2>4, <2>7, <3>1 DEF PolicyNew
    <3>3. ModMax <= VectorMax
      BY <2>4, <3>2, Sizes
    <3>4. bucket_count' = MaxBucketCount(kind)
      BY <3>1, <3>2, <3>3 DEF MaxBucketCount
    <3> QED
      BY <2>3, <2>7, <3>1, <3>2, <3>4
  <2>8. CASE 10 * next >= 11 * bucket_count
    <3> HIDE DEF next
    <3> QED
      BY <2>3, <2>4, <2>6, <2>8
  <2> QED
    BY <2>5, <2>7, <2>8
<1>2. GrowthInv /\ [Next]_vars => [Grow /\ ~refused' => Grown]_vars
  BY <1>1
<1> QED
  BY <1>2, GrowthInvariant, PTL DEF Spec, GrowsGeometrically

-----------------------------------------------------------------------------
(* Which probe sequences reach the whole table. *)

(* The slots of the first n probes.                                        *)
Reached(n) == { Triangle(j) % n : j \in 0 .. n - 1 }

LEMMA ProbedFrom ==
  ASSUME NEW n \in Nat, NEW count \in Nat
  PROVE  Probed(n, 0, count) = { Triangle(j) % n : j \in 0 .. count - 1 }
<1>1. \A j \in 0 .. count - 1 : 0 + Triangle(j) = Triangle(j)
  BY TriangleDouble
<1> QED
  BY <1>1 DEF Probed, Triangle

(* After n probes there is no new slot to come.                            *)
LEMMA ReachedAll ==
  ASSUME NEW n \in Nat \ {0}
  PROVE  Probed(n, 0, n) = Reached(n) /\ Probed(n, 0, 3 * n) = Reached(n)
<1>1. Probed(n, 0, n) = Reached(n)
  BY ProbedFrom DEF Reached
<1>2. ASSUME NEW j \in 0 .. 3 * n - 1
      PROVE  \E i \in 0 .. n - 1 : Triangle(j) % n = Triangle(i) % n
  <2>1. CASE j < n
    BY <2>1
  <2>2. CASE n <= j /\ j < 2 * n
    <3>1. 2 * n - 1 - j \in 0 .. n - 1 /\ 2 * n - 1 - (2 * n - 1 - j) = j
      BY <2>2
    <3> QED
      BY <3>1, TriangleMirror
  <2>3. CASE 2 * n <= j
    <3>1. j - 2 * n \in 0 .. n - 1 /\ j - 2 * n \in Nat /\ (j - 2 * n) + 2 * n = j
      BY <2>3
    <3> QED
      BY <3>1, TriangleTurns
  <2> QED
    BY <2>1, <2>2, <2>3
<1>3. \A i \in 0 .. n - 1 : i \in 0 .. 3 * n - 1
  OBVIOUS
<1>4. 3 * n \in Nat
  OBVIOUS
<1>5. Probed(n, 0, 3 * n) = { Triangle(j) % n : j \in 0 .. 3 * n - 1 }
  BY <1>4, ProbedFrom
<1>6. { Triangle(j) % n : j \in 0 .. 3 * n - 1 } = Reached(n)
  <2> DEFINE T(j) == Triangle(j) % n
  <2>1. \A j \in 0 .. 3 * n - 1 : \E i \in 0 .. n - 1 : T(j) = T(i)
    BY <1>2
  <2> HIDE DEF T
  <2>2. { T(j) : j \in 0 .. 3 * n - 1 } = { T(i) : i \in 0 .. n - 1 }
    BY <1>3, <2>1
  <2> QED
    BY <2>2 DEF T, Reached
<1> QED
  BY <1>1, <1>5, <1>6

(* A power-of-two table is covered by the first n probes.                  *)
LEMMA PowersCovered ==
  ASSUME NEW n \in PowersOfTwo
  PROVE  Reached(n) = 0 .. n - 1
<1> DEFINE f == [j \in 0 .. n - 1 |-> Triangle(j) % n]
<1>1. n \in Nat \ {0}
  BY PowersOK
<1>2. \A d \in 1 .. n : n % d = 0 => d = 1 \/ d % 2 = 0
  BY OddDivisor
<1>3. \A j \in 0 .. n - 1 : Triangle(j) \in Nat /\ 0 + Triangle(j) = Triangle(j)
                            /\ Triangle(j) % n \in 0 .. n - 1
  BY <1>1, TriangleSlot
<1>4. \A i, j \in 0 .. n - 1 : i < j => Triangle(i) % n # Triangle(j) % n
  <2>1. ASSUME NEW i \in 0 .. n - 1, NEW j \in 0 .. n - 1, i < j
        PROVE  (0 + Triangle(i)) % n # (0 + Triangle(j)) % n
    BY <1>1, <1>2, <2>1, TrianglesApart
  <2> QED
    BY <1>3, <2>1
<1>5. f \in [0 .. n - 1 -> 0 .. n - 1]
  BY <1>3
<1>6. ASSUME NEW i \in 0 .. n - 1, NEW j \in 0 .. n - 1, f[i] = f[j]
      PROVE  i = j
  <2>1. Triangle(i) % n = Triangle(j) % n
    BY <1>6
  <2>2. ~ (i < j) /\ ~ (j < i)
    BY <1>4, <2>1
  <2> QED
    BY <1>1, <2>2
<1>7. f \in Injection(0 .. n - 1, 0 .. n - 1)
  BY <1>5, <1>6 DEF Injection, IsInjective
<1>8. IsFiniteSet(0 .. n - 1)
  BY <1>1, FS_Interval
<1>9. f \in Surjection(0 .. n - 1, 0 .. n - 1)
  BY <1>7, <1>8, FS_Injection
<1> QED
  BY <1>3, <1>9 DEF Surjection, Reached

(* No other is.  An odd one above 1 has its first and its last of n probes *)
(* in one slot, and half of an even one is covered if it is.               *)
LEMMA OddUncovered ==
  ASSUME NEW n \in Nat \ {0}, n % 2 = 1, Reached(n) = 0 .. n - 1
  PROVE  n = 1
<1> DEFINE f == [j \in 0 .. n - 1 |-> Triangle(j) % n]
<1>1. \A j \in 0 .. n - 1 : Triangle(j) \in Nat /\ Triangle(j) % n \in 0 .. n - 1
  <2>1. \A j \in 0 .. n - 1 : j \in Nat
    OBVIOUS
  <2> QED
    BY <2>1, TriangleSlot
<1>2. f \in Surjection(0 .. n - 1, 0 .. n - 1)
  BY <1>1 DEF Surjection, Reached
<1>3. IsFiniteSet(0 .. n - 1)
  BY FS_Interval
<1>4. f \in Injection(0 .. n - 1, 0 .. n - 1)
  BY <1>2, <1>3, FS_Surjection DEF Bijection
<1>5. 0 \in 0 .. n - 1 /\ n - 1 \in 0 .. n - 1 /\ n - 1 \in Nat
  OBVIOUS
<1>6. PICK h \in Nat : n = 2 * h + 1
  <2>1. n \div 2 \in Nat /\ n = 2 * (n \div 2) + (n % 2)
    BY DivMod
  <2> QED
    BY <2>1
<1>7. Triangle(0) = n * 0 /\ Triangle(n - 1) = n * h
  <2>1. Triangle(0) \in Nat /\ 2 * Triangle(0) = 0 * (0 + 1)
    BY TriangleDouble
  <2>2. Triangle(n - 1) \in Nat /\ 2 * Triangle(n - 1) = (n - 1) * ((n - 1) + 1)
    BY <1>5, TriangleDouble
  <2>3. (n - 1) * ((n - 1) + 1) = 2 * (n * h) /\ n * h \in Nat
    BY <1>6, NatProduct
  <2> DEFINE a == n * h
             b == (n - 1) * ((n - 1) + 1)
  <2>4. a \in Nat /\ b = 2 * a /\ 2 * Triangle(n - 1) = b
    BY <2>2, <2>3
  <2> HIDE DEF a, b
  <2>5. Triangle(n - 1) = a
    BY <2>2, <2>4
  <2> QED
    BY <2>1, <2>5 DEF a
<1>8. Triangle(0) % n = 0 /\ Triangle(n - 1) % n = 0
  BY <1>6, <1>7, ExactQuotient
<1>9. f[0] = f[n - 1]
  BY <1>5, <1>8
<1> HIDE DEF f
<1>10. 0 = n - 1
  BY <1>4, <1>5, <1>9 DEF Injection, IsInjective
<1> QED
  BY <1>10

LEMMA HalfCovered ==
  ASSUME NEW h \in Nat \ {0}, Reached(2 * h) = 0 .. 2 * h - 1
  PROVE  Reached(h) = 0 .. h - 1
<1>1. \A j \in 0 .. h - 1 : Triangle(j) % h \in 0 .. h - 1
  <2>1. \A j \in 0 .. h - 1 : j \in Nat
    OBVIOUS
  <2> QED
    BY <2>1, TriangleSlot
<1>2. ASSUME NEW r \in 0 .. h - 1
      PROVE  \E i \in 0 .. h - 1 : Triangle(i) % h = r
  <2>1. PICK j \in 0 .. 2 * h - 1 : Triangle(j) % (2 * h) = r
    <3>1. r \in 0 .. 2 * h - 1
      OBVIOUS
    <3> QED
      BY <3>1 DEF Reached
  <2>2. Triangle(j) \in Nat
    <3>1. j \in Nat
      OBVIOUS
    <3> QED
      BY <3>1, TriangleSlot
  <2> DEFINE q == Triangle(j) \div (2 * h)
  <2>3. q \in Nat /\ Triangle(j) = (2 * h) * q + r
    <3>1. 2 * h \in Nat \ {0}
      OBVIOUS
    <3> QED
      BY <2>1, <2>2, <3>1, DivMod
  <2> HIDE DEF q
  <2>4. 2 * q \in Int /\ Triangle(j) = h * (2 * q) + r
    BY <2>3
  <2>5. Triangle(j) % h = r
    BY <2>2, <2>4, ModUnique
  <2>6. CASE j < h
    BY <2>5, <2>6
  <2>7. CASE h <= j
    <3>1. 2 * h - 1 - j \in 0 .. h - 1 /\ 2 * h - 1 - (2 * h - 1 - j) = j
      BY <2>7
    <3> QED
      BY <2>5, <3>1, TriangleMirror
  <2> QED
    BY <2>6, <2>7
<1> QED
  BY <1>1, <1>2 DEF Reached

LEMMA OnlyPowersCovered ==
  ASSUME NEW n \in 1 .. VectorMax, Reached(n) = 0 .. n - 1
  PROVE  n \in PowersOfTwo
<1> DEFINE Bad == { x \in 1 .. VectorMax : Reached(x) = 0 .. x - 1 /\ x \notin PowersOfTwo }
<1>1. SUFFICES ASSUME Bad # {}
               PROVE  FALSE
  BY Sizes
<1>2. PICK x \in Bad : \A y \in Bad : x <= y
  <2>1. Bad \subseteq Nat
    OBVIOUS
  <2> QED
    BY <1>1, <2>1, LeastNatural
<1>3. x \in 1 .. VectorMax /\ x \in Nat \ {0} /\ Reached(x) = 0 .. x - 1 /\ x \notin PowersOfTwo
  OBVIOUS
<1>4. x # 1
  BY <1>3, PowersOK
<1>5. PICK h \in Nat : x = 2 * h
  <2>1. x % 2 # 1
    BY <1>3, <1>4, OddUncovered
  <2>2. x \div 2 \in Nat /\ x = 2 * (x \div 2) + (x % 2) /\ x % 2 \in 0 .. 1
    BY <1>3
  <2> QED
    BY <2>1, <2>2
<1>6. h \in Nat \ {0} /\ h < x /\ h \in 1 .. VectorMax /\ Reached(h) = 0 .. h - 1
  <2>1. h \in Nat \ {0} /\ h < x /\ h \in 1 .. VectorMax
    BY <1>3, <1>5, Sizes
  <2> QED
    BY <1>3, <1>5, <2>1, HalfCovered
<1>7. h \in PowersOfTwo
  <2>1. ~ (x <= h)
    BY <1>3, <1>6
  <2> QED
    BY <1>2, <1>6, <2>1
<1>8. PICK k \in 0 .. WordBits - 1 : h = 2 ^ k
  BY <1>7 DEF PowersOfTwo
<1>9. /\ k \in Exponents /\ WordBits - 1 \in Exponents /\ k \in 0 .. Precision + WordBits + 7
      /\ (k < WordBits - 1 => k + 1 \in 0 .. WordBits - 1) /\ k <= WordBits - 1
  BY WordAssumption, PrecisionAssumption DEF Exponents
<1>10. x = 2 ^ (k + 1)
  BY <1>5, <1>8, <1>9, PowerLaw
<1>11. k < WordBits - 1
  <2>1. k = WordBits - 1 => h = PowerOfTwoMax
    BY <1>8, Words
  <2>2. x < PowerOfTwoMax
    BY <1>3, Sizes
  <2> QED
    BY <1>5, <1>6, <1>9, <2>1, <2>2, WordAssumption
<1> QED
  BY <1>3, <1>9, <1>10, <1>11 DEF PowersOfTwo

(* The probe sequence covers a table exactly if its size is a power of     *)
(* two, and bucket_count probes find all there is to find (ProbesCover).   *)
THEOREM ProbesReach == Spec => []ProbesCover
<1>1. ASSUME GrowthInv
      PROVE  ProbesCover
  <2> PICK n : n = bucket_count
    OBVIOUS
  <2>1. n \in 0 .. VectorMax
    BY <1>1 DEF GrowthInv, TypeOK
  <2> SUFFICES ASSUME n > 0
               PROVE  /\ Probed(n, 0, n) = 0 .. n - 1 <=> n \in PowersOfTwo
                      /\ Probed(n, 0, n) = Probed(n, 0, 3 * n)
    BY DEF ProbesCover
  <2>2. n \in 1 .. VectorMax /\ n \in Nat \ {0}
    BY <2>1, Sizes
  <2> QED
    BY <2>2, ReachedAll, PowersCovered, OnlyPowersCovered
<1> QED
  BY <1>1, GrowthInvariant, PTL

-----------------------------------------------------------------------------
(* The thresholds of a load factor. *)

(* Rounding keeps the order.                                               *)
LEMMA NearestMonotone ==
  ASSUME NEW x \in Nat, NEW y \in Nat, x <= y, NEW den \in Nat \ {0},
         NEW top \in 0 .. WordBits + 7, y < 2 ^ (Precision + top) * den
  PROVE  /\ Nearest(x, den) \in Nat /\ Nearest(y, den) \in Nat
         /\ Nearest(x, den) <= Nearest(y, den)
<1> DEFINE f == 2 ^ Precision
<1>1. f \in Nat \ {0} /\ \E h \in Nat : f = 2 * h
  BY Units
<1>2. 2 ^ (Precision + top) * den \in Nat
  <2>1. 2 ^ (Precision + top) \in Nat
    BY Units, PowerPositive
  <2> QED
    BY <2>1, NatProduct
<1>3. x < 2 ^ (Precision + top) * den
  BY <1>2
<1>4. PICK i \in 0 .. top :
        /\ Spacing(x, den) = 2 ^ i
        /\ x < 2 ^ (Precision + i) * den
        /\ \A j \in 0 .. WordBits + 7 : x < 2 ^ (Precision + j) * den => i <= j
  BY <1>3, SpacingOK
<1>5. PICK k \in 0 .. top :
        /\ Spacing(y, den) = 2 ^ k
        /\ y < 2 ^ (Precision + k) * den
        /\ \A j \in 0 .. WordBits + 7 : y < 2 ^ (Precision + j) * den => k <= j
  BY SpacingOK
<1>6. i \in 0 .. WordBits + 7 /\ k \in 0 .. WordBits + 7
  BY WordAssumption
<1>7. i <= k
  <2>1. 2 ^ (Precision + k) * den \in Nat
    <3>1. 2 ^ (Precision + k) \in Nat
      BY <1>6, Units, PowerPositive
    <3> QED
      BY <3>1, NatProduct
  <2>2. x < 2 ^ (Precision + k) * den
    BY <1>5, <2>1
  <2> QED
    BY <1>4, <1>6, <2>2
<1> DEFINE s == 2 ^ i
           t == 2 ^ k
           a == x \div (s * den)
           b == y \div (t * den)
           c == x % (s * den)
           d == y % (t * den)
<1>8. /\ s \in Nat \ {0} /\ s * den \in Nat \ {0} /\ 2 ^ (Precision + i) = f * s
      /\ t \in Nat \ {0} /\ t * den \in Nat \ {0} /\ 2 ^ (Precision + k) = f * t
  <2>1. s \in Nat \ {0} /\ t \in Nat \ {0}
    BY <1>6, Units
  <2>2. 2 ^ (Precision + i) = f * s /\ 2 ^ (Precision + k) = f * t
    BY <1>6, Units
  <2> HIDE DEF s, t
  <2>3. s * den \in Nat \ {0} /\ t * den \in Nat \ {0}
    BY <2>1
  <2> QED
    BY <2>1, <2>2, <2>3
<1> HIDE DEF f, s, t
<1>9. /\ a \in Nat /\ c \in 0 .. s * den - 1 /\ x = (s * den) * a + c
      /\ b \in Nat /\ d \in 0 .. t * den - 1 /\ y = (t * den) * b + d
  BY <1>8, DivMod
<1> DEFINE up(r, step, below) == 2 * r > step \/ (2 * r = step /\ below % 2 = 1)
<1>10. /\ Nearest(x, den) = s * (IF up(c, s * den, a) THEN a + 1 ELSE a)
       /\ Nearest(y, den) = t * (IF up(d, t * den, b) THEN b + 1 ELSE b)
  BY <1>4, <1>5 DEF Nearest, s, t
<1>11. \A n \in Nat : n <= b <=> (t * den) * n <= y
  BY <1>8, Quotient
<1>11a. \A n \in Nat : n <= a <=> (s * den) * n <= x
  BY <1>8, Quotient
<1> HIDE DEF a, b, c, d
<1> DEFINE m == IF up(c, s * den, a) THEN a + 1 ELSE a
           n == IF up(d, t * den, b) THEN b + 1 ELSE b
<1>12. m \in {a, a + 1} /\ n \in {b, b + 1} /\ m \in Nat /\ n \in Nat
  BY <1>9
<1>13. Nearest(x, den) = s * m /\ Nearest(y, den) = t * n
  BY <1>10
<1>14. CASE i = k
  <2>1. s = t
    BY <1>14 DEF s, t
  <2>2. a <= b
    <3>1. (t * den) * a <= x
      BY <1>9, <1>11a, <2>1
    <3>2. (t * den) * a \in Nat
      BY <1>8, <1>9, NatProduct
    <3>3. (t * den) * a <= y
      BY <3>1, <3>2
    <3> QED
      BY <1>9, <1>11, <3>3
  <2>3. m <= n
    <3>1. CASE a < b
      BY <1>9, <1>12, <3>1
    <3>2. CASE a = b
      <4> DEFINE step == t * den
                 p == step * b
      <4>1. step \in Nat /\ p \in Nat /\ x = p + c /\ y = p + d /\ c \in Nat /\ d \in Nat
        BY <1>8, <1>9, <2>1, <3>2, NatProduct
      <4> HIDE DEF step, p
      <4>2. c <= d
        BY <4>1
      <4>3. up(c, step, b) => up(d, step, b)
        BY <4>1, <4>2
      <4> QED
        BY <1>9, <2>1, <3>2, <4>3 DEF step
    <3> QED
      BY <1>9, <2>2, <3>1, <3>2
  <2> HIDE DEF m, n
  <2>4. s * m \in Nat /\ s * n \in Nat /\ s * (n - m) \in Nat /\ s * n = s * m + s * (n - m)
    BY <1>8, <1>12, <2>3, NatProduct
  <2> QED
    BY <1>13, <2>1, <2>4
<1>15. CASE i < k
  <2>1. Nearest(x, den) \in 0 .. f * s
    BY <1>4, <1>6, <1>8, NearestBelow
  <2>2. ~ (y < 2 ^ (Precision + (k - 1)) * den)
    <3>1. k - 1 \in 0 .. WordBits + 7 /\ ~ (k <= k - 1)
      BY <1>6, <1>15, WordAssumption
    <3> QED
      BY <1>5, <3>1
  <2> DEFINE u == 2 ^ (k - 1)
  <2>3. u \in Nat \ {0} /\ t = 2 * u /\ s <= u /\ 2 ^ (Precision + (k - 1)) = f * u
    <3>1. /\ k - 1 \in 0 .. WordBits + 7 /\ k - 1 \in 0 .. Precision + WordBits + 7
          /\ (k - 1) + 1 = k /\ i <= k - 1
      BY <1>6, <1>15, PrecisionAssumption, WordAssumption
    <3>2. 2 ^ ((k - 1) + 1) = 2 * 2 ^ (k - 1)
      BY <3>1, PowerLaw
    <3>3. i \in Exponents /\ k - 1 \in Exponents
      BY <1>6, <3>1, Units
    <3> QED
      BY <1>6, <3>1, <3>2, <3>3, PowersGrow, Units DEF s, t, f
  <2> HIDE DEF u
  <2>4. PICK h \in Nat : f = 2 * h
    BY <1>1
  <2>5. h <= b
    <3>1. (f * u) * den \in Nat /\ (f * u) * den = (t * den) * h
      <4>1. (f * u) * den = ((2 * h) * u) * den /\ (t * den) * h = ((2 * u) * den) * h
        BY <2>3, <2>4
      <4>2. ((2 * h) * u) * den = ((2 * u) * den) * h
        BY <2>3
      <4>3. f * u \in Nat
        BY <1>1, <2>3, NatProduct
      <4> QED
        BY <4>1, <4>2, <4>3, NatProduct
    <3>2. (f * u) * den <= y
      BY <2>2, <2>3, <3>1
    <3> QED
      BY <1>11, <3>1, <3>2
  <2> HIDE DEF n
  <2>6. f * s <= t * n
    <3>1. h <= n /\ n \in Nat
      BY <1>9, <1>12, <2>5
    <3>2. /\ t * (n - h) \in Nat /\ t * n = t * h + t * (n - h)
          /\ f * u = t * h /\ f * (u - s) \in Nat /\ f * u = f * s + f * (u - s)
      <4>1. t * (n - h) \in Nat /\ f * (u - s) \in Nat
        BY <1>1, <1>8, <2>3, <3>1, NatProduct
      <4>2. (2 * h) * u = (2 * u) * h
        BY <2>3
      <4>3. t * n = t * h + t * (n - h)
        BY <1>8, <3>1
      <4>4. f * u = f * s + f * (u - s)
        BY <1>1, <1>8, <2>3
      <4> QED
        BY <2>3, <2>4, <4>1, <4>2, <4>3, <4>4
    <3> DEFINE A == t * (n - h)
               B == t * h
               C == f * s
               D == f * (u - s)
    <3>3. A \in Nat /\ D \in Nat /\ t * n = B + A /\ B = C + D /\ C \in Int
      BY <1>1, <1>8, <3>2
    <3> HIDE DEF A, B, C, D
    <3>4. C <= t * n
      BY <3>3
    <3> QED
      BY <3>4 DEF C
  <2>7. t * n \in Nat /\ f * s \in Nat
    BY <1>1, <1>8, <1>12, NatProduct
  <2> QED
    BY <1>13, <2>1, <2>6, <2>7
<1> QED
  BY <1>7, <1>14, <1>15

(* What rounding leaves as it is.                                          *)
IsFloat(x) == \E k \in 0 .. WordBits + 6 : \E m \in 0 .. 2 ^ Precision : x = 2 ^ k * m

LEMMA FloatOK ==
  ASSUME NEW x, IsFloat(x), NEW den \in Nat \ {0}
  PROVE  /\ x \in Nat /\ x * den \in Nat /\ Nearest(x * den, den) = x
         /\ WordBits + 7 \in 0 .. WordBits + 7
         /\ x * den < 2 ^ (Precision + (WordBits + 7)) * den
<1>1. PICK k \in 0 .. WordBits + 6, m \in 0 .. 2 ^ Precision : x = 2 ^ k * m
  BY DEF IsFloat
<1>2. x \in Nat /\ Nearest(x * den, den) = x
  BY <1>1, NearestExact
<1> DEFINE f == 2 ^ Precision
           s == 2 ^ k
           u == 2 ^ (WordBits + 7)
           y == 2 ^ (Precision + (WordBits + 7))
<1>3. /\ k \in 0 .. WordBits + 7 /\ WordBits + 7 \in 0 .. WordBits + 7 /\ k < WordBits + 7
      /\ k \in Exponents /\ WordBits + 7 \in Exponents
  BY WordAssumption, PrecisionAssumption DEF Exponents
<1>4. f \in Nat \ {0} /\ s \in Nat \ {0} /\ u \in Nat \ {0} /\ y = f * u /\ 2 * s <= u
  BY <1>3, Units, PowersGrow
<1>5. m \in Nat /\ m <= f /\ x = s * m
  BY <1>1, <1>4
<1> HIDE DEF f, s, u, y
<1>6. y \in Nat /\ x < y
  <2>1. s * (f - m) \in Nat /\ f * (u - 2 * s) \in Nat /\ f * s \in Nat \ {0}
    <3>1. f * s = s + (f - 1) * s /\ (f - 1) * s \in Nat
      BY <1>4, NatProduct
    <3> QED
      BY <1>4, <1>5, <3>1, NatProduct
  <2>2. f * u = s * m + s * (f - m) + f * s + f * (u - 2 * s)
    BY <1>4, <1>5
  <2> QED
    BY <1>2, <1>4, <1>5, <2>1, <2>2, NatProduct
<1>7. x * den \in Nat /\ x * den < y * den
  BY <1>2, <1>6, ScaledOrder
<1> QED
  BY <1>2, <1>3, <1>7 DEF y

(* A quotient that does not exceed a float does not exceed it when it is   *)
(* rounded, nor does one that is not below a float fall below it.          *)
LEMMA NearestAtMost ==
  ASSUME NEW num \in Nat, NEW den \in Nat \ {0}, NEW x, IsFloat(x), num <= x * den
  PROVE  x \in Nat /\ Nearest(num, den) \in Nat /\ Nearest(num, den) <= x
BY FloatOK, NearestMonotone

LEMMA NearestAtLeast ==
  ASSUME NEW num \in Nat, NEW den \in Nat \ {0}, NEW x, IsFloat(x), x * den <= num,
         NEW top \in 0 .. WordBits + 7, num < 2 ^ (Precision + top) * den
  PROVE  x \in Nat /\ Nearest(num, den) \in Nat /\ x <= Nearest(num, den)
BY FloatOK, NearestMonotone

(* The multiples of a sixteenth of 2^Precision that occur below.           *)
LEMMA Sixteenth ==
  \E e \in Nat : /\ e >= 2 /\ 2 ^ Precision = 16 * e /\ One = 128 * e
                 /\ \A b \in 0 .. 16 : IsFloat(8 * (b * e)) /\ IsFloat(4 * (b * e))
<1> DEFINE e == 2 ^ (Precision - 4)
           f == 2 ^ Precision
<1>1. /\ Precision - 4 \in Exponents /\ 1 \in Exponents /\ 1 <= Precision - 4
      /\ \A i \in 1 .. 4 : Precision - i \in 0 .. Precision + WordBits + 7
      /\ 2 \in 0 .. WordBits + 6 /\ 3 \in 0 .. WordBits + 6
      /\ (Precision - 4) + 1 = Precision - 3 /\ (Precision - 3) + 1 = Precision - 2
      /\ (Precision - 2) + 1 = Precision - 1 /\ (Precision - 1) + 1 = Precision
  BY WordAssumption, PrecisionAssumption DEF Exponents
<1>2. 2 ^ 1 = 2 /\ 2 ^ 2 = 4 /\ 2 ^ 3 = 8
  OBVIOUS
<1>3. e \in Nat /\ e >= 2
  <2>1. e \in Nat \ {0} /\ 2 ^ 1 <= e
    BY <1>1, PowerPositive, PowersGrow
  <2> HIDE DEF e
  <2> QED
    BY <1>2, <2>1
<1>4. f = 16 * e
  <2>1. \A i \in 1 .. 4 : 2 ^ ((Precision - i) + 1) = 2 * 2 ^ (Precision - i)
    BY <1>1, PowerLaw
  <2>2. /\ 2 ^ ((Precision - 4) + 1) = 2 * 2 ^ (Precision - 4)
        /\ 2 ^ ((Precision - 3) + 1) = 2 * 2 ^ (Precision - 3)
        /\ 2 ^ ((Precision - 2) + 1) = 2 * 2 ^ (Precision - 2)
        /\ 2 ^ ((Precision - 1) + 1) = 2 * 2 ^ (Precision - 1)
    <3>1. 1 \in 1 .. 4 /\ 2 \in 1 .. 4 /\ 3 \in 1 .. 4 /\ 4 \in 1 .. 4
      OBVIOUS
    <3> QED
      BY <2>1, <3>1, Zenon
  <2>3. f = 2 * (2 * (2 * (2 * e)))
    BY <1>1, <2>2, Zenon
  <2> HIDE DEF e, f
  <2> QED
    BY <1>3, <2>3
<1>5. One = 128 * e
  <2>1. One = 8 * f
    BY Units
  <2> HIDE DEF e, f
  <2> QED
    BY <1>3, <1>4, <2>1
<1>6. ASSUME NEW b \in 0 .. 16
      PROVE  IsFloat(8 * (b * e)) /\ IsFloat(4 * (b * e))
  <2>1. b * e \in 0 .. f
    <3> HIDE DEF e, f
    <3>1. b * e \in Nat /\ (16 - b) * e \in Nat /\ 16 * e = b * e + (16 - b) * e
      BY <1>3, NatProduct
    <3> DEFINE p == b * e
               q == (16 - b) * e
    <3>2. p \in Nat /\ q \in Nat /\ f = p + q
      BY <1>4, <3>1
    <3> HIDE DEF p, q
    <3>3. p \in 0 .. f
      BY <3>2
    <3> QED
      BY <3>3 DEF p
  <2>2. 8 * (b * e) = 2 ^ 3 * (b * e) /\ 4 * (b * e) = 2 ^ 2 * (b * e)
    BY <1>2, Zenon
  <2> QED
    BY <1>1, <2>1, <2>2 DEF IsFloat
<1> HIDE DEF e
<1> QED
  BY <1>3, <1>4, <1>5, <1>6

LEMMA FloatsOK ==
  ASSUME NEW x \in Floats
  PROVE  /\ x \in Nat /\ IsFloat(x)
         /\ \E k \in 0 .. 4 : \E m \in 0 .. 2 ^ Precision : x = 2 ^ k * m
<1>1. /\ 4 \in 0 .. WordBits + 7 /\ (\A k \in 0 .. 4 : k \in 0 .. WordBits + 6)
      /\ Precision + 3 \in 0 .. Precision + WordBits + 7 /\ (Precision + 3) + 1 = Precision + 4
  BY WordAssumption, PrecisionAssumption
<1>2. 2 ^ (Precision + 4) = 2 * One
  <2>1. 2 ^ ((Precision + 3) + 1) = 2 * 2 ^ (Precision + 3)
    BY <1>1, PowerLaw
  <2> QED
    BY <1>1, <2>1 DEF One
<1>3. One \in Nat \ {0}
  BY Units
<1>4. x \in Nat /\ x <= One /\ Nearest(x, 1) = x
  BY <1>3 DEF Floats
<1>5. x < 2 ^ (Precision + 4) * 1
  BY <1>2, <1>3, <1>4
<1>6. PICK k \in 0 .. 4, m \in 0 .. 2 ^ Precision : Nearest(x, 1) = 2 ^ k * m
  <2> DEFINE top == 4
  <2>1. 1 \in Nat \ {0} /\ x \in Nat /\ top \in 0 .. WordBits + 7 /\ x < 2 ^ (Precision + top) * 1
    BY <1>1, <1>4, <1>5
  <2> HIDE DEF top
  <2>2. \E k \in 0 .. top : \E m \in 0 .. 2 ^ Precision : Nearest(x, 1) = 2 ^ k * m
    BY <2>1, NearestOK
  <2> QED
    BY <2>2 DEF top
<1> QED
  BY <1>1, <1>4, <1>6 DEF IsFloat

(* The load factor with tombstones: not below the load factor, and at      *)
(* least a sixteenth below 1.                                              *)
LEMMA DeletedLoadOK ==
  ASSUME NEW load \in Floats, load \in MinLoad .. MaxLoad
  PROVE  /\ load \in Nat \ {0} /\ LoadWithDeleted(load) \in Nat
         /\ load <= LoadWithDeleted(load) /\ 16 * LoadWithDeleted(load) <= 15 * One
<1>1. PICK e \in Nat : /\ e >= 2 /\ 2 ^ Precision = 16 * e /\ One = 128 * e
                       /\ \A b \in 0 .. 16 : IsFloat(8 * (b * e)) /\ IsFloat(4 * (b * e))
  BY Sixteenth
<1>2. MaxLoad \in Nat /\ MaxLoad <= 8 * (13 * e)
  <2>1. 8 * One \in Nat /\ 8 * One <= (8 * (13 * e)) * 10 /\ 10 \in Nat \ {0}
    BY <1>1
  <2>2. IsFloat(8 * (13 * e))
    BY <1>1
  <2> QED
    BY <2>1, <2>2, NearestAtMost DEF MaxLoad
<1>3. load \in Nat /\ 8 * e < load /\ load <= 104 * e
  <2>1. MinLoad \in Nat /\ 16 * e < 2 * MinLoad /\ MinLoad <= load /\ load <= MaxLoad
    BY <1>1, LoadsOK
  <2>2. load \in Int
    BY <1>2, <2>1
  <2> QED
    BY <1>1, <1>2, <2>1, <2>2
<1>4. PICK b \in 0 .. 16, c \in 0 .. 16 :
        load <= 8 * (b * e) /\ One - load <= 8 * (c * e) /\ 2 * b + c <= 30
  <2>1. CASE load <= 32 * e
    <3>1. load <= 8 * (4 * e) /\ One - load <= 8 * (15 * e)
      BY <1>1, <1>3, <2>1
    <3> QED
      BY <3>1
  <2>2. CASE 32 * e <= load /\ load <= 64 * e
    <3>1. load <= 8 * (8 * e) /\ One - load <= 8 * (12 * e)
      BY <1>1, <1>3, <2>2
    <3> QED
      BY <3>1
  <2>3. CASE 64 * e <= load /\ load <= 80 * e
    <3>1. load <= 8 * (10 * e) /\ One - load <= 8 * (8 * e)
      BY <1>1, <1>3, <2>3
    <3> QED
      BY <3>1
  <2>4. CASE 80 * e <= load /\ load <= 96 * e
    <3>1. load <= 8 * (12 * e) /\ One - load <= 8 * (6 * e)
      BY <1>1, <1>3, <2>4
    <3> QED
      BY <3>1
  <2>5. CASE 96 * e <= load
    <3>1. load <= 8 * (13 * e) /\ One - load <= 8 * (4 * e)
      BY <1>1, <1>3, <2>5
    <3> QED
      BY <3>1
  <2> QED
    BY <1>1, <1>3, <2>1, <2>2, <2>3, <2>4, <2>5
<1> DEFINE p == b * e
           q == c * e
           y == Nearest(One - load, 1)
           z == Times(One \div 2, y)
<1>5. /\ p \in Nat /\ q \in Nat /\ 2 * p + q <= 30 * e
      /\ load <= 8 * p /\ One - load <= 8 * q
      /\ IsFloat(8 * p) /\ IsFloat(8 * q) /\ IsFloat(4 * q)
  <2>1. (30 - 2 * b - c) * e \in Nat /\ b * e \in Nat /\ c * e \in Nat
    BY <1>1, <1>4, NatProduct
  <2>2. 30 * e = 2 * (b * e) + c * e + (30 - 2 * b - c) * e
    BY <1>1, <1>4
  <2> QED
    BY <1>1, <1>4, <2>1, <2>2
<1> HIDE DEF p, q
<1>6. y \in Nat /\ y <= 8 * q
  <2>1. One - load \in Nat /\ One - load <= (8 * q) * 1 /\ 1 \in Nat \ {0}
    BY <1>1, <1>3, <1>5
  <2> QED
    BY <1>5, <2>1, NearestAtMost
<1> HIDE DEF y
<1>7. z \in Nat /\ z <= 4 * q
  <2>1. One \in Nat \ {0} /\ One \div 2 = 64 * e /\ 64 * e \in Nat \ {0}
    BY <1>1
  <2>2. (64 * e) * y \in Nat /\ (64 * e) * y <= (4 * q) * One
    <3> DEFINE d == 64 * e
               g == 8 * q
    <3>1. d \in Nat \ {0} /\ g \in Nat /\ y <= g
      BY <1>5, <1>6, <2>1
    <3>2. g * d = (4 * q) * One /\ y * d = d * y
      BY <1>1, <1>5, <1>6
    <3> HIDE DEF d, g
    <3>3. y * d \in Nat /\ y * d <= g * d
      BY <1>6, <3>1, ScaledOrder
    <3> QED
      BY <3>2, <3>3 DEF d
  <2>3. z = Nearest((64 * e) * y, One)
    BY <2>1 DEF Times
  <2> HIDE DEF z
  <2>4. Nearest((64 * e) * y, One) \in Nat /\ Nearest((64 * e) * y, One) <= 4 * q
    BY <1>5, <2>1, <2>2, NearestAtMost
  <2> QED
    BY <2>3, <2>4
<1> HIDE DEF z
<1>8. LoadWithDeleted(load) = Nearest(load + z, 1)
  BY DEF LoadWithDeleted, y, z
<1>9. IsFloat(8 * (15 * e)) /\ 1 \in Nat \ {0} /\ 15 * e \in Nat
  BY <1>1
<1>10. load + z \in Nat /\ load + z <= (8 * (15 * e)) * 1 /\ load * 1 <= load + z
  BY <1>1, <1>3, <1>5, <1>7
<1>11. /\ LoadWithDeleted(load) \in Nat /\ LoadWithDeleted(load) <= 8 * (15 * e)
  BY <1>8, <1>9, <1>10, NearestAtMost
<1>12. load <= LoadWithDeleted(load)
  <2> DEFINE u == 2 ^ (Precision + (WordBits + 7)) * 1
             v == (8 * (15 * e)) * 1
  <2>1. WordBits + 7 \in 0 .. WordBits + 7 /\ v < u
    BY <1>9, FloatOK
  <2>2. u \in Int /\ v \in Int
    <3>1. 2 ^ (Precision + (WordBits + 7)) \in Nat
      BY <2>1, Units, PowerPositive
    <3> QED
      BY <1>1, <3>1
  <2>3. load + z < u
    <3>1. load + z <= v /\ load + z \in Nat
      BY <1>10
    <3> HIDE DEF u, v
    <3> QED
      BY <2>1, <2>2, <3>1
  <2>4. IsFloat(load)
    BY FloatsOK
  <2> QED
    BY <1>8, <1>9, <1>10, <2>1, <2>3, <2>4, NearestAtLeast
<1> QED
  BY <1>1, <1>3, <1>11, <1>12

(* A count as a float: its mantissa is not a small number.                 *)
LEMMA CountAsFloat ==
  ASSUME NEW n \in 1 .. WordMax
  PROVE  \E k \in 1 .. WordBits + 6 : \E m \in 16 .. 2 ^ Precision :
           2 ^ k \in Nat \ {0} /\ AsFloat(n) = 2 ^ k * m
<1> DEFINE f == 2 ^ Precision
           w == 2 ^ WordBits
           num == n * One
<1>1. PICK e \in Nat : e >= 2 /\ f = 16 * e /\ One = 128 * e
  BY Sixteenth
<1>2. /\ WordBits + 3 \in 0 .. WordBits + 7 /\ WordBits \in Nat /\ Precision + 3 \in Nat
      /\ Precision + (WordBits + 3) = WordBits + (Precision + 3)
      /\ WordBits \in Exponents /\ WordBits + (Precision + 3) \in Exponents
  BY WordAssumption, PrecisionAssumption DEF Exponents
<1>3. w \in Nat \ {0} /\ WordMax = w - 1 /\ 2 ^ (Precision + (WordBits + 3)) = w * One
  <2>1. w \in Nat \ {0} /\ WordMax = w - 1
    BY <1>2, PowerPositive DEF WordMax
  <2> QED
    BY <1>2, <2>1, PowerSum DEF One
<1> HIDE DEF f, w
<1>4. n \in Nat \ {0} /\ n < w
  BY <1>3
<1>5. /\ num \in Nat /\ One <= num
      /\ num < 2 ^ (Precision + (WordBits + 3)) * 1
  <2>1. One \in Nat \ {0} /\ 1 * One = One
    BY <1>1
  <2>2. n * One \in Nat /\ 1 * One <= n * One /\ n * One < w * One /\ w * One \in Nat
    <3>1. 1 <= n /\ 1 \in Nat /\ w \in Nat
      BY <1>3, <1>4
    <3>2. 1 * One <= n * One
      BY <1>4, <2>1, <3>1, ScaledOrder
    <3>3. n * One \in Nat /\ w * One \in Nat /\ n * One < w * One
      BY <1>4, <2>1, <3>1, ScaledOrder
    <3> QED
      BY <3>2, <3>3
  <2> QED
    BY <1>3, <2>1, <2>2
<1> HIDE DEF num
<1>6. PICK k \in 0 .. WordBits + 3, m \in 0 .. 2 ^ Precision :
        /\ Nearest(num, 1) = 2 ^ k * m
        /\ m \in {num \div (2 ^ k * 1), num \div (2 ^ k * 1) + 1}
        /\ \A j \in 0 .. WordBits + 7 : num < 2 ^ (Precision + j) * 1 => k <= j
  <2>1. 1 \in Nat \ {0}
    OBVIOUS
  <2> QED
    BY <1>2, <1>5, <2>1, NearestOK
<1> DEFINE s == 2 ^ k
           q == num \div (s * 1)
<1>7. k \in 0 .. WordBits + 7 /\ s \in Nat \ {0} /\ s * 1 = s
  <2>1. k \in 0 .. WordBits + 7
    BY WordAssumption
  <2>2. s \in Nat \ {0}
    BY <2>1, Units
  <2> QED
    BY <2>1, <2>2
<1>8. q \in Nat /\ m \in {q, q + 1} /\ m \in 0 .. f
  <2>1. q \in Nat
    BY <1>5, <1>7, DivMod
  <2> QED
    BY <1>6, <2>1 DEF f
<1>9. k # 0
  <2> SUFFICES ASSUME k = 0
               PROVE  FALSE
    OBVIOUS
  <2>1. 2 ^ 0 = 1
    OBVIOUS
  <2>2. s = 1
    BY <2>1
  <2>3. q = num
    BY <1>5, <2>2
  <2> QED
    BY <1>1, <1>5, <1>8, <2>3
<1>10. k - 1 \in 0 .. WordBits + 7 /\ ~ (k <= k - 1) /\ k - 1 \in 0 .. Precision + WordBits + 7
       /\ (k - 1) + 1 = k
  BY <1>7, <1>9, WordAssumption, PrecisionAssumption
<1> DEFINE u == 2 ^ (k - 1)
<1>11. u \in Nat \ {0} /\ s = 2 * u /\ 2 ^ (Precision + (k - 1)) = f * u
  <2>1. 2 ^ ((k - 1) + 1) = 2 * 2 ^ (k - 1)
    BY <1>10, PowerLaw
  <2> QED
    BY <1>10, <2>1, Units DEF f
<1>12. 8 * e <= q
  <2>1. ~ (num < (f * u) * 1)
    BY <1>6, <1>10, <1>11
  <2> HIDE DEF s, u, q
  <2>2. (f * u) * 1 = (s * 1) * (8 * e) /\ (s * 1) * (8 * e) \in Nat /\ 8 * e \in Nat
    <3>1. (16 * e) * u = (2 * u) * (8 * e) /\ (2 * u) * (8 * e) \in Nat
      BY <1>1, <1>11
    <3>2. (f * u) * 1 = f * u
      BY <1>1, <1>11
    <3> QED
      BY <1>1, <1>7, <1>11, <3>1, <3>2
  <2>3. (s * 1) * (8 * e) <= num
    BY <1>5, <2>1, <2>2
  <2> QED
    BY <1>5, <1>7, <2>2, <2>3, Quotient DEF q
<1> HIDE DEF q
<1>13. m \in 16 .. f
  BY <1>1, <1>8, <1>12
<1>14. k \in 1 .. WordBits + 6
  BY <1>9, WordAssumption
<1> QED
  BY <1>6, <1>7, <1>13, <1>14 DEF AsFloat, num, f

(* The products the thresholds are cut from.                               *)
LEMMA ProductsOK ==
  ASSUME NEW n \in 1 .. WordMax, NEW load \in Floats, load \in MinLoad .. MaxLoad
  PROVE  LET grow  == Times(AsFloat(n), load)
             clear == Times(AsFloat(n), LoadWithDeleted(load))
         IN grow \in Nat /\ clear \in Nat /\ grow <= clear /\ clear < n * One
<1> DEFINE L == LoadWithDeleted(load)
<1>1. load \in Nat /\ L \in Nat /\ load <= L /\ 16 * L <= 15 * One
  BY DeletedLoadOK
<1>2. One \in Nat \ {0}
  BY Units
<1>3. PICK k \in 1 .. WordBits + 6, m \in 16 .. 2 ^ Precision :
        2 ^ k \in Nat \ {0} /\ AsFloat(n) = 2 ^ k * m
  BY CountAsFloat
<1> DEFINE s == 2 ^ k
           a == s * m
           p == s * (m - 1)
<1>4. m \in Nat /\ m >= 16 /\ m - 1 \in 0 .. 2 ^ Precision /\ n \in Nat \ {0}
  <2>1. 2 ^ Precision \in Nat
    BY Units
  <2> QED
    BY <2>1
<1>5. IsFloat(p)
  BY <1>4 DEF IsFloat
<1>6. s \in Nat \ {0} /\ AsFloat(n) = a
  BY <1>3
<1> HIDE DEF L, s
<1>7. a \in Nat /\ p \in Nat /\ a = p + s /\ 15 * a <= 16 * p
  <2>1. s * (m - 16) \in Nat /\ s * (m - 1) \in Nat /\ s * m \in Nat
    BY <1>4, <1>6, NatProduct
  <2>2. s * m = s * (m - 1) + s /\ 16 * (s * (m - 1)) = 15 * (s * m) + s * (m - 16)
    BY <1>4, <1>6
  <2> QED
    BY <1>6, <2>1, <2>2
<1> HIDE DEF a, p
<1>8. a * L \in Nat /\ a * load \in Nat /\ a * load <= a * L /\ a * L <= p * One
  <2>1. a \in Nat \ {0}
    BY <1>6, <1>7
  <2>2. /\ load * a \in Nat /\ L * a \in Nat /\ load * a <= L * a
        /\ load * a = a * load /\ L * a = a * L
    BY <1>1, <2>1, ScaledOrder
  <2>3. (16 * L) * a <= (15 * One) * a
    <3>1. 16 * L \in Nat /\ 15 * One \in Nat
      BY <1>1, <1>2
    <3> QED
      BY <1>1, <2>1, <3>1, ScaledOrder
  <2>4. (15 * a) * One <= (16 * p) * One
    <3>1. 15 * a \in Nat /\ 16 * p \in Nat
      BY <1>7
    <3> QED
      BY <1>2, <1>7, <3>1, ScaledOrder
  <2> DEFINE x == a * L
             y == a * One
             z == p * One
  <2>5. /\ x \in Nat /\ y \in Nat /\ z \in Nat
        /\ (16 * L) * a = 16 * x /\ (15 * One) * a = 15 * y
        /\ (15 * a) * One = 15 * y /\ (16 * p) * One = 16 * z
    BY <1>1, <1>2, <1>7, <2>2, NatProduct
  <2> HIDE DEF x, y, z
  <2>6. x <= z
    BY <2>3, <2>4, <2>5
  <2> QED
    BY <2>2, <2>6 DEF x, z
<1>9. /\ Times(a, L) \in Nat /\ Times(a, L) <= p
  BY <1>2, <1>5, <1>8, NearestAtMost DEF Times
<1>10. Times(a, load) \in Nat /\ Times(a, load) <= Times(a, L)
  <2> DEFINE u == 2 ^ (Precision + (WordBits + 7)) * One
             z == p * One
  <2>1. WordBits + 7 \in 0 .. WordBits + 7 /\ z < u
    BY <1>2, <1>5, FloatOK
  <2>2. u \in Int /\ z \in Int
    <3>1. 2 ^ (Precision + (WordBits + 7)) \in Nat
      BY <2>1, Units, PowerPositive
    <3> QED
      BY <1>2, <1>7, <3>1
  <2>3. a * L < u
    <3>1. a * L <= z /\ a * L \in Nat
      BY <1>8
    <3> HIDE DEF u, z
    <3> QED
      BY <2>1, <2>2, <3>1
  <2> QED
    BY <1>2, <1>8, <2>1, <2>3, NearestMonotone DEF Times
<1>11. p < n * One
  <2>1. n * One \in Nat
    BY <1>2, <1>4, NatProduct
  <2> SUFFICES ASSUME n * One <= p * 1
               PROVE  FALSE
    BY <1>7, <2>1
  <2>2. Nearest(n * One, 1) <= p
    BY <1>5, <2>1, NearestAtMost
  <2> QED
    BY <1>6, <1>7, <2>2 DEF AsFloat
<1> DEFINE b == n * One
<1>12. b \in Nat
  BY <1>2, <1>4, NatProduct
<1>13. Times(a, L) < b
  <2>1. p < b
    BY <1>11
  <2> HIDE DEF b
  <2> QED
    BY <1>7, <1>9, <1>12, <2>1
<1> QED
  BY <1>6, <1>9, <1>10, <1>13 DEF L

(* Conversion to a word keeps the order and does not exceed the float.     *)
LEMMA AsWordOK ==
  ASSUME NEW x \in Nat
  PROVE  AsWord(x) \in 0 .. WordMax /\ AsWord(x) * One <= x
<1> DEFINE q == x \div One
<1>1. One \in Nat \ {0} /\ WordMax \in Nat
  BY Units, Sizes
<1>2. q \in Nat /\ AsWord(x) = IF q > WordMax THEN WordMax ELSE q
  BY <1>1, DivMod DEF AsWord
<1>3. \A i \in Nat : i <= q <=> One * i <= x
  BY <1>1, Quotient
<1> HIDE DEF q
<1>4. AsWord(x) \in 0 .. WordMax /\ AsWord(x) <= q
  BY <1>1, <1>2
<1>5. One * AsWord(x) <= x
  BY <1>3, <1>4
<1>6. One * AsWord(x) = AsWord(x) * One
  BY <1>1, <1>4
<1> QED
  BY <1>4, <1>5, <1>6

LEMMA AsWordOrder ==
  ASSUME NEW x \in Nat, NEW y \in Nat, x <= y
  PROVE  AsWord(x) <= AsWord(y)
<1> DEFINE p == x \div One
           q == y \div One
<1>1. One \in Nat \ {0} /\ WordMax \in Nat
  BY Units, Sizes
<1>2. p \in Nat /\ q \in Nat
  BY <1>1, DivMod
<1>3. One * p <= x /\ (p <= q <=> One * p <= y) /\ One * p \in Nat
  BY <1>1, <1>2, Quotient, NatProduct
<1>4. p <= q
  <2> DEFINE o == One * p
  <2>1. o <= x /\ o \in Nat /\ (p <= q <=> o <= y)
    BY <1>3
  <2> HIDE DEF o, p, q
  <2> QED
    BY <2>1
<1>5. /\ AsWord(x) = IF p > WordMax THEN WordMax ELSE p
      /\ AsWord(y) = IF q > WordMax THEN WordMax ELSE q
  BY DEF AsWord
<1> HIDE DEF p, q
<1> QED
  BY <1>1, <1>2, <1>4, <1>5

(* In a power-of-two table only the threshold itself is cut.               *)
LEMMA PowersLoad ==
  ASSUME NEW n \in PowersOfTwo, NEW load \in Floats, load \in MinLoad .. MaxLoad
  PROVE  LoadFactorOf(LoadThresholdRehash(n, load), n) <= load
<1>1. One \in Nat \ {0} /\ load \in Nat \ {0} /\ n \in Nat \ {0}
  BY Units, DeletedLoadOK, PowersOK
<1>2. PICK j \in 0 .. WordBits - 1 : n = 2 ^ j
  BY DEF PowersOfTwo
<1>3. PICK i \in 0 .. 4, m \in 0 .. 2 ^ Precision : load = 2 ^ i * m
  BY FloatsOK
<1>4. /\ i \in Nat /\ j \in Nat /\ i \in Exponents /\ j \in Exponents
      /\ i + j \in Exponents /\ i + j \in 0 .. WordBits + 6
      /\ 3 \in Nat /\ j + 3 \in Exponents /\ j + 3 \in 0 .. WordBits + 6
  BY WordAssumption, PrecisionAssumption DEF Exponents
<1>5. IsFloat(n * One)
  <2>1. 2 ^ (j + 3) = 2 ^ j * 2 ^ 3 /\ 2 ^ 3 = 8
    <3>1. 2 ^ (j + 3) = 2 ^ j * 2 ^ 3
      BY <1>4, PowerSum
    <3>2. 2 ^ 3 = 8
      OBVIOUS
    <3> QED
      BY <3>1, <3>2
  <2> DEFINE f == 2 ^ Precision
             u == 2 ^ (j + 3)
  <2>2. f \in Nat /\ f \in 0 .. f /\ One = 8 * f /\ u = n * 8
    BY <1>2, <2>1, Units
  <2> HIDE DEF u
  <2>3. IsFloat(u * f)
    BY <1>4, <2>2 DEF IsFloat, u
  <2> HIDE DEF f
  <2>4. u * f = n * One
    BY <1>1, <2>2
  <2> QED
    BY <2>3, <2>4
<1>6. IsFloat(n * load)
  <2> DEFINE s == 2 ^ i
             t == 2 ^ j
             u == 2 ^ (i + j)
  <2>1. u = s * t /\ s \in Nat /\ t \in Nat /\ m \in Nat
    BY <1>4, PowerSum, PowerPositive, Units
  <2>2. IsFloat(u * m)
    BY <1>4 DEF IsFloat
  <2>3. n = t /\ load = s * m
    BY <1>2, <1>3
  <2> HIDE DEF s, t, u
  <2>4. u * m = n * load
    BY <2>1, <2>3
  <2> QED
    BY <2>2, <2>4
<1> DEFINE b == n * One
           g == n * load
           grow == LoadThresholdRehash(n, load)
           x == AsFloat(grow)
<1>7. b \in Nat \ {0} /\ g \in Nat
  <2>1. n * One \in Nat \ {0}
    BY <1>1
  <2> QED
    BY <1>1, <2>1, NatProduct
<1>8. AsFloat(n) = b
  <2>1. Nearest(b * 1, 1) = b
    BY <1>5, FloatOK
  <2>2. b * 1 = b
    BY <1>7
  <2> QED
    BY <2>1, <2>2 DEF AsFloat
<1>9. Times(b, load) = g
  <2>1. Nearest(g * One, One) = g
    BY <1>1, <1>6, FloatOK
  <2>2. b * load = g * One
    BY <1>1
  <2> QED
    BY <2>1, <2>2 DEF Times
<1>10. grow \in Nat /\ grow * One \in Nat /\ grow * One <= g * 1
  <2>1. grow = AsWord(g)
    BY <1>8, <1>9 DEF LoadThresholdRehash
  <2> HIDE DEF g, grow
  <2>2. grow \in 0 .. WordMax /\ grow * One <= g /\ WordMax \in Nat
    BY <1>7, <2>1, AsWordOK, Sizes
  <2> QED
    BY <1>1, <1>7, <2>2, NatProduct
<1>11. x \in Nat /\ x <= g
  <2> HIDE DEF grow
  <2> QED
    BY <1>6, <1>10, NearestAtMost DEF AsFloat
<1>12. x * One \in Nat /\ x * One <= load * b
  <2>1. load * b = g * One
    BY <1>1
  <2> HIDE DEF x, b, g
  <2>2. x * One \in Nat /\ x * One <= g * One
    BY <1>1, <1>7, <1>11, ScaledOrder
  <2> QED
    BY <2>1, <2>2
<1>13. Over(x, b) <= load
  <2>1. IsFloat(load)
    BY FloatsOK
  <2> HIDE DEF x, b
  <2> QED
    BY <1>7, <1>12, <2>1, NearestAtMost DEF Over
<1>14. LoadFactorOf(grow, n) = Over(x, b)
  <2>1. n # 0
    BY <1>1
  <2> QED
    BY <1>8, <2>1 DEF LoadFactorOf
<1> QED
  BY <1>13, <1>14

(* Whatever the rounding, an insertion grows or cleans up before the last  *)
(* empty slot is taken, and a power-of-two table filled up to its          *)
(* threshold is not above its maximum load factor (ThresholdsLeaveRoom).   *)
THEOREM ThresholdsKeepRoom == Spec => []ThresholdsLeaveRoom
<1>1. ASSUME GrowthInv
      PROVE  ThresholdsLeaveRoom
  <2> PICK n, load : n = bucket_count /\ load = max_load_factor
    OBVIOUS
  <2>1. n \in 0 .. VectorMax /\ load \in Floats /\ load \in MinLoad .. MaxLoad
    BY <1>1 DEF GrowthInv, TypeOK
  <2> DEFINE grow == LoadThresholdRehash(n, load)
             clear == LoadThresholdClearDeleted(n, load)
  <2>2. One \in Nat \ {0} /\ load \in Nat \ {0} /\ LoadWithDeleted(load) \in Nat
    BY <2>1, Units, DeletedLoadOK
  <2>3. CASE n = 0
    <3>1. AsFloat(0) = 0
      <4>1. IsFloat(0) /\ 0 * One = 0 * 1 /\ 1 \in Nat \ {0}
        <5>1. 0 \in 0 .. WordBits + 6 /\ 0 \in 0 .. 2 ^ Precision /\ 2 ^ 0 * 0 = 0
          BY WordAssumption, Units
        <5> QED
          BY <2>2, <5>1 DEF IsFloat
      <4> QED
        BY <4>1, FloatOK DEF AsFloat
    <3>2. Times(0, load) = Times(0, LoadWithDeleted(load))
      <4>1. 0 * load = 0 * LoadWithDeleted(load)
        BY <2>2
      <4> QED
        BY <4>1 DEF Times
    <3>3. grow = clear
      BY <2>3, <3>1, <3>2 DEF LoadThresholdRehash, LoadThresholdClearDeleted
    <3>4. Times(0, load) \in Nat
      <4>1. IsFloat(0) /\ 0 * load \in Nat /\ 0 * load <= 0 * One
        <5>1. 0 \in 0 .. WordBits + 6 /\ 0 \in 0 .. 2 ^ Precision /\ 2 ^ 0 * 0 = 0
          BY WordAssumption, Units
        <5> QED
          BY <2>2, <5>1 DEF IsFloat
      <4> QED
        BY <2>2, <4>1, NearestAtMost DEF Times
    <3>5. grow \in Nat
      <4>1. grow \in 0 .. WordMax
        BY <2>3, <3>1, <3>4, AsWordOK DEF LoadThresholdRehash
      <4> QED
        BY <4>1
    <3>6. LoadFactorOf(grow, n) = 0
      BY <2>3 DEF LoadFactorOf
    <3> HIDE DEF grow, clear
    <3>7. grow <= clear /\ ~ (n > 0) /\ LoadFactorOf(grow, n) <= load
      BY <2>2, <2>3, <3>3, <3>5, <3>6
    <3> QED
      BY <3>7 DEF ThresholdsLeaveRoom, grow, clear
  <2>4. CASE n > 0
    <3> DEFINE x == Times(AsFloat(n), load)
               y == Times(AsFloat(n), LoadWithDeleted(load))
    <3>1. n \in 1 .. WordMax /\ n \in Nat
      BY <2>1, <2>4, Sizes
    <3>2. x \in Nat /\ y \in Nat /\ x <= y /\ y < n * One
      BY <2>1, <3>1, ProductsOK
    <3>3. grow = AsWord(x) /\ clear = AsWord(y)
      BY DEF LoadThresholdRehash, LoadThresholdClearDeleted
    <3> HIDE DEF x, y, grow, clear
    <3>4. grow <= clear
      BY <3>2, <3>3, AsWordOrder
    <3>5. clear < n
      <4>1. clear \in Nat /\ clear * One <= y
        BY <3>2, <3>3, AsWordOK
      <4>2. clear * One \in Nat /\ n * One \in Nat /\ (clear < n <=> clear * One < n * One)
        BY <2>2, <3>1, <4>1, ScaledOrder
      <4> DEFINE b == n * One
                 c == clear * One
      <4>3. y < b /\ c <= y /\ b \in Nat /\ c \in Nat
        BY <3>2, <4>1, <4>2
      <4> HIDE DEF b, c
      <4>4. c < b
        BY <3>2, <4>3
      <4> QED
        BY <4>2, <4>4 DEF b, c
    <3>6. kind = "PowerOfTwo" => LoadFactorOf(grow, n) <= load
      <4> SUFFICES ASSUME kind = "PowerOfTwo"
                   PROVE  LoadFactorOf(grow, n) <= load
        OBVIOUS
      <4>1. n \in SettledCounts("PowerOfTwo")
        BY <1>1 DEF GrowthInv
      <4>2. PICK min \in Requested : n = PowerOfTwoNew(min)
        BY <4>1 DEF SettledCounts, PolicyNew
      <4>3. n # LengthError
        BY <3>1, WordAssumption
      <4>4. n \in PowersOfTwo
        BY <2>4, <4>2, <4>3, PowerOfTwoNewOK
      <4> QED
        BY <2>1, <4>4, PowersLoad DEF grow
    <3> QED
      BY <3>4, <3>5, <3>6 DEF ThresholdsLeaveRoom, grow, clear
  <2> QED
    BY <2>1, <2>3, <2>4, Sizes
<1> QED
  BY <1>1, GrowthInvariant, PTL
=============================================================================
