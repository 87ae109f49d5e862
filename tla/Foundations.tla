----------------------------- MODULE Foundations -----------------------------
(* What the proofs rest on: least counterexamples, quotients and           *)
(* remainders by a divisor that is not a numeral, powers of two, the bits  *)
(* of a number, ranks in a set of numbers, values moved by an insertion.   *)
EXTENDS Integers, FiniteSets, SequencesExt, WellFoundedInduction,
        FiniteSetTheorems, SequenceTheorems, TLAPS

(* A non-empty set of naturals has a least member: proofs by induction     *)
(* take the least counterexample.                                          *)
LEMMA LeastNatural ==
  ASSUME NEW S, S \subseteq Nat, S # {}
  PROVE  \E i \in S : \A j \in S : i <= j
<1>1. PICK i \in S : \A j \in S : ~ (<<j, i>> \in OpToRel(<, Nat))
  BY NatLessThanWellFounded, WFMin
<1>2. \A j \in S : ~ (j < i)
  BY <1>1 DEF OpToRel
<1> QED
  BY <1>2

(* A product of naturals is a natural.                                     *)
LEMMA NatProduct ==
  ASSUME NEW a \in Nat, NEW b \in Nat
  PROVE  a * b \in Nat
OBVIOUS

(* A common factor keeps the order. *)
LEMMA ScaledOrder ==
  ASSUME NEW x \in Nat, NEW y \in Nat, NEW d \in Nat \ {0}
  PROVE  /\ x * d \in Nat /\ y * d \in Nat
         /\ x < y <=> x * d < y * d
         /\ x <= y <=> x * d <= y * d
<1>1. x * d \in Nat /\ y * d \in Nat
  BY NatProduct
<1>2. ASSUME NEW a \in Nat, NEW b \in Nat, a < b
      PROVE  a * d < b * d
  <2>1. (b - a - 1) * d \in Nat /\ a * d \in Nat
    BY <1>2, NatProduct
  <2>2. b * d = a * d + d + (b - a - 1) * d
    BY <1>2
  <2> QED
    BY <2>1, <2>2
<1>3. CASE x < y
  BY <1>1, <1>2, <1>3
<1>4. CASE y < x
  BY <1>1, <1>2, <1>4
<1> QED
  BY <1>1, <1>3, <1>4

(* Division with remainder, as the remainders of bucket_for_hash use it.   *)
LEMMA DivMod ==
  ASSUME NEW x \in Nat, NEW n \in Nat \ {0}
  PROVE  /\ x % n \in 0 .. n - 1
         /\ x \div n \in Nat
         /\ x = n * (x \div n) + (x % n)
OBVIOUS

(* Multiples of n are at least n apart.                                    *)
LEMMA MultiplesApart ==
  ASSUME NEW n \in Nat \ {0}, NEW q \in Int, NEW s \in Int, q < s
  PROVE  n * q + n <= n * s
<1>1. n * (s - q - 1) >= 0
  BY SMT
<1> QED
  BY <1>1, SMT

(* The quotient is the largest q with n * q <= x.                          *)
LEMMA Quotient ==
  ASSUME NEW x \in Nat, NEW n \in Nat \ {0}, NEW q \in Nat
  PROVE  q <= x \div n <=> n * q <= x
<1> DEFINE s == x \div n
           t == x % n
<1>1. s \in Nat /\ t \in 0 .. n - 1 /\ x = n * s + t
  BY DivMod
<1> HIDE DEF s, t
<1>2. n * q \in Nat /\ n * s \in Nat
  BY <1>1, NatProduct
<1>3. CASE q <= s
  <2>1. n * (s - q) \in Nat
    BY <1>1, <1>3, NatProduct
  <2>2. n * s = n * q + n * (s - q)
    BY <1>1
  <2> QED
    BY <1>1, <1>2, <1>3, <2>1, <2>2 DEF s
<1>4. CASE s < q
  <2>1. n * s + n <= n * q
    BY <1>1, <1>4, MultiplesApart
  <2>2. ~ (q <= s) /\ ~ (n * q <= x)
    BY <1>1, <1>2, <1>4, <2>1
  <2> QED
    BY <2>2 DEF s
<1> QED
  BY <1>1, <1>3, <1>4

(* The remainder is unique.                                                *)
LEMMA ModUnique ==
  ASSUME NEW x \in Nat, NEW n \in Nat \ {0}, NEW q \in Int, NEW r \in 0 .. n - 1,
         x = n * q + r
  PROVE  x % n = r
<1> DEFINE s == x \div n
           t == x % n
<1>0. s \in Nat /\ t \in 0 .. n - 1 /\ x = n * s + t
  BY DivMod, Zenon
<1> HIDE DEF s, t
<1>1. s \in Int /\ t \in 0 .. n - 1 /\ x = n * s + t
  BY <1>0
<1>2. n * q \in Int /\ n * s \in Int
  BY <1>1
<1>3. CASE q < s
  <2>1. n * q + n <= n * s
    BY <1>3, <1>1, MultiplesApart
  <2> QED
    BY <1>1, <1>2, <2>1
<1>4. CASE s < q
  <2>1. n * s + n <= n * q
    BY <1>4, <1>1, MultiplesApart
  <2> QED
    BY <1>1, <1>2, <2>1
<1>5. CASE s = q
  <2>1. t = r
    BY <1>5, <1>1, <1>2
  <2> QED
    BY <2>1 DEF t
<1> QED
  BY <1>1, <1>3, <1>4, <1>5

(* next_bucket adds to a slot number that is itself a remainder.           *)
LEMMA ModAdd ==
  ASSUME NEW x \in Nat, NEW y \in Nat, NEW n \in Nat \ {0}
  PROVE  ((x % n) + y) % n = (x + y) % n
<1> DEFINE s == x \div n
           t == x % n
           z == t + y
           q == s + z \div n
           r == z % n
<1>1. s \in Nat /\ t \in 0 .. n - 1 /\ x = n * s + t
  BY DivMod
<1>2. z \in Nat /\ r \in 0 .. n - 1 /\ z = n * (z \div n) + r /\ z \div n \in Nat
  <2>1. z \in Nat
    BY <1>1
  <2> HIDE DEF z
  <2> QED
    BY <2>1, DivMod
<1>3. x + y = n * q + r /\ q \in Int
  <2> HIDE DEF s, t, r
  <2>1. x + y = n * s + z
    BY <1>1
  <2> HIDE DEF z
  <2>2. n * q = n * s + n * (z \div n)
    BY <1>1, <1>2
  <2> QED
    BY <2>1, <2>2, <1>1, <1>2
<1>4. (x + y) % n = r
  <2>1. x + y \in Nat
    OBVIOUS
  <2> HIDE DEF q, r
  <2> QED
    BY <2>1, <1>2, <1>3, ModUnique
<1> QED
  BY <1>4

(* Consecutive triangular numbers: j more steps have been added after the  *)
(* j-th probe.                                                             *)
LEMMA TriangularStep ==
  ASSUME NEW j \in Nat
  PROVE  /\ (j * (j + 1)) \div 2 \in Nat
         /\ ((j + 1) * ((j + 1) + 1)) \div 2 = (j * (j + 1)) \div 2 + (j + 1)
<1> DEFINE a == j * (j + 1)
<1>1. a \in Nat
  BY NatProduct
<1>2. (j + 1) * ((j + 1) + 1) = a + 2 * (j + 1)
  OBVIOUS
<1>3. (a + 2 * (j + 1)) \div 2 = a \div 2 + (j + 1) /\ a \div 2 \in Nat
  <2> HIDE DEF a
  <2> QED
    BY <1>1
<1> QED
  BY <1>2, <1>3

-----------------------------------------------------------------------------
(* Divisors. *)

(* n divides x, for integers of either sign.                               *)
Divides(n, x) == \E q \in Int : x = n * q

(* A multiple of n divided by n leaves nothing.                            *)
LEMMA ExactQuotient ==
  ASSUME NEW n \in Nat \ {0}, NEW q \in Nat
  PROVE  (n * q) \div n = q /\ (n * q) % n = 0
<1> DEFINE x == n * q
           d == x \div n
           r == x % n
<1>1. x \in Nat
  BY NatProduct
<1>2. d \in Nat /\ r \in 0 .. n - 1 /\ x = n * d + r
  BY <1>1, DivMod
<1> HIDE DEF d, r
<1>3. ~ (d < q)
  <2>1. d < q => n * d + n <= n * q
    BY <1>2, MultiplesApart
  <2>2. n * d \in Nat
    BY <1>2, NatProduct
  <2> QED
    BY <1>1, <1>2, <2>1, <2>2
<1>4. ~ (q < d)
  <2>1. q < d => n * q + n <= n * d
    BY <1>2, MultiplesApart
  <2>2. n * d \in Nat
    BY <1>2, NatProduct
  <2> QED
    BY <1>1, <1>2, <2>1, <2>2
<1>5. d = q
  BY <1>2, <1>3, <1>4
<1>6. r = 0
  BY <1>1, <1>2, <1>5
<1> QED
  BY <1>5, <1>6 DEF d, r

LEMMA ModZero ==
  ASSUME NEW x \in Nat, NEW n \in Nat \ {0}
  PROVE  Divides(n, x) <=> x % n = 0
<1>1. ASSUME NEW q \in Int, x = n * q
      PROVE  x % n = 0
  <2>1. x = n * q + 0
    BY <1>1
  <2> QED
    BY <2>1, ModUnique
<1>2. ASSUME x % n = 0
      PROVE  x = n * (x \div n) /\ x \div n \in Int
  BY <1>2, DivMod
<1> QED
  BY <1>1, <1>2 DEF Divides

LEMMA DividesSums ==
  ASSUME NEW n \in Int, NEW x \in Int, NEW y \in Int, NEW s \in Int,
         Divides(n, x), Divides(n, y)
  PROVE  /\ Divides(n, x - s * y) /\ Divides(n, s * y)
<1>1. PICK p \in Int : x = n * p
  BY DEF Divides
<1>2. PICK q \in Int : y = n * q
  BY DEF Divides
<1>3. s * (n * q) = n * (s * q)
  OBVIOUS
<1>4. n * p - n * (s * q) = n * (p - s * q)
  OBVIOUS
<1>5. p - s * q \in Int /\ s * q \in Int
  OBVIOUS
<1> QED
  BY <1>1, <1>2, <1>3, <1>4, <1>5 DEF Divides

(* An odd factor can be dropped from a multiple of a number that has no    *)
(* odd divisor but 1.                                                      *)
LEMMA OddFactor ==
  ASSUME NEW n \in Nat \ {0}, \A d \in 1 .. n : n % d = 0 => d = 1 \/ d % 2 = 0,
         NEW a \in Nat, a % 2 = 1, NEW b \in Nat, Divides(n, a * b)
  PROVE  Divides(n, b)
<1> DEFINE M == { m \in Nat \ {0} : Divides(n, m * b) }
<1>1. a \in M /\ n \in M
  <2>1. a \in Nat \ {0}
    OBVIOUS
  <2>2. Divides(n, n * b)
    BY DEF Divides
  <2> QED
    BY <2>1, <2>2
<1>2. PICK m \in M : \A x \in M : m <= x
  <2>1. M \subseteq Nat /\ M # {}
    BY <1>1
  <2> HIDE DEF M
  <2> QED
    BY <2>1, LeastNatural
<1>3. ASSUME NEW x \in M
      PROVE  x % m = 0 /\ x = m * (x \div m) /\ x \div m \in Nat
  <2> DEFINE q == x \div m
             r == x % m
  <2>1. /\ x \in Nat \ {0} /\ m \in Nat \ {0} /\ Divides(n, x * b) /\ Divides(n, m * b)
    OBVIOUS
  <2>2. q \in Nat /\ r \in 0 .. m - 1 /\ x = m * q + r
    BY <2>1, DivMod
  <2> HIDE DEF q, r
  <2>3. Divides(n, x * b - q * (m * b))
    <3>1. x * b \in Int /\ m * b \in Int /\ n \in Int /\ q \in Int
      BY <2>1, <2>2
    <3> QED
      BY <2>1, <3>1, DividesSums
  <2>4. x * b - q * (m * b) = r * b
    <3>1. (m * q + r) * b = q * (m * b) + r * b
      BY <2>1, <2>2
    <3>2. q * (m * b) \in Int /\ r * b \in Int
      BY <2>1, <2>2
    <3>3. x * b = q * (m * b) + r * b
      BY <2>2, <3>1
    <3> HIDE DEF M
    <3> QED
      BY <3>2, <3>3
  <2>5. r = 0
    <3> SUFFICES ASSUME r # 0
                 PROVE  FALSE
      OBVIOUS
    <3>1. r \in M
      BY <2>2, <2>3, <2>4
    <3>2. m <= r
      BY <1>2, <3>1
    <3> QED
      BY <2>1, <2>2, <3>2
  <2> QED
    BY <2>2, <2>5 DEF q, r
<1>4. m = 1
  <2>1. n % m = 0 /\ m \in 1 .. n
    BY <1>1, <1>2, <1>3
  <2>2. m % 2 # 0
    <3> DEFINE q == a \div m
    <3> SUFFICES ASSUME m % 2 = 0
                 PROVE  FALSE
      OBVIOUS
    <3>1. m \in Nat /\ q \in Nat /\ a = m * q
      BY <1>1, <1>3
    <3> HIDE DEF q
    <3>2. m = 2 * (m \div 2) /\ m \div 2 \in Nat
      BY <3>1
    <3> DEFINE h == m \div 2
               w == h * q
    <3>3. a = 2 * w /\ w \in Nat
      BY <3>1, <3>2, NatProduct
    <3> HIDE DEF h, w, M
    <3> QED
      BY <3>3
  <2> QED
    BY <2>1, <2>2
<1> QED
  BY <1>4

-----------------------------------------------------------------------------
(* The distances of the probe sequence: triangular numbers. *)

Triangle(j) == (j * (j + 1)) \div 2

LEMMA TriangleDouble ==
  ASSUME NEW j \in Nat
  PROVE  Triangle(j) \in Nat /\ 2 * Triangle(j) = j * (j + 1)
<1> DEFINE h == j \div 2
<1>1. h \in Nat /\ (j = 2 * h \/ j = 2 * h + 1)
  OBVIOUS
<1> HIDE DEF h
<1>2. CASE j = 2 * h
  <2> DEFINE w == h * (j + 1)
  <2>1. w \in Nat
    BY <1>1, NatProduct
  <2>2. j * (j + 1) = 2 * w
    BY <1>1, <1>2
  <2> HIDE DEF w
  <2>3. (2 * w) \div 2 = w
    BY <2>1
  <2> QED
    BY <2>1, <2>2, <2>3 DEF Triangle
<1>3. CASE j = 2 * h + 1
  <2> DEFINE w == j * (h + 1)
  <2>1. w \in Nat
    BY <1>1, NatProduct
  <2>2. j * (j + 1) = 2 * w
    BY <1>1, <1>3
  <2> HIDE DEF w
  <2>3. (2 * w) \div 2 = w
    BY <2>1
  <2> QED
    BY <2>1, <2>2, <2>3 DEF Triangle
<1> QED
  BY <1>1, <1>2, <1>3

(* Modulo a number without odd divisors but 1, the first n triangular      *)
(* numbers are all different, wherever they are counted from.              *)
LEMMA TrianglesApart ==
  ASSUME NEW n \in Nat \ {0}, \A d \in 1 .. n : n % d = 0 => d = 1 \/ d % 2 = 0,
         NEW b \in Nat, NEW i \in 0 .. n - 1, NEW j \in 0 .. n - 1, i < j
  PROVE  (b + Triangle(i)) % n # (b + Triangle(j)) % n
<1>0. \A s, t \in Nat : b + s \in Nat /\ b + t \in Nat /\ t - s = (b + t) - (b + s)
  OBVIOUS
<1> SUFFICES ASSUME (b + Triangle(i)) % n = (b + Triangle(j)) % n
             PROVE  FALSE
  OBVIOUS
<1> DEFINE D == Triangle(j) - Triangle(i)
           u == j - i
           v == j + i + 1
<1>1. /\ Triangle(i) \in Nat /\ 2 * Triangle(i) = i * (i + 1)
      /\ Triangle(j) \in Nat /\ 2 * Triangle(j) = j * (j + 1)
  BY TriangleDouble
<1>2. Divides(n, D)
  <2> DEFINE x == b + Triangle(i)
             y == b + Triangle(j)
             p == x \div n
             q == y \div n
  <2>0. x % n = y % n
    OBVIOUS
  <2> HIDE DEF p, q
  <2>1. x \in Nat /\ y \in Nat /\ D = y - x
    BY <1>0, <1>1, Zenon
  <2> HIDE DEF x, y, D
  <2>2. /\ x = n * p + (x % n) /\ y = n * q + (x % n) /\ p \in Nat /\ q \in Nat
        /\ x % n \in Int
    <3>1. x = n * p + (x % n) /\ p \in Nat /\ x % n \in 0 .. n - 1
      BY <2>1, DivMod DEF p
    <3>2. y = n * q + (y % n) /\ q \in Nat
      BY <2>1, DivMod DEF q
    <3> QED
      BY <2>0, <3>1, <3>2
  <2>3. y - x = n * q - n * p
    BY <2>1, <2>2
  <2>4. n * q - n * p = n * (q - p) /\ q - p \in Int
    BY <2>2
  <2> QED
    BY <2>1, <2>3, <2>4 DEF Divides
<1>3. 2 * D = u * v
  <2>1. u * v = j * (j + 1) - i * (i + 1)
    OBVIOUS
  <2>2. 2 * D = 2 * Triangle(j) - 2 * Triangle(i)
    BY <1>1
  <2> QED
    BY <1>1, <2>1, <2>2
<1>4. /\ u \in 1 .. n - 1 /\ v \in 2 .. 2 * n - 2 /\ v = u + 2 * i + 1
      /\ D \in Int
  BY <1>1
<1> HIDE DEF D, u, v
<1>5. ASSUME NEW h \in 1 .. n - 1, NEW a \in Nat, a % 2 = 1, 2 * D = 2 * (a * h)
      PROVE  FALSE
  <2>1. a * h \in Nat /\ h \in Nat
    BY NatProduct
  <2>2. D = a * h
    BY <1>4, <1>5, <2>1
  <2>3. Divides(n, h)
    BY <1>2, <1>5, <2>1, <2>2, OddFactor
  <2>4. h % n = 0
    BY <2>1, <2>3, ModZero
  <2> QED
    BY <2>4
<1>6. CASE u % 2 = 1
  <2> DEFINE h == v \div 2
  <2>1. h \in 1 .. n - 1 /\ v = 2 * h
    BY <1>4, <1>6
  <2> HIDE DEF h
  <2>2. 2 * D = 2 * (u * h)
    BY <1>3, <1>4, <2>1
  <2> QED
    BY <1>4, <1>5, <1>6, <2>1, <2>2
<1>7. CASE u % 2 = 0
  <2> DEFINE h == u \div 2
  <2>1. h \in 1 .. n - 1 /\ u = 2 * h /\ v % 2 = 1 /\ v \in Nat
    BY <1>4, <1>7
  <2> HIDE DEF h
  <2>2. 2 * D = 2 * (v * h)
    BY <1>3, <1>4, <2>1
  <2> QED
    BY <1>5, <2>1, <2>2
<1> QED
  BY <1>4, <1>6, <1>7

(* Multiples of n do not move a remainder. *)
LEMMA ModMultiple ==
  ASSUME NEW n \in Nat \ {0}, NEW x \in Nat, NEW y \in Nat
  PROVE  x + n * y \in Nat /\ (x + n * y) % n = x % n
<1> DEFINE q == x \div n
           r == x % n
<1>1. q \in Nat /\ r \in 0 .. n - 1 /\ x = n * q + r
  BY DivMod
<1> HIDE DEF q, r
<1>2. q + y \in Int /\ x + n * y = n * (q + y) + r
  BY <1>1
<1>3. x + n * y \in Nat
  BY NatProduct
<1>4. (x + n * y) % n = r
  BY <1>1, <1>2, <1>3, ModUnique
<1> QED
  BY <1>3, <1>4 DEF r

LEMMA TriangleSlot ==
  ASSUME NEW n \in Nat \ {0}
  PROVE  \A j \in Nat : Triangle(j) \in Nat /\ Triangle(j) % n \in 0 .. n - 1
<1>1. ASSUME NEW j \in Nat
      PROVE  Triangle(j) \in Nat
  BY TriangleDouble
<1> QED
  BY <1>1, DivMod

(* The probe sequence goes back the way it came: in a table of n slots the *)
(* probe at 2 * n - 1 - i is in the slot of the i-th, and after 2 * n      *)
(* probes the sequence starts over.                                        *)
LEMMA TriangleMirror ==
  ASSUME NEW n \in Nat \ {0}, NEW i \in 0 .. n - 1
  PROVE  Triangle(2 * n - 1 - i) % n = Triangle(i) % n
<1> DEFINE k == 2 * n - 1 - i
           y == 2 * n - 1 - 2 * i
<1>1. k \in Nat /\ y \in Nat
  OBVIOUS
<1>2. Triangle(i) \in Nat /\ 2 * Triangle(i) = i * (i + 1)
  BY TriangleDouble
<1>3. Triangle(k) \in Nat /\ 2 * Triangle(k) = k * (k + 1)
  BY <1>1, TriangleDouble
<1>4. k * (k + 1) = i * (i + 1) + 2 * (n * y)
  OBVIOUS
<1>5. n * y \in Nat
  BY <1>1, NatProduct
<1>6. Triangle(k) = Triangle(i) + n * y
  <2> DEFINE a == n * y
             b == k * (k + 1)
             c == i * (i + 1)
             t == Triangle(k)
             u == Triangle(i)
  <2>1. /\ a \in Nat /\ t \in Nat /\ u \in Nat
        /\ 2 * t = b /\ 2 * u = c /\ b = c + 2 * a
    BY <1>2, <1>3, <1>4, <1>5
  <2> HIDE DEF a, b, c, t, u
  <2>2. t = u + a
    BY <2>1
  <2> QED
    BY <2>2 DEF a, t, u
<1> HIDE DEF k, y
<1>7. (Triangle(i) + n * y) % n = Triangle(i) % n
  BY <1>1, <1>2, ModMultiple
<1> QED
  BY <1>6, <1>7 DEF k

LEMMA TriangleTurns ==
  ASSUME NEW n \in Nat \ {0}, NEW i \in Nat
  PROVE  Triangle(i + 2 * n) % n = Triangle(i) % n
<1> DEFINE k == i + 2 * n
           y == 2 * i + 2 * n + 1
<1>1. k \in Nat /\ y \in Nat
  OBVIOUS
<1>2. Triangle(i) \in Nat /\ 2 * Triangle(i) = i * (i + 1)
  BY TriangleDouble
<1>3. Triangle(k) \in Nat /\ 2 * Triangle(k) = k * (k + 1)
  BY <1>1, TriangleDouble
<1>4. k * (k + 1) = i * (i + 1) + 2 * (n * y)
  OBVIOUS
<1>5. n * y \in Nat
  BY <1>1, NatProduct
<1>6. Triangle(k) = Triangle(i) + n * y
  <2> DEFINE a == n * y
             b == k * (k + 1)
             c == i * (i + 1)
             t == Triangle(k)
             u == Triangle(i)
  <2>1. /\ a \in Nat /\ t \in Nat /\ u \in Nat
        /\ 2 * t = b /\ 2 * u = c /\ b = c + 2 * a
    BY <1>2, <1>3, <1>4, <1>5
  <2> HIDE DEF a, b, c, t, u
  <2>2. t = u + a
    BY <2>1
  <2> QED
    BY <2>2 DEF a, t, u
<1> HIDE DEF k, y
<1>7. (Triangle(i) + n * y) % n = Triangle(i) % n
  BY <1>1, <1>2, ModMultiple
<1> QED
  BY <1>6, <1>7 DEF k

-----------------------------------------------------------------------------
(* Powers of two.  The provers know exponentiation of numerals only, so    *)
(* the lemmas take its law, up to the exponent they need, as a hypothesis. *)
Doubling(top) == \A k \in 0 .. top - 1 : 2 ^ (k + 1) = 2 * 2 ^ k

(* Two to the power of a sum.                                              *)
LEMMA DoublingSum ==
  ASSUME NEW top \in Nat, Doubling(top), NEW i \in Nat, NEW j \in Nat, i + j <= top
  PROVE  2 ^ (i + j) = 2 ^ i * 2 ^ j
<1> DEFINE Bad == { k \in 0 .. j : 2 ^ (i + k) # 2 ^ i * 2 ^ k }
<1>1. \A k \in 0 .. top : 2 ^ k \in Int
  OBVIOUS
<1>2. 0 \notin Bad
  <2>1. 2 ^ 0 = 1
    OBVIOUS
  <2>2. i \in 0 .. top /\ i + 0 = i
    OBVIOUS
  <2>3. 2 ^ i \in Int
    BY <1>1, <2>2
  <2>4. 2 ^ i * 1 = 2 ^ i
    BY <2>3
  <2> QED
    BY <2>1, <2>2, <2>4
<1>3. ASSUME NEW k \in 0 .. j, k + 1 \in 0 .. j, 2 ^ (i + k) = 2 ^ i * 2 ^ k
      PROVE  2 ^ (i + (k + 1)) = 2 ^ i * 2 ^ (k + 1)
  <2>1. /\ k \in 0 .. top - 1 /\ i + k \in 0 .. top - 1
        /\ i + (k + 1) = (i + k) + 1 /\ k \in 0 .. top /\ i \in 0 .. top
    BY <1>3
  <2>2. 2 ^ (k + 1) = 2 * 2 ^ k /\ 2 ^ ((i + k) + 1) = 2 * 2 ^ (i + k)
    BY <2>1 DEF Doubling
  <2>3. 2 ^ i \in Int /\ 2 ^ k \in Int
    BY <1>1, <2>1
  <2>4. \A a, b \in Int : 2 * (a * b) = a * (2 * b)
    OBVIOUS
  <2>5. 2 * (2 ^ i * 2 ^ k) = 2 ^ i * (2 * 2 ^ k)
    BY <2>3, <2>4
  <2> QED
    BY <1>3, <2>1, <2>2, <2>5, Zenon
<1>4. Bad = {}
  <2> SUFFICES ASSUME Bad # {}
               PROVE  FALSE
    OBVIOUS
  <2>1. PICK k \in Bad : \A x \in Bad : k <= x
    <3>1. Bad \subseteq Nat
      OBVIOUS
    <3> QED
      BY <3>1, LeastNatural
  <2>2. k \in 0 .. j /\ k # 0
    BY <1>2
  <2>3. k - 1 \in 0 .. j /\ (k - 1) + 1 = k /\ k - 1 \notin Bad
    BY <2>1, <2>2
  <2> QED
    BY <1>3, <2>2, <2>3
<1>5. j \in 0 .. j
  OBVIOUS
<1> QED
  BY <1>4, <1>5

LEMMA DoublingPositive ==
  ASSUME NEW top \in Nat, Doubling(top), NEW k \in 0 .. top
  PROVE  2 ^ k \in Nat \ {0}
<1> DEFINE Bad == { x \in 0 .. top : 2 ^ x \notin Nat \ {0} }
<1>1. 0 \notin Bad
  <2>1. 2 ^ 0 = 1
    OBVIOUS
  <2> QED
    BY <2>1
<1>2. SUFFICES ASSUME Bad # {}
               PROVE  FALSE
  OBVIOUS
<1>3. PICK x \in Bad : \A y \in Bad : x <= y
  <2>1. Bad \subseteq Nat
    OBVIOUS
  <2> QED
    BY <1>2, <2>1, LeastNatural
<1>4. x \in 0 .. top /\ x # 0 /\ 2 ^ x \notin Nat \ {0}
  BY <1>1
<1>5. x - 1 \in 0 .. top - 1 /\ x - 1 \in 0 .. top /\ (x - 1) + 1 = x
  BY <1>4
<1>6. x - 1 \notin Bad
  BY <1>3, <1>5
<1>7. 2 ^ (x - 1) \in Nat \ {0}
  BY <1>5, <1>6
<1>8. 2 ^ x = 2 * 2 ^ (x - 1)
  <2>1. 2 ^ ((x - 1) + 1) = 2 * 2 ^ (x - 1)
    BY <1>5 DEF Doubling
  <2> QED
    BY <1>5, <2>1
<1> QED
  BY <1>4, <1>7, <1>8

(* The smaller of two powers of two divides the larger.                    *)
LEMMA DoublingDivides ==
  ASSUME NEW top \in Nat, Doubling(top), NEW i \in 0 .. top, NEW j \in 0 .. top, i <= j
  PROVE  \E c \in Nat \ {0} : 2 ^ j = c * 2 ^ i /\ (i < j => c >= 2)
<1> DEFINE d == j - i
           c == 2 ^ d
<1>1. d \in Nat /\ d \in 0 .. top /\ i + d = j /\ d + i = j
  OBVIOUS
<1>2. c \in Nat \ {0}
  BY <1>1, DoublingPositive
<1>3. 2 ^ j = c * 2 ^ i
  <2>1. d + i <= top /\ i \in Nat
    BY <1>1
  <2>2. 2 ^ (d + i) = 2 ^ d * 2 ^ i
    BY <1>1, <2>1, DoublingSum
  <2> QED
    BY <1>1, <2>2
<1>4. ASSUME i < j
      PROVE  c >= 2
  <2>1. d - 1 \in 0 .. top - 1 /\ (d - 1) + 1 = d /\ d - 1 \in 0 .. top
    BY <1>1, <1>4
  <2>2. 2 ^ ((d - 1) + 1) = 2 * 2 ^ (d - 1)
    BY <2>1 DEF Doubling
  <2>3. 2 ^ (d - 1) \in Nat \ {0}
    BY <2>1, DoublingPositive
  <2>4. 2 ^ d = 2 * 2 ^ (d - 1)
    BY <2>1, <2>2
  <2> HIDE DEF d
  <2> QED
    BY <2>3, <2>4
<1> HIDE DEF c
<1> QED
  BY <1>2, <1>3, <1>4

LEMMA DoublingGrows ==
  ASSUME NEW top \in Nat, Doubling(top), NEW i \in 0 .. top, NEW j \in 0 .. top
  PROVE  /\ i < j => 2 * 2 ^ i <= 2 ^ j
         /\ i <= j => 2 ^ i <= 2 ^ j
<1>1. 2 ^ i \in Nat \ {0} /\ 2 ^ j \in Nat \ {0}
  BY DoublingPositive
<1>2. ASSUME i <= j
      PROVE  2 ^ i <= 2 ^ j /\ (i < j => 2 * 2 ^ i <= 2 ^ j)
  <2>1. PICK c \in Nat \ {0} : 2 ^ j = c * 2 ^ i /\ (i < j => c >= 2)
    BY <1>2, DoublingDivides
  <2> DEFINE a == 2 ^ i
  <2>2. a \in Nat \ {0} /\ 2 ^ j = c * a
    BY <1>1, <2>1
  <2> HIDE DEF a
  <2>3. (c - 1) * a \in Nat /\ (c >= 2 => (c - 2) * a \in Nat)
    BY <2>2, NatProduct
  <2>4. c * a = a + (c - 1) * a /\ c * a = 2 * a + (c - 2) * a
    BY <2>2
  <2>5. a <= c * a /\ (c >= 2 => 2 * a <= c * a)
    BY <2>2, <2>3, <2>4
  <2> QED
    BY <2>1, <2>2, <2>5 DEF a
<1>3. i < j => i <= j
  OBVIOUS
<1> QED
  BY <1>2, <1>3

-----------------------------------------------------------------------------
(* Ranks: the offset of an index is the number of set bits below it, and   *)
(* iteration numbers the values in slot order.                             *)

RankIn(S, i) == Cardinality({ j \in S : j < i })

LEMMA RankRange ==
  ASSUME NEW S, IsFiniteSet(S), S \subseteq Nat, NEW i \in Int
  PROVE  /\ RankIn(S, i) \in 0 .. Cardinality(S)
         /\ i \in S => RankIn(S, i) \in 0 .. Cardinality(S) - 1
         /\ (\A j \in S : j < i) => RankIn(S, i) = Cardinality(S)
         /\ (\A j \in S : i <= j) => RankIn(S, i) = 0
<1> DEFINE T == { j \in S : j < i }
<1>1. /\ IsFiniteSet(T) /\ Cardinality(T) \in Nat /\ Cardinality(S) \in Nat
      /\ Cardinality(T) <= Cardinality(S)
      /\ Cardinality(S) = Cardinality(T) => S = T
  <2>1. T \in SUBSET S
    OBVIOUS
  <2> QED
    BY <2>1, FS_Subset, FS_CardinalityType
<1>2. i \in S => S # T
  OBVIOUS
<1>3. (\A j \in S : j < i) => T = S
  OBVIOUS
<1>4. (\A j \in S : i <= j) => T = {}
  <2>1. \A j \in S : i <= j => ~ (j < i)
    OBVIOUS
  <2> QED
    BY <2>1
<1>5. RankIn(S, i) = Cardinality(T)
  BY DEF RankIn
<1>6. (\A j \in S : i <= j) => Cardinality(T) = 0
  BY <1>4, FS_EmptySet
<1> HIDE DEF T
<1> QED
  BY <1>1, <1>2, <1>3, <1>5, <1>6

LEMMA RankOrder ==
  ASSUME NEW S, IsFiniteSet(S), S \subseteq Nat, NEW i \in Int, NEW j \in Int
  PROVE  /\ i <= j => RankIn(S, i) <= RankIn(S, j)
         /\ i < j /\ i \in S => RankIn(S, i) < RankIn(S, j)
         /\ (\A k \in S : i <= k => j <= k) /\ i <= j => RankIn(S, i) = RankIn(S, j)
<1> DEFINE T == { k \in S : k < i }
           U == { k \in S : k < j }
<1>1. IsFiniteSet(U) /\ IsFiniteSet(T)
  <2>1. T \in SUBSET S /\ U \in SUBSET S
    OBVIOUS
  <2> QED
    BY <2>1, FS_Subset
<1>2. Cardinality(T) \in Nat /\ Cardinality(U) \in Nat
  BY <1>1, FS_CardinalityType
<1>3. i <= j => T \in SUBSET U
  <2>1. i <= j => \A k \in S : k < i => k < j
    OBVIOUS
  <2> QED
    BY <2>1
<1>4. i < j /\ i \in S => T # U /\ i <= j
  OBVIOUS
<1>5. (\A k \in S : i <= k => j <= k) /\ i <= j => T = U
  <2>1. \A k \in S : ~ (i <= k) <=> k < i
    OBVIOUS
  <2>2. \A k \in S : ~ (j <= k) <=> k < j
    OBVIOUS
  <2>3. i <= j => \A k \in S : j <= k => i <= k
    OBVIOUS
  <2> QED
    BY <2>1, <2>2, <2>3
<1>6. i <= j => Cardinality(T) <= Cardinality(U) /\ (Cardinality(U) = Cardinality(T) => U = T)
  BY <1>1, <1>3, FS_Subset
<1>7. RankIn(S, i) = Cardinality(T) /\ RankIn(S, j) = Cardinality(U)
  BY DEF RankIn
<1> HIDE DEF T, U
<1> QED
  BY <1>2, <1>4, <1>5, <1>6, <1>7

(* Different members have different ranks.                                 *)
LEMMA RankInjective ==
  ASSUME NEW S, IsFiniteSet(S), S \subseteq Nat, NEW i \in S, NEW j \in S
  PROVE  /\ RankIn(S, i) = RankIn(S, j) => i = j
         /\ RankIn(S, i) < RankIn(S, j) <=> i < j
<1>1. i \in Int /\ j \in Int
  OBVIOUS
<1>2. /\ i < j => RankIn(S, i) < RankIn(S, j)
      /\ j < i => RankIn(S, j) < RankIn(S, i)
  BY <1>1, RankOrder
<1>3. RankIn(S, i) \in Int /\ RankIn(S, j) \in Int
  <2>1. RankIn(S, i) \in 0 .. Cardinality(S) /\ RankIn(S, j) \in 0 .. Cardinality(S)
    BY <1>1, RankRange
  <2> QED
    BY <2>1
<1> QED
  BY <1>1, <1>2, <1>3

(* Every place below the number of members is some member's.               *)
LEMMA RankTaken ==
  ASSUME NEW S, IsFiniteSet(S), S \subseteq Nat, NEW p \in 0 .. Cardinality(S) - 1
  PROVE  \E i \in S : RankIn(S, i) = p
<1> DEFINE n == Cardinality(S)
           f == [i \in S |-> RankIn(S, i)]
<1>1. n \in Nat
  BY FS_CardinalityType
<1>2. f \in Injection(S, 0 .. n - 1)
  <2>1. ASSUME NEW i \in S
        PROVE  RankIn(S, i) \in 0 .. n - 1
    <3>1. i \in Int
      OBVIOUS
    <3> QED
      BY <3>1, RankRange
  <2>2. f \in [S -> 0 .. n - 1]
    BY <2>1
  <2>3. \A i, j \in S : f[i] = f[j] => i = j
    BY RankInjective
  <2> HIDE DEF f
  <2> QED
    BY <2>2, <2>3 DEF Injection, IsInjective
<1>3. IsFiniteSet(0 .. n - 1) /\ Cardinality(0 .. n - 1) = n
  <2>1. 0 \in Int /\ n - 1 \in Int /\ (n > 0 => ~ (0 > n - 1) /\ (n - 1) - 0 + 1 = n)
        /\ (n = 0 => 0 > n - 1)
    BY <1>1
  <2> HIDE DEF n
  <2> QED
    BY <1>1, <2>1, FS_Interval
<1>4. f \in Surjection(S, 0 .. n - 1)
  <2> HIDE DEF f
  <2> QED
    BY <1>2, <1>3, FS_Injection DEF n
<1>5. \E i \in S : f[i] = p
  <2> HIDE DEF f
  <2> QED
    BY <1>4 DEF Surjection
<1> QED
  BY <1>5

LEMMA RankAdd ==
  ASSUME NEW S, IsFiniteSet(S), S \subseteq Nat, NEW i \in Nat \ S, NEW j \in Int
  PROVE  RankIn(S \cup {i}, j) = IF i < j THEN RankIn(S, j) + 1 ELSE RankIn(S, j)
<1> DEFINE T == { k \in S : k < j }
           U == { k \in S \cup {i} : k < j }
<1>1. IsFiniteSet(T)
  <2>1. T \in SUBSET S
    OBVIOUS
  <2> QED
    BY <2>1, FS_Subset
<1>2. i \notin T /\ (i < j => U = T \cup {i}) /\ (~ (i < j) => U = T)
  OBVIOUS
<1>3. RankIn(S, j) = Cardinality(T) /\ RankIn(S \cup {i}, j) = Cardinality(U)
  BY DEF RankIn
<1>4. Cardinality(T \cup {i}) = Cardinality(T) + 1
  <2> HIDE DEF T
  <2> QED
    BY <1>1, <1>2, FS_AddElement
<1> HIDE DEF T, U
<1> QED
  BY <1>2, <1>3, <1>4

LEMMA RankRemove ==
  ASSUME NEW S, IsFiniteSet(S), S \subseteq Nat, NEW i \in S, NEW j \in Int
  PROVE  RankIn(S \ {i}, j) = IF i < j THEN RankIn(S, j) - 1 ELSE RankIn(S, j)
<1> DEFINE T == S \ {i}
<1>1. IsFiniteSet(T) /\ T \subseteq Nat /\ i \in Nat \ T /\ T \cup {i} = S
  BY FS_RemoveElement
<1> HIDE DEF T
<1>2. RankIn(S, j) = IF i < j THEN RankIn(T, j) + 1 ELSE RankIn(T, j)
  BY <1>1, RankAdd
<1>3. RankIn(T, j) \in Int
  <2>1. RankIn(T, j) \in 0 .. Cardinality(T)
    BY <1>1, RankRange
  <2> QED
    BY <2>1
<1> QED
  BY <1>2, <1>3 DEF T

-----------------------------------------------------------------------------
(* Bits of numbers. *)

(* A number has one quotient.                                              *)
LEMMA DivUnique ==
  ASSUME NEW x \in Nat, NEW n \in Nat \ {0}, NEW q \in Int, NEW r \in 0 .. n - 1,
         x = n * q + r
  PROVE  x \div n = q
<1> DEFINE s == x \div n
<1>1. x % n = r
  BY ModUnique
<1>2. s \in Nat /\ x = n * s + r
  BY <1>1, DivMod
<1> HIDE DEF s
<1>3. n * s = n * q /\ n * s \in Int /\ n * q \in Int
  BY <1>2
<1>4. ~ (s < q) /\ ~ (q < s)
  <2>1. s < q => n * s + n <= n * q
    BY <1>2, MultiplesApart
  <2>2. q < s => n * q + n <= n * s
    BY <1>2, MultiplesApart
  <2> QED
    BY <1>3, <2>1, <2>2
<1> QED
  BY <1>2, <1>4 DEF s

LEMMA DivAdd ==
  ASSUME NEW x \in Nat, NEW n \in Nat \ {0}, NEW z \in Nat
  PROVE  (x + n * z) \div n = (x \div n) + z
<1> DEFINE s == x \div n
           r == x % n
<1>1. s \in Nat /\ r \in 0 .. n - 1 /\ x = n * s + r
  BY DivMod
<1> HIDE DEF s, r
<1>2. n * z \in Nat /\ n * (s + z) = n * s + n * z
  BY <1>1, NatProduct
<1>3. n * s \in Int
  BY <1>1
<1>4. x + n * z \in Nat /\ x + n * z = n * (s + z) + r /\ s + z \in Int
  BY <1>1, <1>2, <1>3
<1> QED
  BY <1>1, <1>4, DivUnique DEF s

(* Dividing twice is dividing by the product.                              *)
LEMMA DivTwice ==
  ASSUME NEW x \in Nat, NEW m \in Nat \ {0}, NEW n \in Nat \ {0}, NEW d, d = m * n
  PROVE  d \in Nat \ {0} /\ x \div d = (x \div m) \div n
<1> DEFINE s == x \div m
           r == x % m
           t == s \div n
           u == s % n
<1>1. s \in Nat /\ r \in 0 .. m - 1 /\ x = m * s + r
  BY DivMod
<1>2. t \in Nat /\ u \in 0 .. n - 1 /\ s = n * t + u
  BY <1>1, DivMod
<1> HIDE DEF s, r, t, u
<1>3. m * n \in Nat \ {0}
  <2>1. m * n \in Nat
    BY NatProduct
  <2>2. 0 * n < m * n
    BY ScaledOrder
  <2> QED
    BY <2>1, <2>2
<1>4. m * s = (m * n) * t + m * u
  <2>1. n * t \in Nat
    BY <1>2, NatProduct
  <2>2. m * s = m * (n * t) + m * u
    BY <1>2, <2>1
  <2>3. m * (n * t) = (m * n) * t
    BY <1>2
  <2> QED
    BY <2>2, <2>3
<1>5. m * u + r \in 0 .. (m * n) - 1
  <2>1. m * u \in Nat
    BY <1>2, NatProduct
  <2>2. m * u + m <= m * n
    BY <1>2, MultiplesApart
  <2> QED
    BY <1>1, <1>3, <2>1, <2>2
<1>6. x = (m * n) * t + (m * u + r)
  <2>1. (m * n) * t \in Nat /\ m * u \in Nat
    BY <1>2, <1>3, NatProduct
  <2> QED
    BY <1>1, <1>4, <2>1
<1>7. x \div (m * n) = t
  BY <1>2, <1>3, <1>5, <1>6, DivUnique
<1> QED
  BY <1>3, <1>7 DEF t, s

(* The bit of weight p, and what lies below it.                            *)
LEMMA NextBit ==
  ASSUME NEW x \in Nat, NEW p \in Nat \ {0}
  PROVE  /\ (x \div p) % 2 \in {0, 1}
         /\ x % (2 * p) = (x % p) + (IF (x \div p) % 2 = 1 THEN p ELSE 0)
<1> DEFINE s == x \div p
           r == x % p
           h == s \div 2
           b == s % 2
<1>1. s \in Nat /\ r \in 0 .. p - 1 /\ x = p * s + r
  BY DivMod
<1>2. h \in Nat /\ b \in {0, 1} /\ s = 2 * h + b
  BY <1>1
<1> HIDE DEF s, r, h, b
<1>3. p * s = (2 * p) * h + p * b /\ p * h \in Nat
  BY <1>2, NatProduct
<1>4. p * b = IF b = 1 THEN p ELSE 0
  BY <1>2
<1> DEFINE w == p * b + r
<1>5. w \in 0 .. 2 * p - 1 /\ x = (2 * p) * h + w
  BY <1>1, <1>2, <1>3, <1>4
<1> HIDE DEF w
<1>6. x % (2 * p) = w
  BY <1>2, <1>5, ModUnique
<1> QED
  BY <1>1, <1>2, <1>4, <1>6 DEF w, r, b, s

(* A bit does not see what lies above it.                                  *)
LEMMA BitBelow ==
  ASSUME NEW x \in Nat, NEW p \in Nat \ {0}, NEW y \in Nat
  PROVE  /\ x + (2 * p) * y \in Nat
         /\ ((x + (2 * p) * y) \div p) % 2 = (x \div p) % 2
<1>1. (2 * p) * y = p * (2 * y) /\ 2 * y \in Nat
  OBVIOUS
<1>2. (x + p * (2 * y)) \div p = (x \div p) + 2 * y
  BY <1>1, DivAdd
<1>3. x \div p \in Nat
  BY DivMod
<1>4. ((x \div p) + 2 * y) % 2 = (x \div p) % 2
  BY <1>3
<1>5. p * (2 * y) \in Nat
  BY <1>1, NatProduct
<1> QED
  BY <1>1, <1>2, <1>4, <1>5

(* The highest bit of a number below 2 * p.                                *)
LEMMA BitAtTop ==
  ASSUME NEW x \in Nat, NEW p \in Nat \ {0}, x < 2 * p
  PROVE  (x \div p) % 2 = IF p <= x THEN 1 ELSE 0
<1>1. CASE x < p
  <2>1. x \div p = 0
    BY <1>1, DivUnique
  <2> QED
    BY <1>1, <2>1
<1>2. CASE p <= x
  <2>1. x - p \in 0 .. p - 1 /\ x = p * 1 + (x - p)
    BY <1>2
  <2>2. x \div p = 1
    BY <2>1, DivUnique
  <2> QED
    BY <1>2, <2>2
<1> QED
  BY <1>1, <1>2

(* The byte of weight p, what lies below it, and its bits.                 *)
LEMMA NextByte ==
  ASSUME NEW x \in Nat, NEW p \in Nat \ {0}
  PROVE  /\ (x \div p) % 256 \in 0 .. 255
         /\ x % (256 * p) = (x % p) + p * ((x \div p) % 256)
<1> DEFINE s == x \div p
           r == x % p
           h == s \div 256
           b == s % 256
<1>1. s \in Nat /\ r \in 0 .. p - 1 /\ x = p * s + r
  BY DivMod
<1>2. h \in Nat /\ b \in 0 .. 255 /\ s = 256 * h + b
  BY <1>1
<1> HIDE DEF s, r, h, b
<1> DEFINE c == p * b
           w == c + r
<1>3. p * s = (256 * p) * h + c /\ c \in Nat /\ c <= p * 255
  <2>1. p * (256 * h + b) = (256 * p) * h + p * b
    BY <1>2
  <2>2. c \in Nat /\ p * (255 - b) \in Nat
    BY <1>2, NatProduct
  <2>3. p * 255 = p * b + p * (255 - b)
    BY <1>2
  <2> QED
    BY <1>2, <2>1, <2>2, <2>3
<1>4. w \in 0 .. 256 * p - 1 /\ x = (256 * p) * h + w
  <2> HIDE DEF c
  <2>1. (256 * p) * h \in Int
    BY <1>2
  <2> QED
    BY <1>1, <1>3, <2>1
<1> HIDE DEF w
<1>5. x % (256 * p) = w
  <2>1. 256 * p \in Nat \ {0} /\ h \in Int
    BY <1>2
  <2> QED
    BY <1>4, <2>1, ModUnique
<1>6. w = r + p * b
  BY <1>1, <1>3 DEF w
<1> QED
  BY <1>2, <1>5, <1>6 DEF r, b, s

LEMMA ByteOfBits ==
  ASSUME NEW v \in Nat
  PROVE  v % 256 = (v % 2) + 2 * ((v \div 2) % 2) + 4 * ((v \div 4) % 2)
                   + 8 * ((v \div 8) % 2) + 16 * ((v \div 16) % 2)
                   + 32 * ((v \div 32) % 2) + 64 * ((v \div 64) % 2)
                   + 128 * ((v \div 128) % 2)
<1>1. ASSUME NEW p \in Nat \ {0}
      PROVE  v % (2 * p) = (v % p) + p * ((v \div p) % 2)
  <2>1. /\ (v \div p) % 2 \in {0, 1}
        /\ v % (2 * p) = (v % p) + (IF (v \div p) % 2 = 1 THEN p ELSE 0)
    BY NextBit
  <2> QED
    BY <2>1
<1>2. /\ 2 * 2 = 4 /\ 2 * 4 = 8 /\ 2 * 8 = 16 /\ 2 * 16 = 32
      /\ 2 * 32 = 64 /\ 2 * 64 = 128 /\ 2 * 128 = 256
  OBVIOUS
<1>3. /\ v % 4 = (v % 2) + 2 * ((v \div 2) % 2) /\ v % 8 = (v % 4) + 4 * ((v \div 4) % 2)
      /\ v % 16 = (v % 8) + 8 * ((v \div 8) % 2)
      /\ v % 32 = (v % 16) + 16 * ((v \div 16) % 2)
      /\ v % 64 = (v % 32) + 32 * ((v \div 32) % 2)
      /\ v % 128 = (v % 64) + 64 * ((v \div 64) % 2)
      /\ v % 256 = (v % 128) + 128 * ((v \div 128) % 2)
  BY <1>1, <1>2
<1> QED
  BY <1>3

-----------------------------------------------------------------------------
(* Sequences: a value pushed into the block or taken out of it moves the   *)
(* ones behind it.                                                         *)

LEMMA InsertShifts ==
  ASSUME NEW V, NEW seq \in Seq(V), NEW v \in V, NEW p \in 0 .. Len(seq)
  PROVE  /\ InsertAt(seq, p + 1, v) \in Seq(V)
         /\ Len(InsertAt(seq, p + 1, v)) = Len(seq) + 1
         /\ InsertAt(seq, p + 1, v)[p + 1] = v
         /\ \A q \in 0 .. Len(seq) - 1 :
              InsertAt(seq, p + 1, v)[IF q < p THEN q + 1 ELSE q + 2] = seq[q + 1]
<1>1. InsertAt(seq, p + 1, v) = SubSeq(seq, 1, p) \o <<v>> \o SubSeq(seq, p + 1, Len(seq))
  <2>1. (p + 1) - 1 = p
    OBVIOUS
  <2> QED
    BY <2>1, Zenon DEF InsertAt
<1> DEFINE a == SubSeq(seq, 1, p)
           b == SubSeq(seq, p + 1, Len(seq))
<1>2. /\ a \in Seq(V) /\ Len(a) = p /\ \A q \in 1 .. p : a[q] = seq[q]
      /\ b \in Seq(V) /\ Len(b) = Len(seq) - p
      /\ \A q \in 1 .. Len(seq) - p : b[q] = seq[p + q]
  OBVIOUS
<1> HIDE DEF a, b
<1>3. <<v>> \in Seq(V) /\ Len(<<v>>) = 1 /\ <<v>>[1] = v
  OBVIOUS
<1> DEFINE c == a \o <<v>>
<1>4. c \in Seq(V) /\ Len(c) = p + 1 /\ c[p + 1] = v /\ \A q \in 1 .. p : c[q] = seq[q]
  BY <1>2, <1>3
<1> HIDE DEF c
<1> DEFINE d == c \o b
<1>5. /\ d \in Seq(V) /\ Len(d) = Len(seq) + 1 /\ d[p + 1] = v
      /\ \A q \in 1 .. p : d[q] = seq[q]
      /\ \A q \in p + 1 .. Len(seq) : d[q + 1] = seq[q]
  <2>1. d \in Seq(V) /\ Len(d) = Len(seq) + 1
    <3>1. d \in Seq(V) /\ Len(d) = Len(c) + Len(b)
      BY <1>2, <1>4, ConcatProperties
    <3> QED
      BY <1>2, <1>4, <3>1
  <2>2. \A q \in 1 .. p + 1 : d[q] = c[q]
    BY <1>2, <1>4
  <2>3. ASSUME NEW q \in p + 1 .. Len(seq)
        PROVE  d[q + 1] = seq[q]
    <3>1. /\ q + 1 \in 1 .. Len(c) + Len(b) /\ q + 1 > Len(c) /\ (q + 1) - Len(c) = q - p
          /\ q - p \in 1 .. Len(seq) - p /\ p + (q - p) = q
      BY <1>2, <1>4
    <3>2. d[q + 1] = b[q - p]
      BY <1>2, <1>4, <3>1
    <3> QED
      BY <1>2, <3>1, <3>2
  <2> QED
    BY <1>4, <2>1, <2>2, <2>3
<1>6. InsertAt(seq, p + 1, v) = d
  BY <1>1 DEF a, b, c
<1> HIDE DEF d
<1>7. ASSUME NEW q \in 0 .. Len(seq) - 1
      PROVE  d[IF q < p THEN q + 1 ELSE q + 2] = seq[q + 1]
  <2>1. CASE q < p
    BY <1>5, <2>1
  <2>2. CASE ~ (q < p)
    <3>1. q + 1 \in p + 1 .. Len(seq) /\ (q + 1) + 1 = q + 2
      BY <2>2
    <3>2. d[(q + 1) + 1] = seq[q + 1]
      BY <1>5, <3>1
    <3> QED
      BY <2>2, <3>1, <3>2
  <2> QED
    BY <2>1, <2>2
<1> QED
  BY <1>5, <1>6, <1>7

LEMMA RemoveShifts ==
  ASSUME NEW V, NEW seq \in Seq(V), NEW p \in 0 .. Len(seq) - 1
  PROVE  /\ RemoveAt(seq, p + 1) \in Seq(V)
         /\ Len(RemoveAt(seq, p + 1)) = Len(seq) - 1
         /\ \A q \in 0 .. Len(seq) - 2 :
              RemoveAt(seq, p + 1)[q + 1] = seq[IF q < p THEN q + 1 ELSE q + 2]
<1>1. RemoveAt(seq, p + 1) = SubSeq(seq, 1, p) \o SubSeq(seq, p + 2, Len(seq))
  <2>1. (p + 1) - 1 = p /\ (p + 1) + 1 = p + 2
    OBVIOUS
  <2> QED
    BY <2>1, Zenon DEF RemoveAt
<1> DEFINE a == SubSeq(seq, 1, p)
           b == SubSeq(seq, p + 2, Len(seq))
           n == Len(seq) - p - 1
<1>2. /\ a \in Seq(V) /\ Len(a) = p /\ \A q \in 1 .. p : a[q] = seq[q]
      /\ n \in Nat /\ b \in Seq(V) /\ Len(b) = n
      /\ \A q \in 1 .. n : b[q] = seq[p + 1 + q]
  OBVIOUS
<1> HIDE DEF a, b
<1> DEFINE d == a \o b
<1>3. d \in Seq(V) /\ Len(d) = Len(seq) - 1
  <2>1. d \in Seq(V) /\ Len(d) = Len(a) + Len(b)
    BY <1>2, ConcatProperties
  <2> QED
    BY <1>2, <2>1
<1>4. ASSUME NEW q \in 0 .. Len(seq) - 2
      PROVE  d[q + 1] = seq[IF q < p THEN q + 1 ELSE q + 2]
  <2>1. CASE q < p
    <3>1. q + 1 \in 1 .. p
      BY <2>1
    <3>2. d[q + 1] = a[q + 1]
      BY <1>2, <3>1
    <3> QED
      BY <1>2, <2>1, <3>1, <3>2
  <2>2. CASE ~ (q < p)
    <3>1. /\ q + 1 \in 1 .. Len(a) + Len(b) /\ q + 1 > Len(a)
          /\ (q + 1) - Len(a) = q + 1 - p
          /\ q + 1 - p \in 1 .. n /\ p + 1 + (q + 1 - p) = q + 2
      BY <1>2, <2>2
    <3>2. d[q + 1] = b[(q + 1) - Len(a)]
      <4>1. /\ a \in Seq(V) /\ b \in Seq(V) /\ q + 1 \in 1 .. Len(a) + Len(b)
            /\ q + 1 > Len(a)
        BY <1>2, <3>1
      <4>2. \A i \in 1 .. Len(a) + Len(b) :
              (a \o b)[i] = IF i <= Len(a) THEN a[i] ELSE b[i - Len(a)]
        BY <4>1, ConcatProperties, Zenon
      <4>3. Len(a) \in Nat /\ ~ (q + 1 <= Len(a))
        BY <4>1
      <4> QED
        BY <4>1, <4>2, <4>3
    <3> QED
      BY <1>2, <2>2, <3>1, <3>2
  <2> QED
    BY <2>1, <2>2
<1>5. RemoveAt(seq, p + 1) = d
  BY <1>1 DEF a, b
<1> HIDE DEF d
<1> QED
  BY <1>3, <1>4, <1>5
=============================================================================
