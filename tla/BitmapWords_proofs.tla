-------------------------- MODULE BitmapWords_proofs --------------------------
(* Words of any width: what the masks, shifts and loops of the code do to  *)
(* their bits, that the array they describe is the one of SparseArray, and *)
(* that the portable count counts bits.                                    *)
EXTENDS BitmapWords, Foundations, SequenceTheorems

-----------------------------------------------------------------------------
(* Widths and powers of two. *)

Places == 0 .. 2 * W - 1

LEMMA WidthOK == W \in Nat \ {0} /\ \E e \in 0 .. W : W = 2 ^ e
<1>1. PICK e \in 0 .. W : W = 2 ^ e
  BY WidthAssumption
<1>2. W \in Int
  <2>1. e \in Int
    OBVIOUS
  <2>2. 2 ^ e \in Int
    BY <2>1
  <2> QED
    BY <1>1, <2>2
<1>3. W >= 0 /\ e \in Nat
  BY <1>2
<1>4. W # 0
  <2> SUFFICES ASSUME W = 0
               PROVE  FALSE
    OBVIOUS
  <2>1. e = 0
    BY <1>2
  <2>2. W = 2 ^ 0
    BY <1>1, <2>1, Zenon
  <2> QED
    BY <2>2
<1> QED
  BY <1>1, <1>2, <1>3, <1>4

LEMMA Powers ==
  /\ 2 * W \in Nat /\ Doubling(2 * W)
  /\ \A k \in 0 .. 2 * W : 2 ^ k \in Nat \ {0}
  /\ \A k \in Places : 2 ^ (k + 1) = 2 * 2 ^ k
<1>1. 2 * W \in Nat /\ W \in Nat \ {0}
  BY WidthOK
<1>2. Doubling(2 * W)
  BY <1>1, PowerLaw DEF Doubling
<1>3. \A k \in 0 .. 2 * W : 2 ^ k \in Nat \ {0}
  BY <1>1, <1>2, DoublingPositive
<1>4. \A k \in Places : 2 ^ (k + 1) = 2 * 2 ^ k
  BY <1>1, PowerLaw DEF Places
<1> QED
  BY <1>1, <1>2, <1>3, <1>4

-----------------------------------------------------------------------------
(* The word of a set of bits: a sum of powers, taken bit by bit. *)

(* f[n] is the word of the bits below n, for every n up to top.            *)
Lows(f, bits, top) ==
  f = [n \in 0 .. top |->
         IF n = 0 THEN 0
         ELSE f[n - 1] + (IF n - 1 \in bits THEN 2 ^ (n - 1) ELSE 0)]

(* There is such a function: WordOf is not a choice among nothing.         *)
LEMMA LowsExist ==
  ASSUME NEW bits, NEW top \in Nat
  PROVE  \E f : Lows(f, bits, top)
<1> DEFINE Bad == { k \in Nat : ~ \E f : Lows(f, bits, k) }
<1> SUFFICES ASSUME top \in Bad PROVE FALSE
  OBVIOUS
<1>1. PICK m \in Bad : \A k \in Bad : m <= k
  <2>1. Bad \subseteq Nat /\ Bad # {}
    OBVIOUS
  <2> HIDE DEF Bad
  <2> QED
    BY <2>1, LeastNatural
<1>2. m \in Nat /\ ~ \E f : Lows(f, bits, m)
  OBVIOUS
<1>3. m # 0
  <2> SUFFICES ASSUME m = 0 PROVE FALSE
    OBVIOUS
  <2> DEFINE f == [n \in 0 .. 0 |-> 0]
  <2>1. Lows(f, bits, 0)
    BY DEF Lows
  <2> QED
    BY <1>2, <2>1
<1>4. m - 1 \in Nat /\ m - 1 \notin Bad
  BY <1>1, <1>2, <1>3
<1>5. PICK f : Lows(f, bits, m - 1)
  BY <1>4
<1> DEFINE g == [n \in 0 .. m |->
                   IF n < m THEN f[n]
                   ELSE f[m - 1] + (IF m - 1 \in bits THEN 2 ^ (m - 1) ELSE 0)]
           h == [n \in 0 .. m |->
                   IF n = 0 THEN 0
                   ELSE g[n - 1] + (IF n - 1 \in bits THEN 2 ^ (n - 1) ELSE 0)]
<1>6. ASSUME NEW n \in 0 .. m
      PROVE  g[n] = h[n]
  <2>1. CASE n < m
    <3>1. n \in 0 .. m - 1 /\ g[n] = f[n]
      BY <1>2, <2>1
    <3>2. f[n] = IF n = 0 THEN 0
                 ELSE f[n - 1] + (IF n - 1 \in bits THEN 2 ^ (n - 1) ELSE 0)
      BY <1>5, <3>1 DEF Lows
    <3>3. n # 0 => n - 1 \in 0 .. m /\ n - 1 < m
      BY <1>2, <3>1
    <3> QED
      BY <3>1, <3>2, <3>3
  <2>2. CASE n = m
    <3>1. m - 1 \in 0 .. m /\ m - 1 < m /\ ~ (m < m)
      BY <1>2, <1>3
    <3> QED
      BY <1>3, <2>2, <3>1, Zenon
  <2> QED
    BY <1>2, <2>1, <2>2
<1>7. g = h
  <2>1. DOMAIN g = 0 .. m /\ DOMAIN h = 0 .. m
    OBVIOUS
  <2>2. g = [n \in 0 .. m |-> g[n]] /\ h = [n \in 0 .. m |-> h[n]]
    OBVIOUS
  <2> HIDE DEF g, h
  <2> QED
    BY <1>6, <2>1, <2>2
<1>8. Lows(g, bits, m)
  BY <1>7 DEF Lows
<1> QED
  BY <1>2, <1>8

(* What WordOf computes.                                                   *)
LEMMA WordLow ==
  ASSUME NEW bits
  PROVE  \E f : Lows(f, bits, 2 * W) /\ WordOf(bits) = f[2 * W]
<1> DEFINE g == CHOOSE f : Lows(f, bits, 2 * W)
<1>1. Lows(g, bits, 2 * W)
  BY Powers, LowsExist
<1>2. WordOf(bits) = g[2 * W]
  BY DEF WordOf, Lows
<1> HIDE DEF g
<1> QED
  BY <1>1, <1>2

(* The place of a bit, and the bit.                                        *)
BitAt(word, b) == (word \div 2 ^ b) % 2

(* The word of the bits below n has those bits, and no other below 2 ^ n.  *)
LEMMA LowFacts ==
  ASSUME NEW bits, NEW f, Lows(f, bits, 2 * W)
  PROVE  /\ \A n \in 0 .. 2 * W : f[n] \in 0 .. 2 ^ n - 1
         /\ \A n \in 0 .. 2 * W : \A b \in 0 .. n - 1 :
              BitAt(f[n], b) = IF b \in bits THEN 1 ELSE 0
<1> DEFINE Good(n) == /\ f[n] \in 0 .. 2 ^ n - 1
                      /\ \A b \in 0 .. n - 1 :
                           BitAt(f[n], b) = IF b \in bits THEN 1 ELSE 0
           Bad == { n \in 0 .. 2 * W : ~ Good(n) }
<1>1. /\ 2 * W \in Nat /\ Doubling(2 * W)
      /\ \A k \in 0 .. 2 * W : 2 ^ k \in Nat \ {0}
  BY Powers
<1>2. /\ f[0] = 0
      /\ \A n \in 1 .. 2 * W :
           f[n] = f[n - 1] + (IF n - 1 \in bits THEN 2 ^ (n - 1) ELSE 0)
  BY <1>1 DEF Lows
<1>3. Good(0)
  <2>1. 2 ^ 0 = 1
    OBVIOUS
  <2> QED
    BY <1>2, <2>1
<1>4. ASSUME NEW n \in 1 .. 2 * W, Good(n - 1)
      PROVE  Good(n)
  <2> DEFINE k == n - 1
             p == 2 ^ k
             x == f[k]
             y == f[n]
  <2>1. /\ k \in 0 .. 2 * W - 1 /\ k \in 0 .. 2 * W /\ n = k + 1 /\ k \in Nat
    BY <1>1
  <2>2. p \in Nat \ {0} /\ 2 ^ n = 2 * p
    BY <1>1, <2>1 DEF Doubling
  <2>3. x \in 0 .. p - 1 /\ y = x + (IF k \in bits THEN p ELSE 0)
    BY <1>2, <1>4
  <2>4. y \in 0 .. 2 * p - 1
    BY <2>2, <2>3
  <2>5. BitAt(y, k) = IF k \in bits THEN 1 ELSE 0
    <3>1. y \in Nat /\ y < 2 * p
      BY <2>2, <2>4
    <3>2. (y \div p) % 2 = IF p <= y THEN 1 ELSE 0
      BY <2>2, <3>1, BitAtTop
    <3>3. p <= y <=> k \in bits
      BY <2>2, <2>3
    <3> QED
      BY <3>2, <3>3 DEF BitAt
  <2>6. ASSUME NEW b \in 0 .. k - 1
        PROVE  BitAt(y, b) = IF b \in bits THEN 1 ELSE 0
    <3>1. BitAt(x, b) = IF b \in bits THEN 1 ELSE 0
      BY <1>4
    <3> DEFINE q == 2 ^ b
    <3>2. q \in Nat \ {0} /\ \E z \in Nat : p = (2 * q) * z
      <4>1. b \in 0 .. 2 * W /\ b + 1 \in 0 .. 2 * W /\ b + 1 <= k /\ b \in 0 .. 2 * W - 1
        BY <1>1, <2>1
      <4>2. PICK c \in Nat \ {0} : p = c * 2 ^ (b + 1)
        BY <1>1, <2>1, <4>1, DoublingDivides
      <4>3. 2 ^ (b + 1) = 2 * q /\ q \in Nat \ {0}
        BY <1>1, <4>1 DEF Doubling
      <4> HIDE DEF p, q
      <4>4. c * (2 * q) = (2 * q) * c /\ c \in Nat
        BY <4>3
      <4> QED
        BY <4>2, <4>3, <4>4
    <3>3. PICK z \in Nat : p = (2 * q) * z
      BY <3>2
    <3>4. x \in Nat
      BY <2>2, <2>3
    <3>5. ((x + (2 * q) * z) \div q) % 2 = (x \div q) % 2
      BY <3>2, <3>4, BitBelow
    <3> HIDE DEF p, q, x, y
    <3>6. y = x \/ y = x + (2 * q) * z
      BY <2>3, <3>3, <3>4
    <3> QED
      BY <3>1, <3>5, <3>6 DEF BitAt, q
  <2>7. \A b \in 0 .. n - 1 : b = k \/ b \in 0 .. k - 1
    BY <2>1
  <2> HIDE DEF y, k
  <2>8. \A b \in 0 .. n - 1 : BitAt(y, b) = IF b \in bits THEN 1 ELSE 0
    BY <2>5, <2>6, <2>7
  <2> QED
    BY <2>2, <2>4, <2>8 DEF y
<1>5. Bad = {}
  <2> SUFFICES ASSUME Bad # {} PROVE FALSE
    OBVIOUS
  <2> HIDE DEF Good
  <2>1. PICK n \in Bad : \A k \in Bad : n <= k
    <3>1. Bad \subseteq Nat
      OBVIOUS
    <3> QED
      BY <3>1, LeastNatural
  <2>2. n \in 1 .. 2 * W /\ ~ Good(n)
    BY <1>1, <1>3
  <2>3. n - 1 \in 0 .. 2 * W /\ n - 1 \notin Bad
    BY <1>1, <2>1, <2>2
  <2> QED
    BY <1>4, <2>2, <2>3
<1>6. \A n \in 0 .. 2 * W : Good(n)
  <2> HIDE DEF Good
  <2> QED
    BY <1>5
<1> QED
  BY <1>6

-----------------------------------------------------------------------------
(* The bits of words: a word has one set of bits, a set of bits one word,  *)
(* and the operations on words are operations on the sets.                 *)

Double == 0 .. DoubleMax
Single == 0 .. WordMax

LEMMA Sizes ==
  /\ W \in Nat \ {0} /\ Places \subseteq Nat /\ Indices \subseteq Places
  /\ Double \subseteq Nat /\ Single \subseteq Double /\ 0 \in Single
  /\ \A x \in Nat : x \in Double <=> x < 2 ^ (2 * W)
  /\ \A x \in Nat : x \in Single <=> x < 2 ^ W
  /\ \A k \in 0 .. W : k \in 0 .. 2 * W
<1>1. W \in Nat \ {0} /\ \A k \in 0 .. W : k \in 0 .. 2 * W
  BY WidthOK
<1>2. W \in 0 .. 2 * W /\ 2 * W \in 0 .. 2 * W /\ W <= 2 * W
  BY <1>1
<1>3. 2 ^ W \in Nat \ {0} /\ 2 ^ (2 * W) \in Nat \ {0}
  BY <1>2, Powers
<1>4. 2 ^ W <= 2 ^ (2 * W)
  BY <1>2, Powers, DoublingGrows
<1> DEFINE p == 2 ^ W
           q == 2 ^ (2 * W)
<1>5. /\ p \in Nat \ {0} /\ q \in Nat \ {0} /\ p <= q
      /\ Double = 0 .. q - 1 /\ Single = 0 .. p - 1
  BY <1>3, <1>4 DEF Double, Single, DoubleMax, WordMax
<1> HIDE DEF p, q
<1>6. /\ Double \subseteq Nat /\ Single \subseteq Double /\ 0 \in Single
      /\ \A x \in Nat : x \in Double <=> x < q
      /\ \A x \in Nat : x \in Single <=> x < p
  BY <1>5
<1>7. Places \subseteq Nat /\ Indices \subseteq Places
  BY <1>1 DEF Places, Indices
<1> QED
  BY <1>1, <1>6, <1>7 DEF p, q

LEMMA BitsPlaces == \A x : BitsOf(x) = { b \in Places : BitAt(x, b) = 1 }
BY DEF BitsOf, BitAt, Places

LEMMA BitsSubset == \A x : BitsOf(x) \subseteq Places /\ BitsOf(x) \subseteq Nat
<1>1. \A x : BitsOf(x) \subseteq Places
  BY BitsPlaces
<1> QED
  BY <1>1, Sizes

LEMMA BitsOfWord ==
  ASSUME NEW S \in SUBSET Places
  PROVE  WordOf(S) \in Double /\ BitsOf(WordOf(S)) = S
<1>1. PICK f : Lows(f, S, 2 * W) /\ WordOf(S) = f[2 * W]
  BY WordLow
<1>2. 2 * W \in 0 .. 2 * W
  BY Powers
<1>3. f[2 * W] \in 0 .. 2 ^ (2 * W) - 1
  BY <1>1, <1>2, LowFacts
<1>4. \A b \in Places : BitAt(f[2 * W], b) = IF b \in S THEN 1 ELSE 0
  BY <1>1, <1>2, LowFacts DEF Places
<1> QED
  BY <1>1, <1>3, <1>4, BitsPlaces DEF Double, DoubleMax

LEMMA WordOfBits ==
  ASSUME NEW x \in Double
  PROVE  WordOf(BitsOf(x)) = x
<1>1. PICK f : Lows(f, BitsOf(x), 2 * W) /\ WordOf(BitsOf(x)) = f[2 * W]
  BY WordLow
<1>2. /\ 2 * W \in Nat /\ x \in Nat /\ x < 2 ^ (2 * W)
      /\ \A k \in 0 .. 2 * W : 2 ^ k \in Nat \ {0}
  BY Powers, Sizes
<1>3. /\ f[0] = 0
      /\ \A n \in 1 .. 2 * W :
           f[n] = f[n - 1] + (IF n - 1 \in BitsOf(x) THEN 2 ^ (n - 1) ELSE 0)
  BY <1>1, <1>2 DEF Lows
<1> DEFINE Good(n) == f[n] = x % 2 ^ n
           Bad == { n \in 0 .. 2 * W : ~ Good(n) }
<1>4. 0 \notin Bad
  <2>1. 2 ^ 0 = 1 /\ x % 1 = 0
    BY <1>2
  <2> QED
    BY <1>3, <2>1
<1>5. ASSUME NEW n \in 1 .. 2 * W, Good(n - 1)
      PROVE  Good(n)
  <2> DEFINE k == n - 1
             p == 2 ^ k
  <2>1. k \in Places /\ k \in 0 .. 2 * W /\ n = k + 1
    BY <1>2 DEF Places
  <2>2. p \in Nat \ {0} /\ 2 ^ n = 2 * p
    BY <1>2, <2>1, Powers
  <2>3. k \in BitsOf(x) <=> (x \div p) % 2 = 1
    BY <2>1 DEF BitsOf, Places
  <2>4. x % (2 * p) = (x % p) + (IF (x \div p) % 2 = 1 THEN p ELSE 0)
    BY <1>2, <2>2, NextBit
  <2> QED
    BY <1>3, <1>5, <2>2, <2>3, <2>4
<1>6. Bad = {}
  <2> SUFFICES ASSUME Bad # {} PROVE FALSE
    OBVIOUS
  <2> HIDE DEF Good
  <2>1. PICK n \in Bad : \A k \in Bad : n <= k
    <3>1. Bad \subseteq Nat
      OBVIOUS
    <3> QED
      BY <3>1, LeastNatural
  <2>2. n \in 1 .. 2 * W /\ ~ Good(n)
    BY <1>2, <1>4
  <2>3. n - 1 \in 0 .. 2 * W /\ n - 1 \notin Bad
    BY <1>2, <2>1, <2>2
  <2> QED
    BY <1>5, <2>2, <2>3
<1>7. f[2 * W] = x % 2 ^ (2 * W)
  <2> HIDE DEF Good
  <2>1. 2 * W \in 0 .. 2 * W
    BY <1>2
  <2>2. Good(2 * W)
    BY <1>6, <2>1
  <2> QED
    BY <2>2 DEF Good
<1>8. x % 2 ^ (2 * W) = x
  <2> DEFINE q == 2 ^ (2 * W)
  <2>1. q \in Nat \ {0} /\ x \in 0 .. q - 1 /\ x = q * 0 + x
    BY <1>2
  <2> HIDE DEF q
  <2>2. x % q = x
    BY <1>2, <2>1, ModUnique
  <2> QED
    BY <2>2 DEF q
<1> QED
  BY <1>1, <1>7, <1>8

LEMMA SameBits ==
  ASSUME NEW x \in Double, NEW y \in Double, BitsOf(x) = BitsOf(y)
  PROVE  x = y
BY WordOfBits

(* The bits of a remainder by a power are the lower bits, and only a small *)
(* number has no others.                                                   *)
LEMMA LowBits ==
  ASSUME NEW x \in Double, NEW k \in 0 .. 2 * W
  PROVE  /\ x % 2 ^ k \in Double /\ x % 2 ^ k < 2 ^ k
         /\ BitsOf(x % 2 ^ k) = { b \in BitsOf(x) : b < k }
         /\ x < 2 ^ k <=> \A b \in BitsOf(x) : b < k
<1> DEFINE p == 2 ^ k
           y == x % p
           d == x \div p
<1>1. /\ x \in Nat /\ 2 * W \in Nat /\ p \in Nat \ {0} /\ Doubling(2 * W)
      /\ \A i \in 0 .. 2 * W : 2 ^ i \in Nat \ {0}
  BY Powers, Sizes
<1>2. y \in 0 .. p - 1 /\ d \in Nat /\ x = p * d + y
  <2> HIDE DEF p
  <2> QED
    BY <1>1, DivMod
<1>3. ASSUME NEW z \in Nat, z < p, NEW b \in Places, k <= b
      PROVE  BitAt(z, b) = 0
  <2> DEFINE q == 2 ^ b
  <2>1. b \in 0 .. 2 * W
    BY <1>1 DEF Places
  <2>2. p <= q /\ q \in Nat \ {0}
    BY <1>1, <1>3, <2>1, DoublingGrows
  <2> HIDE DEF p, q
  <2>3. z \in 0 .. q - 1 /\ z = q * 0 + z
    BY <1>1, <1>3, <2>2
  <2>4. z \div q = 0
    BY <2>2, <2>3, DivUnique
  <2> QED
    BY <2>4 DEF BitAt, q
<1>4. ASSUME NEW b \in Places, b < k
      PROVE  BitAt(x, b) = BitAt(y, b)
  <2> DEFINE q == 2 ^ b
  <2>1. b \in 0 .. 2 * W /\ b + 1 \in 0 .. 2 * W /\ b + 1 <= k
    BY <1>1, <1>4 DEF Places
  <2>2. PICK c \in Nat \ {0} : p = c * 2 ^ (b + 1)
    BY <1>1, <2>1, DoublingDivides
  <2>3. q \in Nat \ {0} /\ 2 ^ (b + 1) = 2 * q
    BY <2>1, Powers DEF Places
  <2> HIDE DEF p, q, y, d
  <2>4. p * d = (2 * q) * (c * d) /\ c * d \in Nat
    <3>1. c * d \in Nat
      BY <1>2, NatProduct
    <3>2. (c * (2 * q)) * d = (2 * q) * (c * d)
      BY <1>2, <2>3
    <3> QED
      BY <2>2, <2>3, <3>1, <3>2
  <2>5. y \in Nat /\ x = y + (2 * q) * (c * d)
    <3> DEFINE e == (2 * q) * (c * d)
    <3>1. y \in Nat /\ p * d = e /\ x = p * d + y
      BY <1>1, <1>2, <2>4
    <3>2. p * d \in Int
      BY <1>1, <1>2
    <3> HIDE DEF e
    <3> QED
      BY <3>1, <3>2 DEF e
  <2>6. ((y + (2 * q) * (c * d)) \div q) % 2 = (y \div q) % 2
    BY <2>3, <2>4, <2>5, BitBelow
  <2> QED
    BY <2>5, <2>6 DEF BitAt, q
<1>5. y \in Nat /\ y < p /\ y <= x
  <2> HIDE DEF p, y, d
  <2>1. p * d \in Nat
    BY <1>1, <1>2, NatProduct
  <2> QED
    BY <1>1, <1>2, <2>1
<1>6. y \in Double
  <2>1. x < 2 ^ (2 * W) /\ 2 ^ (2 * W) \in Int
    BY <1>1, Sizes
  <2>2. y < 2 ^ (2 * W)
    BY <1>1, <1>5, <2>1
  <2> QED
    BY <1>5, <2>2, Sizes
<1>7. BitsOf(y) = { b \in BitsOf(x) : b < k }
  <2>1. \A b \in Places : b < k \/ k <= b
    BY <1>1 DEF Places
  <2>2. \A b \in Places : BitAt(y, b) = 1 <=> BitAt(x, b) = 1 /\ b < k
    <3> HIDE DEF p, y, d
    <3>1. \A b \in Places : k <= b => BitAt(y, b) = 0 /\ ~ (b < k)
      BY <1>1, <1>3, <1>5 DEF Places
    <3>2. \A b \in Places : b < k => BitAt(y, b) = BitAt(x, b)
      BY <1>4
    <3> QED
      BY <2>1, <3>1, <3>2
  <2> QED
    BY <2>2, BitsPlaces
<1>8. x < p <=> \A b \in BitsOf(x) : b < k
  <2>1. ASSUME x < p, NEW b \in BitsOf(x)
        PROVE  b < k
    <3>1. b \in Places /\ BitAt(x, b) = 1
      BY BitsPlaces
    <3>2. b < k \/ k <= b
      BY <3>1 DEF Places
    <3> QED
      BY <1>1, <1>3, <2>1, <3>1, <3>2
  <2>2. ASSUME \A b \in BitsOf(x) : b < k
        PROVE  x < p
    <3>1. BitsOf(y) = BitsOf(x)
      BY <1>7, <2>2
    <3>2. y = x
      BY <1>6, <3>1, SameBits
    <3> QED
      BY <1>5, <3>2
  <2> QED
    BY <2>1, <2>2
<1> QED
  BY <1>5, <1>6, <1>7, <1>8

LEMMA SingleBits ==
  ASSUME NEW x \in Double
  PROVE  x \in Single <=> BitsOf(x) \subseteq Indices
<1>1. x \in Nat /\ W \in 0 .. 2 * W /\ W \in Nat \ {0} /\ BitsOf(x) \subseteq Nat
  <2>1. W \in Nat \ {0} /\ W \in 0 .. W
    BY WidthOK
  <2> QED
    BY <2>1, Sizes, BitsSubset
<1>2. x < 2 ^ W <=> \A b \in BitsOf(x) : b < W
  BY <1>1, LowBits
<1>3. \A b \in BitsOf(x) : b < W <=> b \in Indices
  BY <1>1 DEF Indices
<1> QED
  BY <1>1, <1>2, <1>3, Sizes

LEMMA Meets ==
  ASSUME NEW x \in Double, NEW y \in Double
  PROVE  /\ (x & y) \in Double /\ BitsOf(x & y) = BitsOf(x) \cap BitsOf(y)
         /\ x \in Single \/ y \in Single => (x & y) \in Single
<1>1. BitsOf(x) \cap BitsOf(y) \in SUBSET Places
  BY BitsPlaces
<1>2. (x & y) \in Double /\ BitsOf(x & y) = BitsOf(x) \cap BitsOf(y)
  BY <1>1, BitsOfWord DEF &
<1> QED
  BY <1>2, SingleBits

LEMMA Joined ==
  ASSUME NEW x \in Double, NEW y \in Double
  PROVE  /\ (x | y) \in Double /\ BitsOf(x | y) = BitsOf(x) \cup BitsOf(y)
         /\ x \in Single /\ y \in Single => (x | y) \in Single
<1>1. BitsOf(x) \cup BitsOf(y) \in SUBSET Places
  BY BitsPlaces
<1>2. (x | y) \in Double /\ BitsOf(x | y) = BitsOf(x) \cup BitsOf(y)
  BY <1>1, BitsOfWord DEF |
<1> QED
  BY <1>2, SingleBits

(* The word without bits, words of one bit, and words of ones.             *)
LEMMA ZeroBits ==
  /\ 0 \in Double /\ BitsOf(0) = {}
  /\ \A x \in Double : x = 0 <=> BitsOf(x) = {}
<1>1. 0 \in Double
  BY Sizes
<1>2. \A b \in BitsOf(0) : b < 0
  <2>1. 0 \in 0 .. 2 * W /\ 0 < 2 ^ 0
    BY Powers
  <2> QED
    BY <1>1, <2>1, LowBits
<1>3. BitsOf(0) = {}
  <2>1. \A b \in BitsOf(0) : b \in Nat
    BY BitsSubset
  <2> QED
    BY <1>2, <2>1
<1> QED
  BY <1>1, <1>3, SameBits

LEMMA OneBit ==
  ASSUME NEW k \in Places
  PROVE  /\ 2 ^ k \in Double /\ BitsOf(2 ^ k) = {k} /\ 2 ^ k \in Nat \ {0}
         /\ k \in Indices => 2 ^ k \in Single
<1> DEFINE p == 2 ^ k
<1>1. /\ 2 * W \in Nat /\ k \in 0 .. 2 * W /\ k + 1 \in 0 .. 2 * W
      /\ k < 2 * W /\ 2 * W \in 0 .. 2 * W /\ k \in Nat
  BY Powers DEF Places
<1>2. p \in Nat \ {0} /\ 2 ^ (k + 1) = 2 * p
  BY <1>1, Powers
<1>3. 2 * p <= 2 ^ (2 * W) /\ 2 ^ (2 * W) \in Nat
  BY <1>1, Powers, DoublingGrows
<1>4. p \in Double
  <2>1. p < 2 ^ (2 * W)
    BY <1>2, <1>3
  <2> QED
    BY <1>2, <2>1, Sizes
<1>5. \A b \in BitsOf(p) : b < k + 1
  <2>1. p < 2 ^ (k + 1)
    BY <1>2
  <2> QED
    BY <1>1, <1>4, <2>1, LowBits
<1>6. k \in BitsOf(p)
  <2>1. (p \div p) % 2 = 1
    <3> HIDE DEF p
    <3>1. p < 2 * p
      BY <1>2
    <3> QED
      BY <1>2, <3>1, BitAtTop
  <2> QED
    BY <2>1, BitsPlaces DEF BitAt
<1>7. \A b \in BitsOf(p) : ~ (b < k)
  <2>1. p % 2 ^ k = 0
    <3>1. 0 \in 0 .. p - 1 /\ p = p * 1 + 0
      BY <1>2
    <3> HIDE DEF p
    <3>2. p % p = 0
      BY <1>2, <3>1, ModUnique
    <3> QED
      BY <3>2 DEF p
  <2>2. BitsOf(p % 2 ^ k) = { b \in BitsOf(p) : b < k }
    BY <1>1, <1>4, LowBits
  <2> QED
    BY <2>1, <2>2, ZeroBits
<1>8. BitsOf(p) = {k}
  <2>1. \A b \in BitsOf(p) : b \in Int
    <3>1. BitsOf(p) \subseteq Nat
      BY BitsSubset
    <3> HIDE DEF p
    <3> QED
      BY <3>1
  <2>2. \A b \in BitsOf(p) : b = k
    <3> HIDE DEF p
    <3> QED
      BY <1>1, <1>5, <1>7, <2>1
  <2> QED
    BY <1>6, <2>2
<1> QED
  BY <1>2, <1>4, <1>8, SingleBits

LEMMA Ones ==
  ASSUME NEW k \in 0 .. 2 * W
  PROVE  /\ 2 ^ k - 1 \in Double /\ BitsOf(2 ^ k - 1) = { b \in Places : b < k }
         /\ k <= W => 2 ^ k - 1 \in Single
<1> DEFINE p == 2 ^ k
           x == p - 1
<1>1. /\ 2 * W \in Nat /\ k \in Nat /\ k <= 2 * W /\ 2 * W \in 0 .. 2 * W
      /\ Doubling(2 * W)
  BY Powers
<1>2. p \in Nat \ {0} /\ x \in Nat /\ x < p
  <2>1. p \in Nat \ {0}
    BY Powers
  <2> HIDE DEF p
  <2> QED
    BY <2>1
<1>3. p <= 2 ^ (2 * W) /\ 2 ^ (2 * W) \in Nat
  BY <1>1, Powers, DoublingGrows
<1>4. x \in Double
  <2>1. x < 2 ^ (2 * W)
    BY <1>2, <1>3
  <2> QED
    BY <1>2, <2>1, Sizes
<1>5. \A b \in BitsOf(x) : b < k
  BY <1>2, <1>4, LowBits
<1>6. ASSUME NEW b \in Places, b < k
      PROVE  b \in BitsOf(x)
  <2> DEFINE q == 2 ^ b
  <2>1. b \in 0 .. 2 * W /\ b + 1 \in 0 .. 2 * W /\ b + 1 <= k
    BY <1>1, <1>6 DEF Places
  <2>2. PICK c \in Nat \ {0} : p = c * 2 ^ (b + 1)
    BY <1>1, <2>1, DoublingDivides
  <2>3. q \in Nat \ {0} /\ 2 ^ (b + 1) = 2 * q
    BY <2>1, Powers DEF Places
  <2> HIDE DEF p, q
  <2>4. x = (2 * q - 1) + (2 * q) * (c - 1) /\ c - 1 \in Nat /\ 2 * q - 1 \in Nat
    <3>1. c * (2 * q) = 2 * q + (2 * q) * (c - 1)
      BY <2>3
    <3>2. (2 * q) * (c - 1) \in Int
      BY <2>3
    <3> QED
      BY <2>2, <2>3, <3>1, <3>2
  <2>5. (x \div q) % 2 = ((2 * q - 1) \div q) % 2
    <3> DEFINE e == 2 * q - 1
    <3>1. e \in Nat /\ x = e + (2 * q) * (c - 1) /\ c - 1 \in Nat /\ q \in Nat \ {0}
      BY <2>3, <2>4
    <3> HIDE DEF e, x
    <3>2. ((e + (2 * q) * (c - 1)) \div q) % 2 = (e \div q) % 2
      BY <3>1, BitBelow
    <3> QED
      BY <3>1, <3>2 DEF e
  <2>6. ((2 * q - 1) \div q) % 2 = 1
    <3>1. 2 * q - 1 < 2 * q /\ q <= 2 * q - 1
      BY <2>3
    <3> QED
      BY <2>3, <2>4, <3>1, BitAtTop
  <2> QED
    BY <2>5, <2>6, BitsPlaces DEF BitAt, q
<1>7. BitsOf(x) = { b \in Places : b < k }
  <2> HIDE DEF x
  <2> QED
    BY <1>5, <1>6, BitsPlaces
<1>8. ASSUME k <= W
      PROVE  x \in Single
  <2>1. \A b \in Places : b < k => b \in Indices
    BY <1>8, <1>1, Sizes DEF Places, Indices
  <2> HIDE DEF x
  <2> QED
    BY <1>4, <1>7, <2>1, SingleBits
<1> QED
  BY <1>4, <1>7, <1>8

LEMMA FullWord == WordMax \in Single /\ BitsOf(WordMax) = Indices
<1>1. W \in 0 .. 2 * W /\ W <= W
  BY WidthOK
<1>2. 2 ^ W - 1 \in Single /\ BitsOf(2 ^ W - 1) = { b \in Places : b < W }
  BY <1>1, Ones
<1>3. { b \in Places : b < W } = Indices
  BY WidthOK DEF Places, Indices
<1> QED
  BY <1>2, <1>3 DEF WordMax

(* The mask of IndexToOffset: the subtraction wraps for no index.          *)
LEMMA MaskBelow ==
  ASSUME NEW i \in Indices
  PROVE  (Bit(i) + WordMax) % (WordMax + 1) = 2 ^ i - 1
<1> DEFINE p == 2 ^ i
           n == 2 ^ W
<1>1. /\ i \in Places /\ i \in 0 .. 2 * W /\ W \in 0 .. 2 * W /\ i < W
      /\ 2 * W \in Nat /\ Doubling(2 * W)
  BY Sizes, Powers DEF Indices
<1>2. p \in Nat \ {0} /\ n \in Nat \ {0} /\ 2 * p <= n
  <2>1. p \in Nat \ {0} /\ n \in Nat \ {0}
    BY <1>1, Powers
  <2> QED
    BY <1>1, <2>1, DoublingGrows
<1> HIDE DEF p, n
<1>3. /\ p + (n - 1) \in Nat /\ p - 1 \in 0 .. n - 1
      /\ p + (n - 1) = n * 1 + (p - 1) /\ (n - 1) + 1 = n
  BY <1>2
<1>4. (p + (n - 1)) % n = p - 1
  BY <1>2, <1>3, ModUnique
<1> QED
  BY <1>3, <1>4 DEF Bit, WordMax, p, n

LEMMA Shifted ==
  ASSUME NEW x \in Double, NEW n \in 0 .. 2 * W
  PROVE  /\ shiftR(x, n) \in Double
         /\ \A b \in Places : b \in BitsOf(shiftR(x, n)) <=> b + n \in BitsOf(x)
         /\ x \in Single => shiftR(x, n) \in Single
<1> DEFINE p == 2 ^ n
           y == x \div p
           c == 2 * W - n
<1>1. /\ 2 * W \in Nat /\ n \in Nat /\ Doubling(2 * W) /\ x \in Nat
      /\ c \in 0 .. 2 * W /\ c \in Nat /\ n + c = 2 * W
  BY Powers, Sizes
<1>2. p \in Nat \ {0}
  BY Powers
<1>3. y \in Nat /\ y <= x
  <2>1. y \in Nat /\ x = p * y + (x % p) /\ x % p \in Nat
    <3>1. x \in Nat /\ p \in Nat \ {0}
      BY <1>1, <1>2
    <3> HIDE DEF p
    <3>2. x \div p \in Nat /\ x = p * (x \div p) + (x % p) /\ x % p \in 0 .. p - 1
      BY <3>1, DivMod
    <3> QED
      BY <3>1, <3>2
  <2> HIDE DEF p, y
  <2>2. (p - 1) * y \in Nat /\ p * y = y + (p - 1) * y
    <3>1. p - 1 \in Nat
      BY <1>2
    <3>2. (p - 1) * y \in Nat
      BY <2>1, <3>1, NatProduct
    <3> QED
      BY <1>2, <2>1, <3>2
  <2> QED
    BY <1>1, <2>1, <2>2
<1>4. y \in Double
  <2>1. x < 2 ^ (2 * W) /\ 2 ^ (2 * W) \in Int
    BY <1>1, Sizes
  <2>2. y < 2 ^ (2 * W)
    <3> HIDE DEF y
    <3> QED
      BY <1>1, <1>3, <2>1
  <2> QED
    BY <1>3, <2>2, Sizes
<1>5. \A b \in BitsOf(y) : b < c
  <2> DEFINE q == 2 ^ c
  <2>1. q \in Nat \ {0} /\ p * q = 2 ^ (2 * W)
    <3>1. q \in Nat \ {0}
      BY <1>1, Powers
    <3>2. 2 ^ (n + c) = p * q
      BY <1>1, DoublingSum
    <3> QED
      BY <1>1, <3>1, <3>2
  <2>2. ~ (p * q <= x)
    <3>1. x < 2 ^ (2 * W) /\ 2 ^ (2 * W) \in Int
      BY <1>1, Sizes
    <3> QED
      BY <1>1, <2>1, <3>1
  <2>3. ~ (q <= y)
    <3> HIDE DEF p, q
    <3> QED
      BY <1>1, <1>2, <2>1, <2>2, Quotient
  <2>4. y < q
    <3> HIDE DEF y, q
    <3> QED
      BY <1>3, <2>1, <2>3
  <2> QED
    BY <1>1, <1>4, <2>4, LowBits
<1>6. ASSUME NEW b \in Places, b < c
      PROVE  b \in BitsOf(y) <=> b + n \in BitsOf(x)
  <2> DEFINE q == 2 ^ b
  <2>1. /\ b \in Nat /\ b + n \in Places /\ n + b <= 2 * W /\ n + b = b + n
        /\ b \in 0 .. 2 * W
    BY <1>1, <1>6 DEF Places
  <2>2. 2 ^ (n + b) = p * q /\ q \in Nat \ {0}
    BY <1>1, <2>1, DoublingSum, Powers
  <2> DEFINE d == 2 ^ (n + b)
  <2>3. x \div d = y \div q
    <3>1. /\ x \in Nat /\ p \in Nat \ {0} /\ q \in Nat \ {0} /\ d = p * q
          /\ y = x \div p
      BY <1>1, <1>2, <2>2
    <3> HIDE DEF p, q, d, y
    <3> QED
      BY <3>1, DivTwice
  <2>4. BitAt(y, b) = BitAt(x, b + n)
    BY <2>1, <2>2, <2>3 DEF BitAt
  <2> HIDE DEF y
  <2> QED
    BY <2>1, <2>4, BitsPlaces
<1>7. ASSUME NEW b \in Places
      PROVE  b \in BitsOf(y) <=> b + n \in BitsOf(x)
  <2>1. CASE b < c
    BY <1>6, <2>1
  <2>2. CASE ~ (b < c)
    <3>1. b + n \notin Places
      BY <1>1, <2>2 DEF Places
    <3> QED
      BY <1>5, <2>2, <3>1, BitsPlaces
  <2> QED
    BY <2>1, <2>2
<1>8. x \in Single => y \in Single
  <2>1. 2 ^ W \in Nat
    BY WidthOK, Powers
  <2> HIDE DEF y
  <2> QED
    BY <1>1, <1>3, <2>1, Sizes
<1> QED
  BY <1>4, <1>7, <1>8 DEF shiftR

-----------------------------------------------------------------------------
(* The bitmaps: what has_value tells, and the offset of an index as the    *)
(* number of set bits below it.                                            *)

Held == BitsOf(bitmap_vals)

LEMMA HeldFinite ==
  ASSUME bitmap_vals \in Single
  PROVE  /\ Held \in SUBSET Indices /\ IsFiniteSet(Held) /\ Held \subseteq Nat
         /\ Cardinality(Held) \in 0 .. W
         /\ \A i \in Indices \ Held : Cardinality(Held) < W
<1>1. Held \subseteq Indices /\ Indices \subseteq Nat
  <2>1. bitmap_vals \in Double /\ Indices \subseteq Nat
    BY Sizes
  <2> QED
    BY <2>1, SingleBits DEF Held
<1>2. IsFiniteSet(Indices) /\ Cardinality(Indices) = W
  <2>1. 0 \in Int /\ W - 1 \in Int /\ ~ (0 > W - 1) /\ (W - 1) - 0 + 1 = W
    BY WidthOK
  <2> QED
    BY <2>1, FS_Interval DEF Indices
<1>3. IsFiniteSet(Held) /\ Cardinality(Held) <= W /\ (Cardinality(Held) = W => Held = Indices)
  BY <1>1, <1>2, FS_Subset
<1>4. Cardinality(Held) \in Nat /\ W \in Nat
  BY <1>3, FS_CardinalityType, WidthOK
<1> QED
  BY <1>1, <1>3, <1>4

LEMMA BitTest ==
  ASSUME NEW word \in Single, NEW i \in Indices
  PROVE  (word & Bit(i)) # 0 <=> i \in BitsOf(word)
<1>1. i \in Places /\ word \in Double
  BY Sizes
<1>2. Bit(i) \in Double /\ BitsOf(Bit(i)) = {i}
  BY <1>1, OneBit DEF Bit
<1>3. (word & Bit(i)) \in Double /\ BitsOf(word & Bit(i)) = BitsOf(word) \cap {i}
  BY <1>1, <1>2, Meets
<1> QED
  BY <1>3, ZeroBits

LEMMA OffsetIsRank ==
  ASSUME bitmap_vals \in Single, NEW i \in Indices
  PROVE  IndexToOffset(i) = RankIn(Held, i)
<1> DEFINE m == 2 ^ i - 1
<1>1. i \in 0 .. 2 * W /\ bitmap_vals \in Double
  BY Sizes, Powers, WidthOK DEF Indices
<1>2. m \in Double /\ BitsOf(m) = { b \in Places : b < i }
  BY <1>1, Ones
<1>3. (Bit(i) + WordMax) % (WordMax + 1) = m
  BY MaskBelow
<1> HIDE DEF m
<1>4. BitsOf(bitmap_vals & m) = { j \in Held : j < i }
  <2>1. BitsOf(bitmap_vals & m) = Held \cap { b \in Places : b < i }
    BY <1>1, <1>2, Meets DEF Held
  <2>2. Held \subseteq Places
    BY BitsSubset DEF Held
  <2> QED
    BY <2>1, <2>2
<1> QED
  BY <1>3, <1>4 DEF IndexToOffset, Popcount, RankIn

(* What the shifted bitmap of the scan shows at an index.                  *)
LEMMA ScanSees ==
  ASSUME bitmap_vals \in Single, NEW index \in 0 .. W
  PROVE  /\ shiftR(bitmap_vals, index) = 0 <=> \A b \in Held : b < index
         /\ shiftR(bitmap_vals, index) % 2 = IF index \in Held THEN 1 ELSE 0
<1> DEFINE y == shiftR(bitmap_vals, index)
<1>1. /\ index \in 0 .. 2 * W /\ bitmap_vals \in Double /\ bitmap_vals \in Nat
      /\ 2 * W \in Nat /\ W \in Nat \ {0}
  BY Sizes
<1>2. /\ y \in Double /\ y \in Nat
      /\ \A b \in Places : b \in BitsOf(y) <=> b + index \in Held
  BY <1>1, Shifted, Sizes DEF Held
<1>3. Held \subseteq Places /\ BitsOf(y) \subseteq Places
  BY BitsSubset DEF Held
<1> HIDE DEF y
<1>4. y = 0 <=> BitsOf(y) = {}
  BY <1>2, ZeroBits
<1>5. BitsOf(y) = {} <=> \A b \in Held : b < index
  <2>1. ASSUME NEW b \in Held, ~ (b < index)
        PROVE  BitsOf(y) # {}
    <3>1. b - index \in Places /\ (b - index) + index = b
      BY <1>1, <1>3, <2>1 DEF Places
    <3> QED
      BY <1>2, <3>1
  <2>2. ASSUME NEW c \in BitsOf(y)
        PROVE  \E b \in Held : ~ (b < index)
    <3>1. c \in Places /\ c + index \in Held /\ ~ (c + index < index)
      BY <1>1, <1>2, <1>3 DEF Places
    <3> QED
      BY <3>1
  <2> QED
    BY <2>1, <2>2
<1>6. y % 2 = IF index \in Held THEN 1 ELSE 0
  <2>1. 0 \in Places /\ 0 + index = index
    BY <1>1 DEF Places
  <2>2. 2 ^ 0 = 1 /\ y \div 1 = y
    BY <1>2
  <2>3. 0 \in BitsOf(y) <=> y % 2 = 1
    BY <2>1, <2>2, BitsPlaces DEF BitAt
  <2>4. y % 2 \in {0, 1}
    BY <1>2
  <2> QED
    BY <1>2, <2>1, <2>3, <2>4
<1> QED
  BY <1>4, <1>5, <1>6 DEF y

(* The scan, from index k on: f[index][nb_ones] is where it ends.          *)
Scans(f, k, offset) ==
  f = [index \in k .. W |->
         [nb_ones \in 0 .. W |->
            LET bitmap == shiftR(bitmap_vals, index) IN
            IF bitmap = 0 \/ (bitmap % 2 = 1 /\ nb_ones = offset)
            THEN index
            ELSE f[index + 1][nb_ones + (bitmap % 2)]]]

LEMMA ScanExists ==
  ASSUME bitmap_vals \in Single, NEW offset, NEW start \in 0 .. W
  PROVE  \E f : Scans(f, start, offset)
<1> DEFINE Bad == { d \in 0 .. W : ~ \E f : Scans(f, W - d, offset) }
<1>0. W \in Nat
  BY WidthOK
<1>1. 0 \notin Bad
  <2> DEFINE f == [index \in W .. W |-> [nb_ones \in 0 .. W |-> index]]
             g == [index \in W .. W |->
                     [nb_ones \in 0 .. W |->
                        LET bitmap == shiftR(bitmap_vals, index) IN
                        IF bitmap = 0 \/ (bitmap % 2 = 1 /\ nb_ones = offset)
                        THEN index
                        ELSE f[index + 1][nb_ones + (bitmap % 2)]]]
  <2>1. shiftR(bitmap_vals, W) = 0
    <3>1. W \in 0 .. W /\ \A b \in Held : b < W
      BY <1>0, HeldFinite DEF Indices
    <3> QED
      BY <3>1, ScanSees
  <2>2. \A index \in W .. W : index = W
    BY <1>0
  <2>3. f = g
    BY <2>1, <2>2, Zenon
  <2>4. Scans(f, W, offset)
    BY <2>3 DEF Scans
  <2>5. W - 0 = W
    BY <1>0
  <2> QED
    BY <2>4, <2>5
<1>2. ASSUME NEW k \in 0 .. W - 1, NEW f, Scans(f, k + 1, offset)
      PROVE  \E g : Scans(g, k, offset)
  <2> DEFINE g == [index \in k .. W |->
                     IF index # k THEN f[index]
                     ELSE [nb_ones \in 0 .. W |->
                             LET bitmap == shiftR(bitmap_vals, k) IN
                             IF bitmap = 0 \/ (bitmap % 2 = 1 /\ nb_ones = offset)
                             THEN k
                             ELSE f[k + 1][nb_ones + (bitmap % 2)]]]
             h == [index \in k .. W |->
                     [nb_ones \in 0 .. W |->
                        LET bitmap == shiftR(bitmap_vals, index) IN
                        IF bitmap = 0 \/ (bitmap % 2 = 1 /\ nb_ones = offset)
                        THEN index
                        ELSE g[index + 1][nb_ones + (bitmap % 2)]]]
  <2>1. ASSUME NEW index \in k .. W
        PROVE  g[index] = h[index]
    <3>1. CASE index = k
      <4>1. k + 1 \in k .. W /\ k + 1 # k
        BY <1>0
      <4>2. g[k + 1] = f[k + 1]
        BY <4>1
      <4> QED
        BY <3>1, <4>2, Zenon
    <3>2. CASE index # k
      <4>1. index \in k + 1 .. W
        BY <3>2
      <4>2. g[index] = f[index]
        BY <3>2
      <4>3. f[index] = [nb_ones \in 0 .. W |->
                          LET bitmap == shiftR(bitmap_vals, index) IN
                          IF bitmap = 0 \/ (bitmap % 2 = 1 /\ nb_ones = offset)
                          THEN index
                          ELSE f[index + 1][nb_ones + (bitmap % 2)]]
        BY <1>2, <4>1, Zenon DEF Scans
      <4>4. CASE index = W
        <5>1. shiftR(bitmap_vals, index) = 0
          <6>1. W \in 0 .. W /\ \A b \in Held : b < W
            BY <1>0, HeldFinite DEF Indices
          <6> QED
            BY <4>4, <6>1, ScanSees
        <5> QED
          BY <4>2, <4>3, <5>1, Zenon
      <4>5. CASE index # W
        <5>1. index + 1 \in k .. W /\ index + 1 # k
          BY <1>0, <4>1, <4>5
        <5>2. g[index + 1] = f[index + 1]
          BY <5>1
        <5> QED
          BY <4>2, <4>3, <5>2, Zenon
      <4> QED
        BY <4>4, <4>5
    <3> QED
      BY <3>1, <3>2
  <2>2. g = h
    <3>1. DOMAIN g = k .. W /\ DOMAIN h = k .. W
      OBVIOUS
    <3>2. g = [index \in k .. W |-> g[index]] /\ h = [index \in k .. W |-> h[index]]
      OBVIOUS
    <3> HIDE DEF g, h
    <3> QED
      BY <2>1, <3>1, <3>2
  <2>3. Scans(g, k, offset)
    BY <2>2 DEF Scans
  <2> QED
    BY <2>3
<1>3. Bad = {}
  <2> SUFFICES ASSUME Bad # {} PROVE FALSE
    OBVIOUS
  <2>1. PICK d \in Bad : \A e \in Bad : d <= e
    <3>1. Bad \subseteq Nat
      OBVIOUS
    <3> HIDE DEF Bad
    <3> QED
      BY <3>1, LeastNatural
  <2>2. d \in 1 .. W /\ ~ \E f : Scans(f, W - d, offset)
    BY <1>0, <1>1
  <2>3. d - 1 \in 0 .. W /\ d - 1 \notin Bad
    BY <1>0, <2>1, <2>2
  <2>4. PICK f : Scans(f, W - (d - 1), offset)
    BY <2>3
  <2>5. W - d \in 0 .. W - 1 /\ W - (d - 1) = (W - d) + 1
    BY <1>0, <2>2
  <2> QED
    BY <1>2, <2>2, <2>4, <2>5
<1>4. W - start \in 0 .. W /\ W - (W - start) = start
  BY <1>0
<1> QED
  BY <1>3, <1>4

(* The scan ends at the set bit of the rank it was asked for.              *)
LEMMA ScanEnds ==
  ASSUME bitmap_vals \in Single, NEW i \in Held
  PROVE  OffsetToIndex(RankIn(Held, i)) = i
<1> DEFINE offset == RankIn(Held, i)
           f == CHOOSE g : Scans(g, 0, offset)
<1>0. W \in Nat \ {0} /\ 0 \in 0 .. W
  BY WidthOK
<1>1. Scans(f, 0, offset)
  BY <1>0, ScanExists
<1>2. OffsetToIndex(offset) = f[0][0]
  BY DEF OffsetToIndex, Scans
<1> HIDE DEF f
<1>3. /\ Held \in SUBSET Indices /\ IsFiniteSet(Held) /\ Held \subseteq Nat
      /\ Cardinality(Held) \in 0 .. W /\ i \in 0 .. W - 1 /\ i \in Nat /\ W \in Nat
  BY HeldFinite, WidthOK DEF Indices
<1>4. \A index \in 0 .. W : RankIn(Held, index) \in 0 .. W
  <2>1. ASSUME NEW index \in 0 .. W
        PROVE  RankIn(Held, index) \in 0 .. Cardinality(Held)
    <3>1. index \in Int
      OBVIOUS
    <3> QED
      BY <1>3, <3>1, RankRange, Zenon
  <2> QED
    BY <1>0, <1>3, <2>1
<1>5. offset \in 0 .. W
  <2>1. i \in 0 .. W
    BY <1>3
  <2> QED
    BY <1>4, <2>1
<1> DEFINE Good(d) == f[i - d][RankIn(Held, i - d)] = i
           Bad == { d \in 0 .. i : ~ Good(d) }
<1>6. ASSUME NEW index \in 0 .. W
      PROVE  /\ index = i => f[index][RankIn(Held, index)] = i
             /\ index < i => f[index][RankIn(Held, index)]
                               = f[index + 1][RankIn(Held, index + 1)]
  <2> DEFINE bitmap == shiftR(bitmap_vals, index)
             nb_ones == RankIn(Held, index)
  <2>1. f[index][nb_ones] =
          IF bitmap = 0 \/ (bitmap % 2 = 1 /\ nb_ones = offset)
          THEN index ELSE f[index + 1][nb_ones + (bitmap % 2)]
    <3>1. f[index] = [n \in 0 .. W |->
                        IF bitmap = 0 \/ (bitmap % 2 = 1 /\ n = offset)
                        THEN index ELSE f[index + 1][n + (bitmap % 2)]]
      BY <1>1, Zenon DEF Scans
    <3> QED
      BY <1>4, <3>1, Zenon
  <2>2. /\ bitmap = 0 <=> \A b \in Held : b < index
        /\ bitmap % 2 = IF index \in Held THEN 1 ELSE 0
    BY ScanSees
  <2> HIDE DEF bitmap
  <2>3. CASE index = i
    BY <1>3, <2>1, <2>2, <2>3
  <2>4. CASE index < i
    <3>1. bitmap # 0
      BY <1>3, <2>2, <2>4
    <3>2. index \in Held => nb_ones < offset
      <4>1. index \in Int /\ i \in Int
        BY <1>3
      <4> QED
        BY <1>3, <2>4, <4>1, RankOrder, Zenon
    <3>3. RankIn(Held, index + 1) = nb_ones + (bitmap % 2)
      <4> DEFINE T == { j \in Held : j < index }
                 U == { j \in Held : j < index + 1 }
      <4>0. \A j \in Held : j < index + 1 <=> j < index \/ j = index
        BY <1>3
      <4>1. index \in Held => U = T \cup {index} /\ index \notin T
        <5>1. ~ (index < index)
          OBVIOUS
        <5> QED
          BY <4>0, <5>1
      <4>2. index \notin Held => U = T
        BY <4>0
      <4>3. IsFiniteSet(T)
        <5>1. T \in SUBSET Held
          OBVIOUS
        <5> QED
          BY <1>3, <5>1, FS_Subset
      <4>4. Cardinality(T) \in Nat
        BY <4>3, FS_CardinalityType
      <4>5. nb_ones = Cardinality(T) /\ RankIn(Held, index + 1) = Cardinality(U)
        BY DEF RankIn
      <4>6. index \in Held => Cardinality(U) = Cardinality(T) + 1
        <5> HIDE DEF T, U
        <5> QED
          BY <4>1, <4>3, FS_AddElement
      <4> HIDE DEF T, U, nb_ones
      <4> QED
        BY <2>2, <4>2, <4>4, <4>5, <4>6
    <3>4. ~ (bitmap % 2 = 1 /\ nb_ones = offset)
      <4>1. nb_ones \in Int /\ offset \in Int
        BY <1>4, <1>5
      <4> HIDE DEF nb_ones, offset
      <4> QED
        BY <2>2, <3>2, <4>1
    <3> QED
      BY <2>1, <2>4, <3>1, <3>3, <3>4
  <2> QED
    BY <1>3, <2>3, <2>4
<1>7. Bad = {}
  <2> SUFFICES ASSUME Bad # {} PROVE FALSE
    OBVIOUS
  <2> HIDE DEF Good
  <2>1. PICK d \in Bad : \A e \in Bad : d <= e
    <3>1. Bad \subseteq Nat
      OBVIOUS
    <3> HIDE DEF Bad
    <3> QED
      BY <3>1, LeastNatural
  <2>2. d \in 0 .. i /\ ~ Good(d) /\ i - d \in 0 .. W
    BY <1>0, <1>3
  <2>3. d # 0
    <3>1. i - 0 = i /\ i \in 0 .. W /\ i \in Nat
      <4> HIDE DEF Bad
      <4> QED
        BY <1>3
    <3>2. Good(0)
      BY <1>6, <3>1 DEF Good
    <3> QED
      BY <2>2, <3>2
  <2>4. /\ d - 1 \in 0 .. i /\ d - 1 \notin Bad /\ i - d < i
        /\ (i - d) + 1 = i - (d - 1)
    BY <1>3, <2>1, <2>2, <2>3
  <2>5. Good(d - 1)
    BY <2>4
  <2>6. Good(d)
    BY <1>6, <2>2, <2>4, <2>5 DEF Good
  <2> QED
    BY <2>2, <2>6
<1>8. Good(i)
  <2>1. i \in 0 .. i
    BY <1>3
  <2> HIDE DEF Good
  <2> QED
    BY <1>7, <2>1
<1>9. RankIn(Held, 0) = 0 /\ i - i = 0
  <2>1. (\A j \in Held : 0 <= j) /\ 0 \in Int /\ i - i = 0
    BY <1>3
  <2> QED
    BY <1>3, <2>1, RankRange, Zenon
<1> QED
  BY <1>2, <1>8, <1>9

-----------------------------------------------------------------------------
(* Setting and clearing one bit. *)

(* The word of two disjoint sets is the sum of their words.                *)
LEMMA WordSum ==
  ASSUME NEW S \in SUBSET Places, NEW T \in SUBSET Places, S \cap T = {}
  PROVE  WordOf(S \cup T) = WordOf(S) + WordOf(T)
<1> DEFINE U == S \cup T
<1>1. PICK f : Lows(f, S, 2 * W) /\ WordOf(S) = f[2 * W]
  BY WordLow
<1>2. PICK g : Lows(g, T, 2 * W) /\ WordOf(T) = g[2 * W]
  BY WordLow
<1>3. PICK h : Lows(h, U, 2 * W) /\ WordOf(U) = h[2 * W]
  BY WordLow
<1>4. 2 * W \in Nat /\ \A k \in 0 .. 2 * W : 2 ^ k \in Nat \ {0}
  BY Powers
<1>5. /\ f[0] = 0 /\ g[0] = 0 /\ h[0] = 0
      /\ \A n \in 1 .. 2 * W :
           /\ f[n] = f[n - 1] + (IF n - 1 \in S THEN 2 ^ (n - 1) ELSE 0)
           /\ g[n] = g[n - 1] + (IF n - 1 \in T THEN 2 ^ (n - 1) ELSE 0)
           /\ h[n] = h[n - 1] + (IF n - 1 \in U THEN 2 ^ (n - 1) ELSE 0)
  BY <1>1, <1>2, <1>3, <1>4 DEF Lows
<1>6. \A n \in 0 .. 2 * W : f[n] \in Int /\ g[n] \in Int
  <2>1. \A n \in 0 .. 2 * W : f[n] \in 0 .. 2 ^ n - 1
    BY <1>1, LowFacts
  <2>2. \A n \in 0 .. 2 * W : g[n] \in 0 .. 2 ^ n - 1
    BY <1>2, LowFacts
  <2> QED
    BY <2>1, <2>2
<1> DEFINE Good(n) == h[n] = f[n] + g[n]
           Bad == { n \in 0 .. 2 * W : ~ Good(n) }
<1>7. ASSUME NEW n \in 1 .. 2 * W, Good(n - 1)
      PROVE  Good(n)
  <2> DEFINE k == n - 1
             p == 2 ^ k
  <2>1. k \in 0 .. 2 * W
    BY <1>4
  <2>2. p \in Int /\ f[k] \in Int /\ g[k] \in Int
    BY <1>4, <1>6, <2>1
  <2>3. /\ f[n] = f[k] + (IF k \in S THEN p ELSE 0)
        /\ g[n] = g[k] + (IF k \in T THEN p ELSE 0)
        /\ h[n] = h[k] + (IF k \in U THEN p ELSE 0)
        /\ h[k] = f[k] + g[k]
    BY <1>5, <1>7
  <2>4. ~ (k \in S /\ k \in T) /\ (k \in U <=> k \in S \/ k \in T)
    OBVIOUS
  <2> HIDE DEF k, p, U
  <2> QED
    BY <2>2, <2>3, <2>4
<1>8. Bad = {}
  <2> SUFFICES ASSUME Bad # {} PROVE FALSE
    OBVIOUS
  <2>1. Good(0)
    BY <1>5
  <2> HIDE DEF Good
  <2>2. PICK n \in Bad : \A k \in Bad : n <= k
    <3>1. Bad \subseteq Nat
      OBVIOUS
    <3> QED
      BY <3>1, LeastNatural
  <2>3. n \in 1 .. 2 * W /\ ~ Good(n)
    BY <1>4, <2>1
  <2>4. n - 1 \in 0 .. 2 * W /\ n - 1 \notin Bad
    BY <1>4, <2>2, <2>3
  <2> QED
    BY <1>7, <2>3, <2>4
<1>9. Good(2 * W)
  <2>1. 2 * W \in 0 .. 2 * W
    BY <1>4
  <2> HIDE DEF Good
  <2> QED
    BY <1>8, <2>1
<1> QED
  BY <1>1, <1>2, <1>3, <1>9

LEMMA ClearMask ==
  ASSUME NEW i \in Indices
  PROVE  Complement(Bit(i)) \in Single /\ BitsOf(Complement(Bit(i))) = Indices \ {i}
<1> DEFINE S == Indices \ {i}
           x == WordOf(S)
<1>1. /\ i \in Places /\ S \in SUBSET Places /\ {i} \in SUBSET Places
      /\ S \cap {i} = {} /\ S \cup {i} = Indices
  BY Sizes
<1>2. WordOf(Indices) = x + WordOf({i})
  BY <1>1, WordSum
<1>3. WordOf({i}) = 2 ^ i /\ 2 ^ i \in Nat
  BY <1>1, OneBit, WordOfBits
<1>4. WordOf(Indices) = WordMax
  BY FullWord, Sizes, WordOfBits
<1>5. x \in Double /\ BitsOf(x) = S
  BY <1>1, BitsOfWord
<1>6. x \in Nat
  BY <1>5, Sizes
<1>7. Complement(Bit(i)) = x
  <2> HIDE DEF x
  <2> QED
    BY <1>2, <1>3, <1>4, <1>6 DEF Complement, Bit
<1>8. x \in Single
  <2> HIDE DEF x
  <2> QED
    BY <1>5, SingleBits
<1> QED
  BY <1>5, <1>7, <1>8

LEMMA SetClear ==
  ASSUME NEW word \in Single, NEW i \in Indices
  PROVE  /\ (word | Bit(i)) \in Single
         /\ BitsOf(word | Bit(i)) = BitsOf(word) \cup {i}
         /\ (word & Complement(Bit(i))) \in Single
         /\ BitsOf(word & Complement(Bit(i))) = BitsOf(word) \ {i}
<1>1. word \in Double /\ i \in Places
  BY Sizes
<1>2. Bit(i) \in Single /\ Bit(i) \in Double /\ BitsOf(Bit(i)) = {i}
  BY <1>1, OneBit DEF Bit
<1>3. /\ Complement(Bit(i)) \in Double
      /\ BitsOf(Complement(Bit(i))) = Indices \ {i}
  BY ClearMask, Sizes
<1>4. BitsOf(word) \subseteq Indices
  BY <1>1, SingleBits
<1>5. /\ (word | Bit(i)) \in Single
      /\ BitsOf(word | Bit(i)) = BitsOf(word) \cup {i}
  BY <1>1, <1>2, Joined
<1>6. /\ (word & Complement(Bit(i))) \in Single
      /\ BitsOf(word & Complement(Bit(i))) = BitsOf(word) \cap (Indices \ {i})
  BY <1>1, <1>3, Meets
<1> QED
  BY <1>4, <1>5, <1>6

-----------------------------------------------------------------------------
(* The invariant: bitmaps are words, the block holds as many values as the *)
(* bitmap has bits, each at its offset, and is large enough but not larger *)
(* than a step more than a full array needs.                               *)

PackedWords ==
  /\ bitmap_vals \in Single /\ bitmap_deleted_vals \in Single
  /\ values \in Seq(Indices) /\ Len(values) = Cardinality(Held)
  /\ \A i \in Held : values[RankIn(Held, i) + 1] = i

Roomy ==
  /\ step \in Nat \ {0} /\ capacity \in Nat
  /\ Len(values) <= capacity /\ capacity < W + step

WordsInv == PackedWords /\ Roomy

LEMMA WordsInit ==
  ASSUME Init
  PROVE  WordsInv
<1>1. /\ values = <<>> /\ bitmap_vals = 0 /\ bitmap_deleted_vals = 0 /\ capacity = 0
      /\ step \in { StepOf[level] : level \in Levels }
  BY DEF Init
<1>2. Held = {} /\ 0 \in Single
  BY <1>1, ZeroBits, Sizes DEF Held
<1>3. Cardinality(Held) = 0 /\ <<>> \in Seq(Indices) /\ Len(<<>>) = 0
  BY <1>2, FS_EmptySet
<1>4. step \in Nat \ {0}
  BY <1>1, LevelsAssumption DEF StepOf
<1> QED
  BY <1>1, <1>2, <1>3, <1>4, WidthOK DEF WordsInv, PackedWords, Roomy

(* A value pushed at the offset of its index.                              *)
LEMMA SetPacked ==
  ASSUME PackedWords, NEW i \in Indices, ~HasValue(i),
         values' = InsertAt(values, IndexToOffset(i) + 1, i),
         bitmap_vals' = (bitmap_vals | Bit(i)),
         bitmap_deleted_vals' = (bitmap_deleted_vals & Complement(Bit(i)))
  PROVE  /\ PackedWords' /\ Len(values') = Len(values) + 1 /\ Len(values) < W
         /\ Held' = Held \cup {i} /\ i \notin Held
         /\ BitsOf(bitmap_deleted_vals') = BitsOf(bitmap_deleted_vals) \ {i}
<1> DEFINE p == RankIn(Held, i)
           new == InsertAt(values, p + 1, i)
<1>1. /\ bitmap_vals \in Single /\ bitmap_deleted_vals \in Single
      /\ values \in Seq(Indices) /\ Len(values) = Cardinality(Held)
      /\ \A j \in Held : values[RankIn(Held, j) + 1] = j
  BY DEF PackedWords
<1>2. /\ Held \in SUBSET Indices /\ IsFiniteSet(Held) /\ Held \subseteq Nat
      /\ Cardinality(Held) \in 0 .. W
      /\ \A j \in Indices \ Held : Cardinality(Held) < W
  BY <1>1, HeldFinite
<1>3. i \notin Held /\ i \in Nat
  BY <1>1, BitTest, Sizes DEF HasValue, Held
<1>4. p \in 0 .. Len(values) /\ values' = new
  <2>1. IndexToOffset(i) = p
    BY <1>1, OffsetIsRank
  <2>2. i \in Int
    BY <1>3
  <2>3. p \in 0 .. Cardinality(Held)
    BY <1>2, <2>2, RankRange, Zenon
  <2> QED
    BY <1>1, <2>1, <2>3
<1>5. /\ new \in Seq(Indices) /\ Len(new) = Len(values) + 1 /\ new[p + 1] = i
      /\ \A q \in 0 .. Len(values) - 1 :
           new[IF q < p THEN q + 1 ELSE q + 2] = values[q + 1]
  <2>1. new = InsertAt(values, p + 1, i)
    OBVIOUS
  <2>2. values \in Seq(Indices) /\ p \in 0 .. Len(values)
    BY <1>1, <1>4
  <2> HIDE DEF p, new
  <2> QED
    <3>1. /\ InsertAt(values, p + 1, i) \in Seq(Indices)
          /\ Len(InsertAt(values, p + 1, i)) = Len(values) + 1
          /\ InsertAt(values, p + 1, i)[p + 1] = i
      BY <2>2, InsertShifts
    <3>2. \A q \in 0 .. Len(values) - 1 :
            InsertAt(values, p + 1, i)[IF q < p THEN q + 1 ELSE q + 2] = values[q + 1]
      BY <2>2, InsertShifts
    <3> QED
      BY <2>1, <3>1, <3>2
<1>6. /\ bitmap_vals' \in Single /\ bitmap_deleted_vals' \in Single
      /\ Held' = Held \cup {i}
      /\ BitsOf(bitmap_deleted_vals') = BitsOf(bitmap_deleted_vals) \ {i}
  BY <1>1, SetClear DEF Held
<1>7. Cardinality(Held') = Cardinality(Held) + 1
  BY <1>2, <1>3, <1>6, FS_AddElement
<1>8. ASSUME NEW j \in Held \cup {i}
      PROVE  new[RankIn(Held \cup {i}, j) + 1] = j
  <2> DEFINE r == RankIn(Held, j)
  <2>1. j \in Int /\ i \in Nat \ Held /\ j \in Nat
    BY <1>2, <1>3
  <2>2. RankIn(Held \cup {i}, j) = IF i < j THEN r + 1 ELSE r
    BY <1>2, <2>1, RankAdd
  <2>3. CASE j = i
    <3>1. ~ (i < j)
      BY <2>1, <2>3
    <3> QED
      BY <1>5, <2>2, <2>3, <3>1
  <2>4. CASE j \in Held
    <3>1. r \in 0 .. Len(values) - 1
      BY <1>1, <1>2, <2>1, <2>4, RankRange
    <3>2. values[r + 1] = j
      BY <1>1, <2>4
    <3>3. i < j => p <= r
      <4>1. i \in Int /\ (i < j => i <= j)
        BY <1>3, <2>1
      <4> QED
        BY <1>2, <2>1, <4>1, RankOrder, Zenon
    <3>4. ~ (i < j) => j < i /\ r < p
      <4>1. j # i
        BY <1>3, <2>4
      <4>2. ~ (i < j) => j < i
        BY <1>3, <2>1, <4>1
      <4>3. j < i => r < p
        <5>1. i \in Int
          BY <1>3
        <5> QED
          BY <1>2, <2>1, <2>4, <5>1, RankOrder, Zenon
      <4> QED
        BY <4>2, <4>3
    <3>5. i < j <=> ~ (r < p)
      <4>1. r \in Int /\ p \in Int
        BY <1>4, <3>1
      <4> HIDE DEF r, p
      <4> QED
        BY <3>3, <3>4, <4>1
    <3>6. new[IF r < p THEN r + 1 ELSE r + 2] = j
      BY <1>5, <3>1, <3>2
    <3>7. RankIn(Held \cup {i}, j) + 1 = IF r < p THEN r + 1 ELSE r + 2
      <4>1. r \in Int
        BY <3>1
      <4> HIDE DEF r, p
      <4> QED
        BY <2>2, <3>5, <4>1
    <3> QED
      BY <3>6, <3>7
  <2> QED
    BY <2>3, <2>4
<1>9. PackedWords'
  <2> HIDE DEF new, p
  <2>1. values' \in Seq(Indices)
    BY <1>4, <1>5
  <2>2. Len(values') = Cardinality(Held')
    BY <1>1, <1>4, <1>5, <1>7
  <2>3. \A j \in Held' : values'[RankIn(Held', j) + 1] = j
    BY <1>4, <1>6, <1>8
  <2> QED
    BY <1>6, <2>1, <2>2, <2>3 DEF PackedWords
<1> QED
  BY <1>1, <1>2, <1>3, <1>4, <1>5, <1>6, <1>9

(* A value taken out at the offset of its index.                           *)
LEMMA RemovePacked ==
  ASSUME PackedWords, NEW offset \in 0 .. Len(values) - 1,
         NEW i, i = OffsetToIndex(offset),
         values' = RemoveAt(values, offset + 1),
         bitmap_vals' = (bitmap_vals & Complement(Bit(i))),
         bitmap_deleted_vals' = (bitmap_deleted_vals | Bit(i))
  PROVE  /\ PackedWords' /\ Len(values') = Len(values) - 1
         /\ i \in Held /\ RankIn(Held, i) = offset /\ Held' = Held \ {i}
         /\ BitsOf(bitmap_deleted_vals') = BitsOf(bitmap_deleted_vals) \cup {i}
<1> DEFINE new == RemoveAt(values, offset + 1)
<1>1. /\ bitmap_vals \in Single /\ bitmap_deleted_vals \in Single
      /\ values \in Seq(Indices) /\ Len(values) = Cardinality(Held)
      /\ \A j \in Held : values[RankIn(Held, j) + 1] = j
  BY DEF PackedWords
<1>2. /\ Held \in SUBSET Indices /\ IsFiniteSet(Held) /\ Held \subseteq Nat
      /\ Cardinality(Held) \in 0 .. W
  BY <1>1, HeldFinite
<1>3. i \in Held /\ RankIn(Held, i) = offset
  <2>1. PICK j \in Held : RankIn(Held, j) = offset
    BY <1>1, <1>2, RankTaken
  <2> QED
    BY <1>1, <2>1, ScanEnds
<1>4. i \in Indices /\ i \in Nat
  BY <1>2, <1>3
<1>5. /\ new \in Seq(Indices) /\ Len(new) = Len(values) - 1
      /\ \A q \in 0 .. Len(values) - 2 :
           new[q + 1] = values[IF q < offset THEN q + 1 ELSE q + 2]
  BY <1>1, RemoveShifts
<1>6. /\ bitmap_vals' \in Single /\ bitmap_deleted_vals' \in Single
      /\ Held' = Held \ {i}
      /\ BitsOf(bitmap_deleted_vals') = BitsOf(bitmap_deleted_vals) \cup {i}
  BY <1>1, <1>4, SetClear DEF Held
<1>7. Cardinality(Held') = Cardinality(Held) - 1
  BY <1>2, <1>3, <1>6, FS_RemoveElement
<1>8. ASSUME NEW j \in Held \ {i}
      PROVE  new[RankIn(Held \ {i}, j) + 1] = j
  <2> DEFINE r == RankIn(Held, j)
  <2>1. j \in Int /\ j \in Held /\ j # i
    BY <1>2
  <2>2. RankIn(Held \ {i}, j) = IF i < j THEN r - 1 ELSE r
    BY <1>2, <1>3, <2>1, RankRemove
  <2>3. r \in 0 .. Len(values) - 1
    BY <1>1, <1>2, <2>1, RankRange
  <2>4. values[r + 1] = j
    BY <1>1, <2>1
  <2>5. (offset < r <=> i < j) /\ r # offset
    <3>1. /\ RankIn(Held, i) < RankIn(Held, j) <=> i < j
          /\ RankIn(Held, i) = RankIn(Held, j) => i = j
      BY <1>2, <1>3, <2>1, RankInjective, Zenon
    <3> QED
      BY <1>3, <2>1, <3>1, Zenon
  <2> HIDE DEF r, new
  <2>6. CASE i < j
    <3>1. r - 1 \in 0 .. Len(values) - 2 /\ ~ (r - 1 < offset) /\ (r - 1) + 2 = r + 1
      BY <2>3, <2>5, <2>6
    <3>2. new[(r - 1) + 1] = values[(r - 1) + 2]
      BY <1>5, <3>1
    <3> QED
      BY <2>2, <2>4, <2>6, <3>1, <3>2
  <2>7. CASE ~ (i < j)
    <3>1. r \in 0 .. Len(values) - 2 /\ r < offset
      BY <2>3, <2>5, <2>7
    <3>2. new[r + 1] = values[r + 1]
      BY <1>5, <3>1
    <3> QED
      BY <2>2, <2>4, <2>7, <3>2
  <2> QED
    BY <2>6, <2>7
<1>9. PackedWords'
  <2> HIDE DEF new
  <2>1. values' \in Seq(Indices)
    BY <1>5 DEF new
  <2>2. Len(values') = Cardinality(Held')
    BY <1>1, <1>2, <1>5, <1>7 DEF new
  <2>3. \A j \in Held' : values'[RankIn(Held', j) + 1] = j
    BY <1>6, <1>8 DEF new
  <2> QED
    BY <1>6, <2>1, <2>2, <2>3 DEF PackedWords
<1> QED
  BY <1>3, <1>5, <1>6, <1>9

-----------------------------------------------------------------------------
(* Every operation keeps the invariant and is one of SparseArray's.        *)

(* SparseArray counts and moves values with the same library operators.    *)
LEMMA SameLibrary ==
  /\ \A S : SA!Cardinality(S) = Cardinality(S)
  /\ \A s, p, v : SA!InsertAt(s, p, v) = InsertAt(s, p, v)
  /\ \A s, p : SA!RemoveAt(s, p) = RemoveAt(s, p)
<1>1. \A S : SA!Cardinality(S) = Cardinality(S)
  BY Zenon DEF SA!Cardinality, Cardinality
<1>2. \A s, p, v : SA!InsertAt(s, p, v) = InsertAt(s, p, v)
  BY Zenon DEF SA!InsertAt, InsertAt
<1>3. \A s, p : SA!RemoveAt(s, p) = RemoveAt(s, p)
  BY Zenon DEF SA!RemoveAt, RemoveAt
<1> QED
  BY <1>1, <1>2, <1>3

LEMMA SetKeeps ==
  ASSUME WordsInv, Set
  PROVE  /\ WordsInv'
         /\ \E i \in Indices : ~SA!HasValue(Sets, i) /\ Sets' = SA!Set(Sets, i, i)
<1>1. PICK i \in Indices :
        /\ ~HasValue(i)
        /\ capacity' = IF Len(values) < capacity THEN capacity ELSE Len(values) + step
        /\ values' = InsertAt(values, IndexToOffset(i) + 1, i)
        /\ bitmap_vals' = (bitmap_vals | Bit(i))
        /\ bitmap_deleted_vals' = (bitmap_deleted_vals & Complement(Bit(i)))
        /\ step' = step
  BY DEF Set
<1>2. PackedWords /\ bitmap_vals \in Single /\ values \in Seq(Indices)
  BY DEF WordsInv, PackedWords
<1>3. /\ PackedWords' /\ Len(values') = Len(values) + 1 /\ Len(values) < W
      /\ Held' = Held \cup {i} /\ i \notin Held
      /\ BitsOf(bitmap_deleted_vals') = BitsOf(bitmap_deleted_vals) \ {i}
  BY <1>1, <1>2, SetPacked
<1>4. Roomy'
  <2> DEFINE n == Len(values)
             m == Len(values')
  <2>1. /\ step \in Nat \ {0} /\ capacity \in Nat /\ n <= capacity
        /\ capacity < W + step /\ n \in Nat /\ W \in Nat
    BY <1>2, WidthOK DEF WordsInv, Roomy
  <2>2. capacity' = (IF n < capacity THEN capacity ELSE n + step) /\ m = n + 1 /\ n < W
    BY <1>1, <1>3
  <2> HIDE DEF n, m
  <2>3. capacity' \in Nat /\ m <= capacity' /\ capacity' < W + step
    BY <2>1, <2>2
  <2> QED
    BY <1>1, <2>1, <2>3 DEF Roomy, m
<1>5. IndexToOffset(i) = Cardinality({ j \in Held : j < i })
  BY <1>2, OffsetIsRank DEF RankIn
<1>6. ~SA!HasValue(Sets, i)
  BY <1>3 DEF Sets, SA!HasValue, SA!FromParts, Held
<1>7. Sets' = SA!Set(Sets, i, i)
  <2>1. SA!IndexToOffset(Sets, i) = IndexToOffset(i)
    BY <1>5, SameLibrary DEF Sets, SA!FromParts, SA!IndexToOffset, Held
  <2>2. SA!Set(Sets, i, i) = [values |-> values', bitmap_vals |-> Held',
                              bitmap_deleted_vals |-> BitsOf(bitmap_deleted_vals')]
    BY <1>1, <1>3, <2>1, SameLibrary DEF Sets, SA!Set, SA!FromParts, Held
  <2> QED
    BY <2>2 DEF Sets, SA!FromParts, Held
<1> QED
  BY <1>3, <1>4, <1>6, <1>7 DEF WordsInv

LEMMA RemoveKeeps ==
  ASSUME WordsInv, RemoveValue
  PROVE  /\ WordsInv'
         /\ \E i \in Indices :
              SA!HasValue(Sets, i)
                /\ Sets' = SA!RemoveValue(Sets, SA!IndexToOffset(Sets, i), i)
<1>1. PICK offset \in 0 .. Len(values) - 1 :
        /\ values' = RemoveAt(values, offset + 1)
        /\ bitmap_vals' = (bitmap_vals & Complement(Bit(OffsetToIndex(offset))))
        /\ bitmap_deleted_vals' = (bitmap_deleted_vals | Bit(OffsetToIndex(offset)))
        /\ capacity' = capacity /\ step' = step
  BY DEF RemoveValue
<1> DEFINE i == OffsetToIndex(offset)
<1>2. PackedWords /\ bitmap_vals \in Single /\ values \in Seq(Indices)
  BY DEF WordsInv, PackedWords
<1>3. /\ PackedWords' /\ Len(values') = Len(values) - 1
      /\ i \in Held /\ RankIn(Held, i) = offset /\ Held' = Held \ {i}
      /\ BitsOf(bitmap_deleted_vals') = BitsOf(bitmap_deleted_vals) \cup {i}
  BY <1>1, <1>2, RemovePacked
<1>4. Roomy'
  <2> DEFINE n == Len(values)
             m == Len(values')
  <2>1. /\ step \in Nat \ {0} /\ capacity \in Nat /\ n <= capacity
        /\ capacity < W + step /\ n \in Nat /\ m = n - 1
    BY <1>2, <1>3 DEF WordsInv, Roomy
  <2> HIDE DEF n, m
  <2>2. m <= capacity
    BY <2>1
  <2> QED
    BY <1>1, <2>1, <2>2 DEF Roomy, m
<1>5. Cardinality({ j \in Held : j < i }) = offset
  BY <1>3 DEF RankIn
<1>6. i \in Indices /\ SA!HasValue(Sets, i)
  BY <1>2, <1>3, HeldFinite DEF Sets, SA!HasValue, SA!FromParts, Held
<1>7. Sets' = SA!RemoveValue(Sets, SA!IndexToOffset(Sets, i), i)
  <2> HIDE DEF i
  <2>1. SA!IndexToOffset(Sets, i) = offset
    BY <1>5, SameLibrary DEF Sets, SA!FromParts, SA!IndexToOffset, Held
  <2>2. SA!RemoveValue(Sets, SA!IndexToOffset(Sets, i), i)
          = [values |-> values', bitmap_vals |-> Held',
             bitmap_deleted_vals |-> BitsOf(bitmap_deleted_vals')]
    BY <1>1, <1>3, <2>1, SameLibrary DEF Sets, SA!RemoveValue, SA!FromParts, Held
  <2> QED
    BY <2>2 DEF Sets, SA!FromParts, Held
<1> QED
  BY <1>3, <1>4, <1>6, <1>7 DEF WordsInv

LEMMA EraseKeeps ==
  ASSUME WordsInv, EraseAll
  PROVE  WordsInv' /\ Sets' = SA!EraseArray(Sets)
<1>1. /\ values' = <<>> /\ bitmap_vals' = 0
      /\ bitmap_deleted_vals' = (bitmap_deleted_vals | bitmap_vals)
      /\ capacity' = capacity /\ step' = step
  BY DEF EraseAll
<1>2. bitmap_vals \in Single /\ bitmap_deleted_vals \in Single /\ 0 \in Single
  BY Sizes DEF WordsInv, PackedWords
<1>3. /\ bitmap_deleted_vals' \in Single
      /\ BitsOf(bitmap_deleted_vals') = BitsOf(bitmap_deleted_vals) \cup Held
  BY <1>1, <1>2, Joined, Sizes DEF Held
<1>4. Held' = {} /\ Cardinality({}) = 0 /\ <<>> \in Seq(Indices) /\ Len(<<>>) = 0
  BY <1>1, ZeroBits, FS_EmptySet DEF Held
<1>5. PackedWords'
  BY <1>1, <1>2, <1>3, <1>4 DEF PackedWords
<1>6. Roomy'
  BY <1>1, <1>4 DEF WordsInv, Roomy
<1>7. Sets' = SA!EraseArray(Sets)
  BY <1>1, <1>3, <1>4 DEF Sets, SA!EraseArray, SA!FromParts, Held
<1> QED
  BY <1>5, <1>6, <1>7 DEF WordsInv

LEMMA RenewKeeps ==
  ASSUME WordsInv, Renew
  PROVE  WordsInv' /\ Sets' = SA!NewArray
<1>1. /\ values' = <<>> /\ bitmap_vals' = 0 /\ bitmap_deleted_vals' = 0
      /\ capacity' = 0 /\ step' = step
  BY DEF Renew
<1>2. /\ Held' = {} /\ Cardinality({}) = 0 /\ <<>> \in Seq(Indices) /\ Len(<<>>) = 0
      /\ BitsOf(0) = {} /\ 0 \in Single
  BY <1>1, ZeroBits, FS_EmptySet, Sizes DEF Held
<1>3. PackedWords'
  BY <1>1, <1>2 DEF PackedWords
<1>4. Roomy'
  <2>1. step \in Nat \ {0} /\ 0 < W + step
    BY WidthOK DEF WordsInv, Roomy
  <2> QED
    BY <1>1, <1>2, <2>1 DEF Roomy
<1>5. Sets' = SA!NewArray
  BY <1>1, <1>2 DEF Sets, SA!NewArray, SA!FromParts, Held
<1> QED
  BY <1>3, <1>4, <1>5 DEF WordsInv

LEMMA PartsKeep ==
  ASSUME WordsInv, FromParts
  PROVE  WordsInv' /\ Sets' = Sets
<1>1. /\ capacity' = Len(values) /\ values' = values /\ bitmap_vals' = bitmap_vals
      /\ bitmap_deleted_vals' = bitmap_deleted_vals /\ step' = step
  BY DEF FromParts
<1>2. PackedWords'
  BY <1>1 DEF WordsInv, PackedWords, Held
<1>3. Roomy'
  <2> DEFINE n == Len(values)
  <2>1. /\ step \in Nat \ {0} /\ capacity \in Nat /\ n <= capacity
        /\ capacity < W + step /\ n \in Nat /\ W \in Nat
    BY WidthOK DEF WordsInv, PackedWords, Roomy
  <2>2. n < W + step /\ n <= n
    <3> HIDE DEF n
    <3> QED
      BY <2>1
  <2> QED
    BY <1>1, <2>1, <2>2 DEF Roomy
<1> QED
  BY <1>1, <1>2, <1>3 DEF WordsInv, Sets

LEMMA WordsNext ==
  ASSUME WordsInv, [Next]_vars
  PROVE  WordsInv' /\ [SetStep]_Sets
<1>1. CASE Set
  BY <1>1, SetKeeps DEF SetStep
<1>2. CASE RemoveValue
  BY <1>2, RemoveKeeps DEF SetStep
<1>3. CASE EraseAll
  BY <1>3, EraseKeeps DEF SetStep
<1>4. CASE Renew
  BY <1>4, RenewKeeps DEF SetStep
<1>5. CASE FromParts
  BY <1>5, PartsKeep
<1>6. CASE UNCHANGED vars
  BY <1>6 DEF vars, WordsInv, PackedWords, Roomy, Held, Sets
<1> QED
  BY <1>1, <1>2, <1>3, <1>4, <1>5, <1>6 DEF Next

(* The bitmaps are words, the block is packed in bit order and its         *)
(* capacity bounded, in every state the calls lead to.                     *)
THEOREM WordsInvariant == Spec => []WordsInv
<1>1. Init => WordsInv
  BY WordsInit
<1>2. WordsInv /\ [Next]_vars => WordsInv'
  BY WordsNext
<1> QED
  BY <1>1, <1>2, PTL DEF Spec

(* At every width and in every reachable state the masked popcount of an   *)
(* index is where its value lies, and the scan leads back from there.      *)
THEOREM OffsetsAlwaysInvert == Spec => []OffsetsInvert
<1>1. ASSUME WordsInv
      PROVE  OffsetsInvert
  <2> SUFFICES ASSUME NEW i \in Indices, HasValue(i)
               PROVE  /\ IndexToOffset(i) < Len(values)
                      /\ values[IndexToOffset(i) + 1] = i
                      /\ OffsetToIndex(IndexToOffset(i)) = i
    BY DEF OffsetsInvert
  <2>1. /\ bitmap_vals \in Single /\ Len(values) = Cardinality(Held)
        /\ \A j \in Held : values[RankIn(Held, j) + 1] = j
    BY <1>1 DEF WordsInv, PackedWords
  <2>2. i \in Held
    BY <2>1, BitTest DEF HasValue, Held
  <2>3. IndexToOffset(i) = RankIn(Held, i) /\ OffsetToIndex(RankIn(Held, i)) = i
    BY <2>1, <2>2, OffsetIsRank, ScanEnds
  <2>4. RankIn(Held, i) \in 0 .. Cardinality(Held) - 1 /\ Cardinality(Held) \in Nat
    <3>1. /\ IsFiniteSet(Held) /\ Held \subseteq Nat /\ i \in Int
          /\ Cardinality(Held) \in 0 .. W
      BY <2>1, <2>2, HeldFinite
    <3>2. RankIn(Held, i) \in 0 .. Cardinality(Held) - 1
      BY <2>2, <3>1, RankRange, Zenon
    <3> QED
      BY <3>1, <3>2
  <2> QED
    BY <2>1, <2>2, <2>3, <2>4
<1> QED
  BY <1>1, WordsInvariant, PTL

(* At every width and step the dense block holds its values and is never   *)
(* more than a step larger than a full array.                              *)
THEOREM BlockAlwaysBounded == Spec => []BlockBounded
<1>1. WordsInv => BlockBounded
  BY DEF WordsInv, Roomy, BlockBounded
<1> QED
  BY <1>1, WordsInvariant, PTL

(* At every width, the words, masks and shifts implement the array of sets *)
(* that the other modules are written with.                                *)
THEOREM WordsImplementArray == Spec => IsSparseArray
<1>1. Init => Sets = SA!NewArray
  <2> SUFFICES ASSUME Init PROVE Sets = SA!NewArray
    OBVIOUS
  <2>1. values = <<>> /\ bitmap_vals = 0 /\ bitmap_deleted_vals = 0
    BY DEF Init
  <2> QED
    BY <2>1, ZeroBits DEF Sets, SA!NewArray, SA!FromParts
<1>2. WordsInv /\ [Next]_vars => [SetStep]_Sets
  BY WordsNext
<1> QED
  BY <1>1, <1>2, WordsInvariant, PTL DEF Spec, IsSparseArray

-----------------------------------------------------------------------------
(* The helpers of util.rs, for any word: the test for a power of two, the  *)
(* smearing loop, and masks in place of remainders.                        *)

LEMMA TopBit ==
  ASSUME NEW x \in Single, x # 0
  PROVE  \E t \in Indices :
           /\ 2 ^ t <= x /\ x < 2 ^ (t + 1)
           /\ t \in BitsOf(x) /\ \A b \in BitsOf(x) : b <= t
<1> DEFINE Above == { k \in 0 .. W : x < 2 ^ k }
<1>1. /\ x \in Nat /\ x \in Double /\ x < 2 ^ W /\ W \in Nat \ {0} /\ 2 * W \in Nat
      /\ \A k \in 0 .. W : k \in 0 .. 2 * W
      /\ \A k \in 0 .. 2 * W : 2 ^ k \in Nat \ {0}
  BY Sizes, Powers
<1>2. PICK k \in Above : \A j \in Above : k <= j
  <2>1. W \in Above /\ Above \subseteq Nat
    BY <1>1
  <2> HIDE DEF Above
  <2> QED
    BY <2>1, LeastNatural
<1>3. k # 0
  <2>1. ~ (x < 2 ^ 0)
    BY <1>1
  <2> QED
    BY <2>1
<1> DEFINE t == k - 1
           p == 2 ^ t
<1>4. /\ t \in 0 .. W - 1 /\ t \in Indices /\ t + 1 = k /\ t \in 0 .. W
      /\ t \in Places
  BY <1>1, <1>3, Sizes DEF Indices
<1>5. p <= x /\ x < 2 ^ k /\ p \in Nat \ {0} /\ 2 ^ k = 2 * p
  <2>1. t \notin Above
    BY <1>1, <1>2, <1>3
  <2>2. p \in Nat \ {0}
    BY <1>1, <1>4
  <2>3. 2 ^ (t + 1) = 2 * p
    BY <1>4, Powers
  <2>4. ~ (x < p)
    BY <1>4, <2>1
  <2>5. x < 2 ^ k
    OBVIOUS
  <2> HIDE DEF t, p, Above
  <2> QED
    BY <1>1, <1>4, <2>2, <2>3, <2>4, <2>5
<1>6. t \in BitsOf(x)
  <2>1. (x \div p) % 2 = 1
    <3>1. x < 2 * p /\ p <= x /\ p \in Nat \ {0} /\ x \in Nat
      BY <1>1, <1>5
    <3> HIDE DEF p
    <3> QED
      BY <3>1, BitAtTop
  <2> QED
    BY <1>4, <2>1, BitsPlaces DEF BitAt
<1>7. \A b \in BitsOf(x) : b <= t
  <2>1. k \in 0 .. 2 * W /\ x < 2 ^ k
    BY <1>1
  <2>2. \A b \in BitsOf(x) : b < k
    BY <1>1, <2>1, LowBits
  <2>3. \A b \in BitsOf(x) : b \in Nat
    BY BitsSubset
  <2> QED
    BY <2>2, <2>3
<1> QED
  BY <1>4, <1>5, <1>6, <1>7

(* x & (x - 1) is zero for powers of two only.                             *)
LEMMA PowerTest ==
  ASSUME NEW x \in Single
  PROVE  IsPowerOfTwo(x) <=> \E e \in Indices : x = 2 ^ e
<1>1. ASSUME NEW e \in Indices, x = 2 ^ e
      PROVE  IsPowerOfTwo(x)
  <2>1. e \in Places /\ e \in 0 .. 2 * W
    BY Sizes DEF Indices
  <2>2. x \in Double /\ BitsOf(x) = {e} /\ x # 0
    BY <1>1, <2>1, OneBit
  <2>3. x - 1 \in Double /\ BitsOf(x - 1) = { b \in Places : b < e }
    BY <1>1, <2>1, Ones
  <2>4. e \notin { b \in Places : b < e }
    BY <2>1 DEF Places
  <2>5. (x & (x - 1)) \in Double /\ BitsOf(x & (x - 1)) = {}
    BY <2>2, <2>3, <2>4, Meets
  <2> QED
    BY <2>2, <2>5, ZeroBits DEF IsPowerOfTwo
<1>2. ASSUME x # 0, (x & (x - 1)) = 0
      PROVE  \E e \in Indices : x = 2 ^ e
  <2>1. PICK t \in Indices : 2 ^ t <= x /\ x < 2 ^ (t + 1) /\ t \in BitsOf(x)
    BY <1>2, TopBit
  <2> DEFINE p == 2 ^ t
  <2>2. t \in Places /\ x \in Double /\ x \in Nat /\ x - 1 \in Nat /\ x - 1 \in Double
    BY <1>2, Sizes
  <2>3. p \in Nat \ {0} /\ 2 ^ (t + 1) = 2 * p
    BY <2>2, OneBit, Powers
  <2>4. ASSUME x # p
        PROVE  FALSE
    <3>1. p <= x - 1 /\ x - 1 < 2 * p
      <4>1. p <= x /\ x < 2 * p
        BY <2>1, <2>3
      <4> HIDE DEF p
      <4> QED
        BY <2>2, <2>3, <2>4, <4>1
    <3>2. ((x - 1) \div p) % 2 = 1
      <4> DEFINE y == x - 1
      <4>1. y \in Nat /\ y < 2 * p /\ p <= y
        BY <2>2, <3>1
      <4> HIDE DEF p, y
      <4>2. (y \div p) % 2 = 1
        BY <2>3, <4>1, BitAtTop
      <4> QED
        BY <4>2 DEF y
    <3>3. t \in BitsOf(x - 1)
      BY <2>2, <3>2, BitsPlaces DEF BitAt
    <3>4. t \in BitsOf(x & (x - 1))
      BY <2>1, <2>2, <3>3, Meets
    <3> QED
      BY <1>2, <3>4, ZeroBits
  <2> QED
    BY <2>4
<1> QED
  BY <1>1, <1>2 DEF IsPowerOfTwo

LEMMA MaskIsRemainder ==
  ASSUME NEW x \in Single, NEW e \in Indices
  PROVE  MaskedBucket(2 ^ e, x) = x % 2 ^ e
<1>1. e \in 0 .. 2 * W /\ x \in Double /\ x \in Nat /\ W \in 0 .. 2 * W
  BY Sizes DEF Indices
<1>2. x % (WordMax + 1) = x
  <2> DEFINE n == 2 ^ W
  <2>1. n \in Nat \ {0} /\ x < n /\ WordMax + 1 = n
    BY <1>1, Sizes, Powers DEF WordMax
  <2> HIDE DEF n
  <2>2. x \in 0 .. n - 1 /\ x = n * 0 + x
    BY <1>1, <2>1
  <2>3. x % n = x
    BY <1>1, <2>1, <2>2, ModUnique
  <2> QED
    BY <2>1, <2>3
<1>3. /\ 2 ^ e - 1 \in Double
      /\ BitsOf(2 ^ e - 1) = { b \in Places : b < e }
  BY <1>1, Ones
<1>4. /\ (x & (2 ^ e - 1)) \in Double
      /\ BitsOf(x & (2 ^ e - 1)) = BitsOf(x) \cap { b \in Places : b < e }
  BY <1>1, <1>3, Meets
<1>5. /\ x % 2 ^ e \in Double
      /\ BitsOf(x % 2 ^ e) = { b \in BitsOf(x) : b < e }
  BY <1>1, LowBits
<1>6. BitsOf(x) \cap { b \in Places : b < e } = { b \in BitsOf(x) : b < e }
  BY BitsSubset
<1> QED
  BY <1>2, <1>4, <1>5, <1>6, SameBits DEF MaskedBucket

(* The smearing loop: f[i] is what the shifts below i have made of x.      *)
Smears(f, x, top) ==
  f = [i \in 1 .. top |->
         IF i = 1 THEN x
         ELSE LET last == f[i \div 2] IN last | shiftR(last, i \div 2)]

LEMMA SmearExists ==
  ASSUME NEW x, NEW top \in Nat
  PROVE  \E f : Smears(f, x, top)
<1> DEFINE Bad == { k \in Nat : ~ \E f : Smears(f, x, k) }
<1> SUFFICES ASSUME top \in Bad PROVE FALSE
  OBVIOUS
<1>1. PICK m \in Bad : \A k \in Bad : m <= k
  <2>1. Bad \subseteq Nat /\ Bad # {}
    OBVIOUS
  <2> HIDE DEF Bad
  <2> QED
    BY <2>1, LeastNatural
<1>2. m \in Nat /\ ~ \E f : Smears(f, x, m)
  OBVIOUS
<1>3. m # 0
  <2> SUFFICES ASSUME m = 0 PROVE FALSE
    OBVIOUS
  <2> DEFINE f == [i \in 1 .. 0 |-> 0]
  <2>1. Smears(f, x, 0)
    BY DEF Smears
  <2> QED
    BY <1>2, <2>1
<1>4. m - 1 \in Nat /\ m - 1 \notin Bad
  BY <1>1, <1>2, <1>3
<1>5. PICK f : Smears(f, x, m - 1)
  BY <1>4
<1> DEFINE g == [i \in 1 .. m |->
                   IF i < m THEN f[i] ELSE IF m = 1 THEN x
                   ELSE LET last == f[m \div 2] IN last | shiftR(last, m \div 2)]
           h == [i \in 1 .. m |->
                   IF i = 1 THEN x
                   ELSE LET last == g[i \div 2] IN last | shiftR(last, i \div 2)]
<1>6. ASSUME NEW i \in 1 .. m
      PROVE  g[i] = h[i]
  <2>0. i # 1 => /\ i \div 2 \in 1 .. m /\ i \div 2 < m
                 /\ g[i \div 2] = f[i \div 2]
    <3>1. i # 1 => i \div 2 \in 1 .. m /\ i \div 2 < m
      BY <1>2
    <3> QED
      BY <3>1
  <2>1. CASE i < m
    <3>1. i \in 1 .. m - 1 /\ g[i] = f[i]
      BY <1>2, <2>1
    <3>2. f[i] = IF i = 1 THEN x
                 ELSE LET last == f[i \div 2] IN last | shiftR(last, i \div 2)
      BY <1>5, <3>1, Zenon DEF Smears
    <3>3. h[i] = IF i = 1 THEN x
                 ELSE LET last == g[i \div 2] IN last | shiftR(last, i \div 2)
      OBVIOUS
    <3> HIDE DEF g, h
    <3> QED
      BY <2>0, <3>1, <3>2, <3>3, Zenon
  <2>2. CASE i = m
    <3>1. g[i] = IF m = 1 THEN x
                 ELSE LET last == f[m \div 2] IN last | shiftR(last, m \div 2)
      <4>1. ~ (m < m)
        BY <1>2
      <4> QED
        BY <2>2, <4>1
    <3>2. h[i] = IF i = 1 THEN x
                 ELSE LET last == g[i \div 2] IN last | shiftR(last, i \div 2)
      OBVIOUS
    <3> HIDE DEF g, h
    <3> QED
      BY <2>0, <2>2, <3>1, <3>2, Zenon
  <2> QED
    BY <1>2, <2>1, <2>2
<1>7. g = h
  <2>1. DOMAIN g = 1 .. m /\ DOMAIN h = 1 .. m
    OBVIOUS
  <2>2. g = [i \in 1 .. m |-> g[i]] /\ h = [i \in 1 .. m |-> h[i]]
    OBVIOUS
  <2> HIDE DEF g, h
  <2> QED
    BY <1>6, <2>1, <2>2
<1>8. Smears(g, x, m)
  BY <1>7 DEF Smears
<1> QED
  BY <1>2, <1>8

(* After the shifts below 2 ^ j every bit has spread to the 2 ^ j places   *)
(* from its own downwards.                                                 *)
Spread(x, word, i) ==
  /\ word \in Single
  /\ \A b \in Places : b \in BitsOf(word) <=> \E c \in BitsOf(x) : b <= c /\ c < b + i

LEMMA SmearTwice ==
  ASSUME NEW x \in Single, NEW i \in 1 .. W, NEW last, Spread(x, last, i)
  PROVE  Spread(x, last | shiftR(last, i), 2 * i)
<1> DEFINE y == shiftR(last, i)
           z == last | y
<1>1. /\ last \in Single /\ last \in Double /\ i \in 0 .. 2 * W /\ W \in Nat /\ i \in Nat
      /\ x \in Double
  BY Sizes DEF Spread
<1>2. /\ y \in Double /\ y \in Single
      /\ \A b \in Places : b \in BitsOf(y) <=> b + i \in BitsOf(last)
  BY <1>1, Shifted
<1> HIDE DEF y
<1>3. z \in Single /\ BitsOf(z) = BitsOf(last) \cup BitsOf(y)
  BY <1>1, <1>2, Joined
<1>4. BitsOf(x) \subseteq Indices /\ BitsOf(last) \subseteq Places
  BY <1>1, SingleBits, BitsSubset
<1>5. ASSUME NEW b \in Places
      PROVE  b \in BitsOf(z) <=> \E c \in BitsOf(x) : b <= c /\ c < b + 2 * i
  <2>0. b \in Nat /\ \A c \in BitsOf(x) : c \in 0 .. W - 1
    BY <1>1, <1>4 DEF Places, Indices
  <2>1. b \in BitsOf(last) <=> \E c \in BitsOf(x) : b <= c /\ c < b + i
    BY DEF Spread
  <2>2. b \in BitsOf(y) <=> \E c \in BitsOf(x) : b + i <= c /\ c < b + 2 * i
    <3>1. ASSUME b + i \in Places
          PROVE  b \in BitsOf(y) <=> \E c \in BitsOf(x) : b + i <= c /\ c < (b + i) + i
      BY <1>2, <3>1 DEF Spread
    <3>2. (b + i) + i = b + 2 * i
      BY <1>1, <2>0
    <3>3. ASSUME b + i \notin Places
          PROVE  b \notin BitsOf(y) /\ ~ \E c \in BitsOf(x) : b + i <= c
      <4>1. \A c \in BitsOf(x) : ~ (b + i <= c)
        BY <1>1, <2>0, <3>3 DEF Places
      <4> QED
        BY <1>2, <1>4, <3>3, <4>1
    <3> QED
      BY <3>1, <3>2, <3>3
  <2>3. \A c \in BitsOf(x) : b <= c /\ c < b + 2 * i
          <=> (b <= c /\ c < b + i) \/ (b + i <= c /\ c < b + 2 * i)
    BY <1>1, <2>0
  <2> QED
    BY <1>3, <2>1, <2>2, <2>3
<1> QED
  BY <1>3, <1>5 DEF Spread, y

LEMMA SmearSpreads ==
  ASSUME NEW x \in Single
  PROVE  Spread(x, Smear(x), W)
<1> DEFINE f == CHOOSE g : Smears(g, x, W)
<1>1. PICK e \in 0 .. W : W = 2 ^ e
  BY WidthOK
<1>2. W \in Nat \ {0} /\ x \in Double
  BY Sizes
<1>3. Smears(f, x, W)
  BY <1>2, SmearExists
<1>4. Smear(x) = f[W]
  BY DEF Smear, Smears
<1> HIDE DEF f
<1> DEFINE Good(j) == Spread(x, f[2 ^ j], 2 ^ j)
           Bad == { j \in 0 .. e : ~ Good(j) }
<1>5. \A i \in 1 .. W : f[i] = IF i = 1 THEN x
        ELSE LET last == f[i \div 2] IN last | shiftR(last, i \div 2)
  BY <1>3, Zenon DEF Smears
<1>6. Good(0)
  <2>1. 2 ^ 0 = 1 /\ 1 \in 1 .. W
    BY <1>2
  <2>2. f[1] = x
    BY <1>5, <2>1
  <2>3. ASSUME NEW b \in Places
        PROVE  b \in BitsOf(x) <=> \E c \in BitsOf(x) : b <= c /\ c < b + 1
    <3>1. b \in Nat /\ \A c \in BitsOf(x) : c \in Nat
      BY BitsSubset, Sizes
    <3>2. \A c \in BitsOf(x) : b <= c /\ c < b + 1 <=> b = c
      BY <3>1
    <3> QED
      BY <3>2
  <2> QED
    BY <2>1, <2>2, <2>3 DEF Spread
<1>7. ASSUME NEW j \in 0 .. e - 1, Good(j)
      PROVE  Good(j + 1)
  <2> DEFINE p == 2 ^ j
             q == 2 ^ (j + 1)
  <2>1. /\ j \in Places /\ j \in 0 .. 2 * W /\ j + 1 \in 0 .. 2 * W /\ e \in 0 .. 2 * W
        /\ j + 1 <= e
    BY <1>2 DEF Places
  <2>2. p \in Nat \ {0} /\ q = 2 * p
    BY <2>1, Powers
  <2>3. q <= W
    <3>1. q <= 2 ^ e
      BY <2>1, Powers, DoublingGrows
    <3> QED
      BY <1>1, <3>1
  <2> HIDE DEF p, q
  <2>4. p \in 1 .. W /\ q \in 1 .. W /\ q # 1 /\ q \div 2 = p
    BY <1>2, <2>2, <2>3
  <2>5. f[q] = (f[p] | shiftR(f[p], p))
    BY <1>5, <2>4
  <2>6. Spread(x, f[p], p)
    BY <1>7 DEF p
  <2>7. Spread(x, f[p] | shiftR(f[p], p), 2 * p)
    BY <2>4, <2>6, SmearTwice
  <2>8. Spread(x, f[q], q)
    BY <2>2, <2>5, <2>7
  <2> QED
    BY <2>8 DEF q
<1>8. Bad = {}
  <2> SUFFICES ASSUME Bad # {} PROVE FALSE
    OBVIOUS
  <2> HIDE DEF Good
  <2>1. PICK j \in Bad : \A k \in Bad : j <= k
    <3>1. Bad \subseteq Nat
      OBVIOUS
    <3> QED
      BY <3>1, LeastNatural
  <2>2. j \in 1 .. e /\ ~ Good(j)
    BY <1>6
  <2>3. j - 1 \in 0 .. e - 1 /\ j - 1 \in 0 .. e /\ j - 1 \notin Bad /\ (j - 1) + 1 = j
    BY <2>1, <2>2
  <2> QED
    BY <1>7, <2>2, <2>3
<1>9. Good(e)
  <2>1. e \in 0 .. e
    OBVIOUS
  <2> HIDE DEF Good
  <2> QED
    BY <1>8, <2>1
<1> QED
  BY <1>1, <1>4, <1>9

(* Everything below the top bit is set.                                    *)
LEMMA SmearFills ==
  ASSUME NEW x \in Single, NEW t \in Indices, 2 ^ t <= x, x < 2 ^ (t + 1)
  PROVE  Smear(x) = 2 ^ (t + 1) - 1
<1>1. /\ x \in Double /\ x \in Nat /\ W \in Nat \ {0} /\ t \in 0 .. W - 1 /\ t \in Places
      /\ t + 1 \in 0 .. 2 * W /\ t + 1 <= W
  BY Sizes DEF Indices
<1>2. t \in BitsOf(x)
  <2> DEFINE p == 2 ^ t
  <2>1. p \in Nat \ {0} /\ 2 ^ (t + 1) = 2 * p /\ p <= x /\ x < 2 ^ (t + 1)
    BY <1>1, OneBit, Powers
  <2>2. (x \div p) % 2 = 1
    <3> HIDE DEF p
    <3> QED
      BY <1>1, <2>1, BitAtTop
  <2> QED
    BY <1>1, <2>2, BitsPlaces DEF BitAt
<1>3. \A c \in BitsOf(x) : c \in Nat /\ c < t + 1
  BY <1>1, LowBits, BitsSubset
<1>4. Spread(x, Smear(x), W)
  BY SmearSpreads
<1>5. Smear(x) \in Double /\ BitsOf(Smear(x)) \subseteq Places
  BY <1>4, Sizes, BitsSubset DEF Spread
<1>6. \A b \in Places : b \in BitsOf(Smear(x)) <=> b < t + 1
  <2> SUFFICES ASSUME NEW b \in Places
               PROVE  (\E c \in BitsOf(x) : b <= c /\ c < b + W) <=> b < t + 1
    BY <1>4 DEF Spread
  <2>1. b \in Nat
    BY Sizes
  <2>2. ASSUME b < t + 1
        PROVE  b <= t /\ t < b + W
    BY <1>1, <2>1, <2>2
  <2>3. ASSUME NEW c \in BitsOf(x), b <= c
        PROVE  b < t + 1
    BY <1>1, <1>3, <2>1, <2>3
  <2> QED
    BY <1>2, <2>2, <2>3
<1>7. 2 ^ (t + 1) - 1 \in Double /\ BitsOf(2 ^ (t + 1) - 1) = { b \in Places : b < t + 1 }
  BY <1>1, Ones
<1>8. BitsOf(Smear(x)) = BitsOf(2 ^ (t + 1) - 1)
  BY <1>5, <1>6, <1>7
<1> QED
  BY <1>5, <1>7, <1>8, SameBits

LEMMA ExponentSmall == \A k \in 0 .. 2 * W : k < 2 ^ k
<1> DEFINE Bad == { k \in 0 .. 2 * W : ~ (k < 2 ^ k) }
<1>1. 2 * W \in Nat /\ \A k \in 0 .. 2 * W : 2 ^ k \in Nat \ {0}
  BY Powers
<1>2. SUFFICES ASSUME Bad # {} PROVE FALSE
  OBVIOUS
<1>3. PICK k \in Bad : \A j \in Bad : k <= j
  <2>1. Bad \subseteq Nat
    OBVIOUS
  <2> QED
    BY <1>2, <2>1, LeastNatural
<1>4. k # 0
  <2>1. 0 < 2 ^ 0
    OBVIOUS
  <2> QED
    BY <2>1
<1> DEFINE j == k - 1
           p == 2 ^ j
<1>5. j \in Places /\ j \in 0 .. 2 * W /\ j + 1 = k /\ j \notin Bad
  BY <1>1, <1>3, <1>4 DEF Places
<1>6. j < p /\ p \in Nat \ {0} /\ j \in Nat
  BY <1>1, <1>5
<1>7. 2 ^ k = 2 * p
  BY <1>5, Powers
<1>8. ~ (k < 2 ^ k)
  OBVIOUS
<1> HIDE DEF j, p, Bad
<1> QED
  BY <1>5, <1>6, <1>7, <1>8

(* The definition SparseArray rounds with, computed.                       *)
LEMMA LeastExponent ==
  ASSUME NEW n \in Nat, NEW E \in 0 .. W, n <= 2 ^ E, \A d \in 0 .. E - 1 : 2 ^ d < n
  PROVE  SA!RoundUpToPowerOfTwo(n) = 2 ^ E
<1> DEFINE Fits(e) == 2 ^ e >= n /\ \A d \in 0 .. e - 1 : 2 ^ d < n
           c == CHOOSE e \in 0 .. n : Fits(e)
<1>1. /\ E \in Nat /\ E \in 0 .. 2 * W /\ \A k \in 0 .. 2 * W : 2 ^ k \in Nat \ {0}
      /\ 2 * W \in Nat /\ W \in Nat
  BY Powers, WidthOK
<1>2. Fits(E)
  <2>1. 2 ^ E >= n
    BY <1>1
  <2> QED
    BY <2>1
<1>3. E \in 0 .. n
  <2>1. CASE E = 0
    BY <1>1, <2>1
  <2>2. CASE E # 0
    <3>1. E - 1 \in 0 .. E - 1 /\ E - 1 \in 0 .. 2 * W
      BY <1>1, <2>2
    <3>2. E - 1 < 2 ^ (E - 1) /\ 2 ^ (E - 1) < n /\ 2 ^ (E - 1) \in Nat
      BY <1>1, <3>1, ExponentSmall
    <3> DEFINE p == 2 ^ (E - 1)
    <3> HIDE DEF p
    <3>3. E - 1 < p /\ p < n /\ p \in Nat
      BY <3>2 DEF p
    <3> QED
      BY <1>1, <3>3
  <2> QED
    BY <2>1, <2>2
<1>4. c \in 0 .. n /\ Fits(c)
  BY <1>2, <1>3, Zenon
<1>5. SA!RoundUpToPowerOfTwo(n) = 2 ^ c
  BY Zenon DEF SA!RoundUpToPowerOfTwo
<1> HIDE DEF c
<1>6. ~ (E < c)
  <2> SUFFICES ASSUME E < c PROVE FALSE
    OBVIOUS
  <2>1. E \in 0 .. c - 1
    BY <1>1, <1>4
  <2>2. 2 ^ E < n
    BY <1>4, <2>1
  <2> QED
    BY <1>1, <2>2
<1>7. ~ (c < E)
  <2> SUFFICES ASSUME c < E PROVE FALSE
    OBVIOUS
  <2>1. c \in 0 .. E - 1 /\ c \in 0 .. 2 * W
    BY <1>1, <1>4
  <2>2. 2 ^ c < n /\ 2 ^ c >= n /\ 2 ^ c \in Nat
    BY <1>1, <1>4, <2>1
  <2> DEFINE p == 2 ^ c
  <2> HIDE DEF p
  <2>3. p < n /\ p >= n /\ p \in Nat
    BY <2>2 DEF p
  <2> QED
    BY <2>3
<1>8. c = E
  BY <1>1, <1>4, <1>6, <1>7
<1> QED
  BY <1>5, <1>8

LEMMA RoundsUp ==
  ASSUME NEW n \in Single
  PROVE  RoundUpToPowerOfTwo(n) = SA!RoundUpToPowerOfTwo(n)
<1>1. n \in Nat /\ W \in Nat \ {0} /\ 2 * W \in Nat
  BY Sizes
<1>2. \A k \in 0 .. W : k \in 0 .. 2 * W /\ 2 ^ k \in Nat
  BY Sizes, Powers
<1>3. CASE \E e \in Indices : n = 2 ^ e
  <2>1. PICK e \in Indices : n = 2 ^ e
    BY <1>3
  <2>2. e \in 0 .. W /\ e \in Nat
    BY <1>1 DEF Indices
  <2>3. ASSUME NEW d \in 0 .. e - 1
        PROVE  2 ^ d < n
    <3>1. d \in 0 .. 2 * W /\ e \in 0 .. 2 * W /\ d < e
      BY <1>1, <2>2
    <3> DEFINE p == 2 ^ d
    <3>2. 2 * p <= 2 ^ e /\ p \in Nat \ {0}
      BY <3>1, Powers, DoublingGrows
    <3> HIDE DEF p
    <3>3. p < n
      BY <1>1, <2>1, <3>2
    <3> QED
      BY <3>3 DEF p
  <2>4. n <= 2 ^ e
    BY <1>1, <2>1
  <2>5. SA!RoundUpToPowerOfTwo(n) = 2 ^ e
    BY <1>1, <2>2, <2>3, <2>4, LeastExponent
  <2> QED
    BY <1>3, <2>1, <2>5, PowerTest DEF RoundUpToPowerOfTwo
<1>4. CASE n = 0
  <2>1. 0 \in 0 .. W /\ 2 ^ 0 = 1 /\ 0 <= 2 ^ 0 /\ \A d \in 0 .. 0 - 1 : FALSE
    BY <1>1
  <2>2. SA!RoundUpToPowerOfTwo(0) = 2 ^ 0
    BY <2>1, LeastExponent
  <2>3. ~ IsPowerOfTwo(0)
    BY DEF IsPowerOfTwo
  <2> QED
    BY <1>4, <2>1, <2>2, <2>3 DEF RoundUpToPowerOfTwo
<1>5. CASE n # 0 /\ ~ \E e \in Indices : n = 2 ^ e
  <2> DEFINE x == n - 1
  <2>1. x \in Single /\ x # 0 /\ x \in Nat
    <3>1. 0 \in Indices /\ 2 ^ 0 = 1
      BY <1>1 DEF Indices
    <3>2. n # 1
      BY <1>5, <3>1
    <3>3. x \in Nat /\ x # 0
      BY <1>1, <1>5, <3>2
    <3>4. n < 2 ^ W /\ 2 ^ W \in Nat
      BY <1>1, <1>2, Sizes
    <3>5. x < 2 ^ W
      BY <1>1, <3>4
    <3> QED
      BY <3>3, <3>5, Sizes
  <2> HIDE DEF x
  <2>2. PICK t \in Indices : 2 ^ t <= x /\ x < 2 ^ (t + 1)
    BY <2>1, TopBit
  <2>3. Smear(x) = 2 ^ (t + 1) - 1
    BY <2>1, <2>2, SmearFills
  <2>4. t + 1 \in 0 .. W /\ t \in 0 .. W /\ t \in Nat
    BY <1>1 DEF Indices
  <2> DEFINE q == 2 ^ (t + 1)
             p == 2 ^ t
  <2>5. q \in Nat /\ p \in Nat /\ p <= x /\ x < q
    BY <1>2, <2>2, <2>4
  <2>6. RoundUpToPowerOfTwo(n) = q
    <3>1. ~ IsPowerOfTwo(n)
      BY <1>5, PowerTest
    <3>2. RoundUpToPowerOfTwo(n) = Smear(x) + 1
      BY <1>5, <3>1 DEF RoundUpToPowerOfTwo, x
    <3>3. Smear(x) = q - 1
      BY <2>3
    <3> HIDE DEF q
    <3> QED
      BY <2>5, <3>2, <3>3
  <2>7. n <= q /\ p < n
    <3> HIDE DEF p, q
    <3> QED
      BY <1>1, <2>5 DEF x
  <2>8. ASSUME NEW d \in 0 .. (t + 1) - 1
        PROVE  2 ^ d < n
    <3>1. d \in 0 .. 2 * W /\ t \in 0 .. 2 * W /\ d <= t
      BY <1>1, <1>2, <2>4
    <3> DEFINE r == 2 ^ d
    <3>2. r <= p /\ r \in Nat
      BY <3>1, Powers, DoublingGrows
    <3> HIDE DEF p, r
    <3>3. r < n
      BY <1>1, <2>5, <2>7, <3>2
    <3> QED
      BY <3>3 DEF r
  <2>9. SA!RoundUpToPowerOfTwo(n) = q
    BY <1>1, <2>4, <2>7, <2>8, LeastExponent
  <2> QED
    BY <2>6, <2>9
<1> QED
  BY <1>3, <1>4, <1>5

(* At every width and for any word the array goes through, the code's bit  *)
(* tricks are the quotients, remainders and roundings of the other modules.*)
THEOREM WordHelpersAlwaysAgree == Spec => []WordHelpersAgree
<1>1. ASSUME WordsInv
      PROVE  WordHelpersAgree
  <2> DEFINE n == bitmap_vals
  <2>1. n \in Single
    BY <1>1 DEF WordsInv, PackedWords
  <2>2. IsPowerOfTwo(n) <=> \E e \in Indices : n = 2 ^ e
    BY <2>1, PowerTest
  <2>3. RoundUpToPowerOfTwo(n) = SA!RoundUpToPowerOfTwo(n)
    BY <2>1, RoundsUp
  <2>4. \A e \in Indices :
          MaskedBucket(2 ^ e, n) = n % 2 ^ e /\ shiftR(n, e) = n \div 2 ^ e
    BY <2>1, MaskIsRemainder DEF shiftR
  <2> QED
    BY <2>2, <2>3, <2>4 DEF WordHelpersAgree
<1> QED
  BY <1>1, WordsInvariant, PTL

-----------------------------------------------------------------------------
(* The portable count, byte by byte.  A word of twice the width is a       *)
(* number of whole bytes, and no lane overflows into the next.             *)

Bytes(L) == L \in Nat \ {0} /\ 2 * W = 8 * L

ByteOf(x, k) == (x \div 2 ^ (8 * k)) % 256
BitIn(x, b) == IF b \in BitsOf(x) THEN 1 ELSE 0

LEMMA WholeBytes ==
  ASSUME 4 <= W
  PROVE  \E L : Bytes(L)
<1>1. PICK e \in 0 .. W : W = 2 ^ e
  BY WidthOK
<1>2. W \in Nat \ {0} /\ e \in 0 .. 2 * W /\ 2 \in 0 .. 2 * W /\ 2 * W \in Nat
  BY WidthOK
<1>3. 2 ^ 0 = 1 /\ 2 ^ 1 = 2 /\ 2 ^ 2 = 4
  OBVIOUS
<1>4. 2 <= e
  <2> SUFFICES ASSUME ~ (2 <= e) PROVE FALSE
    OBVIOUS
  <2>1. e = 0 \/ e = 1
    BY <1>2
  <2>2. W = 1 \/ W = 2
    BY <1>1, <1>3, <2>1
  <2> QED
    BY <2>2
<1>5. PICK c \in Nat \ {0} : 2 ^ e = c * 2 ^ 2
  BY <1>2, <1>4, Powers, DoublingDivides
<1>6. 2 * W = 8 * c
  <2>1. W = c * 4
    BY <1>1, <1>3, <1>5
  <2> QED
    BY <2>1
<1> QED
  BY <1>6 DEF Bytes

LEMMA BytePlaces ==
  ASSUME NEW L, Bytes(L)
  PROVE  /\ L \in Nat /\ 2 * W \in Nat
         /\ \A k \in 0 .. L : 8 * k \in 0 .. 2 * W /\ 2 ^ (8 * k) \in Nat \ {0}
         /\ \A k \in 0 .. L - 1 : /\ 8 * (k + 1) = 8 * k + 8
                                  /\ 2 ^ (8 * (k + 1)) = 256 * 2 ^ (8 * k)
         /\ \A k \in 0 .. L - 1, j \in 0 .. 7 : 8 * k + j \in Places
<1>1. L \in Nat /\ 2 * W \in Nat /\ 2 * W = 8 * L /\ Doubling(2 * W)
  BY Powers DEF Bytes
<1>2. \A k \in 0 .. L : 8 * k \in 0 .. 2 * W
  BY <1>1
<1>3. \A k \in 0 .. L - 1, j \in 0 .. 7 : 8 * k + j \in Places
  BY <1>1 DEF Places
<1>4. ASSUME NEW k \in 0 .. L - 1
      PROVE  8 * (k + 1) = 8 * k + 8 /\ 2 ^ (8 * (k + 1)) = 256 * 2 ^ (8 * k)
  <2> DEFINE d == 8 * k
             p == 2 ^ d
  <2>1. d \in Nat /\ d + 8 <= 2 * W /\ 8 * (k + 1) = d + 8
    BY <1>1
  <2> HIDE DEF d
  <2>2. 2 ^ (d + 8) = p * 2 ^ 8
    BY <1>1, <2>1, DoublingSum
  <2>3. 2 ^ 8 = 256 /\ p \in Int
    <3>1. d \in 0 .. 2 * W
      BY <1>1, <2>1
    <3>2. p \in Nat \ {0}
      BY <3>1, Powers
    <3> QED
      BY <3>2
  <2>4. p * 256 = 256 * p
    <3> HIDE DEF p
    <3> QED
      BY <2>3
  <2> QED
    BY <2>1, <2>2, <2>3, <2>4 DEF d
<1> QED
  BY <1>1, <1>2, <1>3, <1>4, Powers

(* One byte more.                                                          *)
LEMMA ByteStep ==
  ASSUME NEW L, Bytes(L), NEW x \in Double, NEW k \in 0 .. L - 1
  PROVE  /\ ByteOf(x, k) \in 0 .. 255
         /\ x % 2 ^ (8 * (k + 1)) = (x % 2 ^ (8 * k)) + 2 ^ (8 * k) * ByteOf(x, k)
<1> DEFINE p == 2 ^ (8 * k)
<1>1. x \in Nat /\ p \in Nat \ {0} /\ 2 ^ (8 * (k + 1)) = 256 * p
  BY BytePlaces, Sizes
<1>2. /\ (x \div p) % 256 \in 0 .. 255
      /\ x % (256 * p) = (x % p) + p * ((x \div p) % 256)
  <2> HIDE DEF p
  <2> QED
    BY <1>1, NextByte
<1> QED
  BY <1>1, <1>2 DEF ByteOf

(* The bits of a byte.                                                     *)
LEMMA ByteBits ==
  ASSUME NEW L, Bytes(L), NEW x \in Double, NEW k \in 0 .. L - 1
  PROVE  ByteOf(x, k) = BitIn(x, 8 * k) + 2 * BitIn(x, 8 * k + 1)
                        + 4 * BitIn(x, 8 * k + 2) + 8 * BitIn(x, 8 * k + 3)
                        + 16 * BitIn(x, 8 * k + 4) + 32 * BitIn(x, 8 * k + 5)
                        + 64 * BitIn(x, 8 * k + 6) + 128 * BitIn(x, 8 * k + 7)
<1> DEFINE d == 8 * k
           v == shiftR(x, d)
<1>1. /\ d \in 0 .. 2 * W /\ d \in Nat /\ L \in Nat
      /\ \A j \in 0 .. 7 : 8 * k + j \in Places
      /\ \A j \in 0 .. 7 : 8 * 0 + j \in Places
  BY BytePlaces
<1>2. v \in Double /\ \A b \in Places : b \in BitsOf(v) <=> b + d \in BitsOf(x)
  BY <1>1, Shifted
<1>3. v \in Nat
  BY <1>2, Sizes
<1>4. ASSUME NEW j \in 0 .. 7
      PROVE  BitAt(v, j) = BitIn(x, d + j)
  <2>1. j \in Places /\ j + d = d + j /\ d + j \in Places
    BY <1>1
  <2>2. j \in BitsOf(v) <=> d + j \in BitsOf(x)
    BY <1>2, <2>1
  <2>3. BitAt(v, j) \in {0, 1}
    <3>1. 2 ^ j \in Nat \ {0}
      BY <2>1, OneBit
    <3> DEFINE q == 2 ^ j
    <3> HIDE DEF q, v
    <3>2. (v \div q) % 2 \in {0, 1}
      BY <1>3, <3>1, NextBit DEF q
    <3> QED
      BY <3>2 DEF BitAt, q
  <2>4. j \in BitsOf(v) <=> BitAt(v, j) = 1
    BY <2>1, BitsPlaces
  <2> HIDE DEF v, d
  <2> QED
    BY <2>2, <2>3, <2>4 DEF BitIn
<1>5. /\ 2 ^ 0 = 1 /\ 2 ^ 1 = 2 /\ 2 ^ 2 = 4 /\ 2 ^ 3 = 8 /\ 2 ^ 4 = 16
      /\ 2 ^ 5 = 32 /\ 2 ^ 6 = 64 /\ 2 ^ 7 = 128
  OBVIOUS
<1>6. ByteOf(x, k) = v % 256
  BY DEF ByteOf, shiftR
<1> HIDE DEF v
<1>7. v % 256 = (v % 2) + 2 * ((v \div 2) % 2) + 4 * ((v \div 4) % 2)
                + 8 * ((v \div 8) % 2) + 16 * ((v \div 16) % 2)
                + 32 * ((v \div 32) % 2) + 64 * ((v \div 64) % 2)
                + 128 * ((v \div 128) % 2)
  BY <1>3, ByteOfBits
<1>8. /\ BitAt(v, 0) = v % 2 /\ BitAt(v, 1) = (v \div 2) % 2
      /\ BitAt(v, 2) = (v \div 4) % 2 /\ BitAt(v, 3) = (v \div 8) % 2
      /\ BitAt(v, 4) = (v \div 16) % 2 /\ BitAt(v, 5) = (v \div 32) % 2
      /\ BitAt(v, 6) = (v \div 64) % 2 /\ BitAt(v, 7) = (v \div 128) % 2
  <2>1. v \div 1 = v
    BY <1>3
  <2> QED
    BY <1>5, <2>1 DEF BitAt
<1>9. d + 0 = d
  BY <1>1
<1> QED
  BY <1>4, <1>6, <1>7, <1>8, <1>9

LEMMA BitInRange == \A x, b : BitIn(x, b) \in {0, 1}
BY DEF BitIn

(* Words with the same bytes are the same.                                 *)
LEMMA SameBytes ==
  ASSUME NEW L, Bytes(L), NEW x \in Double, NEW y \in Double,
         \A k \in 0 .. L - 1 : ByteOf(x, k) = ByteOf(y, k)
  PROVE  x = y
<1> DEFINE Good(k) == x % 2 ^ (8 * k) = y % 2 ^ (8 * k)
           Bad == { k \in 0 .. L : ~ Good(k) }
<1>1. L \in Nat
  BY BytePlaces
<1>2. Good(0)
  <2>1. 2 ^ (8 * 0) = 1 /\ x \in Nat /\ y \in Nat
    BY Sizes
  <2>2. x % 1 = 0 /\ y % 1 = 0
    BY <2>1
  <2> QED
    BY <2>1, <2>2
<1>3. ASSUME NEW k \in 0 .. L - 1, Good(k)
      PROVE  Good(k + 1)
  <2>1. x % 2 ^ (8 * (k + 1)) = (x % 2 ^ (8 * k)) + 2 ^ (8 * k) * ByteOf(x, k)
    BY ByteStep
  <2>2. y % 2 ^ (8 * (k + 1)) = (y % 2 ^ (8 * k)) + 2 ^ (8 * k) * ByteOf(y, k)
    BY ByteStep
  <2>3. ByteOf(x, k) = ByteOf(y, k)
    OBVIOUS
  <2> QED
    BY <1>3, <2>1, <2>2, <2>3, Zenon
<1>4. Bad = {}
  <2> SUFFICES ASSUME Bad # {} PROVE FALSE
    OBVIOUS
  <2> HIDE DEF Good
  <2>1. PICK k \in Bad : \A j \in Bad : k <= j
    <3>1. Bad \subseteq Nat
      OBVIOUS
    <3> QED
      BY <3>1, LeastNatural
  <2>2. k \in 1 .. L /\ ~ Good(k)
    BY <1>1, <1>2
  <2>3. k - 1 \in 0 .. L - 1 /\ k - 1 \in 0 .. L /\ k - 1 \notin Bad /\ (k - 1) + 1 = k
    BY <1>1, <2>1, <2>2
  <2> QED
    BY <1>3, <2>2, <2>3
<1>5. Good(L)
  <2>1. L \in 0 .. L
    BY <1>1
  <2> HIDE DEF Good
  <2> QED
    BY <1>4, <2>1
<1>6. \A z \in Double : z % 2 ^ (8 * L) = z
  <2> SUFFICES ASSUME NEW z \in Double PROVE z % 2 ^ (8 * L) = z
    OBVIOUS
  <2> DEFINE q == 2 ^ (8 * L)
  <2>1. z \in Nat /\ z < q /\ q \in Nat \ {0}
    <3>1. 8 * L = 2 * W /\ 2 * W \in 0 .. 2 * W
      BY BytePlaces DEF Bytes
    <3> QED
      BY <3>1, Sizes, Powers
  <2> HIDE DEF q
  <2>2. z \in 0 .. q - 1 /\ z = q * 0 + z
    BY <2>1
  <2>3. z % q = z
    BY <2>1, <2>2, ModUnique
  <2> QED
    BY <2>3 DEF q
<1>7. x % 2 ^ (8 * L) = x /\ y % 2 ^ (8 * L) = y
  BY <1>6
<1> QED
  BY <1>5, <1>7

(* Bytes that do not overflow are added one by one.                        *)
LEMMA AddBytes ==
  ASSUME NEW L, Bytes(L), NEW x \in Double, NEW y \in Double,
         \A k \in 0 .. L - 1 : ByteOf(x, k) + ByteOf(y, k) < 256
  PROVE  /\ x + y \in Double
         /\ \A k \in 0 .. L - 1 : ByteOf(x + y, k) = ByteOf(x, k) + ByteOf(y, k)
<1> DEFINE Good(k) == (x % 2 ^ (8 * k)) + (y % 2 ^ (8 * k)) < 2 ^ (8 * k)
           Bad == { k \in 0 .. L : ~ Good(k) }
<1>1. L \in Nat /\ x \in Nat /\ y \in Nat
  BY BytePlaces, Sizes
<1>2. Good(0)
  <2>1. 2 ^ (8 * 0) = 1 /\ x % 1 = 0 /\ y % 1 = 0
    BY <1>1
  <2> QED
    BY <2>1
<1>3. ASSUME NEW k \in 0 .. L - 1, Good(k)
      PROVE  /\ Good(k + 1)
             /\ ByteOf(x + y, k) = ByteOf(x, k) + ByteOf(y, k)
  <2> DEFINE p == 2 ^ (8 * k)
             a == ByteOf(x, k)
             b == ByteOf(y, k)
             u == x % p
             v == y % p
  <2>1. p \in Nat \ {0} /\ 2 ^ (8 * (k + 1)) = 256 * p
    BY BytePlaces
  <2>2. /\ a \in 0 .. 255 /\ x % 2 ^ (8 * (k + 1)) = u + p * a
        /\ b \in 0 .. 255 /\ y % 2 ^ (8 * (k + 1)) = v + p * b
    BY ByteStep
  <2>3. a + b < 256
    OBVIOUS
  <2>4. u \in 0 .. p - 1 /\ v \in 0 .. p - 1 /\ u + v < p
    <3>1. u + v < p
      BY <1>3
    <3>2. u \in 0 .. p - 1 /\ v \in 0 .. p - 1
      <4> HIDE DEF p
      <4> QED
        BY <1>1, <2>1, DivMod
    <3> QED
      BY <3>1, <3>2
  <2>5. (x \div p) % 256 = a /\ (y \div p) % 256 = b
    BY DEF ByteOf
  <2> DEFINE s == x \div p
             t == y \div p
  <2>6. s \in Nat /\ x = p * s + u /\ t \in Nat /\ y = p * t + v
    <3> HIDE DEF p
    <3> QED
      BY <1>1, <2>1, DivMod
  <2>7. (x + y) \div p = s + t
    <3> HIDE DEF p, s, t, u, v
    <3>1. /\ p * s + p * t = p * (s + t) /\ p * s \in Int /\ p * t \in Int
          /\ u + v \in 0 .. p - 1
      BY <2>1, <2>4, <2>6
    <3>2. x + y = p * (s + t) + (u + v)
      BY <2>4, <2>6, <3>1
    <3>3. x + y \in Nat /\ s + t \in Int
      BY <1>1, <2>6
    <3> QED
      BY <2>1, <3>1, <3>2, <3>3, DivUnique
  <2>8. ByteOf(x + y, k) = a + b
    <3>1. ByteOf(x + y, k) = (s + t) % 256
      BY <2>7 DEF ByteOf
    <3>2. s % 256 = a /\ t % 256 = b
      BY <2>5
    <3> HIDE DEF p, s, t, a, b
    <3> QED
      BY <2>2, <2>3, <2>6, <3>1, <3>2
  <2>9. Good(k + 1)
    <3>1. (u + p * a) + (v + p * b) < 256 * p
      <4> HIDE DEF p, a, b, u, v
      <4>1. p * a + p * b = p * (a + b) /\ p * a \in Int /\ p * b \in Int
        BY <2>1, <2>2
      <4>2. p * (255 - (a + b)) \in Nat
        <5>1. 255 - (a + b) \in Nat
          BY <2>2, <2>3
        <5> QED
          BY <2>1, <5>1, NatProduct
      <4>3. p * (255 - (a + b)) = 255 * p - p * (a + b)
        BY <2>1, <2>2
      <4>4. p * (a + b) <= 255 * p
        BY <2>1, <4>1, <4>2, <4>3
      <4> QED
        BY <2>1, <2>4, <4>1, <4>4
    <3> QED
      BY <2>1, <2>2, <3>1
  <2> QED
    BY <2>8, <2>9
<1>4. Bad = {}
  <2> SUFFICES ASSUME Bad # {} PROVE FALSE
    OBVIOUS
  <2> HIDE DEF Good
  <2>1. PICK k \in Bad : \A j \in Bad : k <= j
    <3>1. Bad \subseteq Nat
      OBVIOUS
    <3> QED
      BY <3>1, LeastNatural
  <2>2. k \in 1 .. L /\ ~ Good(k)
    BY <1>1, <1>2
  <2>3. k - 1 \in 0 .. L - 1 /\ k - 1 \in 0 .. L /\ k - 1 \notin Bad /\ (k - 1) + 1 = k
    BY <1>1, <2>1, <2>2
  <2> QED
    BY <1>3, <2>2, <2>3
<1>5. \A k \in 0 .. L : Good(k)
  <2> HIDE DEF Good
  <2> QED
    BY <1>4
<1>6. x + y \in Double
  <2> DEFINE q == 2 ^ (8 * L)
  <2>1. 8 * L = 2 * W /\ L \in 0 .. L /\ 2 * W \in 0 .. 2 * W
    BY <1>1, BytePlaces DEF Bytes
  <2>2. (x % q) + (y % q) < q
    BY <1>5, <2>1
  <2>3. q \in Nat \ {0} /\ x < q /\ y < q
    BY <2>1, Sizes, Powers
  <2>4. q = 2 ^ (2 * W)
    BY <2>1
  <2> HIDE DEF q
  <2>5. x \in 0 .. q - 1 /\ x = q * 0 + x /\ y \in 0 .. q - 1 /\ y = q * 0 + y
    BY <1>1, <2>3
  <2>6. x % q = x /\ y % q = y
    BY <1>1, <2>3, <2>5, ModUnique
  <2>7. x + y < q /\ x + y \in Nat
    BY <1>1, <2>2, <2>6
  <2> QED
    BY <2>4, <2>7, Sizes
<1>7. \A k \in 0 .. L - 1 : ByteOf(x + y, k) = ByteOf(x, k) + ByteOf(y, k)
  <2> SUFFICES ASSUME NEW k \in 0 .. L - 1
               PROVE  ByteOf(x + y, k) = ByteOf(x, k) + ByteOf(y, k)
    OBVIOUS
  <2>1. k \in 0 .. L
    BY <1>1
  <2> HIDE DEF Good, Bad
  <2> QED
    BY <1>3, <1>5, <2>1
<1> QED
  BY <1>6, <1>7

(* A mask of alternating runs: adding its complement gives all bits, and   *)
(* the complement is the mask, n places up.                                *)
LEMMA MaskBits ==
  ASSUME 4 <= W, NEW n \in {1, 2, 4}
  PROVE  /\ Mask(n) \in Double
         /\ BitsOf(Mask(n)) = { b \in Places : (b \div n) % 2 = 0 }
<1> DEFINE S == { b \in Places : (b \div n) % 2 = 0 }
           T == { b \in Places : (b \div n) % 2 # 0 }
           M == WordOf(S)
           C == WordOf(T)
<1>1. PICK L : Bytes(L)
  BY WholeBytes
<1>2. L \in Nat \ {0} /\ 2 * W \in Nat /\ 2 * W = 8 * L
  BY <1>1, BytePlaces DEF Bytes
<1>3. S \in SUBSET Places /\ T \in SUBSET Places /\ S \cap T = {} /\ S \cup T = Places
  OBVIOUS
<1>4. M \in Double /\ BitsOf(M) = S /\ C \in Double /\ BitsOf(C) = T
  BY <1>3, BitsOfWord
<1>5. M + C = DoubleMax /\ DoubleMax \in Nat
  <2>1. 2 * W \in 0 .. 2 * W /\ { b \in Places : b < 2 * W } = Places
    BY <1>2 DEF Places
  <2>2. DoubleMax \in Double /\ BitsOf(DoubleMax) = Places
    BY <2>1, Ones DEF DoubleMax
  <2>3. WordOf(Places) = DoubleMax
    BY <2>2, WordOfBits
  <2>4. WordOf(S \cup T) = M + C
    BY <1>3, WordSum
  <2> QED
    BY <1>3, <2>2, <2>3, <2>4, Sizes
<1>6. n \in 0 .. 2 * W /\ 2 ^ n \in {2, 4, 16}
  <2>1. n \in 0 .. 2 * W
    BY <1>2
  <2>2. 2 ^ 1 = 2 /\ 2 ^ 2 = 4 /\ 2 ^ 4 = 16
    OBVIOUS
  <2> QED
    BY <2>1, <2>2
<1>7. shiftR(C, n) = M
  <2>1. /\ shiftR(C, n) \in Double
        /\ \A b \in Places : b \in BitsOf(shiftR(C, n)) <=> b + n \in T
    BY <1>4, <1>6, Shifted
  <2>2. ASSUME NEW b \in Places
        PROVE  b + n \in T <=> b \in S
    <3>1. b \in Nat /\ b < 8 * L
      BY <1>2 DEF Places
    <3>2. b + n \in Places <=> b + n < 8 * L
      BY <1>2, <3>1 DEF Places
    <3>3. CASE n = 1
      BY <1>2, <3>1, <3>2, <3>3
    <3>4. CASE n = 2
      BY <1>2, <3>1, <3>2, <3>4
    <3>5. CASE n = 4
      BY <1>2, <3>1, <3>2, <3>5
    <3> QED
      BY <3>3, <3>4, <3>5
  <2>3. BitsOf(shiftR(C, n)) = S
    <3> HIDE DEF S, T, C
    <3>1. BitsOf(shiftR(C, n)) \subseteq Places
      BY BitsSubset
    <3> QED
      BY <1>3, <2>1, <2>2, <3>1
  <2> QED
    BY <1>4, <2>1, <2>3, SameBits
<1>8. C % 2 ^ n = 0
  <2>1. C % 2 ^ n \in Double /\ BitsOf(C % 2 ^ n) = { b \in T : b < n }
    BY <1>4, <1>6, LowBits
  <2>2. { b \in T : b < n } = {}
    <3> SUFFICES ASSUME NEW b \in T, b < n PROVE FALSE
      OBVIOUS
    <3>1. b \in Nat /\ (b \div n) % 2 # 0
      BY <1>2 DEF Places
    <3> QED
      BY <3>1
  <2> HIDE DEF C, T
  <2> QED
    BY <2>1, <2>2, ZeroBits
<1>9. Mask(n) = M
  <2> DEFINE p == 2 ^ n
  <2>1. C = p * M /\ M \in Nat
    <3>1. C \in Nat /\ M \in Nat /\ C \div p = M /\ C % p = 0
      BY <1>4, <1>7, <1>8, Sizes DEF shiftR
    <3> HIDE DEF C, M, p
    <3>2. p \in {2, 4, 16}
      BY <1>6 DEF p
    <3>3. p \in Nat \ {0}
      BY <3>2
    <3>4. C = p * (C \div p) + (C % p)
      BY <3>1, <3>3, DivMod
    <3> QED
      BY <3>1, <3>2, <3>4
  <2> HIDE DEF C, M
  <2>2. p \in {2, 4, 16}
    BY <1>6
  <2> HIDE DEF p
  <2>3. DoubleMax = (p + 1) * M + 0 /\ p + 1 \in Nat \ {0} /\ 0 \in 0 .. (p + 1) - 1
    BY <1>5, <2>1, <2>2
  <2>4. DoubleMax \div (p + 1) = M
    BY <1>5, <2>1, <2>3, DivUnique
  <2> QED
    BY <2>4 DEF Mask, p
<1> QED
  BY <1>4, <1>9

(* One bit of a masked or of a shifted word.                               *)
LEMMA MaskedBit ==
  ASSUME 4 <= W, NEW n \in {1, 2, 4}, NEW y \in Double
  PROVE  /\ (y & Mask(n)) \in Double
         /\ \A b \in Places :
              BitIn(y & Mask(n), b) = IF (b \div n) % 2 = 0 THEN BitIn(y, b) ELSE 0
<1>1. /\ (y & Mask(n)) \in Double
      /\ BitsOf(y & Mask(n)) = BitsOf(y) \cap { b \in Places : (b \div n) % 2 = 0 }
  BY MaskBits, Meets
<1> QED
  BY <1>1 DEF BitIn

LEMMA ShiftedBit ==
  ASSUME NEW y \in Double, NEW n \in 0 .. 2 * W
  PROVE  /\ shiftR(y, n) \in Double
         /\ \A b \in Places : BitIn(shiftR(y, n), b) = BitIn(y, b + n)
BY Shifted DEF BitIn

(* The lower bits of a byte, two and four at a time.                       *)
LEMMA Lanes ==
  ASSUME NEW L, Bytes(L), NEW x \in Double, NEW k \in 0 .. L - 1
  PROVE  /\ BitIn(x, 8 * k) + 2 * BitIn(x, 8 * k + 1) = ByteOf(x, k) % 4
         /\ BitIn(x, 8 * k + 2) + 2 * BitIn(x, 8 * k + 3) = (ByteOf(x, k) \div 4) % 4
         /\ BitIn(x, 8 * k + 4) + 2 * BitIn(x, 8 * k + 5) = (ByteOf(x, k) \div 16) % 4
         /\ BitIn(x, 8 * k + 6) + 2 * BitIn(x, 8 * k + 7) = ByteOf(x, k) \div 64
         /\ BitIn(x, 8 * k) + 2 * BitIn(x, 8 * k + 1) + 4 * BitIn(x, 8 * k + 2)
              + 8 * BitIn(x, 8 * k + 3) = ByteOf(x, k) % 16
         /\ BitIn(x, 8 * k + 4) + 2 * BitIn(x, 8 * k + 5) + 4 * BitIn(x, 8 * k + 6)
              + 8 * BitIn(x, 8 * k + 7) = ByteOf(x, k) \div 16
<1> DEFINE a == BitIn(x, 8 * k)
           b == BitIn(x, 8 * k + 1)
           c == BitIn(x, 8 * k + 2)
           d == BitIn(x, 8 * k + 3)
           e == BitIn(x, 8 * k + 4)
           f == BitIn(x, 8 * k + 5)
           g == BitIn(x, 8 * k + 6)
           h == BitIn(x, 8 * k + 7)
           v == ByteOf(x, k)
<1>1. v = a + 2 * b + 4 * c + 8 * d + 16 * e + 32 * f + 64 * g + 128 * h
  BY ByteBits
<1>2. /\ a \in {0, 1} /\ b \in {0, 1} /\ c \in {0, 1} /\ d \in {0, 1}
      /\ e \in {0, 1} /\ f \in {0, 1} /\ g \in {0, 1} /\ h \in {0, 1}
  BY BitInRange
<1> HIDE DEF a, b, c, d, e, f, g, h, v
<1>3. /\ a + 2 * b = v % 4 /\ c + 2 * d = (v \div 4) % 4
      /\ e + 2 * f = (v \div 16) % 4 /\ g + 2 * h = v \div 64
  BY <1>1, <1>2
<1>4. /\ a + 2 * b + 4 * c + 8 * d = v % 16
      /\ e + 2 * f + 4 * g + 8 * h = v \div 16
  BY <1>1, <1>2
<1> QED
  BY <1>3, <1>4 DEF a, b, c, d, e, f, g, h, v

(* The bytes of a masked word: the bits at places of even n-th part.       *)
LEMMA MaskedByte ==
  ASSUME 4 <= W, NEW L, Bytes(L), NEW y \in Double, NEW k \in 0 .. L - 1
  PROVE  /\ ByteOf(y & Mask(1), k) = BitIn(y, 8 * k) + 4 * BitIn(y, 8 * k + 2)
                                     + 16 * BitIn(y, 8 * k + 4) + 64 * BitIn(y, 8 * k + 6)
         /\ ByteOf(y & Mask(2), k) = BitIn(y, 8 * k) + 2 * BitIn(y, 8 * k + 1)
                                     + 16 * BitIn(y, 8 * k + 4) + 32 * BitIn(y, 8 * k + 5)
         /\ ByteOf(y & Mask(4), k) = BitIn(y, 8 * k) + 2 * BitIn(y, 8 * k + 1)
                                     + 4 * BitIn(y, 8 * k + 2) + 8 * BitIn(y, 8 * k + 3)
<1>1. /\ k \in Nat /\ \A j \in 0 .. 7 : 8 * k + j \in Places
      /\ 8 * k \in Places /\ 8 * k + 0 = 8 * k
  <2>1. L \in Nat /\ \A j \in 0 .. 7 : 8 * k + j \in Places
    BY BytePlaces
  <2>2. 8 * k + 0 \in Places /\ 8 * k + 0 = 8 * k
    BY <2>1
  <2> QED
    BY <2>1, <2>2
<1>2. ASSUME NEW n \in {1, 2, 4}
      PROVE  /\ (y & Mask(n)) \in Double
             /\ \A j \in 0 .. 7 :
                  BitIn(y & Mask(n), 8 * k + j)
                    = IF ((8 * k + j) \div n) % 2 = 0 THEN BitIn(y, 8 * k + j) ELSE 0
             /\ BitIn(y & Mask(n), 8 * k)
                  = IF ((8 * k) \div n) % 2 = 0 THEN BitIn(y, 8 * k) ELSE 0
  BY <1>1, MaskedBit
<1>3. ASSUME NEW z \in Double
      PROVE  ByteOf(z, k) = BitIn(z, 8 * k) + 2 * BitIn(z, 8 * k + 1)
                         + 4 * BitIn(z, 8 * k + 2) + 8 * BitIn(z, 8 * k + 3)
                         + 16 * BitIn(z, 8 * k + 4) + 32 * BitIn(z, 8 * k + 5)
                         + 64 * BitIn(z, 8 * k + 6) + 128 * BitIn(z, 8 * k + 7)
  BY ByteBits
<1>4. /\ BitIn(y, 8 * k) \in {0, 1} /\ \A j \in 0 .. 7 : BitIn(y, 8 * k + j) \in {0, 1}
  BY BitInRange
<1>5. ByteOf(y & Mask(1), k) = BitIn(y, 8 * k) + 4 * BitIn(y, 8 * k + 2)
                               + 16 * BitIn(y, 8 * k + 4) + 64 * BitIn(y, 8 * k + 6)
  <2> DEFINE z == y & Mask(1)
  <2>1. z \in Double
    BY <1>2
  <2>2. /\ BitIn(z, 8 * k) = BitIn(y, 8 * k) /\ BitIn(z, 8 * k + 1) = 0
        /\ BitIn(z, 8 * k + 2) = BitIn(y, 8 * k + 2) /\ BitIn(z, 8 * k + 3) = 0
        /\ BitIn(z, 8 * k + 4) = BitIn(y, 8 * k + 4) /\ BitIn(z, 8 * k + 5) = 0
        /\ BitIn(z, 8 * k + 6) = BitIn(y, 8 * k + 6) /\ BitIn(z, 8 * k + 7) = 0
    <3>1. /\ ((8 * k) \div 1) % 2 = 0
          /\ \A j \in {2, 4, 6} : ((8 * k + j) \div 1) % 2 = 0
          /\ \A j \in {1, 3, 5, 7} : ((8 * k + j) \div 1) % 2 = 1
      BY <1>1
    <3> HIDE DEF z
    <3>2. /\ \A j \in 0 .. 7 :
               BitIn(z, 8 * k + j)
                 = IF ((8 * k + j) \div 1) % 2 = 0 THEN BitIn(y, 8 * k + j) ELSE 0
          /\ BitIn(z, 8 * k)
               = IF ((8 * k) \div 1) % 2 = 0 THEN BitIn(y, 8 * k) ELSE 0
      BY <1>2 DEF z
    <3> QED
      BY <3>1, <3>2
  <2> HIDE DEF z
  <2>3. ByteOf(z, k) = BitIn(y, 8 * k) + 4 * BitIn(y, 8 * k + 2)
                       + 16 * BitIn(y, 8 * k + 4) + 64 * BitIn(y, 8 * k + 6)
    BY <1>3, <1>4, <2>1, <2>2
  <2> QED
    BY <2>3 DEF z
<1>6. ByteOf(y & Mask(2), k) = BitIn(y, 8 * k) + 2 * BitIn(y, 8 * k + 1)
                               + 16 * BitIn(y, 8 * k + 4) + 32 * BitIn(y, 8 * k + 5)
  <2> DEFINE z == y & Mask(2)
  <2>1. z \in Double
    BY <1>2
  <2>2. /\ BitIn(z, 8 * k) = BitIn(y, 8 * k) /\ BitIn(z, 8 * k + 2) = 0
        /\ BitIn(z, 8 * k + 1) = BitIn(y, 8 * k + 1) /\ BitIn(z, 8 * k + 3) = 0
        /\ BitIn(z, 8 * k + 4) = BitIn(y, 8 * k + 4) /\ BitIn(z, 8 * k + 6) = 0
        /\ BitIn(z, 8 * k + 5) = BitIn(y, 8 * k + 5) /\ BitIn(z, 8 * k + 7) = 0
    <3>1. /\ ((8 * k) \div 2) % 2 = 0
          /\ \A j \in {1, 4, 5} : ((8 * k + j) \div 2) % 2 = 0
          /\ \A j \in {2, 3, 6, 7} : ((8 * k + j) \div 2) % 2 = 1
      BY <1>1
    <3> HIDE DEF z
    <3>2. /\ \A j \in 0 .. 7 :
               BitIn(z, 8 * k + j)
                 = IF ((8 * k + j) \div 2) % 2 = 0 THEN BitIn(y, 8 * k + j) ELSE 0
          /\ BitIn(z, 8 * k)
               = IF ((8 * k) \div 2) % 2 = 0 THEN BitIn(y, 8 * k) ELSE 0
      BY <1>2 DEF z
    <3> QED
      BY <3>1, <3>2
  <2> HIDE DEF z
  <2>3. ByteOf(z, k) = BitIn(y, 8 * k) + 2 * BitIn(y, 8 * k + 1)
                       + 16 * BitIn(y, 8 * k + 4) + 32 * BitIn(y, 8 * k + 5)
    BY <1>3, <1>4, <2>1, <2>2
  <2> QED
    BY <2>3 DEF z
<1>7. ByteOf(y & Mask(4), k) = BitIn(y, 8 * k) + 2 * BitIn(y, 8 * k + 1)
                               + 4 * BitIn(y, 8 * k + 2) + 8 * BitIn(y, 8 * k + 3)
  <2> DEFINE z == y & Mask(4)
  <2>1. z \in Double
    BY <1>2
  <2>2. /\ BitIn(z, 8 * k) = BitIn(y, 8 * k) /\ BitIn(z, 8 * k + 4) = 0
        /\ BitIn(z, 8 * k + 1) = BitIn(y, 8 * k + 1) /\ BitIn(z, 8 * k + 5) = 0
        /\ BitIn(z, 8 * k + 2) = BitIn(y, 8 * k + 2) /\ BitIn(z, 8 * k + 6) = 0
        /\ BitIn(z, 8 * k + 3) = BitIn(y, 8 * k + 3) /\ BitIn(z, 8 * k + 7) = 0
    <3>1. /\ ((8 * k) \div 4) % 2 = 0
          /\ \A j \in {1, 2, 3} : ((8 * k + j) \div 4) % 2 = 0
          /\ \A j \in {4, 5, 6, 7} : ((8 * k + j) \div 4) % 2 = 1
      BY <1>1
    <3> HIDE DEF z
    <3>2. /\ \A j \in 0 .. 7 :
               BitIn(z, 8 * k + j)
                 = IF ((8 * k + j) \div 4) % 2 = 0 THEN BitIn(y, 8 * k + j) ELSE 0
          /\ BitIn(z, 8 * k)
               = IF ((8 * k) \div 4) % 2 = 0 THEN BitIn(y, 8 * k) ELSE 0
      BY <1>2 DEF z
    <3> QED
      BY <3>1, <3>2
  <2> HIDE DEF z
  <2>3. ByteOf(z, k) = BitIn(y, 8 * k) + 2 * BitIn(y, 8 * k + 1)
                       + 4 * BitIn(y, 8 * k + 2) + 8 * BitIn(y, 8 * k + 3)
    BY <1>3, <1>4, <2>1, <2>2
  <2> QED
    BY <2>3 DEF z
<1> QED
  BY <1>5, <1>6, <1>7

(* How many bits a byte of a word has, and its lower and upper half.       *)
LowCount(x, k) == BitIn(x, 8 * k) + BitIn(x, 8 * k + 1)
                  + BitIn(x, 8 * k + 2) + BitIn(x, 8 * k + 3)
HighCount(x, k) == BitIn(x, 8 * k + 4) + BitIn(x, 8 * k + 5)
                   + BitIn(x, 8 * k + 6) + BitIn(x, 8 * k + 7)

(* The three steps of the count, before the multiplication.                *)
OnesOf(x) == x - (shiftR(x, 1) & Mask(1))
PairsOf(x) == (OnesOf(x) & Mask(2)) + (shiftR(OnesOf(x), 2) & Mask(2))
BytesOf(x) == (PairsOf(x) + shiftR(PairsOf(x), 4)) & Mask(4)

(* The first step leaves in each pair of bits how many bits it had.        *)
LEMMA OnesCount ==
  ASSUME 4 <= W, NEW L, Bytes(L), NEW x \in Double
  PROVE  /\ OnesOf(x) \in Double
         /\ \A k \in 0 .. L - 1 :
              ByteOf(OnesOf(x), k)
                = (BitIn(x, 8 * k) + BitIn(x, 8 * k + 1))
                  + 4 * (BitIn(x, 8 * k + 2) + BitIn(x, 8 * k + 3))
                  + 16 * (BitIn(x, 8 * k + 4) + BitIn(x, 8 * k + 5))
                  + 64 * (BitIn(x, 8 * k + 6) + BitIn(x, 8 * k + 7))
<1> DEFINE y == shiftR(x, 1)
           a == y & Mask(1)
           m == x & Mask(1)
           o == m + a
<1>1. /\ y \in Double /\ 1 \in 0 .. 2 * W
      /\ \A b \in Places : BitIn(y, b) = BitIn(x, b + 1)
  <2>1. 1 \in 0 .. 2 * W
    BY Sizes
  <2> QED
    BY <2>1, ShiftedBit
<1>2. a \in Double /\ m \in Double
  BY <1>1, MaskedBit
<1>3. ASSUME NEW k \in 0 .. L - 1
      PROVE  /\ ByteOf(m, k) = BitIn(x, 8 * k) + 4 * BitIn(x, 8 * k + 2)
                               + 16 * BitIn(x, 8 * k + 4) + 64 * BitIn(x, 8 * k + 6)
             /\ ByteOf(a, k) = BitIn(x, 8 * k + 1) + 4 * BitIn(x, 8 * k + 3)
                               + 16 * BitIn(x, 8 * k + 5) + 64 * BitIn(x, 8 * k + 7)
  <2>1. k \in Nat /\ \A j \in 0 .. 7 : 8 * k + j \in Places
    BY BytePlaces
  <2>2. 8 * k \in Places /\ 8 * k + 2 \in Places /\ 8 * k + 4 \in Places /\ 8 * k + 6 \in Places
    <3>1. 8 * k + 0 \in Places /\ 8 * k + 0 = 8 * k
      BY <2>1
    <3> QED
      BY <2>1, <3>1
  <2>3. /\ (8 * k + 2) + 1 = 8 * k + 3 /\ (8 * k + 4) + 1 = 8 * k + 5
        /\ (8 * k + 6) + 1 = 8 * k + 7
    BY <2>1
  <2>4. /\ BitIn(y, 8 * k) = BitIn(x, 8 * k + 1) /\ BitIn(y, 8 * k + 2) = BitIn(x, 8 * k + 3)
        /\ BitIn(y, 8 * k + 4) = BitIn(x, 8 * k + 5)
        /\ BitIn(y, 8 * k + 6) = BitIn(x, 8 * k + 7)
    BY <1>1, <2>2, <2>3
  <2>5. ByteOf(a, k) = BitIn(y, 8 * k) + 4 * BitIn(y, 8 * k + 2)
                       + 16 * BitIn(y, 8 * k + 4) + 64 * BitIn(y, 8 * k + 6)
    BY <1>1, MaskedByte
  <2>6. ByteOf(m, k) = BitIn(x, 8 * k) + 4 * BitIn(x, 8 * k + 2)
                       + 16 * BitIn(x, 8 * k + 4) + 64 * BitIn(x, 8 * k + 6)
    BY MaskedByte
  <2> QED
    BY <2>4, <2>5, <2>6
<1> HIDE DEF y, a, m
<1>4. /\ o \in Double
      /\ \A k \in 0 .. L - 1 : ByteOf(o, k) = ByteOf(m, k) + ByteOf(a, k)
  <2>1. ASSUME NEW k \in 0 .. L - 1
        PROVE  ByteOf(m, k) + ByteOf(a, k) < 256
    BY <1>3, BitInRange
  <2> QED
    BY <1>2, <2>1, AddBytes
<1> HIDE DEF o
<1>5. /\ o + a \in Double
      /\ \A k \in 0 .. L - 1 : ByteOf(o + a, k) = ByteOf(o, k) + ByteOf(a, k)
  <2>1. ASSUME NEW k \in 0 .. L - 1
        PROVE  ByteOf(o, k) + ByteOf(a, k) < 256
    BY <1>3, <1>4, BitInRange
  <2> QED
    BY <1>2, <1>4, <2>1, AddBytes
<1>6. o + a = x
  <2>1. ASSUME NEW k \in 0 .. L - 1
        PROVE  ByteOf(o + a, k) = ByteOf(x, k)
    <3>1. ByteOf(x, k) = BitIn(x, 8 * k) + 2 * BitIn(x, 8 * k + 1)
                         + 4 * BitIn(x, 8 * k + 2) + 8 * BitIn(x, 8 * k + 3)
                         + 16 * BitIn(x, 8 * k + 4) + 32 * BitIn(x, 8 * k + 5)
                         + 64 * BitIn(x, 8 * k + 6) + 128 * BitIn(x, 8 * k + 7)
      BY ByteBits
    <3>2. ByteOf(o + a, k) = (ByteOf(m, k) + ByteOf(a, k)) + ByteOf(a, k)
      BY <1>4, <1>5
    <3> QED
      BY <1>3, <3>1, <3>2, BitInRange
  <2> QED
    BY <1>5, <2>1, SameBytes
<1>7. OnesOf(x) = o
  <2>1. OnesOf(x) = x - a
    BY DEF OnesOf, a, y
  <2>2. o \in Nat /\ a \in Nat
    BY <1>2, <1>4, Sizes
  <2> QED
    BY <1>6, <2>1, <2>2
<1> QED
  BY <1>3, <1>4, <1>7, BitInRange

(* The second step leaves in each half of a byte how many bits it had.     *)
LEMMA PairsCount ==
  ASSUME 4 <= W, NEW L, Bytes(L), NEW x \in Double
  PROVE  /\ PairsOf(x) \in Double
         /\ \A k \in 0 .. L - 1 :
              ByteOf(PairsOf(x), k) = LowCount(x, k) + 16 * HighCount(x, k)
<1> DEFINE o == OnesOf(x)
           y == shiftR(o, 2)
           a == y & Mask(2)
           m == o & Mask(2)
<1>1. o \in Double
  BY OnesCount
<1>2. y \in Double /\ \A b \in Places : BitIn(y, b) = BitIn(o, b + 2)
  <2>1. 2 \in 0 .. 2 * W
    BY Sizes
  <2> HIDE DEF o
  <2> QED
    BY <1>1, <2>1, ShiftedBit
<1> HIDE DEF o
<1>3. a \in Double /\ m \in Double
  <2> HIDE DEF y
  <2> QED
    BY <1>1, <1>2, MaskedBit
<1>4. ASSUME NEW k \in 0 .. L - 1
      PROVE  /\ ByteOf(m, k) = (ByteOf(o, k) % 4) + 16 * ((ByteOf(o, k) \div 16) % 4)
             /\ ByteOf(a, k) = ((ByteOf(o, k) \div 4) % 4) + 16 * (ByteOf(o, k) \div 64)
  <2>1. k \in Nat /\ \A j \in 0 .. 7 : 8 * k + j \in Places
    BY BytePlaces
  <2>2. 8 * k \in Places /\ 8 * k + 1 \in Places /\ 8 * k + 4 \in Places /\ 8 * k + 5 \in Places
    <3>1. 8 * k + 0 \in Places /\ 8 * k + 0 = 8 * k
      BY <2>1
    <3> QED
      BY <2>1, <3>1
  <2>3. /\ (8 * k + 1) + 2 = 8 * k + 3 /\ (8 * k + 4) + 2 = 8 * k + 6
        /\ (8 * k + 5) + 2 = 8 * k + 7
    BY <2>1
  <2>4. /\ BitIn(y, 8 * k) = BitIn(o, 8 * k + 2) /\ BitIn(y, 8 * k + 1) = BitIn(o, 8 * k + 3)
        /\ BitIn(y, 8 * k + 4) = BitIn(o, 8 * k + 6)
        /\ BitIn(y, 8 * k + 5) = BitIn(o, 8 * k + 7)
    BY <1>2, <2>2, <2>3
  <2> HIDE DEF y
  <2>5. ByteOf(a, k) = BitIn(y, 8 * k) + 2 * BitIn(y, 8 * k + 1)
                       + 16 * BitIn(y, 8 * k + 4) + 32 * BitIn(y, 8 * k + 5)
    BY <1>2, MaskedByte
  <2>6. ByteOf(m, k) = BitIn(o, 8 * k) + 2 * BitIn(o, 8 * k + 1)
                       + 16 * BitIn(o, 8 * k + 4) + 32 * BitIn(o, 8 * k + 5)
    BY <1>1, MaskedByte
  <2>7. /\ BitIn(o, 8 * k) + 2 * BitIn(o, 8 * k + 1) = ByteOf(o, k) % 4
        /\ BitIn(o, 8 * k + 2) + 2 * BitIn(o, 8 * k + 3) = (ByteOf(o, k) \div 4) % 4
        /\ BitIn(o, 8 * k + 4) + 2 * BitIn(o, 8 * k + 5) = (ByteOf(o, k) \div 16) % 4
        /\ BitIn(o, 8 * k + 6) + 2 * BitIn(o, 8 * k + 7) = ByteOf(o, k) \div 64
    BY <1>1, Lanes
  <2> HIDE DEF a, m
  <2> QED
    BY <2>4, <2>5, <2>6, <2>7, BitInRange
<1>5. ASSUME NEW k \in 0 .. L - 1
      PROVE  /\ ByteOf(m, k) + ByteOf(a, k) < 256
             /\ ByteOf(m, k) + ByteOf(a, k) = LowCount(x, k) + 16 * HighCount(x, k)
  <2> DEFINE p == BitIn(x, 8 * k) + BitIn(x, 8 * k + 1)
             q == BitIn(x, 8 * k + 2) + BitIn(x, 8 * k + 3)
             r == BitIn(x, 8 * k + 4) + BitIn(x, 8 * k + 5)
             s == BitIn(x, 8 * k + 6) + BitIn(x, 8 * k + 7)
             v == ByteOf(o, k)
  <2>1. v = p + 4 * q + 16 * r + 64 * s
    BY OnesCount DEF o
  <2>2. p \in 0 .. 2 /\ q \in 0 .. 2 /\ r \in 0 .. 2 /\ s \in 0 .. 2
    BY BitInRange
  <2>3. LowCount(x, k) = p + q /\ HighCount(x, k) = r + s
    BY BitInRange DEF LowCount, HighCount
  <2>4. /\ ByteOf(m, k) = (v % 4) + 16 * ((v \div 16) % 4)
        /\ ByteOf(a, k) = ((v \div 4) % 4) + 16 * (v \div 64)
    BY <1>4
  <2> HIDE DEF p, q, r, s, v, m, a
  <2>5. v % 4 = p /\ (v \div 4) % 4 = q /\ (v \div 16) % 4 = r /\ v \div 64 = s
    BY <2>1, <2>2
  <2>6. ByteOf(m, k) = p + 16 * r /\ ByteOf(a, k) = q + 16 * s
    BY <2>4, <2>5
  <2> QED
    BY <2>2, <2>3, <2>6
<1>6. PairsOf(x) = m + a
  BY DEF PairsOf, o
<1> HIDE DEF m, a
<1> QED
  BY <1>3, <1>5, <1>6, AddBytes

(* The third step leaves in each byte how many bits it had.                *)
LEMMA BytesCount ==
  ASSUME 4 <= W, NEW L, Bytes(L), NEW x \in Double
  PROVE  /\ BytesOf(x) \in Double
         /\ \A k \in 0 .. L - 1 :
              ByteOf(BytesOf(x), k) = LowCount(x, k) + HighCount(x, k)
<1> DEFINE q == PairsOf(x)
           t == shiftR(q, 4)
           z == q + t
<1>1. /\ q \in Double
      /\ \A k \in 0 .. L - 1 : ByteOf(q, k) = LowCount(x, k) + 16 * HighCount(x, k)
  BY PairsCount
<1>2. /\ \A k \in 0 .. L - 1 : LowCount(x, k) \in 0 .. 4 /\ HighCount(x, k) \in 0 .. 4
      /\ L \in Nat \ {0} /\ 2 * W = 8 * L
  BY BitInRange DEF LowCount, HighCount, Bytes
<1> HIDE DEF q
<1>3. t \in Double /\ \A b \in Places : BitIn(t, b) = BitIn(q, b + 4)
  <2>1. 4 \in 0 .. 2 * W
    BY <1>2
  <2> QED
    BY <1>1, <2>1, ShiftedBit
<1> HIDE DEF t
<1>4. ASSUME NEW k \in 0 .. L - 1
      PROVE  \E h \in 0 .. 4 : ByteOf(t, k) = HighCount(x, k) + 16 * h
  <2> DEFINE h == BitIn(q, 8 * k + 8) + 2 * BitIn(q, 8 * k + 9)
                  + 4 * BitIn(q, 8 * k + 10) + 8 * BitIn(q, 8 * k + 11)
  <2>1. k \in Nat /\ \A j \in 0 .. 7 : 8 * k + j \in Places
    BY BytePlaces
  <2>2. /\ 8 * k \in Places /\ 8 * k + 1 \in Places /\ 8 * k + 2 \in Places
        /\ 8 * k + 3 \in Places /\ 8 * k + 4 \in Places /\ 8 * k + 5 \in Places
        /\ 8 * k + 6 \in Places /\ 8 * k + 7 \in Places
    <3>1. 8 * k + 0 \in Places /\ 8 * k + 0 = 8 * k
      BY <2>1
    <3> QED
      BY <2>1, <3>1
  <2>3. /\ (8 * k + 1) + 4 = 8 * k + 5 /\ (8 * k + 2) + 4 = 8 * k + 6
        /\ (8 * k + 3) + 4 = 8 * k + 7 /\ (8 * k + 4) + 4 = 8 * k + 8
        /\ (8 * k + 5) + 4 = 8 * k + 9 /\ (8 * k + 6) + 4 = 8 * k + 10
        /\ (8 * k + 7) + 4 = 8 * k + 11
    BY <2>1
  <2>4. /\ BitIn(t, 8 * k) = BitIn(q, 8 * k + 4) /\ BitIn(t, 8 * k + 1) = BitIn(q, 8 * k + 5)
        /\ BitIn(t, 8 * k + 2) = BitIn(q, 8 * k + 6)
        /\ BitIn(t, 8 * k + 3) = BitIn(q, 8 * k + 7)
        /\ BitIn(t, 8 * k + 4) = BitIn(q, 8 * k + 8)
        /\ BitIn(t, 8 * k + 5) = BitIn(q, 8 * k + 9)
        /\ BitIn(t, 8 * k + 6) = BitIn(q, 8 * k + 10)
        /\ BitIn(t, 8 * k + 7) = BitIn(q, 8 * k + 11)
    BY <1>3, <2>2, <2>3
  <2>5. ByteOf(t, k) = BitIn(t, 8 * k) + 2 * BitIn(t, 8 * k + 1)
                       + 4 * BitIn(t, 8 * k + 2) + 8 * BitIn(t, 8 * k + 3)
                       + 16 * BitIn(t, 8 * k + 4) + 32 * BitIn(t, 8 * k + 5)
                       + 64 * BitIn(t, 8 * k + 6) + 128 * BitIn(t, 8 * k + 7)
    BY <1>3, ByteBits
  <2>6. BitIn(q, 8 * k + 4) + 2 * BitIn(q, 8 * k + 5) + 4 * BitIn(q, 8 * k + 6)
          + 8 * BitIn(q, 8 * k + 7) = ByteOf(q, k) \div 16
    BY <1>1, Lanes
  <2>7. ByteOf(q, k) \div 16 = HighCount(x, k)
    BY <1>1, <1>2
  <2>8. ByteOf(t, k) = HighCount(x, k) + 16 * h
    BY <2>4, <2>5, <2>6, <2>7, BitInRange
  <2>9. h \in 0 .. 4
    <3>1. CASE k + 1 \in 0 .. L - 1
      <4> DEFINE n == k + 1
      <4>1. BitIn(q, 8 * n) + 2 * BitIn(q, 8 * n + 1) + 4 * BitIn(q, 8 * n + 2)
              + 8 * BitIn(q, 8 * n + 3) = ByteOf(q, n) % 16
        BY <1>1, <3>1, Lanes
      <4>2. /\ 8 * n = 8 * k + 8 /\ 8 * n + 1 = 8 * k + 9
            /\ 8 * n + 2 = 8 * k + 10 /\ 8 * n + 3 = 8 * k + 11
        BY <2>1
      <4>3. ByteOf(q, n) % 16 = LowCount(x, n) /\ LowCount(x, n) \in 0 .. 4
        BY <1>1, <1>2, <3>1
      <4> HIDE DEF n
      <4> QED
        BY <4>1, <4>2, <4>3
    <3>2. CASE k = L - 1
      <4>1. /\ 8 * k + 8 \notin Places /\ 8 * k + 9 \notin Places
            /\ 8 * k + 10 \notin Places /\ 8 * k + 11 \notin Places
        BY <1>2, <3>2 DEF Places
      <4>2. \A b : b \notin Places => BitIn(q, b) = 0
        BY BitsSubset DEF BitIn
      <4> QED
        BY <4>1, <4>2
    <3> QED
      BY <1>2, <3>1, <3>2
  <2> HIDE DEF h
  <2> QED
    BY <2>8, <2>9
<1>5. /\ z \in Double
      /\ \A k \in 0 .. L - 1 : ByteOf(z, k) = ByteOf(q, k) + ByteOf(t, k)
  <2>1. ASSUME NEW k \in 0 .. L - 1
        PROVE  ByteOf(q, k) + ByteOf(t, k) < 256
    BY <1>1, <1>2, <1>4
  <2> QED
    BY <1>1, <1>3, <2>1, AddBytes
<1> HIDE DEF z
<1>6. ASSUME NEW k \in 0 .. L - 1
      PROVE  ByteOf(z & Mask(4), k) = LowCount(x, k) + HighCount(x, k)
  <2>1. ByteOf(z & Mask(4), k) = BitIn(z, 8 * k) + 2 * BitIn(z, 8 * k + 1)
                                 + 4 * BitIn(z, 8 * k + 2) + 8 * BitIn(z, 8 * k + 3)
    BY <1>5, MaskedByte
  <2>2. BitIn(z, 8 * k) + 2 * BitIn(z, 8 * k + 1) + 4 * BitIn(z, 8 * k + 2)
          + 8 * BitIn(z, 8 * k + 3) = ByteOf(z, k) % 16
    BY <1>5, Lanes
  <2>3. PICK h \in 0 .. 4 : ByteOf(t, k) = HighCount(x, k) + 16 * h
    BY <1>4
  <2>4. ByteOf(z, k) = (LowCount(x, k) + HighCount(x, k)) + 16 * (HighCount(x, k) + h)
    BY <1>1, <1>2, <1>5, <2>3
  <2>5. ByteOf(z, k) % 16 = LowCount(x, k) + HighCount(x, k)
    BY <1>2, <2>4
  <2> QED
    BY <2>1, <2>2, <2>5
<1>7. BytesOf(x) = z & Mask(4)
  BY DEF BytesOf, z, t, q
<1>8. (z & Mask(4)) \in Double
  BY <1>5, MaskedBit
<1> QED
  BY <1>6, <1>7, <1>8

(* The count of the bits below a place, one place and one byte on.         *)
LEMMA RankNext ==
  ASSUME NEW x, NEW i \in Nat
  PROVE  /\ RankIn(BitsOf(x), i) \in Nat
         /\ RankIn(BitsOf(x), i + 1) = RankIn(BitsOf(x), i) + BitIn(x, i)
<1> DEFINE S == BitsOf(x)
           A == { j \in S : j < i }
           B == { j \in S : j < i + 1 }
<1>1. IsFiniteSet(A) /\ i \notin A /\ Cardinality(A) \in Nat
  <2>1. IsFiniteSet(0 .. i)
    BY FS_Interval
  <2>2. A \subseteq 0 .. i /\ i \notin A
    BY BitsSubset
  <2> QED
    BY <2>1, <2>2, FS_Subset, FS_CardinalityType
<1>2. CASE i \in S
  <2>1. B = A \cup {i}
    BY <1>2, BitsSubset
  <2>2. Cardinality(A \cup {i}) = Cardinality(A) + 1
    BY <1>1, FS_AddElement
  <2> QED
    BY <1>1, <1>2, <2>1, <2>2 DEF RankIn, BitIn
<1>3. CASE i \notin S
  <2>1. B = A
    BY <1>3, BitsSubset
  <2> QED
    BY <1>1, <1>3, <2>1 DEF RankIn, BitIn
<1> QED
  BY <1>2, <1>3

LEMMA RankByte ==
  ASSUME NEW x, NEW k \in Nat
  PROVE  /\ RankIn(BitsOf(x), 8 * k) \in Nat
         /\ RankIn(BitsOf(x), 8 * (k + 1))
              = RankIn(BitsOf(x), 8 * k) + (LowCount(x, k) + HighCount(x, k))
<1> DEFINE d == 8 * k
           R(i) == RankIn(BitsOf(x), i)
<1>1. d \in Nat /\ 8 * (k + 1) = d + 8
  OBVIOUS
<1>2. \A i \in Nat : R(i) \in Nat /\ R(i + 1) = R(i) + BitIn(x, i)
  BY RankNext
<1>3. LowCount(x, k) = BitIn(x, d) + BitIn(x, d + 1) + BitIn(x, d + 2) + BitIn(x, d + 3)
  BY DEF LowCount
<1>4. HighCount(x, k) = BitIn(x, d + 4) + BitIn(x, d + 5) + BitIn(x, d + 6) + BitIn(x, d + 7)
  BY DEF HighCount
<1> HIDE DEF d, R
<1>5. /\ (d + 1) + 1 = d + 2 /\ (d + 2) + 1 = d + 3 /\ (d + 3) + 1 = d + 4
      /\ (d + 4) + 1 = d + 5 /\ (d + 5) + 1 = d + 6 /\ (d + 6) + 1 = d + 7
      /\ (d + 7) + 1 = d + 8
  BY <1>1
<1>6. /\ R(d) \in Nat /\ R(d + 1) = R(d) + BitIn(x, d)
      /\ R(d + 2) = R(d + 1) + BitIn(x, d + 1) /\ R(d + 3) = R(d + 2) + BitIn(x, d + 2)
      /\ R(d + 4) = R(d + 3) + BitIn(x, d + 3) /\ R(d + 5) = R(d + 4) + BitIn(x, d + 4)
      /\ R(d + 6) = R(d + 5) + BitIn(x, d + 5) /\ R(d + 7) = R(d + 6) + BitIn(x, d + 6)
      /\ R(d + 8) = R(d + 7) + BitIn(x, d + 7)
  BY <1>1, <1>2, <1>5
<1>7. R(d) \in Nat /\ R(d + 8) = R(d) + (LowCount(x, k) + HighCount(x, k))
  BY <1>3, <1>4, <1>6, BitInRange
<1> QED
  BY <1>1, <1>7 DEF R, d

(* All ones are 255 times a one in each byte.                              *)
LEMMA OneInEachByte ==
  ASSUME NEW L, Bytes(L)
  PROVE  /\ DoubleMax \div 255 \in Nat
         /\ 2 ^ (2 * W) = 255 * (DoubleMax \div 255) + 1
<1> DEFINE Good(k) == \E c \in Nat : 2 ^ (8 * k) = 255 * c + 1
           Bad == { k \in 0 .. L : ~ Good(k) }
<1>1. L \in Nat /\ 8 * L = 2 * W
  BY BytePlaces DEF Bytes
<1>2. Good(0)
  <2>1. 2 ^ (8 * 0) = 255 * 0 + 1
    OBVIOUS
  <2> QED
    BY <2>1
<1>3. ASSUME NEW k \in 0 .. L - 1, Good(k)
      PROVE  Good(k + 1)
  <2>1. PICK c \in Nat : 2 ^ (8 * k) = 255 * c + 1
    BY <1>3
  <2>2. 2 ^ (8 * (k + 1)) = 256 * 2 ^ (8 * k)
    BY BytePlaces
  <2>3. 256 * (255 * c + 1) = 255 * (256 * c + 1) + 1 /\ 256 * c + 1 \in Nat
    OBVIOUS
  <2>4. 2 ^ (8 * (k + 1)) = 255 * (256 * c + 1) + 1
    BY <2>1, <2>2, <2>3, Zenon
  <2> QED
    BY <2>3, <2>4
<1>4. Good(L)
  <2> HIDE DEF Good
  <2>1. SUFFICES ASSUME ~ Good(L) PROVE FALSE
    OBVIOUS
  <2>2. L \in Bad /\ Bad \subseteq Nat
    BY <1>1, <2>1
  <2>3. PICK k \in Bad : \A j \in Bad : k <= j
    BY <2>2, LeastNatural
  <2>4. k \in 1 .. L /\ ~ Good(k)
    BY <1>1, <1>2
  <2>5. k - 1 \in 0 .. L - 1 /\ k - 1 \in 0 .. L /\ k - 1 \notin Bad /\ (k - 1) + 1 = k
    BY <1>1, <2>3, <2>4
  <2> QED
    BY <1>3, <2>4, <2>5
<1>5. PICK c \in Nat : 2 ^ (8 * L) = 255 * c + 1
  BY <1>4
<1>6. 2 ^ (2 * W) = 255 * c + 1
  BY <1>1, <1>5
<1>7. DoubleMax = 255 * c + 0 /\ DoubleMax \in Nat
  BY <1>6 DEF DoubleMax
<1>8. DoubleMax \div 255 = c
  BY <1>7, DivUnique
<1> QED
  BY <1>6, <1>8

(* The multiplication puts the sum of the bytes into the highest one, as   *)
(* long as that sum fits.                                                  *)
LEMMA SumOfBytes ==
  ASSUME NEW L, Bytes(L), NEW y \in Double, NEW sum, sum[0] = 0,
         \A k \in 0 .. L : sum[k] \in 0 .. 255,
         \A k \in 0 .. L - 1 : sum[k + 1] = sum[k] + ByteOf(y, k)
  PROVE  shiftR((y * (DoubleMax \div 255)) % (DoubleMax + 1), 2 * W - 8) = sum[L]
<1> DEFINE Good(k) == \E z \in Nat :
                        /\ z < 2 ^ (8 * k)
                        /\ (y % 2 ^ (8 * k)) + 255 * z = sum[k] * 2 ^ (8 * k)
                        /\ k # 0 => z \div 2 ^ (8 * (k - 1)) = sum[k]
           Bad == { k \in 0 .. L : ~ Good(k) }
<1>1. /\ L \in Nat \ {0} /\ 8 * L = 2 * W /\ y \in Nat
      /\ \A k \in 0 .. L : 2 ^ (8 * k) \in Nat \ {0}
  BY BytePlaces, Sizes DEF Bytes
<1>2. Good(0)
  <2>1. 2 ^ (8 * 0) = 1 /\ y % 1 = 0
    BY <1>1
  <2>2. 0 < 2 ^ (8 * 0) /\ (y % 2 ^ (8 * 0)) + 255 * 0 = sum[0] * 2 ^ (8 * 0)
    BY <2>1
  <2> QED
    BY <2>2
<1>3. ASSUME NEW k \in 0 .. L - 1, Good(k)
      PROVE  Good(k + 1)
  <2> DEFINE p == 2 ^ (8 * k)
             n == k + 1
             b == ByteOf(y, k)
             u == y % p
             s == sum[k]
             t == sum[n]
  <2>1. PICK z \in Nat : z < p /\ u + 255 * z = s * p
    BY <1>3
  <2>2. p \in Nat \ {0} /\ 2 ^ (8 * n) = 256 * p
    BY BytePlaces
  <2>3. b \in 0 .. 255 /\ y % 2 ^ (8 * n) = u + p * b
    BY ByteStep
  <2>4. k \in 0 .. L /\ n \in 0 .. L /\ n # 0 /\ n - 1 = k
    BY <1>1
  <2>5. t = s + b /\ t \in 0 .. 255 /\ s \in 0 .. 255
    BY <2>4
  <2>6. u \in Nat
    <3> HIDE DEF p
    <3> QED
      BY <1>1, <2>2, DivMod
  <2> DEFINE w == p * t + z
  <2> HIDE DEF p, n, b, u, s, t
  <2>7. w \in Nat /\ w < 256 * p
    <3>1. p * t \in Nat
      BY <2>2, <2>5, NatProduct
    <3>2. p * (255 - t) \in Nat
      <4>1. 255 - t \in Nat
        BY <2>5
      <4> QED
        BY <2>2, <4>1, NatProduct
    <3>3. p * (255 - t) = 255 * p - p * t
      BY <2>2, <2>5
    <3> QED
      BY <2>1, <2>2, <3>1, <3>2, <3>3
  <2>8. (u + p * b) + 255 * w = t * (256 * p)
    <3>1. /\ p * t = p * s + p * b /\ p * s \in Int /\ p * b \in Int /\ s * p = p * s
          /\ t * (256 * p) = 256 * (p * t)
      BY <2>2, <2>3, <2>5
    <3> QED
      BY <2>1, <2>6, <3>1
  <2>9. w \div p = t
    <3>1. z \in 0 .. p - 1 /\ t \in Int /\ w \in Nat
      BY <2>1, <2>2, <2>5, <2>7
    <3> QED
      BY <2>2, <3>1, DivUnique
  <2> HIDE DEF w
  <2>10. w < 2 ^ (8 * n)
    BY <2>2, <2>7
  <2>11. (y % 2 ^ (8 * n)) + 255 * w = sum[n] * 2 ^ (8 * n)
    <3>1. (u + p * b) + 255 * w = sum[n] * (256 * p)
      BY <2>8 DEF t
    <3> QED
      BY <2>2, <2>3, <3>1, Zenon
  <2>12. w \div 2 ^ (8 * (n - 1)) = sum[n]
    <3>1. 2 ^ (8 * (n - 1)) = p
      BY <2>4 DEF p
    <3> QED
      BY <2>9, <3>1 DEF t
  <2>13. Good(n)
    BY <2>7, <2>10, <2>11, <2>12
  <2> QED
    BY <2>13 DEF n
<1>4. Good(L)
  <2> HIDE DEF Good
  <2>1. SUFFICES ASSUME ~ Good(L) PROVE FALSE
    OBVIOUS
  <2>2. L \in Bad /\ Bad \subseteq Nat
    BY <1>1, <2>1
  <2>3. PICK k \in Bad : \A j \in Bad : k <= j
    BY <2>2, LeastNatural
  <2>4. k \in 1 .. L /\ ~ Good(k)
    BY <1>1, <1>2
  <2>5. k - 1 \in 0 .. L - 1 /\ k - 1 \in 0 .. L /\ k - 1 \notin Bad /\ (k - 1) + 1 = k
    BY <1>1, <2>3, <2>4
  <2> QED
    BY <1>3, <2>4, <2>5
<1> DEFINE q == 2 ^ (2 * W)
           c == DoubleMax \div 255
           S == sum[L]
<1>5. PICK z \in Nat : /\ z < 2 ^ (8 * L)
                       /\ (y % 2 ^ (8 * L)) + 255 * z = S * 2 ^ (8 * L)
                       /\ z \div 2 ^ (8 * (L - 1)) = S
  BY <1>1, <1>4
<1>6. 2 ^ (8 * L) = q /\ 8 * (L - 1) = 2 * W - 8 /\ DoubleMax + 1 = q
  <2>1. 2 * W \in 0 .. 2 * W
    BY <1>1
  <2>2. 2 ^ (2 * W) \in Nat
    BY <2>1, Powers
  <2> QED
    BY <1>1, <2>2 DEF DoubleMax
<1>7. c \in Nat /\ q = 255 * c + 1 /\ S \in 0 .. 255
  <2>1. L \in 0 .. L
    BY <1>1
  <2> QED
    BY <2>1, OneInEachByte
<1>8. y < q
  BY <1>1, Sizes
<1>9. z < q /\ (y % q) + 255 * z = S * q /\ z \div 2 ^ (2 * W - 8) = S
  BY <1>5, <1>6
<1> HIDE DEF q, c, S, Good, Bad
<1>10. q \in Nat \ {0} /\ y % q = y
  <2>1. q \in Nat \ {0}
    BY <1>7
  <2>2. y \in 0 .. q - 1 /\ y = q * 0 + y
    BY <1>1, <1>8, <2>1
  <2> QED
    BY <1>1, <2>1, <2>2, ModUnique
<1>11. (y * c) % q = z
  <2>1. y * c = q * (S * c - z) + z
    <3>1. y = S * q - 255 * z /\ S * q \in Int
      BY <1>1, <1>7, <1>9, <1>10
    <3>2. y * c = (S * q - 255 * z) * c
      BY <3>1, Zenon
    <3>3. (S * q - 255 * z) * c = (S * q) * c - (255 * z) * c
      BY <1>7, <1>10
    <3>4. (S * q) * c = q * (S * c) /\ (255 * z) * c = (255 * c) * z
      BY <1>7, <1>10
    <3>5. 255 * c = q - 1 /\ (q - 1) * z = q * z - z
      BY <1>7, <1>10
    <3>6. (255 * c) * z = q * z - z
      BY <3>5, Zenon
    <3>7. q * (S * c - z) = q * (S * c) - q * z
      BY <1>7, <1>10
    <3>8. q * (S * c) \in Int /\ q * z \in Int /\ y * c \in Int
      BY <1>1, <1>7, <1>10
    <3> QED
      BY <3>2, <3>3, <3>4, <3>6, <3>7, <3>8
  <2>2. y * c \in Nat /\ S * c - z \in Int /\ z \in 0 .. q - 1
    BY <1>1, <1>7, <1>9, <1>10, NatProduct
  <2> DEFINE v == y * c
             e == S * c - z
  <2>3. v = q * e + z /\ v \in Nat /\ e \in Int
    BY <2>1, <2>2
  <2> HIDE DEF v, e
  <2>4. v % q = z
    BY <1>10, <2>2, <2>3, ModUnique
  <2> QED
    BY <2>4 DEF v
<1> QED
  BY <1>6, <1>9, <1>11 DEF shiftR, c, S

(* The bits of two words side by side are those of the one and, W places   *)
(* up, those of the other.                                                 *)
LEMMA BitsSideBySide ==
  ASSUME NEW u \in Single, NEW v \in Single
  PROVE  /\ u * (WordMax + 1) + v \in Double
         /\ Cardinality(BitsOf(u * (WordMax + 1) + v)) = Popcount(u) + Popcount(v)
<1> DEFINE q == 2 ^ W
           x == u * (WordMax + 1) + v
           A == BitsOf(u)
           B == BitsOf(v)
           Up == { b + W : b \in A }
<1>1. /\ W \in Nat \ {0} /\ W \in 0 .. 2 * W /\ 2 * W \in 0 .. 2 * W
      /\ q \in Nat \ {0} /\ 2 * W = W + W /\ 2 * W \in Nat /\ Doubling(2 * W)
  <2>1. W \in Nat \ {0} /\ W \in 0 .. 2 * W
    BY Sizes
  <2> QED
    BY <2>1, Powers
<1>2. 2 ^ (2 * W) = q * q
  <2>1. 2 ^ (W + W) = q * q
    BY <1>1, DoublingSum
  <2> QED
    BY <1>1, <2>1
<1>3. u \in Nat /\ u < q /\ v \in Nat /\ v < q /\ WordMax + 1 = q
  BY <1>1, Sizes DEF WordMax
<1>4. x = q * u + v
  BY <1>1, <1>3
<1>5. x \in Nat /\ x < q * q
  <2> HIDE DEF x, q
  <2>1. q * u \in Nat /\ q * (q - 1 - u) \in Nat
    <3>1. q - 1 - u \in Nat
      BY <1>1, <1>3
    <3> QED
      BY <1>1, <1>3, <3>1, NatProduct
  <2>2. q * (q - 1 - u) = q * q - q - q * u /\ q * q \in Nat
    BY <1>1, <1>3
  <2> QED
    BY <1>1, <1>3, <1>4, <2>1, <2>2
<1>6. x \in Double
  BY <1>2, <1>5, Sizes
<1> HIDE DEF x
<1>7. x \div q = u /\ x % q = v
  <2> HIDE DEF q
  <2>1. v \in 0 .. q - 1
    BY <1>1, <1>3
  <2> QED
    BY <1>1, <1>3, <1>4, <1>5, <2>1, DivUnique, ModUnique
<1>8. /\ A \subseteq Indices /\ B \subseteq Indices
      /\ Indices \subseteq Nat /\ \A b \in Indices : b < W
  BY <1>1, Sizes, SingleBits DEF Indices
<1>9. BitsOf(x) = B \cup Up
  <2>1. B = { b \in BitsOf(x) : b < W }
    BY <1>1, <1>6, <1>7, LowBits
  <2>2. \A b \in Places : b \in A <=> b + W \in BitsOf(x)
    BY <1>1, <1>6, <1>7, Shifted DEF shiftR
  <2>3. BitsOf(x) \subseteq Places /\ Places = 0 .. 2 * W - 1
    BY BitsSubset DEF Places
  <2> HIDE DEF A, B
  <2>4. ASSUME NEW b \in BitsOf(x), ~ (b < W)
        PROVE  b \in Up
    <3>1. b - W \in Places /\ (b - W) + W = b
      BY <1>1, <2>3, <2>4
    <3>2. b - W \in A
      BY <2>2, <2>4, <3>1
    <3> QED
      BY <3>1, <3>2
  <2>5. Up \subseteq BitsOf(x)
    <3>1. \A b \in A : b \in Places
      BY <1>8, Sizes
    <3> QED
      BY <2>2, <3>1
  <2> QED
    BY <2>1, <2>4, <2>5
<1>10. IsFiniteSet(A) /\ IsFiniteSet(B)
  <2>1. IsFiniteSet(Indices)
    BY <1>1, FS_Interval DEF Indices
  <2> QED
    BY <1>8, <2>1, FS_Subset
<1> HIDE DEF A, B
<1>11. IsFiniteSet(Up) /\ Cardinality(Up) = Cardinality(A)
  <2> DEFINE f == [b \in A |-> b + W]
  <2>1. f \in Bijection(A, Up)
    <3>1. f \in [A -> Up] /\ \A a, b \in A : f[a] = f[b] => a = b
      BY <1>1, <1>8
    <3>2. \A c \in Up : \E b \in A : f[b] = c
      OBVIOUS
    <3> HIDE DEF f, Up
    <3> QED
      BY <3>1, <3>2 DEF Bijection, Injection, IsInjective, Surjection
  <2> HIDE DEF f
  <2>2. ExistsBijection(A, Up)
    BY <2>1 DEF ExistsBijection
  <2> QED
    BY <1>10, <2>2, FS_Bijection
<1>12. B \cap Up = {}
  <2> SUFFICES ASSUME NEW b \in A, b + W \in B PROVE FALSE
    OBVIOUS
  <2>1. b \in Nat /\ b + W < W
    BY <1>8
  <2> QED
    BY <1>1, <2>1
<1> HIDE DEF Up
<1>13. Cardinality(B \cup Up) = Cardinality(B) + Cardinality(Up)
  <2>1. Cardinality(B \cup Up) = Cardinality(B) + Cardinality(Up) - Cardinality(B \cap Up)
    BY <1>10, <1>11, FS_Union
  <2>2. Cardinality(B \cap Up) = 0
    BY <1>12, FS_EmptySet
  <2>3. Cardinality(B) \in Nat /\ Cardinality(Up) \in Nat
    BY <1>10, <1>11, FS_CardinalityType
  <2> QED
    BY <2>1, <2>2, <2>3
<1>14. Cardinality(B) \in Nat /\ Cardinality(A) \in Nat
  BY <1>10, FS_CardinalityType
<1>15. Popcount(u) = Cardinality(A) /\ Popcount(v) = Cardinality(B)
  BY DEF Popcount, A, B
<1>16. Cardinality(BitsOf(x)) = Popcount(u) + Popcount(v)
  BY <1>9, <1>11, <1>13, <1>14, <1>15
<1> QED
  BY <1>6, <1>16 DEF x

(* The portable count is the count of the bits, on any word whose number   *)
(* of bits fits in a byte.                                                 *)
LEMMA FallbackCounts ==
  ASSUME 4 <= W, W <= 64, NEW x \in Double
  PROVE  FallbackPopcount(x) = Cardinality(BitsOf(x))
<1> DEFINE sum == [k \in 0 .. 2 * W |-> RankIn(BitsOf(x), 8 * k)]
           y == BytesOf(x)
<1>1. PICK L : Bytes(L)
  BY WholeBytes
<1>2. L \in Nat \ {0} /\ 2 * W = 8 * L /\ L \in 0 .. 2 * W
  BY <1>1 DEF Bytes
<1>3. y \in Double
  BY <1>1, BytesCount
<1>4. \A k \in 0 .. L - 1 : ByteOf(y, k) = LowCount(x, k) + HighCount(x, k)
  BY <1>1, BytesCount
<1>5. /\ IsFiniteSet(BitsOf(x)) /\ BitsOf(x) \subseteq Nat
      /\ Cardinality(BitsOf(x)) \in 0 .. 128
  <2>1. IsFiniteSet(Places) /\ Cardinality(Places) = 2 * W
    <3>1. 0 \in Int /\ 2 * W - 1 \in Int /\ ~ (0 > 2 * W - 1) /\ (2 * W - 1) - 0 + 1 = 2 * W
      BY <1>2
    <3> QED
      BY <3>1, FS_Interval DEF Places
  <2>2. BitsOf(x) \subseteq Places /\ BitsOf(x) \subseteq Nat
    BY BitsSubset
  <2>3. IsFiniteSet(BitsOf(x)) /\ Cardinality(BitsOf(x)) <= 2 * W
    BY <2>1, <2>2, FS_Subset
  <2>4. Cardinality(BitsOf(x)) \in Nat /\ W \in Nat
    BY <2>3, FS_CardinalityType, Sizes
  <2> QED
    BY <2>2, <2>3, <2>4
<1>6. \A k \in 0 .. L : sum[k] \in 0 .. 255 /\ sum[k] = RankIn(BitsOf(x), 8 * k)
  <2> SUFFICES ASSUME NEW k \in 0 .. L
               PROVE  sum[k] \in 0 .. 255 /\ sum[k] = RankIn(BitsOf(x), 8 * k)
    OBVIOUS
  <2>1. k \in 0 .. 2 * W /\ 8 * k \in Int
    BY <1>2
  <2>2. RankIn(BitsOf(x), 8 * k) \in 0 .. Cardinality(BitsOf(x))
    BY <1>5, <2>1, RankRange
  <2> QED
    BY <1>5, <2>1, <2>2
<1>7. sum[0] = 0
  <2>1. 0 \in 0 .. L /\ 8 * 0 = 0 /\ 0 \in Int
    BY <1>2
  <2>2. \A j \in BitsOf(x) : 0 <= j
    BY <1>5
  <2>3. RankIn(BitsOf(x), 0) = 0
    BY <1>5, <2>1, <2>2, RankRange
  <2> QED
    BY <1>6, <2>1, <2>3
<1>8. sum[L] = Cardinality(BitsOf(x))
  <2>1. L \in 0 .. L /\ 8 * L \in Int
    BY <1>2
  <2>2. \A j \in BitsOf(x) : j < 8 * L
    BY <1>2, BitsSubset DEF Places
  <2>3. RankIn(BitsOf(x), 8 * L) = Cardinality(BitsOf(x))
    BY <1>5, <2>1, <2>2, RankRange
  <2> QED
    BY <1>6, <2>1, <2>3
<1>9. \A k \in 0 .. L - 1 : sum[k + 1] = sum[k] + ByteOf(y, k)
  <2> SUFFICES ASSUME NEW k \in 0 .. L - 1
               PROVE  sum[k + 1] = sum[k] + ByteOf(y, k)
    OBVIOUS
  <2>1. k \in Nat /\ k \in 0 .. L /\ k + 1 \in 0 .. L
    BY <1>2
  <2>2. RankIn(BitsOf(x), 8 * (k + 1))
          = RankIn(BitsOf(x), 8 * k) + (LowCount(x, k) + HighCount(x, k))
    BY <2>1, RankByte
  <2>3. sum[k] = RankIn(BitsOf(x), 8 * k) /\ sum[k + 1] = RankIn(BitsOf(x), 8 * (k + 1))
    BY <1>6, <2>1
  <2> HIDE DEF sum, y
  <2> QED
    BY <1>4, <2>2, <2>3
<1>10. FallbackPopcount(x)
         = shiftR((y * (DoubleMax \div 255)) % (DoubleMax + 1), 2 * W - 8)
  BY DEF FallbackPopcount, BytesOf, PairsOf, OnesOf
<1> HIDE DEF sum, y
<1>11. \A k \in 0 .. L : sum[k] \in 0 .. 255
  BY <1>6
<1>12. shiftR((y * (DoubleMax \div 255)) % (DoubleMax + 1), 2 * W - 8) = sum[L]
  BY <1>1, <1>3, <1>7, <1>9, <1>11, SumOfBytes
<1> QED
  BY <1>8, <1>10, <1>12

(* FallbackAgrees: the portable count of popcount.rs equals the count of   *)
(* the bits for the word size of the code, 32 bits in each bitmap and the  *)
(* two side by side a u64, and for every other power of two whose count    *)
(* fits in a byte.                                                         *)
THEOREM FallbackAlwaysAgrees ==
  ASSUME 4 <= W, W <= 64
  PROVE  Spec => []FallbackAgrees
<1>1. WordsInv => FallbackAgrees
  <2> SUFFICES ASSUME WordsInv PROVE FallbackAgrees
    OBVIOUS
  <2>1. bitmap_vals \in Single /\ bitmap_deleted_vals \in Single
    BY DEF WordsInv, PackedWords
  <2> DEFINE x == bitmap_vals * (WordMax + 1) + bitmap_deleted_vals
  <2>2. x \in Double /\ Cardinality(BitsOf(x))
                          = Popcount(bitmap_vals) + Popcount(bitmap_deleted_vals)
    BY <2>1, BitsSideBySide
  <2> HIDE DEF x
  <2>3. FallbackPopcount(x) = Cardinality(BitsOf(x))
    BY <2>2, FallbackCounts
  <2> QED
    BY <2>2, <2>3 DEF FallbackAgrees, x
<1> QED
  BY <1>1, WordsInvariant, PTL
=============================================================================
