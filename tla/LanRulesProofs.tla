--------------------------- MODULE LanRulesProofs ---------------------------
(***************************************************************************)
(* Proofs about LanRules, for any list of flows: what the selection of     *)
(* managed flows returns after a flow is put or removed, and that          *)
(* lanPresenceState recognizes what lanPresenceRules writes.  Induction is *)
(* over a set of indexes (UpTo).                                           *)
(*                                                                         *)
(* And for addresses of any width: a number is known by its bits, so that  *)
(* masks and shifts give the ranges of LanReference, and conflicts are     *)
(* those of packets.                                                       *)
(***************************************************************************)
EXTENDS LanReference, FiniteSetTheorems, SequenceTheorems, WellFoundedInduction, TLAPS

\* Induction over 0 .. n, of a set instead of a predicate.
LEMMA UpTo ==
  ASSUME NEW n \in Nat, NEW P, 0 \in P, \A j \in 1 .. n : j - 1 \in P => j \in P
  PROVE  0 .. n \subseteq P
<1> SUFFICES ASSUME 0 .. n \ P # {}
             PROVE  FALSE
  OBVIOUS
<1>1. PICK x \in 0 .. n \ P : \A y \in 0 .. n \ P : ~ <<y, x>> \in OpToRel(<, Nat)
  <2>1. IsWellFoundedOn(OpToRel(<, Nat), Nat)
    BY NatLessThanWellFounded
  <2>2. 0 .. n \ P \subseteq Nat
    OBVIOUS
  <2> QED
    BY <2>1, <2>2, WFMin
<1>2. x \in 1 .. n /\ x - 1 \in 0 .. n
  OBVIOUS
<1>3. <<x - 1, x>> \in OpToRel(<, Nat)
  BY <1>2 DEF OpToRel
<1> QED
  BY <1>1, <1>2, <1>3

\* A nonempty set of indexes has a largest one.
LEMMA Largest ==
  ASSUME NEW n \in Nat, NEW S \in SUBSET (1 .. n), S # {}
  PROVE  /\ Max(S) \in S
         /\ \A y \in S : y <= Max(S)
<1> DEFINE P == {j \in 0 .. n : S \cap (1 .. j) # {} => \E x \in S : \A y \in S \cap (1 .. j) : x >= y}
<1>1. 0 \in P
  OBVIOUS
<1>2. ASSUME NEW j \in 1 .. n, j - 1 \in P
      PROVE  j \in P
  <2>1. CASE j \in S
    BY <2>1
  <2>2. CASE j \notin S
    <3>1. S \cap (1 .. j) = S \cap (1 .. j - 1)
      BY <2>2
    <3> QED
      BY <1>2, <3>1
  <2> QED
    BY <2>1, <2>2
<1>3. 0 .. n \subseteq P
  <2> HIDE DEF P
  <2> QED
    BY <1>1, <1>2, UpTo
<1>4. n \in 0 .. n /\ \A y \in S : y \in S \cap (1 .. n)
  OBVIOUS
<1>5. \E x \in S : \A y \in S : x >= y
  BY <1>3, <1>4
<1>6. Max(S) \in S /\ \A y \in S : Max(S) >= y
  BY <1>5, Zenon DEF Max
<1> QED
  BY <1>6

-----------------------------------------------------------------------------
(***************************************************************************)
(* Powers of two and the bits of a number.                                 *)
(***************************************************************************)
\* Quotient and remainder are determined by their equation.
LEMMA Quotient ==
  ASSUME NEW b \in Nat \ {0}, NEW q \in Int, NEW r \in 0 .. b - 1, NEW a, a = (b * q) + r
  PROVE  a \div b = q /\ a % b = r
OBVIOUS

\* One more bit: what is left below 2b is what is left below b, and b if the next bit is one.
LEMMA ModTwice ==
  ASSUME NEW a \in Nat, NEW b \in Nat \ {0}
  PROVE  a % (2 * b) = (b * ((a \div b) % 2)) + (a % b)
<1> DEFINE q == a \div b
           r == a % b
           c == q % 2
           d == q \div 2
<1>1. q \in Int /\ r \in 0 .. b - 1 /\ a = (b * q) + r
  OBVIOUS
<1>2. c \in 0 .. 1 /\ d \in Int /\ q = (2 * d) + c
  BY <1>1
<1> HIDE DEF q, r, c, d
<1>3. a = ((2 * b) * d) + ((b * c) + r)
  BY <1>1, <1>2
<1>4. (b * c) + r \in 0 .. (2 * b) - 1
  <2>1. CASE c = 0
    BY <1>1, <2>1
  <2>2. CASE c = 1
    BY <1>1, <2>2
  <2> QED
    BY <1>2, <2>1, <2>2
<1>5. a % (2 * b) = (b * c) + r
  <2> DEFINE s == (b * c) + r
             e == 2 * b
  <2>1. e \in Nat \ {0} /\ s \in 0 .. e - 1 /\ a = (e * d) + s
    BY <1>3, <1>4
  <2> HIDE DEF s, e
  <2>2. a % e = s
    BY <1>2, <2>1, Quotient
  <2> QED
    BY <2>2 DEF s, e
<1> QED
  BY <1>5 DEF q, r, c

\* The recursive function Pow2 exists.
LEMMA PowStep == Pow2[0] = 1 /\ \A k \in 1 .. Width : Pow2[k] = 2 * Pow2[k - 1]
<1> USE LanRulesAssumption
<1> DEFINE Solves(f, m) == f = [k \in 0 .. m |-> IF k = 0 THEN 1 ELSE 2 * f[k - 1]]
           P == {m \in 0 .. Width : \E f : Solves(f, m)}
<1>1. 0 \in P
  <2> DEFINE g == [k \in 0 .. 0 |-> 1]
  <2>1. Solves(g, 0)
    OBVIOUS
  <2> HIDE DEF g
  <2>2. \E f : Solves(f, 0)
    BY <2>1
  <2> QED
    BY <2>2
<1>2. ASSUME NEW m \in 1 .. Width, m - 1 \in P
      PROVE  m \in P
  <2>1. PICK f : Solves(f, m - 1)
    BY <1>2
  <2> DEFINE g == [k \in 0 .. m |-> IF k = m THEN 2 * f[m - 1] ELSE f[k]]
  <2>2. \A k \in 0 .. m - 1 : g[k] = f[k]
    OBVIOUS
  <2>3. ASSUME NEW k \in 0 .. m
        PROVE  g[k] = IF k = 0 THEN 1 ELSE 2 * g[k - 1]
    <3>1. CASE k = 0
      BY <2>1, <2>2, <3>1
    <3>2. CASE k = m
      BY <2>2, <3>2
    <3>3. CASE k \in 1 .. m - 1
      BY <2>1, <2>2, <3>3
    <3> QED
      BY <3>1, <3>2, <3>3
  <2>4. Solves(g, m)
    <3> HIDE DEF g
    <3>1. g = [k \in 0 .. m |-> g[k]]
      BY DEF g
    <3> QED
      BY <2>3, <3>1
  <2>5. \E h : Solves(h, m)
    <3> HIDE DEF g
    <3> QED
      BY <2>4
  <2> QED
    BY <2>5
<1>3. 0 .. Width \subseteq P
  <2> HIDE DEF P
  <2> QED
    BY <1>1, <1>2, UpTo
<1>4. PICK f : Solves(f, Width)
  <2>1. Width \in P
    <3> HIDE DEF P
    <3> QED
      BY <1>3
  <2> QED
    BY <2>1
<1>5. Solves(Pow2, Width)
  BY <1>4, Zenon DEF Pow2
<1> QED
  BY <1>5

\* Powers of two can be divided by.
LEMMA PowIsPositive == \A k \in 0 .. Width : Pow2[k] \in Nat \ {0}
<1> DEFINE P == {k \in 0 .. Width : Pow2[k] \in Nat \ {0}}
<1>1. 0 \in P
  BY PowStep, LanRulesAssumption
<1>2. ASSUME NEW k \in 1 .. Width, k - 1 \in P
      PROVE  k \in P
  BY <1>2, PowStep, LanRulesAssumption
<1>3. 0 .. Width \subseteq P
  <2> HIDE DEF P
  <2> QED
    BY <1>1, <1>2, UpTo, LanRulesAssumption
<1> QED
  BY <1>3

\* 2^k = 2^j * 2^(k - j)
LEMMA PowSplit == \A k \in 0 .. Width : \A j \in 0 .. k : Pow2[k] = Pow2[j] * Pow2[k - j]
<1> USE LanRulesAssumption
<1> DEFINE P == {k \in 0 .. Width : \A j \in 0 .. k : Pow2[k] = Pow2[j] * Pow2[k - j]}
<1>1. 0 \in P
  BY PowStep
<1>2. ASSUME NEW k \in 1 .. Width, k - 1 \in P
      PROVE  k \in P
  <2> SUFFICES ASSUME NEW j \in 0 .. k
               PROVE  Pow2[k] = Pow2[j] * Pow2[k - j]
    OBVIOUS
  <2>1. CASE j = k
    BY <2>1, PowStep, PowIsPositive
  <2>2. CASE j \in 0 .. k - 1
    <3>1. /\ Pow2[j] \in Nat /\ Pow2[k - 1 - j] \in Nat
          /\ Pow2[k - 1] = Pow2[j] * Pow2[k - 1 - j]
      BY <1>2, <2>2, PowIsPositive
    <3>2. Pow2[k] = 2 * Pow2[k - 1] /\ Pow2[k - j] = 2 * Pow2[k - 1 - j]
      <4>1. k - j \in 1 .. Width /\ k - j - 1 = k - 1 - j
        BY <2>2
      <4> QED
        BY <4>1, PowStep
    <3> HIDE DEF P
    <3> QED
      BY <3>1, <3>2
  <2> QED
    BY <2>1, <2>2
<1>3. 0 .. Width \subseteq P
  <2> HIDE DEF P
  <2> QED
    BY <1>1, <1>2, UpTo
<1> QED
  BY <1>3

\* The bit of n at position j.
Bit(n, j) == (n \div Pow2[j]) % 2

\* An address is its own unsigned value.
LEMMA BitsOf ==
  ASSUME NEW n \in Addresses
  PROVE  Bits(n) = {j \in 0 .. Width - 1 : Bit(n, j) = 1} /\ Unsigned(n) = n
BY PowIsPositive, LanRulesAssumption DEF Addresses, Bits, Bit, Unsigned

\* A number is known by its bits.
LEMMA BitsAreEnough ==
  ASSUME NEW m \in Addresses, NEW n \in Addresses, Bits(m) = Bits(n)
  PROVE  m = n
<1> USE LanRulesAssumption, PowIsPositive
<1> DEFINE P == {k \in 0 .. Width : m % Pow2[k] = n % Pow2[k]}
<1>0. m \in Nat /\ n \in Nat
  BY DEF Addresses
<1>1. 0 \in P
  BY <1>0, PowStep
<1>2. ASSUME NEW k \in 1 .. Width, k - 1 \in P
      PROVE  k \in P
  <2> DEFINE p == Pow2[k - 1]
  <2>1. p \in Nat \ {0} /\ Pow2[k] = 2 * p /\ m % p = n % p
    BY <1>2, PowStep
  <2>2. (m \div p) % 2 = (n \div p) % 2
    <3>1. Bit(m, k - 1) = 1 <=> Bit(n, k - 1) = 1
      BY BitsOf
    <3> QED
      BY <1>0, <2>1, <3>1 DEF Bit
  <2>3. ASSUME NEW a \in Nat
        PROVE  a % (2 * p) = (p * ((a \div p) % 2)) + (a % p)
    BY <2>1, ModTwice
  <2> HIDE DEF p
  <2>4. m % (2 * p) = n % (2 * p)
    BY <1>0, <2>1, <2>2, <2>3
  <2> QED
    BY <2>1, <2>4
<1>3. 0 .. Width \subseteq P
  <2> HIDE DEF P
  <2> QED
    BY <1>1, <1>2, UpTo
<1>4. m % Pow2[Width] = n % Pow2[Width]
  BY <1>3
<1> QED
  BY <1>4 DEF Addresses

\* What a bitwise operator returns has the bits it is to have.
LEMMA OfBitsIs ==
  ASSUME NEW n \in Addresses, NEW bits, Bits(n) = bits
  PROVE  OfBits(bits) = n /\ Unsigned(Signed(OfBits(bits))) = n
<1>1. OfBits(bits) \in Addresses /\ Bits(OfBits(bits)) = bits
  BY Zenon DEF OfBits, Addresses
<1>2. OfBits(bits) = n
  BY <1>1, BitsAreEnough
<1>3. Unsigned(Signed(n)) = n
  BY PowIsPositive, LanRulesAssumption DEF Addresses, Unsigned, Signed
<1> QED
  BY <1>2, <1>3

(***************************************************************************)
(* A number q * 2^k + r has the bits of r below k and those of q from k    *)
(* on; and 2^k - 1 has every bit below k.                                  *)
(***************************************************************************)
LEMMA Composed ==
  ASSUME NEW k \in 0 .. Width, NEW q \in Nat, NEW r \in 0 .. Pow2[k] - 1,
         NEW n, n = (Pow2[k] * q) + r, NEW j \in 0 .. Width - 1
  PROVE  Bit(n, j) = IF j < k THEN Bit(r, j) ELSE Bit(q, j - k)
<1> USE LanRulesAssumption
<1>1. CASE j >= k
  <2> DEFINE b == Pow2[k]
             c == Pow2[j - k]
  <2>1. b \in Nat \ {0} /\ c \in Nat \ {0} /\ Pow2[j] = b * c
    BY <1>1, PowIsPositive, PowSplit
  <2>2. n \div b = q /\ n \in Nat
    <3>1. b \in Nat \ {0} /\ r \in 0 .. b - 1 /\ n = (b * q) + r
      BY <2>1
    <3> HIDE DEF b
    <3>2. b * q \in Nat /\ n \in Nat
      BY <3>1
    <3>3. n \div b = q
      BY <3>1, Quotient
    <3> QED
      BY <3>2, <3>3
  <2> HIDE DEF b, c
  <2>3. n \div (b * c) = (n \div b) \div c
    BY <2>1, <2>2
  <2> QED
    BY <1>1, <2>1, <2>2, <2>3 DEF Bit, c
<1>2. CASE j < k
  <2> DEFINE b == Pow2[j]
             c == Pow2[k - j - 1]
             d == r \div b
  <2>1. b \in Nat \ {0} /\ c \in Nat \ {0} /\ Pow2[k] = b * (2 * c)
    <3>1. Pow2[k] = Pow2[j] * Pow2[k - j]
      BY <1>2, PowSplit
    <3>2. k - j \in 1 .. Width
      BY <1>2
    <3> QED
      BY <1>2, <3>1, <3>2, PowIsPositive, PowStep
  <2>2. r \in Nat
    BY PowIsPositive
  <2>3. d \in Int /\ r % b \in 0 .. b - 1 /\ r = (b * d) + (r % b)
    <3> HIDE DEF b
    <3> QED
      BY <2>1, <2>2
  <2> HIDE DEF b, c, d
  <2>4. n = (b * ((2 * (c * q)) + d)) + (r % b)
    BY <2>1, <2>3
  <2>5. (2 * (c * q)) + d \in Int /\ c * q \in Int
    BY <2>1, <2>3
  <2>6. n \div b = (2 * (c * q)) + d
    <3> DEFINE e == (2 * (c * q)) + d
               f == r % b
    <3>1. e \in Int /\ f \in 0 .. b - 1 /\ n = (b * e) + f
      BY <2>3, <2>4, <2>5
    <3> HIDE DEF e, f
    <3>2. n \div b = e
      BY <2>1, <3>1, Quotient
    <3> QED
      BY <3>2 DEF e
  <2>7. (n \div b) % 2 = d % 2
    BY <2>3, <2>5, <2>6
  <2> QED
    BY <1>2, <2>7 DEF Bit, b, d
<1> QED
  BY <1>1, <1>2

\* 2^k - 1 has ones below position k.
LEMMA AllOnes ==
  ASSUME NEW k \in 0 .. Width, NEW j \in 0 .. k - 1
  PROVE  Bit(Pow2[k] - 1, j) = 1
<1> USE LanRulesAssumption
<1> DEFINE b == Pow2[j]
           c == Pow2[k - j - 1]
<1>1. b \in Nat \ {0} /\ c \in Nat \ {0} /\ Pow2[k] = b * (2 * c)
  <2>1. Pow2[k] = Pow2[j] * Pow2[k - j]
    BY PowSplit
  <2>2. k - j \in 1 .. Width
    OBVIOUS
  <2> QED
    BY <2>1, <2>2, PowIsPositive, PowStep
<1> HIDE DEF b, c
<1>2. Pow2[k] - 1 = (b * ((2 * c) - 1)) + (b - 1)
  BY <1>1
<1>3. (Pow2[k] - 1) \div b = (2 * c) - 1
  <2> DEFINE q == (2 * c) - 1
             r == b - 1
             n == Pow2[k] - 1
  <2>1. q \in Int /\ r \in 0 .. b - 1 /\ n = (b * q) + r
    BY <1>1, <1>2
  <2> HIDE DEF q, r, n
  <2>2. n \div b = q
    BY <1>1, <2>1, Quotient
  <2> QED
    BY <2>2 DEF q, n
<1>4. ((2 * c) - 1) % 2 = 1
  BY <1>1
<1> QED
  BY <1>3, <1>4 DEF Bit, b

\* Zero has none.
LEMMA NoOnes ==
  ASSUME NEW j \in 0 .. Width
  PROVE  Bit(0, j) = 0
BY PowIsPositive, LanRulesAssumption DEF Bit

-----------------------------------------------------------------------------
(***************************************************************************)
(* parseAddress, for a prefix that leaves k bits to the hosts.             *)
(***************************************************************************)
Hosts(text) == Width - text.prefix

\* An address is the network of its range and a host in it.
LEMMA Halves ==
  ASSUME NEW a \in Addresses, NEW k \in 0 .. Width
  PROVE  /\ a \div Pow2[k] \in 0 .. Pow2[Width - k] - 1 /\ a % Pow2[k] \in 0 .. Pow2[k] - 1
         /\ a = (Pow2[k] * (a \div Pow2[k])) + (a % Pow2[k])
<1> DEFINE b == Pow2[k]
           c == Pow2[Width - k]
<1>1. b \in Nat \ {0} /\ c \in Nat \ {0} /\ Pow2[Width] = b * c
  BY PowIsPositive, PowSplit, LanRulesAssumption
<1>2. a \in 0 .. (b * c) - 1
  BY <1>1 DEF Addresses
<1> HIDE DEF b, c
<1>3. a % b \in 0 .. b - 1 /\ a \div b \in Int /\ a = (b * (a \div b)) + (a % b)
  BY <1>1, <1>2
<1>4. a \div b \in 0 .. c - 1
  BY <1>1, <1>2
<1> QED
  BY <1>3, <1>4 DEF b, c

\* And with any network and any host there is an address.
LEMMA Whole ==
  ASSUME NEW k \in 0 .. Width, NEW q \in 0 .. Pow2[Width - k] - 1, NEW r \in 0 .. Pow2[k] - 1
  PROVE  (Pow2[k] * q) + r \in Addresses /\ ((Pow2[k] * q) + r) \div Pow2[k] = q
<1> DEFINE b == Pow2[k]
           c == Pow2[Width - k]
<1>1. b \in Nat \ {0} /\ c \in Nat \ {0} /\ Pow2[Width] = b * c
  BY PowIsPositive, PowSplit, LanRulesAssumption
<1>2. q \in 0 .. c - 1 /\ r \in 0 .. b - 1
  OBVIOUS
<1> HIDE DEF b, c
<1>3. b * q <= b * (c - 1) /\ b * (c - 1) = (b * c) - b /\ b * q \in Nat
  BY <1>1, <1>2
<1>4. (b * q) + r \in 0 .. (b * c) - 1
  BY <1>1, <1>2, <1>3
<1>5. ((b * q) + r) \div b = q
  <2> DEFINE n == (b * q) + r
  <2>1. q \in Int /\ n = (b * q) + r
    BY <1>1, <1>2
  <2> HIDE DEF n
  <2>2. n \div b = q
    BY <1>1, <1>2, <2>1, Quotient
  <2> QED
    BY <2>2 DEF n
<1> QED
  BY <1>1, <1>4, <1>5 DEF Addresses, b

\* The mask of a prefix that leaves k bits to the hosts.
LEMMA MaskIs ==
  ASSUME NEW p \in 0 .. Width
  PROVE  /\ Mask(p) = Pow2[Width] - Pow2[Width - p] /\ Mask(p) \in Addresses
         /\ Bits(Mask(p)) = Width - p .. Width - 1
<1> USE LanRulesAssumption
<1> DEFINE k == Width - p
           b == Pow2[k]
           c == Pow2[Width - k]
           q == c - 1
<1>1. /\ b \in Nat \ {0} /\ c \in Nat \ {0} /\ Pow2[Width] \in Nat \ {0}
      /\ Pow2[Width] = b * c
  BY PowIsPositive, PowSplit
<1>2. b * q \in Nat /\ b * q = Pow2[Width] - b /\ Pow2[Width] - b < Pow2[Width]
  BY <1>1
<1>3. Mask(p) = Pow2[Width] - b
  <2>1. CASE p = 0
    BY <1>1, <2>1 DEF Mask
  <2>2. CASE p \in 1 .. Width
    <3> DEFINE w == Pow2[Width]
    <3>1. k % Width = k
      BY <2>2
    <3>2. Unsigned(w - 1) = w - 1
      BY <1>1 DEF Unsigned
    <3>3. ((w - 1) * b) % w = w - b
      <4>0. w \in Nat \ {0} /\ b \in Nat \ {0} /\ w - b \in Nat
        BY <1>1, <1>2
      <4> HIDE DEF w, b
      <4>1. (w - 1) * b = (w * (b - 1)) + (w - b)
        BY <4>0
      <4>2. w - b \in 0 .. w - 1
        BY <4>0
      <4> DEFINE n == (w - 1) * b
                 s == w - b
                 e == b - 1
      <4>3. e \in Int /\ n = (w * e) + s /\ s \in 0 .. w - 1
        BY <4>0, <4>1, <4>2
      <4> HIDE DEF n, s, e
      <4>4. n % w = s
        BY <4>0, <4>3, Quotient
      <4> QED
        BY <4>4 DEF n, s
    <3>4. \A n \in Int : Unsigned(Signed(n)) = Unsigned(n)
      BY PowIsPositive DEF Unsigned, Signed
    <3>5. Mask(p) = Unsigned(Signed((w - 1) * b))
      BY <2>2, <3>1, <3>2 DEF Mask, Shl
    <3>6. Unsigned(Signed((w - 1) * b)) = ((w - 1) * b) % w
      <4>1. (w - 1) * b \in Int
        BY <1>1
      <4> QED
        BY <3>4, <4>1 DEF Unsigned
    <3> QED
      BY <3>3, <3>5, <3>6
  <2> QED
    BY <2>1, <2>2
<1>4. Mask(p) \in Addresses
  BY <1>1, <1>2, <1>3 DEF Addresses
<1>5. ASSUME NEW j \in 0 .. Width - 1
      PROVE  Bit(Mask(p), j) = 1 <=> j >= k
  <2>1. q \in Nat /\ 0 \in 0 .. Pow2[k] - 1 /\ Mask(p) = (Pow2[k] * q) + 0
    BY <1>1, <1>2, <1>3
  <2>2. Bit(Mask(p), j) = IF j < k THEN Bit(0, j) ELSE Bit(q, j - k)
    <3> HIDE DEF q
    <3> QED
      BY <2>1, Composed
  <2>3. j >= k => Bit(q, j - k) = 1
    BY AllOnes
  <2> QED
    BY <2>2, <2>3, NoOnes
<1>6. Bits(Mask(p)) = {j \in 0 .. Width - 1 : Bit(Mask(p), j) = 1}
  BY <1>4, BitsOf
<1>7. Bits(Mask(p)) = k .. Width - 1
  <2> HIDE DEF b, c, q
  <2> QED
    BY <1>5, <1>6
<1> QED
  BY <1>3, <1>4, <1>7

\* Network and broadcast: the range of a text starts and ends with its hosts.
LEMMA RangeIs ==
  ASSUME NEW text, text.ip \in Addresses, text.prefix \in 0 .. Width
  PROVE  LET size == Pow2[Hosts(text)]
             q    == text.ip \div size
         IN  /\ parseAddress(text).network = size * q
             /\ parseAddress(text).broadcast = (size * q) + (size - 1)
<1> USE LanRulesAssumption
<1> DEFINE k    == Hosts(text)
           b    == Pow2[k]
           q    == text.ip \div b
           r    == text.ip % b
           mask == Mask(text.prefix)
           n    == (b * q) + 0
           m    == (b * q) + (b - 1)
<1>1. k \in 0 .. Width /\ b \in Nat \ {0} /\ text.prefix = Width - k
  BY PowIsPositive DEF Hosts
<1>2. /\ q \in 0 .. Pow2[Width - k] - 1 /\ r \in 0 .. b - 1
      /\ text.ip = (b * q) + r
  BY <1>1, Halves
<1>3. q \in Nat /\ 0 \in 0 .. b - 1 /\ b - 1 \in 0 .. b - 1
  BY <1>1, <1>2
<1> HIDE DEF k, q, r
<1>4. n \in Addresses /\ m \in Addresses
  BY <1>1, <1>2, <1>3, Whole
<1>5. /\ mask \in Addresses /\ mask = Pow2[Width] - b
      /\ Bits(mask) = k .. Width - 1
  BY <1>1, MaskIs
<1>6. Network(text.ip, mask) = n
  <2>1. ASSUME NEW j \in 0 .. Width - 1
        PROVE  Bit(n, j) = 1 <=> Bit(text.ip, j) = 1 /\ j >= k
    <3>1. Bit(n, j) = IF j < k THEN Bit(0, j) ELSE Bit(q, j - k)
      BY <1>1, <1>3, Composed
    <3>2. Bit(text.ip, j) = IF j < k THEN Bit(r, j) ELSE Bit(q, j - k)
      BY <1>1, <1>2, <1>3, Composed
    <3> QED
      BY <1>1, <3>1, <3>2, NoOnes
  <2>2. Bits(n) = Bits(text.ip) \cap Bits(mask)
    BY <1>1, <1>4, <1>5, <2>1, BitsOf
  <2> QED
    BY <1>4, <2>2, OfBitsIs DEF Network, BitAnd
<1>7. Unsigned(BitNot(mask)) = b - 1
  <2>1. BitNot(mask) = (Pow2[Width] * (-1)) + (b - 1)
    BY <1>1, <1>5, PowIsPositive DEF BitNot
  <2>2. b <= Pow2[Width] /\ Pow2[Width] \in Nat \ {0}
    BY <1>5, PowIsPositive, <1>1 DEF Addresses
  <2>3. b - 1 \in 0 .. Pow2[Width] - 1
    BY <1>1, <2>2
  <2> QED
    <3> DEFINE x == BitNot(mask)
               w == Pow2[Width]
               s == b - 1
    <3>1. x = (w * (-1)) + s /\ s \in 0 .. w - 1 /\ w \in Nat \ {0} /\ -1 \in Int
      BY <2>1, <2>2, <2>3
    <3> HIDE DEF x, w, s
    <3>2. x % w = s
      BY <3>1, Quotient
    <3> QED
      BY <3>2 DEF Unsigned, x, w, s
<1>8. b - 1 \in Addresses /\ Bits(b - 1) = 0 .. k - 1
  <2>1. 0 \in 0 .. Pow2[Width - k] - 1
    <3>1. Width - k \in 0 .. Width
      BY <1>1
    <3> QED
      BY <3>1, PowIsPositive
  <2>2. (b * 0) + (b - 1) \in Addresses /\ (b * 0) + (b - 1) = b - 1
    BY <1>1, <1>3, <2>1, Whole
  <2>3. ASSUME NEW j \in 0 .. Width - 1
        PROVE  Bit(b - 1, j) = 1 <=> j < k
    <3>1. Bit(b - 1, j) = IF j < k THEN Bit(b - 1, j) ELSE Bit(0, j - k)
      BY <1>1, <1>3, <2>2, Composed
    <3>2. j >= k => Bit(0, j - k) = 0
      BY <1>1, NoOnes
    <3>3. j < k => Bit(b - 1, j) = 1
      BY <1>1, AllOnes
    <3> QED
      BY <1>1, <3>1, <3>2, <3>3
  <2>4. Bits(b - 1) = {j \in 0 .. Width - 1 : Bit(b - 1, j) = 1}
    BY <2>2, BitsOf
  <2>5. \A j \in 0 .. Width - 1 : j \in Bits(b - 1) <=> j < k
    BY <2>3, <2>4
  <2>6. Bits(b - 1) = 0 .. k - 1
    <3> DEFINE ones == Bits(b - 1)
    <3>1. ones \subseteq 0 .. Width - 1 /\ \A j \in 0 .. Width - 1 : j \in ones <=> j < k
      BY <2>4, <2>5
    <3>2. k \in 0 .. Width /\ Width \in Nat /\ k \in Nat /\ k <= Width
      BY <1>1
    <3> HIDE DEF ones, b, mask, n, m
    <3>3. \A j : j \in ones <=> j \in 0 .. k - 1
      <4>1. ASSUME NEW j \in ones
            PROVE  j \in 0 .. k - 1
        BY <3>1, <3>2
      <4>2. ASSUME NEW j \in 0 .. k - 1
            PROVE  j \in ones
        BY <3>1, <3>2
      <4> QED
        BY <4>1, <4>2
    <3>4. ones = 0 .. k - 1
      BY <3>3
    <3> QED
      BY <3>4 DEF ones
  <2> QED
    BY <2>2, <2>6
<1>9. Unsigned(BitOr(n, b - 1)) = m
  <2>1. ASSUME NEW j \in 0 .. Width - 1
        PROVE  Bit(m, j) = 1 <=> Bit(n, j) = 1 \/ j < k
    <3>1. Bit(n, j) = IF j < k THEN Bit(0, j) ELSE Bit(q, j - k)
      BY <1>1, <1>3, Composed
    <3>2. Bit(m, j) = IF j < k THEN Bit(b - 1, j) ELSE Bit(q, j - k)
      BY <1>1, <1>3, Composed
    <3>3. j < k => Bit(b - 1, j) = 1
      BY <1>1, AllOnes
    <3> QED
      BY <1>1, <3>1, <3>2, <3>3
  <2>2. Bits(m) = Bits(n) \cup Bits(b - 1)
    BY <1>1, <1>4, <1>8, <2>1, BitsOf
  <2> QED
    BY <1>4, <2>2, OfBitsIs DEF BitOr
<1>10. /\ parseAddress(text).network = n
       /\ parseAddress(text).broadcast = m
  <2>1. text.prefix # NoSlash
    BY DEF NoSlash
  <2>2. parseAddress(text) =
          [ip |-> text.ip, network |-> Network(text.ip, mask),
           broadcast |-> Unsigned(BitOr(Network(text.ip, mask), Unsigned(BitNot(mask))))]
    BY <2>1, Zenon DEF parseAddress
  <2> HIDE DEF mask, n, m
  <2> QED
    BY <1>6, <1>7, <1>9, <2>2
<1>11. n = b * q
  BY <1>1, <1>3
<1> QED
  BY <1>10, <1>11 DEF k, q

-----------------------------------------------------------------------------
(***************************************************************************)
(* What Kept selects.                                                      *)
(***************************************************************************)
Matches(rule, managed) == isManagedLanPresenceRule(rule) <=> managed

\* The recursive function that Kept defines exists: the selection at 0 and after it.
LEMMA KeptStep ==
  ASSUME NEW rules, Len(rules) \in Nat, NEW managed
  PROVE  /\ Kept(rules, managed)[0] = <<>>
         /\ \A n \in 1 .. Len(rules) :
              /\ Matches(rules[n], managed) =>
                   Kept(rules, managed)[n] = Append(Kept(rules, managed)[n - 1], rules[n])
              /\ ~Matches(rules[n], managed) =>
                   Kept(rules, managed)[n] = Kept(rules, managed)[n - 1]
<1> DEFINE step(n, list) == IF Matches(rules[n], managed)
                            THEN Append(list, rules[n])
                            ELSE list
           Solves(f, m) == f = [n \in 0 .. m |-> IF n = 0 THEN <<>> ELSE step(n, f[n - 1])]
           P == {m \in 0 .. Len(rules) : \E f : Solves(f, m)}
<1> HIDE DEF step
<1>1. 0 \in P
  <2> DEFINE g == [n \in 0 .. 0 |-> <<>>]
  <2>1. Solves(g, 0)
    OBVIOUS
  <2> HIDE DEF g
  <2>2. \E f : Solves(f, 0)
    BY <2>1
  <2> QED
    BY <2>2
<1>2. ASSUME NEW m \in 1 .. Len(rules), m - 1 \in P
      PROVE  m \in P
  <2>1. PICK f : Solves(f, m - 1)
    BY <1>2
  <2> DEFINE g == [n \in 0 .. m |-> IF n = m THEN step(m, f[m - 1]) ELSE f[n]]
  <2>2. \A n \in 0 .. m - 1 : g[n] = f[n]
    OBVIOUS
  <2>3. ASSUME NEW n \in 0 .. m
        PROVE  g[n] = IF n = 0 THEN <<>> ELSE step(n, g[n - 1])
    <3>1. CASE n = 0
      BY <2>1, <2>2, <3>1
    <3>2. CASE n = m
      BY <2>2, <3>2
    <3>3. CASE n \in 1 .. m - 1
      BY <2>1, <2>2, <3>3
    <3> QED
      BY <3>1, <3>2, <3>3
  <2>4. Solves(g, m)
    <3> HIDE DEF g
    <3>1. g = [n \in 0 .. m |-> g[n]]
      BY DEF g
    <3> QED
      BY <2>3, <3>1
  <2>5. \E h : Solves(h, m)
    <3> HIDE DEF g
    <3> QED
      BY <2>4
  <2> QED
    BY <2>5
<1>3. 0 .. Len(rules) \subseteq P
  <2> HIDE DEF P
  <2> QED
    BY <1>1, <1>2, UpTo
<1>4. PICK f : Solves(f, Len(rules))
  BY <1>3
<1> DEFINE K == Kept(rules, managed)
<1>5. Solves(K, Len(rules))
  BY <1>4, Zenon DEF Kept, step, Matches
<1>6. /\ K[0] = <<>>
      /\ \A n \in 1 .. Len(rules) : K[n] = step(n, K[n - 1])
  <2> HIDE DEF K
  <2> QED
    BY <1>5
<1> QED
  BY <1>6 DEF step

\* The same at one index.
LEMMA KeptAt ==
  ASSUME NEW rules, Len(rules) \in Nat, NEW managed, NEW n \in 1 .. Len(rules)
  PROVE  /\ Matches(rules[n], managed) =>
              Kept(rules, managed)[n] = Append(Kept(rules, managed)[n - 1], rules[n])
         /\ ~Matches(rules[n], managed) =>
              Kept(rules, managed)[n] = Kept(rules, managed)[n - 1]
BY KeptStep, Zenon

\* It is a list of elements of the list.
LEMMA KeptIsList ==
  ASSUME NEW T, NEW rules \in Seq(T), NEW managed
  PROVE  \A n \in 0 .. Len(rules) : Kept(rules, managed)[n] \in Seq(T)
<1> DEFINE P == {n \in 0 .. Len(rules) : Kept(rules, managed)[n] \in Seq(T)}
<1>0. Len(rules) \in Nat
  OBVIOUS
<1>1. 0 \in P
  <2>1. Kept(rules, managed)[0] = <<>>
    BY <1>0, KeptStep
  <2>2. <<>> \in Seq(T) /\ 0 \in 0 .. Len(rules)
    BY <1>0
  <2> QED
    BY <2>1, <2>2, Zenon
<1>2. ASSUME NEW n \in 1 .. Len(rules), n - 1 \in P
      PROVE  n \in P
  <2>1. rules[n] \in T /\ n \in 0 .. Len(rules) /\ Kept(rules, managed)[n - 1] \in Seq(T)
    BY <1>2
  <2>2. Append(Kept(rules, managed)[n - 1], rules[n]) \in Seq(T)
    BY <2>1
  <2> QED
    BY <1>0, <2>1, <2>2, KeptStep
<1> HIDE DEF P
<1>3. 0 .. Len(rules) \subseteq P
  BY <1>0, <1>1, <1>2, UpTo
<1> QED
  BY <1>3 DEF P

\* It depends on the flows up to that index only.
Agree(r, s, m) ==
  /\ Len(r) \in Nat /\ Len(s) \in Nat /\ m \in 0 .. Len(r) /\ m \in 0 .. Len(s)
  /\ \A i \in 1 .. m : r[i] = s[i]

LEMMA KeptOfPrefix ==
  ASSUME NEW r, NEW s, NEW m, NEW managed, Agree(r, s, m)
  PROVE  Kept(r, managed)[m] = Kept(s, managed)[m]
<1> USE DEF Agree
<1> DEFINE P == {n \in 0 .. m : Kept(r, managed)[n] = Kept(s, managed)[n]}
<1>1. 0 \in P
  BY KeptStep
<1>2. ASSUME NEW n \in 1 .. m, n - 1 \in P
      PROVE  n \in P
  <2>1. n \in 1 .. Len(r) /\ n \in 1 .. Len(s) /\ r[n] = s[n] /\ n \in 0 .. m
    OBVIOUS
  <2>2. Kept(r, managed)[n - 1] = Kept(s, managed)[n - 1]
    BY <1>2
  <2>3. Kept(r, managed)[n] = Kept(s, managed)[n]
    <3>1. CASE Matches(r[n], managed)
      <4>1. Kept(r, managed)[n] = Append(Kept(r, managed)[n - 1], r[n])
        BY <2>1, <3>1, KeptAt, Zenon
      <4>2. Kept(s, managed)[n] = Append(Kept(s, managed)[n - 1], s[n])
        BY <2>1, <3>1, KeptAt, Zenon
      <4> QED
        BY <2>1, <2>2, <4>1, <4>2, Zenon
    <3>2. CASE ~Matches(r[n], managed)
      <4>1. Kept(r, managed)[n] = Kept(r, managed)[n - 1]
        BY <2>1, <3>2, KeptAt, Zenon
      <4>2. Kept(s, managed)[n] = Kept(s, managed)[n - 1]
        BY <2>1, <3>2, KeptAt, Zenon
      <4> QED
        BY <2>1, <2>2, <4>1, <4>2, Zenon
    <3> QED
      BY <3>1, <3>2
  <2> QED
    BY <2>1, <2>3
<1> HIDE DEF P
<1>3. 0 .. m \subseteq P
  <2>1. m \in Nat
    OBVIOUS
  <2> QED
    BY <1>1, <1>2, <2>1, UpTo
<1>4. m \in P
  BY <1>3
<1> QED
  BY <1>4 DEF P

\* A flow put at the end is selected last, or not at all.
LEMMA KeptOfAppend ==
  ASSUME NEW T, NEW rules \in Seq(T), NEW e \in T, NEW managed
  PROVE  /\ Matches(e, managed) =>
              Kept(Append(rules, e), managed)[Len(rules) + 1] =
                Append(Kept(rules, managed)[Len(rules)], e)
         /\ ~Matches(e, managed) =>
              Kept(Append(rules, e), managed)[Len(rules) + 1] = Kept(rules, managed)[Len(rules)]
<1> DEFINE more == Append(rules, e)
           n    == Len(rules) + 1
<1>1. Agree(more, rules, Len(rules))
  BY DEF Agree
<1>2. Len(more) \in Nat /\ n \in 1 .. Len(more)
  OBVIOUS
<1>3. more[n] = e /\ n - 1 = Len(rules)
  OBVIOUS
<1> HIDE DEF more, n
<1>4. Kept(more, managed)[Len(rules)] = Kept(rules, managed)[Len(rules)]
  BY <1>1, KeptOfPrefix
<1>5. /\ Matches(more[n], managed) =>
           Kept(more, managed)[n] = Append(Kept(more, managed)[n - 1], more[n])
      /\ ~Matches(more[n], managed) => Kept(more, managed)[n] = Kept(more, managed)[n - 1]
  BY <1>2, KeptAt, Zenon
<1>6. /\ Matches(e, managed) =>
           Kept(more, managed)[n] = Append(Kept(rules, managed)[Len(rules)], e)
      /\ ~Matches(e, managed) => Kept(more, managed)[n] = Kept(rules, managed)[Len(rules)]
  BY <1>3, <1>4, <1>5, Zenon
<1> QED
  BY <1>6, Zenon DEF more, n

\* Removing a flow that is not selected leaves the selection alone.
LEMMA Removed ==
  ASSUME NEW T, NEW s \in Seq(T), NEW i \in DOMAIN s
  PROVE  /\ RemoveAt(s, i) \in Seq(T)
         /\ Len(RemoveAt(s, i)) = Len(s) - 1
         /\ \A j \in 1 .. Len(s) - 1 : RemoveAt(s, i)[j] = IF j < i THEN s[j] ELSE s[j + 1]
<1>1. i \in 1 .. Len(s) /\ Len(s) \in Nat
  OBVIOUS
<1>2. /\ SubSeq(s, 1, i - 1) \in Seq(T)
      /\ Len(SubSeq(s, 1, i - 1)) = i - 1
      /\ \A j \in 1 .. i - 1 : SubSeq(s, 1, i - 1)[j] = s[j]
  BY <1>1
<1>3. /\ SubSeq(s, i + 1, Len(s)) \in Seq(T)
      /\ Len(SubSeq(s, i + 1, Len(s))) = Len(s) - i
      /\ \A j \in 1 .. Len(s) - i : SubSeq(s, i + 1, Len(s))[j] = s[i + j]
  BY <1>1
<1> DEFINE a == SubSeq(s, 1, i - 1)
           b == SubSeq(s, i + 1, Len(s))
<1> HIDE DEF a, b
<1>4. /\ a \o b \in Seq(T) /\ Len(a \o b) = Len(a) + Len(b)
      /\ \A j \in 1 .. Len(a) + Len(b) : (a \o b)[j] = IF j <= Len(a) THEN a[j] ELSE b[j - Len(a)]
  <2>1. a \in Seq(T) /\ b \in Seq(T)
    BY <1>2, <1>3 DEF a, b
  <2> QED
    BY <2>1, ConcatProperties
<1>5. /\ Len(a) = i - 1 /\ \A j \in 1 .. i - 1 : a[j] = s[j]
      /\ Len(b) = Len(s) - i /\ \A j \in 1 .. Len(s) - i : b[j] = s[i + j]
  BY <1>2, <1>3 DEF a, b
<1>6. ASSUME NEW j \in 1 .. Len(s) - 1
      PROVE  (a \o b)[j] = IF j < i THEN s[j] ELSE s[j + 1]
  <2>1. j \in 1 .. Len(a) + Len(b) /\ j \in Int
    BY <1>1, <1>5
  <2>2. CASE j < i
    <3>1. j <= Len(a) /\ j \in 1 .. i - 1
      BY <1>1, <1>5, <2>1, <2>2
    <3>2. (a \o b)[j] = a[j]
      BY <1>4, <2>1, <3>1
    <3> QED
      BY <1>5, <2>2, <3>1, <3>2
  <2>3. CASE ~(j < i)
    <3>0. Len(a) = i - 1 /\ Len(b) = Len(s) - i
      BY <1>5
    <3>1. ~(j <= Len(a)) /\ j - Len(a) \in 1 .. Len(s) - i /\ i + (j - Len(a)) = j + 1
      <4>1. ~(j <= i - 1) /\ j <= Len(s) - 1 /\ j - (i - 1) \in Int
        BY <1>1, <2>1, <2>3
      <4>2. j - (i - 1) \in 1 .. Len(s) - i /\ i + (j - (i - 1)) = j + 1
        BY <1>1, <2>1, <2>3, <4>1
      <4> QED
        BY <3>0, <4>1, <4>2
    <3>2. (a \o b)[j] = b[j - Len(a)]
      BY <1>4, <2>1, <3>1
    <3>3. b[j - Len(a)] = s[j + 1]
      BY <1>5, <3>1
    <3> QED
      BY <2>3, <3>2, <3>3
  <2> QED
    BY <2>2, <2>3
<1>7. RemoveAt(s, i) = a \o b
  BY DEF RemoveAt, a, b
<1>8. Len(a \o b) = Len(s) - 1
  BY <1>1, <1>4, <1>5
<1> QED
  BY <1>4, <1>6, <1>7, <1>8

LEMMA KeptOfRemoved ==
  ASSUME NEW T, NEW s \in Seq(T), NEW managed, NEW i \in DOMAIN s, ~Matches(s[i], managed)
  PROVE  Kept(RemoveAt(s, i), managed)[Len(s) - 1] = Kept(s, managed)[Len(s)]
<1> DEFINE r == RemoveAt(s, i)
           P == {n \in 0 .. Len(s) : n >= i => Kept(r, managed)[n - 1] = Kept(s, managed)[n]}
<1>1. /\ r \in Seq(T) /\ Len(r) = Len(s) - 1
      /\ \A j \in 1 .. Len(s) - 1 : r[j] = IF j < i THEN s[j] ELSE s[j + 1]
  BY Removed
<1>2. Len(r) \in Nat /\ Len(s) \in Nat /\ i \in 1 .. Len(s)
  <2> HIDE DEF r
  <2> QED
    BY <1>1
<1> HIDE DEF r
<1>3. 0 \in P
  BY <1>2
<1>4. ASSUME NEW n \in 1 .. Len(s), n - 1 \in P
      PROVE  n \in P
  <2>1. CASE n < i
    BY <2>1, <1>2
  <2>2. CASE n = i
    <3>1. Kept(r, managed)[i - 1] = Kept(s, managed)[i - 1]
      <4>1. Agree(r, s, i - 1)
        <5>1. i - 1 \in 0 .. Len(r) /\ i - 1 \in 0 .. Len(s)
          BY <1>1, <1>2
        <5>2. ASSUME NEW j \in 1 .. i - 1
              PROVE  r[j] = s[j]
          <6>1. j < i /\ j \in 1 .. Len(s) - 1
            BY <1>2
          <6> QED
            BY <1>1, <6>1
        <5> QED
          BY <1>2, <5>1, <5>2 DEF Agree
      <4> QED
        BY <4>1, KeptOfPrefix
    <3>2. Kept(s, managed)[i] = Kept(s, managed)[i - 1]
      BY <1>2, KeptAt, Zenon
    <3>3. Kept(r, managed)[n - 1] = Kept(s, managed)[n]
      BY <2>2, <3>1, <3>2, Zenon
    <3> QED
      BY <3>3
  <2>3. CASE n > i
    <3>1. n - 1 \in 1 .. Len(r) /\ r[n - 1] = s[n]
      BY <1>1, <1>2, <2>3
    <3>2. Kept(r, managed)[n - 1 - 1] = Kept(s, managed)[n - 1]
      BY <1>2, <1>4, <2>3
    <3>3. CASE Matches(s[n], managed)
      <4>1. Kept(r, managed)[n - 1] = Append(Kept(r, managed)[n - 1 - 1], r[n - 1])
        BY <1>2, <3>1, <3>3, KeptAt, Zenon
      <4>2. Kept(s, managed)[n] = Append(Kept(s, managed)[n - 1], s[n])
        BY <1>2, <3>3, KeptAt, Zenon
      <4>3. Kept(r, managed)[n - 1] = Kept(s, managed)[n]
        BY <3>1, <3>2, <4>1, <4>2, Zenon
      <4> QED
        BY <4>3
    <3>4. CASE ~Matches(s[n], managed)
      <4>0. ~Matches(r[n - 1], managed)
        BY <3>1, <3>4, Zenon
      <4>1. Kept(r, managed)[n - 1] = Kept(r, managed)[n - 1 - 1]
        BY <1>2, <3>1, <4>0, KeptAt
      <4>2. Kept(s, managed)[n] = Kept(s, managed)[n - 1]
        BY <1>2, <3>4, KeptAt, Zenon
      <4>3. Kept(r, managed)[n - 1] = Kept(s, managed)[n]
        BY <3>2, <4>1, <4>2, Zenon
      <4> QED
        BY <4>3
    <3> QED
      BY <3>3, <3>4
  <2> QED
    BY <1>2, <2>1, <2>2, <2>3
<1>5. 0 .. Len(s) \subseteq P
  <2> HIDE DEF P
  <2> QED
    BY <1>2, <1>3, <1>4, UpTo
<1>6. Len(s) \in P /\ Len(s) >= i
  BY <1>2, <1>5
<1> QED
  BY <1>6 DEF r

\* Without a flow to select, nothing is selected.
LEMMA KeptOfNone ==
  ASSUME NEW rules, Len(rules) \in Nat, NEW managed,
         \A i \in 1 .. Len(rules) : ~Matches(rules[i], managed)
  PROVE  Kept(rules, managed)[Len(rules)] = <<>>
<1> DEFINE P == {n \in 0 .. Len(rules) : Kept(rules, managed)[n] = <<>>}
<1>1. 0 \in P
  BY KeptStep
<1>2. ASSUME NEW n \in 1 .. Len(rules), n - 1 \in P
      PROVE  n \in P
  BY <1>2, KeptStep
<1> HIDE DEF P
<1>3. 0 .. Len(rules) \subseteq P
  BY <1>1, <1>2, UpTo
<1>4. Len(rules) \in P
  BY <1>3
<1> QED
  BY <1>4 DEF P

\* A list of whatever it holds.
IsList(s) == s \in Seq(ToSet(s))

\* What the provers need to know of a sequence to call it a list.
LEMMA ListFacts ==
  ASSUME NEW T, NEW s \in Seq(T)
  PROVE  /\ IsList(s) /\ Len(s) \in Nat /\ DOMAIN s = 1 .. Len(s)
         /\ IsList(<<>>)
<1>1. s \in Seq(ToSet(s))
  BY DEF ToSet
<1>2. <<>> \in Seq(ToSet(<<>>))
  OBVIOUS
<1> QED
  BY <1>1, <1>2 DEF IsList

\* Managed flows and the others are each other's complement.
LEMMA MatchesBoth ==
  ASSUME NEW r
  PROVE  /\ Matches(r, TRUE) <=> isManagedLanPresenceRule(r)
         /\ Matches(r, FALSE) <=> ~isManagedLanPresenceRule(r)
BY Zenon DEF Matches

-----------------------------------------------------------------------------
(***************************************************************************)
(* lanPresenceState, against the flows of the mapping it returns.          *)
(***************************************************************************)
\* A list without repetitions has as many values as indexes.
LEMMA Distinct ==
  ASSUME NEW n \in Nat, NEW f, f = [i \in 1 .. n |-> f[i]]
  PROVE  Cardinality({f[i] : i \in 1 .. n}) = n <=> \A i, j \in 1 .. n : f[i] = f[j] => i = j
<1> DEFINE T == {f[i] : i \in 1 .. n}
<1>1. f \in Surjection(1 .. n, T)
  BY DEF Surjection
<1>2. IsFiniteSet(1 .. n) /\ Cardinality(1 .. n) = n
  BY FS_Interval
<1> HIDE DEF T
<1>3. Cardinality(T) = n <=> f \in Injection(1 .. n, T)
  BY <1>1, <1>2, FS_Surjection
<1>4. f \in Injection(1 .. n, T) <=> \A i, j \in 1 .. n : f[i] = f[j] => i = j
  BY <1>1 DEF Injection, IsInjective, Surjection
<1> QED
  BY <1>3, <1>4 DEF T

\* An address is common to all that are not blank.
LEMMA CommonText ==
  ASSUME NEW texts, Common(texts) # Blank
  PROVE  \A t \in texts : t = Common(texts)
<1>1. PICK t \in texts : texts = {t}
  BY Zenon DEF Common
<1>2. Common(texts) \in texts
  BY <1>1, Zenon DEF Common
<1> QED
  BY <1>1, <1>2

\* The validators of the panel refuse a blank.
LEMMA ValidTexts ==
  /\ ~validateSourceCIDR(Blank)
  /\ ~validatePresentedDestination(Blank)
BY DEF validateSourceCIDR, validatePresentedDestination, Parses, Blank

\* The flow r with other addresses, and with what only this plugin writes.
FlowLike(r, client, dest, name, dst, interface, disabled) ==
  [RuleName |-> name, Client |-> client, Protocol |-> r.Protocol,
   OriginalDst |-> dest, OriginalDstPort |-> r.OriginalDstPort,
   Dst |-> dst, DstPort |-> r.DstPort, DstInterface |-> interface, Disabled |-> disabled]

(***************************************************************************)
(* Whatever the list of flows, and however wide the addresses, the panel   *)
(* says "published" of exactly the lists it would write itself for the     *)
(* mapping it shows.                                                       *)
(***************************************************************************)
THEOREM OwnFlowsRecognized == question \in Questions => RecognizesItsOwn
<1> SUFFICES ASSUME question \in Questions, question.about = "list"
             PROVE  RecognizesItsOwn
  BY DEF RecognizesItsOwn
<1> DEFINE rules == question.rules
           S     == lanPresenceState(rules, CanaryIP)
           m     == Managed(rules)
           own   == lanPresenceRules(S)
<1>1. rules \in Seq(ToSet(rules)) /\ \A r \in ToSet(rules) : IsFlow(r)
  BY LanReferenceAssumption DEF Questions
<1>2. m \in Seq(ToSet(rules))
  <2>1. Len(rules) \in 0 .. Len(rules)
    BY <1>1
  <2> HIDE DEF rules
  <2> QED
    BY <1>1, <2>1, KeptIsList, Zenon DEF Managed
<1>3. \A i \in DOMAIN m : IsFlow(m[i])
  <2> HIDE DEF m, rules
  <2> QED
    BY <1>1, <1>2
<1>4. DOMAIN m = 1 .. Len(m) /\ Len(m) \in Nat
  <2> HIDE DEF m
  <2> QED
    BY <1>2
<1> DEFINE clients == {m[i].Client : i \in DOMAIN m} \ {Blank}
           dests   == {m[i].OriginalDst : i \in DOMAIN m} \ {Blank}
           ports   == {<<m[i].Protocol, m[i].OriginalDstPort>> : i \in DOMAIN m}
<1>5. /\ S.sourceCIDR = Common(clients) /\ S.presentedDestination = Common(dests)
      /\ S.canaryIP = CanaryIP
      /\ S.portMappings = [i \in DOMAIN m |-> RowOf(m[i])]
      /\ S.configured <=>
           /\ m # <<>>
           /\ validateSourceCIDR(S.sourceCIDR)
           /\ validatePresentedDestination(S.presentedDestination)
           /\ DistinctKeys(m)
           /\ \A i \in DOMAIN m : IsIntact(m[i], CanaryIP)
  BY Zenon DEF lanPresenceState
<1> HIDE DEF S, m, rules
<1>6. DistinctKeys(m) <=> Cardinality(ports) = Len(m)
  <2> DEFINE f == [i \in 1 .. Len(m) |-> <<m[i].Protocol, m[i].OriginalDstPort>>]
  <2>1. ports = {f[i] : i \in 1 .. Len(m)} /\ f = [i \in 1 .. Len(m) |-> f[i]]
    BY <1>4
  <2>2. DistinctKeys(m) <=> \A i, j \in 1 .. Len(m) : f[i] = f[j] => i = j
    BY <1>4 DEF DistinctKeys
  <2> HIDE DEF f, ports
  <2> QED
    BY <1>4, <2>1, <2>2, Distinct
<1> HIDE DEF ports
<1> DEFINE filled == [i \in DOMAIN m |-> Filled(m[i], S)]
           Valid  == validateSourceCIDR(S.sourceCIDR)
                       /\ validatePresentedDestination(S.presentedDestination)
<1>7. own = [i \in DOMAIN m |->
               FlowLike(m[i], S.sourceCIDR, S.presentedDestination,
                        RuleName(RowOf(m[i])), CanaryIP, "", FALSE)]
  BY <1>5 DEF lanPresenceRules, RowOf, Row, FlowLike
<1>8. ASSUME Valid, NEW i \in DOMAIN m
      PROVE  filled[i] = own[i] <=>
               /\ m[i].RuleName = RuleName(RowOf(m[i])) /\ m[i].Dst = CanaryIP
               /\ m[i].DstInterface = "" /\ ~m[i].Disabled
  <2>1. S.sourceCIDR # Blank /\ S.presentedDestination # Blank
    BY <1>8, ValidTexts
  <2>2. m[i].Client # Blank => m[i].Client = S.sourceCIDR
    <3>1. m[i].Client # Blank => m[i].Client \in clients
      OBVIOUS
    <3> HIDE DEF clients
    <3> QED
      BY <1>5, <2>1, <3>1, CommonText
  <2>3. m[i].OriginalDst # Blank => m[i].OriginalDst = S.presentedDestination
    <3>1. m[i].OriginalDst # Blank => m[i].OriginalDst \in dests
      OBVIOUS
    <3> HIDE DEF dests
    <3> QED
      BY <1>5, <2>1, <3>1, CommonText
  <2>4. IsFlow(m[i])
    BY <1>3
  <2>5. filled[i] = FlowLike(m[i], S.sourceCIDR, S.presentedDestination,
                             m[i].RuleName, m[i].Dst, m[i].DstInterface, m[i].Disabled)
    BY <2>2, <2>3, <2>4 DEF Filled, IsFlow, FlowLike
  <2>6. own[i] = FlowLike(m[i], S.sourceCIDR, S.presentedDestination,
                          RuleName(RowOf(m[i])), CanaryIP, "", FALSE)
    BY <1>7
  <2>7. m[i].Disabled \in BOOLEAN
    BY <2>4 DEF IsFlow
  <2>8. FlowLike(m[i], S.sourceCIDR, S.presentedDestination,
                 m[i].RuleName, m[i].Dst, m[i].DstInterface, m[i].Disabled)
          = FlowLike(m[i], S.sourceCIDR, S.presentedDestination,
                     RuleName(RowOf(m[i])), CanaryIP, "", FALSE)
        <=> /\ m[i].RuleName = RuleName(RowOf(m[i])) /\ m[i].Dst = CanaryIP
            /\ m[i].DstInterface = "" /\ ~m[i].Disabled
    BY <2>7 DEF FlowLike
  <2> HIDE DEF filled, own
  <2> QED
    BY <2>5, <2>6, <2>8
<1>9. Valid => (filled = own <=>
                  \A i \in DOMAIN m : /\ m[i].RuleName = RuleName(RowOf(m[i]))
                                      /\ m[i].Dst = CanaryIP
                                      /\ m[i].DstInterface = "" /\ ~m[i].Disabled)
  <2>1. filled = own <=> \A i \in DOMAIN m : filled[i] = own[i]
    BY <1>7
  <2> HIDE DEF filled, own, Valid
  <2> QED
    BY <1>8, <2>1
<1>10. S.configured <=>
         /\ m # <<>> /\ filled = own /\ Valid
         /\ Cardinality(ports) = Len(m)
         /\ \A i \in DOMAIN m : /\ m[i].Protocol \in {"tcp", "udp"}
                                /\ validatePort(m[i].OriginalDstPort)
                                /\ validatePort(m[i].DstPort)
  <2> HIDE DEF filled, own
  <2> QED
    BY <1>5, <1>6, <1>9 DEF IsIntact
<1> QED
  BY <1>10, Zenon DEF RecognizesItsOwn, S, m, rules, ports
-----------------------------------------------------------------------------
(***************************************************************************)
(* Ranges and conflicts, against sets of addresses and ports.              *)
(***************************************************************************)
LEMMA ParsedIsAddress ==
  ASSUME NEW text, IsText(text)
  PROVE  /\ Parses(text, FALSE) => IsAddress(text)
         /\ Parses(text, TRUE) => IsAddress(text) /\ text.prefix # NoSlash
BY LanRulesAssumption DEF IsText, IsAddress, Parses, NoSlash, Malformed

\* What PFW holds of an address is read; as a source only with a prefix.
LEMMA AddressIsParsed ==
  ASSUME NEW text, IsAddress(text)
  PROVE  /\ text # Blank
         /\ Parses(text, FALSE)
         /\ Parses(text, TRUE) <=> text.prefix # NoSlash
BY LanRulesAssumption DEF IsAddress, Addresses, Parses, NoSlash, Malformed, Blank

\* The range of an address text: where it starts, where it ends, all in between.
LEMMA RangeOf ==
  ASSUME NEW text, IsAddress(text)
  PROVE  /\ parseAddress(text).network \in Addresses
         /\ parseAddress(text).broadcast \in Addresses
         /\ parseAddress(text).network <= parseAddress(text).broadcast
         /\ parseAddress(text).network .. parseAddress(text).broadcast = AddressesOf(text)
<1> DEFINE range == parseAddress(text)
<1>1. CASE text.prefix = NoSlash
  <2>1. text.ip \in Addresses
    BY DEF IsAddress
  <2>2. range.network = text.ip /\ range.broadcast = text.ip
    BY <1>1, Zenon DEF parseAddress
  <2>3. AddressesOf(text) = {text.ip}
    BY <1>1 DEF AddressesOf
  <2> HIDE DEF range
  <2>4. /\ range.network \in Addresses /\ range.broadcast \in Addresses
        /\ range.network <= range.broadcast
        /\ range.network .. range.broadcast = AddressesOf(text)
    BY <2>1, <2>2, <2>3 DEF Addresses
  <2> QED
    BY <2>4, Zenon DEF range
<1>2. CASE text.prefix # NoSlash
  <2> DEFINE k == Hosts(text)
             b == Pow2[k]
             q == text.ip \div b
  <2>1. /\ text.ip \in Addresses /\ text.prefix \in 0 .. Width
        /\ k \in 0 .. Width /\ b \in Nat \ {0}
    BY <1>2, PowIsPositive, LanRulesAssumption DEF IsAddress, Hosts
  <2>2. range.network = b * q /\ range.broadcast = (b * q) + (b - 1)
    BY <2>1, RangeIs
  <2>3. q \in 0 .. Pow2[Width - k] - 1
    BY <2>1, Halves
  <2>4. AddressesOf(text) = {a \in Addresses : a \div b = q}
    BY <1>2, Zenon DEF AddressesOf, Hosts
  <2> HIDE DEF k, b, q, range
  <2>5. \A r \in 0 .. b - 1 : (b * q) + r \in Addresses /\ ((b * q) + r) \div b = q
    BY <2>1, <2>3, Whole DEF b
  <2>6. q \in Nat /\ b * q \in Nat
    <3>1. q \in Nat
      BY <2>3
    <3> QED
      BY <2>1, <3>1
  <2>7. ASSUME NEW a \in Addresses, a \div b = q
        PROVE  a \in b * q .. (b * q) + (b - 1)
    <3>1. a \in Int /\ a % b \in 0 .. b - 1 /\ a = (b * (a \div b)) + (a % b)
      BY <2>1 DEF Addresses
    <3> QED
      BY <2>1, <2>6, <2>7, <3>1
  <2>8. ASSUME NEW a \in b * q .. (b * q) + (b - 1)
        PROVE  a \in Addresses /\ a \div b = q
    <3>1. a - (b * q) \in 0 .. b - 1 /\ a = (b * q) + (a - (b * q))
      BY <2>1, <2>6
    <3> QED
      BY <2>5, <3>1
  <2>9. b * q .. (b * q) + (b - 1) = AddressesOf(text)
    BY <2>4, <2>7, <2>8
  <2>10. b * q \in Addresses /\ (b * q) + (b - 1) \in Addresses /\ b * q <= (b * q) + (b - 1)
    <3>1. 0 \in 0 .. b - 1 /\ b - 1 \in 0 .. b - 1 /\ (b * q) + 0 = b * q
      BY <2>1, <2>6
    <3>2. (b * q) + 0 \in Addresses /\ (b * q) + (b - 1) \in Addresses
      BY <2>5, <3>1
    <3> QED
      BY <2>1, <2>6, <3>1, <3>2
  <2>11. /\ range.network \in Addresses /\ range.broadcast \in Addresses
         /\ range.network <= range.broadcast
         /\ range.network .. range.broadcast = AddressesOf(text)
    BY <2>2, <2>9, <2>10
  <2> QED
    BY <2>11, Zenon DEF range
<1> QED
  BY <1>1, <1>2

\* Two ranges meet exactly if neither ends before the other begins.
LEMMA OverlapIs ==
  ASSUME NEW l, IsAddress(l), NEW r, IsAddress(r)
  PROVE  rangesOverlap(parseAddress(l), parseAddress(r)) <=>
           AddressesOf(l) \cap AddressesOf(r) # {}
<1> DEFINE a == parseAddress(l).network
           b == parseAddress(l).broadcast
           c == parseAddress(r).network
           d == parseAddress(r).broadcast
<1>1. /\ a \in Addresses /\ b \in Addresses /\ a <= b /\ a .. b = AddressesOf(l)
      /\ c \in Addresses /\ d \in Addresses /\ c <= d /\ c .. d = AddressesOf(r)
  BY RangeOf
<1>2. rangesOverlap(parseAddress(l), parseAddress(r)) <=> a <= d /\ c <= b
  BY DEF rangesOverlap
<1> HIDE DEF a, b, c, d
<1>3. a \in Int /\ b \in Int /\ c \in Int /\ d \in Int
  BY <1>1 DEF Addresses
<1>4. a <= d /\ c <= b <=> (a .. b) \cap (c .. d) # {}
  <2>1. ASSUME a <= d, c <= b
        PROVE  (a .. b) \cap (c .. d) # {}
    <3>1. CASE a <= c
      BY <1>1, <1>3, <2>1, <3>1
    <3>2. CASE c <= a
      BY <1>1, <1>3, <2>1, <3>2
    <3> QED
      BY <1>3, <3>1, <3>2
  <2>2. ASSUME NEW x \in (a .. b) \cap (c .. d)
        PROVE  a <= d /\ c <= b
    BY <1>3
  <2> QED
    BY <2>1, <2>2
<1> QED
  BY <1>1, <1>2, <1>4

(***************************************************************************)
(* For addresses of any width, parseAddress and rangesOverlap, which work  *)
(* with JavaScript's signed shifts, are what they must be over sets.       *)
(***************************************************************************)
THEOREM RangesExact == question \in Questions => RangesAreExact
<1> SUFFICES ASSUME question \in Questions, question.about = "ranges",
                    Parses(question.left, FALSE), Parses(question.right, FALSE)
             PROVE  RangesAreExact
  BY DEF RangesAreExact
<1> DEFINE l == question.left
           r == question.right
<1>1. l \in Texts /\ r \in Texts
  BY DEF Questions
<1>2. IsAddress(l) /\ IsAddress(r)
  BY <1>1, ParsedIsAddress, LanReferenceAssumption
<1> HIDE DEF l, r
<1>3. /\ parseAddress(l).network .. parseAddress(l).broadcast = AddressesOf(l)
      /\ rangesOverlap(parseAddress(l), parseAddress(r)) <=>
           AddressesOf(l) \cap AddressesOf(r) # {}
  BY <1>2, RangeOf, OverlapIs
<1> QED
  BY <1>3, Zenon DEF RangesAreExact, l, r

\* A port a validator accepted, against the ports of a flow.
LEMMA PortIncludes ==
  ASSUME NEW spec, spec \in Seq(Int), Len(spec) <= 2, \A i \in DOMAIN spec : spec[i] # NaN,
         NEW text, validatePort(text)
  PROVE  portSpecIncludes(spec, Number(text)) <=> PortsOf(spec) \cap PortsOf(text) # {}
<1>1. PICK n \in 1 .. PortLimit : text = <<n>>
  BY DEF validatePort
<1>2. n \in Int /\ Number(text) = n /\ PortsOf(text) = {n}
  BY <1>1, LanRulesAssumption DEF Number, PortsOf
<1>3. /\ Len(spec) \in 0 .. 2 /\ (spec = <<>> <=> Len(spec) = 0)
      /\ DOMAIN spec = 1 .. Len(spec) /\ \A i \in 1 .. Len(spec) : spec[i] \in Int \ {NaN}
  <2>1. /\ Len(spec) \in Nat /\ DOMAIN spec = 1 .. Len(spec)
        /\ \A i \in 1 .. Len(spec) : spec[i] \in Int
    BY LenProperties, ElementOfSeq, Zenon
  <2>2. spec = <<>> <=> Len(spec) = 0
    BY <2>1, EmptySeq
  <2> QED
    BY <2>1, <2>2
<1>4. portSpecIncludes(spec, n) <=> n \in PortsOf(spec)
  <2>1. CASE Len(spec) = 0
    BY <1>1, <1>3, <2>1 DEF portSpecIncludes, PortsOf
  <2>2. CASE Len(spec) = 1
    <3>1. spec # <<>> /\ PortsOf(spec) = {spec[1]} /\ Len(spec) # 2
      BY <1>3, <2>2 DEF PortsOf
    <3>2. spec = <<n>> <=> spec[1] = n
      <4>1. spec \in Seq(Int) /\ <<n>> \in Seq(Int) /\ Len(<<n>>) = 1 /\ <<n>>[1] = n
        BY <1>2
      <4> QED
        BY <1>3, <2>2, <4>1, SeqEqual
    <3> QED
      BY <1>3, <3>1, <3>2, Zenon DEF portSpecIncludes
  <2>3. CASE Len(spec) = 2
    <3>1. spec # <<>> /\ PortsOf(spec) = spec[1] .. spec[2] /\ spec # <<n>>
      BY <1>3, <2>3 DEF PortsOf
    <3>2. spec[1] \in Int /\ spec[2] \in Int
      BY <1>3, <2>3
    <3>3. ~ \E i \in DOMAIN spec : spec[i] = NaN
      BY <1>3
    <3>4. n \in PortsOf(spec) <=> spec[1] <= n /\ n <= spec[2]
      BY <1>2, <3>1, <3>2
    <3> QED
      BY <2>3, <3>1, <3>3, <3>4, Zenon DEF portSpecIncludes
  <2> QED
    BY <1>3, <2>1, <2>2, <2>3
<1> QED
  BY <1>2, <1>4

\* A range is not empty, so that a blank source, any address, meets it.
LEMMA Everywhere ==
  ASSUME NEW text, IsAddress(text)
  PROVE  AddressesOf(text) # {} /\ AddressesOf(text) \subseteq Addresses
<1>1. /\ parseAddress(text).network \in Addresses
      /\ parseAddress(text).network <= parseAddress(text).broadcast
      /\ parseAddress(text).broadcast \in Addresses
      /\ parseAddress(text).network .. parseAddress(text).broadcast = AddressesOf(text)
  BY RangeOf
<1> DEFINE a == parseAddress(text).network
           b == parseAddress(text).broadcast
<1> HIDE DEF a, b
<1>2. a \in Addresses /\ b \in Addresses /\ a <= b /\ a .. b = AddressesOf(text)
  BY <1>1 DEF a, b
<1>3. Pow2[Width] \in Nat
  BY LanRulesAssumption, PowIsPositive
<1>4. a \in a .. b /\ \A x \in a .. b : x \in Addresses
  BY <1>2, <1>3 DEF Addresses
<1> QED
  BY <1>2, <1>4

\* One flow of somebody else and one mapping: who blocks shares a packet.
LEMMA BlocksIs ==
  ASSUME NEW r \in Rules, NEW m \in Mappings, HasMeaning(r)
  PROVE  /\ ~r.Disabled /\ ShareAPacket(r, m) => Blocks(r, m)
         /\ Blocks(r, m) /\ (r.Client = Blank \/ r.Client.prefix # NoSlash)
              => ~r.Disabled /\ ShareAPacket(r, m)
<1> DEFINE Client == Parses(r.Client, TRUE) =>
                       rangesOverlap(parseAddress(m.sourceCIDR), parseAddress(r.Client))
           Sources == SourcesOf(r) \cap AddressesOf(m.sourceCIDR) # {}
           Rows == \E i \in DOMAIN m.portMappings :
                     /\ SameProtocol(r, m.portMappings[i])
                     /\ portSpecIncludes(r.OriginalDstPort,
                                         Number(m.portMappings[i].presentedPort))
           Ports == \E i \in DOMAIN m.portMappings :
                      /\ r.Protocol = m.portMappings[i].protocol
                      /\ PortsOf(r.OriginalDstPort)
                           \cap PortsOf(m.portMappings[i].presentedPort) # {}
           Dest == AddressesOf(r.OriginalDst) \cap AddressesOf(m.presentedDestination) # {}
<1>1. /\ IsAddress(m.sourceCIDR) /\ IsAddress(m.presentedDestination)
      /\ \A i \in DOMAIN m.portMappings : validatePort(m.portMappings[i].presentedPort)
  BY ParsedIsAddress, LanReferenceAssumption
     DEF validateSourceCIDR, validatePresentedDestination
<1>2. /\ IsAddress(r.OriginalDst) /\ (r.Client = Blank \/ IsAddress(r.Client))
      /\ r.OriginalDstPort \in Seq(Int) /\ ~isManagedLanPresenceRule(r)
  BY LanReferenceAssumption DEF HasMeaning
<1>3. Rows <=> Ports
  <2>1. \A i \in DOMAIN m.portMappings :
          portSpecIncludes(r.OriginalDstPort, Number(m.portMappings[i].presentedPort)) <=>
            PortsOf(r.OriginalDstPort) \cap PortsOf(m.portMappings[i].presentedPort) # {}
    BY <1>1, <1>2, PortIncludes DEF HasMeaning
  <2> QED
    BY <2>1, Zenon DEF SameProtocol
<1>4. Dest <=> /\ Parses(r.OriginalDst, FALSE)
               /\ rangesOverlap(parseAddress(m.presentedDestination),
                                parseAddress(r.OriginalDst))
  <2>1. Parses(r.OriginalDst, FALSE)
    BY <1>2, AddressIsParsed
  <2>2. rangesOverlap(parseAddress(m.presentedDestination), parseAddress(r.OriginalDst)) <=>
          AddressesOf(m.presentedDestination) \cap AddressesOf(r.OriginalDst) # {}
    BY <1>1, <1>2, OverlapIs
  <2> QED
    BY <2>1, <2>2
<1>5. Sources => Client
  <2> SUFFICES ASSUME Sources, Parses(r.Client, TRUE)
               PROVE  rangesOverlap(parseAddress(m.sourceCIDR), parseAddress(r.Client))
    OBVIOUS
  <2>1. r.Client # Blank
    BY DEF Parses, Blank
  <2>2. IsAddress(r.Client) /\ SourcesOf(r) = AddressesOf(r.Client)
    BY <1>2, <2>1 DEF SourcesOf
  <2>3. rangesOverlap(parseAddress(m.sourceCIDR), parseAddress(r.Client)) <=>
          AddressesOf(m.sourceCIDR) \cap AddressesOf(r.Client) # {}
    BY <1>1, <2>2, OverlapIs
  <2> QED
    BY <2>2, <2>3
<1>6. ASSUME Client, r.Client = Blank \/ r.Client.prefix # NoSlash
      PROVE  Sources
  <2>1. CASE r.Client = Blank
    BY <1>1, <2>1, Everywhere DEF SourcesOf
  <2>2. CASE r.Client # Blank
    <3>1. IsAddress(r.Client) /\ SourcesOf(r) = AddressesOf(r.Client)
      BY <1>2, <2>2 DEF SourcesOf
    <3>2. Parses(r.Client, TRUE)
      BY <1>6, <2>2, <3>1, AddressIsParsed
    <3>3. rangesOverlap(parseAddress(m.sourceCIDR), parseAddress(r.Client)) <=>
            AddressesOf(m.sourceCIDR) \cap AddressesOf(r.Client) # {}
      BY <1>1, <3>1, OverlapIs
    <3> QED
      BY <1>6, <3>1, <3>2, <3>3
  <2> QED
    BY <2>1, <2>2
<1>7. Blocks(r, m) <=> ~r.Disabled /\ Dest /\ Client /\ Rows
  <2> HIDE DEF Dest
  <2> QED
    BY <1>2, <1>4, Zenon DEF Blocks, SourceOverlaps
<1>8. ShareAPacket(r, m) <=> Sources /\ Dest /\ Ports
  BY Zenon DEF ShareAPacket
<1> HIDE DEF Client, Sources, Rows, Ports, Dest
<1> QED
  BY <1>3, <1>5, <1>6, <1>7, <1>8

\* A mapping the panel lets pass is read, so a conflict is one with some flow.
LEMMA ConflictWithOne ==
  ASSUME NEW r \in Rules, NEW m \in Mappings
  PROVE  hasLanPresenceConflict(<<r>>, m) <=> Blocks(r, m)
<1>1. Parses(m.sourceCIDR, TRUE) /\ Parses(m.presentedDestination, FALSE)
  BY LanReferenceAssumption DEF validateSourceCIDR, validatePresentedDestination
<1>2. DOMAIN <<r>> = {1} /\ <<r>>[1] = r
  OBVIOUS
<1> QED
  BY <1>1, <1>2 DEF hasLanPresenceConflict

(***************************************************************************)
(* hasLanPresenceConflict reports every active flow of somebody else that  *)
(* takes a packet of a mapping which passed the panel's validators.        *)
(***************************************************************************)
THEOREM ConflictsNotMissed == question \in Questions => NoConflictIsMissed
<1> SUFFICES ASSUME question \in Questions, question.about = "flow", HasMeaning(question.rule),
                    ~question.rule.Disabled, ShareAPacket(question.rule, question.mapping)
             PROVE  hasLanPresenceConflict(<<question.rule>>, question.mapping)
  BY DEF NoConflictIsMissed
<1>1. question.rule \in Rules /\ question.mapping \in Mappings
  BY DEF Questions
<1> QED
  BY <1>1, BlocksIs, ConflictWithOne

(***************************************************************************)
(* And it reports no other, unless the source of the flow is an address    *)
(* without a prefix, which the code takes for any source.                  *)
(***************************************************************************)
THEOREM ConflictsReal == question \in Questions => ConflictsAreReal
<1> SUFFICES ASSUME question \in Questions, question.about = "flow",
                    hasLanPresenceConflict(<<question.rule>>, question.mapping),
                    HasMeaning(question.rule),
                    question.rule.Client = Blank \/ question.rule.Client.prefix # NoSlash
             PROVE  ~question.rule.Disabled /\ ShareAPacket(question.rule, question.mapping)
  BY DEF ConflictsAreReal
<1>1. question.rule \in Rules /\ question.mapping \in Mappings
  BY DEF Questions
<1> QED
  BY <1>1, BlocksIs, ConflictWithOne

=============================================================================
