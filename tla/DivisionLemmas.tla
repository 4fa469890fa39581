--------------------------- MODULE DivisionLemmas ---------------------------
(***************************************************************************)
(* Facts about division and remainder that the proofs about pages, sectors,*)
(* dies and delays need, whose number is a parameter.                      *)
(***************************************************************************)
EXTENDS Integers, TLAPS

LEMMA DivMod ==
  ASSUME NEW x \in Nat, NEW p \in Nat \ {0}
  PROVE  x \div p \in Nat /\ x % p \in 0 .. p - 1 /\ x = p * (x \div p) + (x % p)
BY SMT

\* Less than a modulus away from 0 there is no multiple but 0.
LEMMA NoMultiple ==
  ASSUME NEW p \in Nat \ {0}, NEW m \in Int, -p < p * m, p * m < p
  PROVE  m = 0
<1>1. CASE m >= 1
  <2>1. p * m >= p
    BY <1>1, SMT
  <2> QED BY <2>1, SMT
<1>2. CASE m <= -1
  <2>1. p * m <= -p
    BY <1>2, SMT
  <2> QED BY <2>1, SMT
<1> QED BY <1>1, <1>2

LEMMA Distributes ==
  ASSUME NEW a \in Int, NEW b \in Int, NEW c \in Int
  PROVE  a * (b - c) = a * b - c * a
BY SMT

\* A number of whole units added leaves the place in the unit.
LEMMA ModShift ==
  ASSUME NEW x \in Nat, NEW d \in Nat, NEW p \in Nat \ {0}, d % p = 0
  PROVE  (x + d) % p = x % p
<1> DEFINE m == ((x + d) \div p) - (x \div p) - (d \div p)
<1>1. x = p * (x \div p) + (x % p) /\ x % p \in 0 .. p - 1 /\ x \div p \in Nat
  BY DivMod
<1>2. x + d \in Nat
  OBVIOUS
<1>3. /\ x + d = p * ((x + d) \div p) + ((x + d) % p)
      /\ (x + d) % p \in 0 .. p - 1 /\ (x + d) \div p \in Nat
  BY <1>2, DivMod
<1>4. d = p * (d \div p) /\ d \div p \in Nat
  BY DivMod
<1>5. m \in Int /\ p * m = (x % p) - ((x + d) % p)
  BY <1>1, <1>3, <1>4, SMT
<1>6. m = 0
  <2> HIDE DEF m
  <2> QED BY <1>1, <1>3, <1>5, NoMultiple, SMT
<1> QED BY <1>5, <1>6, <1>1, <1>3, SMT

LEMMA NextMultiple ==
  ASSUME NEW p \in Nat \ {0}, NEW x \in Nat, NEW y \in Nat, x % p = 0, y % p = 0, x < y
  PROVE  x + p <= y /\ (x + p) % p = 0
<1> DEFINE m == (y \div p) - (x \div p)
<1>1. x = p * (x \div p) /\ x \div p \in Nat
  BY DivMod
<1>2. y = p * (y \div p) /\ y \div p \in Nat
  BY DivMod
<1>3. m \in Int /\ p * m = y - x
  <2>1. p * m = p * (y \div p) - (x \div p) * p
    BY <1>1, <1>2, Distributes
  <2>2. (x \div p) * p = x
    BY <1>1, SMT
  <2> QED BY <2>1, <2>2, <1>1, <1>2
<1>4. p * m >= p
  <2> HIDE DEF m
  <2>1. m >= 1
    <3>1. CASE m <= 0
      <4>1. p * m <= 0
        BY <3>1, <1>3, SMT
      <4> QED BY <4>1, <1>3
    <3> QED BY <3>1, <1>3
  <2> QED BY <2>1, <1>3, SMT
<1>5. p % p = 0
  BY SMT
<1>6. (x + p) % p = x % p
  BY <1>5, ModShift
<1> QED BY <1>3, <1>4, <1>6

\* The numbers with the quotient of a multiple are those from it on.
LEMMA SameQuotient ==
  ASSUME NEW p \in Nat \ {0}, NEW a \in Nat, NEW b \in Nat, a % p = 0
  PROVE  b \div p = a \div p <=> a <= b /\ b < a + p
<1> DEFINE m == (b \div p) - (a \div p)
<1>1. a = p * (a \div p) /\ a \div p \in Nat
  BY DivMod
<1>2. b = p * (b \div p) + (b % p) /\ b % p \in 0 .. p - 1 /\ b \div p \in Nat
  BY DivMod
<1>3. m \in Int /\ p * m = (b - (b % p)) - a
  <2>1. p * m = p * (b \div p) - (a \div p) * p
    BY <1>1, <1>2, Distributes
  <2>2. (a \div p) * p = a
    BY <1>1, SMT
  <2> QED BY <2>1, <2>2, <1>1, <1>2
<1>4. ASSUME a <= b, b < a + p
      PROVE  m = 0
  <2>1. -p < p * m /\ p * m < p
    BY <1>2, <1>3, <1>4
  <2> HIDE DEF m
  <2> QED BY <2>1, <1>3, NoMultiple
<1>5. ASSUME m = 0
      PROVE  a <= b /\ b < a + p
  <2>1. p * m = 0
    BY <1>5, SMT
  <2> QED BY <2>1, <1>2, <1>3
<1>6. m = 0 <=> b \div p = a \div p
  BY <1>1, <1>2
<1> QED BY <1>4, <1>5, <1>6

\* A sum below twice the modulus.
LEMMA ModSum ==
  ASSUME NEW n \in Nat \ {0}, NEW x \in 0 .. 2 * n - 1
  PROVE  x % n = IF x < n THEN x ELSE x - n
<1>1. CASE x < n
  BY <1>1, SMT
<1>2. CASE ~(x < n)
  BY <1>2, SMT
<1> QED BY <1>1, <1>2

LEMMA ModSmall ==
  ASSUME NEW n \in Nat \ {0}, NEW x \in 0 .. n - 1
  PROVE  x = (x + 0) % n
BY ModSum

\* A product is compared by its other factor.
LEMMA FactorBelow ==
  ASSUME NEW p \in Nat \ {0}, NEW a \in Int, NEW b \in Int, p * a < p * b + p
  PROVE  a <= b
<1> SUFFICES ASSUME a >= b + 1 PROVE FALSE
  OBVIOUS
<1>1. p * (a - b - 1) >= 0
  OBVIOUS
<1>2. p * (a - b - 1) = p * a - p * b - p
  OBVIOUS
<1> QED BY <1>1, <1>2

\* Division keeps the order.
LEMMA DivMonotone ==
  ASSUME NEW p \in Nat \ {0}, NEW x \in Nat, NEW y \in Nat, x <= y
  PROVE  x \div p <= y \div p
<1>1. x = p * (x \div p) + (x % p) /\ y = p * (y \div p) + (y % p)
  BY DivMod
<1>2. x % p >= 0 /\ y % p < p /\ x % p \in Int /\ y % p \in Int /\ x \div p \in Int /\ y \div p \in Int
  BY DivMod
<1>3. p * (x \div p) \in Int /\ p * (y \div p) \in Int
  BY <1>2
<1>4. p * (x \div p) < p * (y \div p) + p
  BY <1>1, <1>2, <1>3
<1> QED BY <1>2, <1>4, FactorBelow

\* Quotient and remainder are what they are told by.
LEMMA DivModUnique ==
  ASSUME NEW p \in Nat \ {0}, NEW q \in Nat, NEW r \in 0 .. p - 1
  PROVE  (p * q + r) % p = r /\ (p * q + r) \div p = q
<1>0. PICK z : z = p * q
  OBVIOUS
<1>1. z \in Nat /\ z + r \in Nat
  BY <1>0
<1>2. PICK d : d = (z + r) \div p
  OBVIOUS
<1>3. PICK e : e = (z + r) % p
  OBVIOUS
<1>4. d \in Nat /\ e \in 0 .. p - 1 /\ z + r = p * d + e
  BY <1>1, <1>2, <1>3, DivMod
<1>5. p * (d - q) = p * d - z
  BY <1>0, <1>4
<1>6. p * d \in Int
  BY <1>4
<1>7. -p < p * (d - q) /\ p * (d - q) < p
  BY <1>1, <1>4, <1>5, <1>6
<1>8. d - q = 0
  BY <1>4, <1>7, NoMultiple
<1>9. d = q
  BY <1>4, <1>8
<1> QED BY <1>0, <1>2, <1>3, <1>4, <1>5, <1>6, <1>9

\* The successor of a remainder.
LEMMA ModNext ==
  ASSUME NEW p \in Nat \ {0}, NEW x \in Nat
  PROVE  (x + 1) % p = IF (x % p) + 1 < p THEN (x % p) + 1 ELSE 0
<1>0. PICK q : q = x \div p
  OBVIOUS
<1>1. PICK r : r = x % p
  OBVIOUS
<1>2. q \in Nat /\ r \in 0 .. p - 1 /\ x = p * q + r
  BY <1>0, <1>1, DivMod
<1>3. CASE r + 1 < p
  <2>0. r + 1 \in 0 .. p - 1
    BY <1>2, <1>3
  <2>1. (p * q + (r + 1)) % p = r + 1
    BY <1>2, <2>0, DivModUnique
  <2>2. p * q + (r + 1) = x + 1
    BY <1>2
  <2> QED BY <1>1, <1>3, <2>1, <2>2
<1>4. CASE ~(r + 1 < p)
  <2>1. (p * (q + 1) + 0) % p = 0
    BY <1>2, DivModUnique
  <2>2. p * (q + 1) = p * q + p
    BY <1>2
  <2>3. p * (q + 1) + 0 = x + 1
    BY <1>2, <1>4, <2>2
  <2> QED BY <1>1, <1>4, <2>1, <2>3
<1> QED BY <1>3, <1>4
=============================================================================
