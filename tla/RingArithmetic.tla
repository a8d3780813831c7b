--------------------------- MODULE RingArithmetic ---------------------------
(***************************************************************************)
(* Facts about division with remainder by the length L of a ring.          *)
(***************************************************************************)
EXTENDS Integers, TLAPS

(* Quotient and remainder put a number together again.                     *)
LEMMA DivMod ==
  ASSUME NEW L \in Nat \ {0}, NEW n \in Nat
  PROVE  /\ n % L \in 0 .. L - 1
         /\ n \div L \in Nat
         /\ n = (L * (n \div L)) + (n % L)
OBVIOUS

(* Quotient and remainder are determined by that equation.                 *)
LEMMA DivModUnique ==
  ASSUME NEW L \in Nat \ {0}, NEW n \in Nat, NEW k \in Nat, NEW r \in 0 .. L - 1,
         n = (L * k) + r
  PROVE  n % L = r /\ n \div L = k
OBVIOUS

(* Going one step round the ring from the slot of n leads to the slot of   *)
(* n + 1.                                                                  *)
LEMMA ModSucc ==
  ASSUME NEW L \in Nat \ {0}, NEW n \in Nat
  PROVE  ((n % L) + 1) % L = (n + 1) % L
<1> DEFINE k == n \div L
           r == n % L
<1>1. k \in Nat /\ r \in 0 .. L - 1 /\ n = (L * k) + r
  BY DivMod
<1> HIDE DEF k, r
<1>2. CASE r = L - 1
  <2>1. n + 1 = (L * (k + 1)) + 0
    BY <1>1, <1>2
  <2>2. (n + 1) % L = 0
    BY <2>1, <1>1, DivModUnique
  <2>3. (r + 1) % L = 0
    BY <1>2, <1>1
  <2> QED
    BY <2>2, <2>3 DEF r
<1>3. CASE r # L - 1
  <2>1. n + 1 = (L * k) + (r + 1) /\ r + 1 \in 0 .. L - 1
    BY <1>1, <1>3
  <2>2. (n + 1) % L = r + 1
    BY <2>1, <1>1, DivModUnique
  <2>3. (r + 1) % L = r + 1
    BY <2>1
  <2> QED
    BY <2>2, <2>3 DEF r
<1> QED
  BY <1>2, <1>3

(* Going any number of slots round the ring from the slot of n leads to    *)
(* the slot of n + j.                                                      *)
LEMMA ModAdd ==
  ASSUME NEW L \in Nat \ {0}, NEW n \in Nat, NEW j \in Nat
  PROVE  ((n % L) + j) % L = (n + j) % L
<1> DEFINE k == n \div L
           r == n % L
           y == r + j
           q == y \div L
           x == y % L
<1>1. k \in Nat /\ r \in 0 .. L - 1 /\ n = (L * k) + r
  BY DivMod
<1> HIDE DEF k, r
<1>2. y \in Nat /\ y = r + j
  BY <1>1
<1> HIDE DEF y
<1>3. q \in Nat /\ x \in 0 .. L - 1 /\ y = (L * q) + x
  BY <1>2, DivMod
<1> HIDE DEF q, x
<1>4. (L * k) + (L * q) = L * (k + q) /\ k + q \in Nat
  BY <1>1, <1>3
<1>5. n + j = (L * (k + q)) + x /\ n + j \in Nat
  BY <1>1, <1>2, <1>3, <1>4
<1>6. (n + j) % L = x
  BY <1>3, <1>4, <1>5, DivModUnique
<1> QED
  BY <1>6 DEF x, y, r

(* Numbers less than one round apart have different slots.                 *)
LEMMA ModDistinct ==
  ASSUME NEW L \in Nat \ {0}, NEW m \in Nat, NEW n \in Nat, m < n, n < m + L
  PROVE  m % L # n % L
<1> DEFINE k == m \div L
           r == m % L
<1>1. k \in Nat /\ r \in 0 .. L - 1 /\ m = (L * k) + r
  BY DivMod
<1> HIDE DEF k, r
<1> DEFINE j == n - m
<1>2. j \in 1 .. L - 1 /\ n = m + j
  OBVIOUS
<1> HIDE DEF j
<1>3. CASE r + j < L
  <2> DEFINE s == r + j
  <2>1. n = (L * k) + s /\ s \in 0 .. L - 1 /\ s # r
    BY <1>1, <1>2, <1>3
  <2> HIDE DEF s
  <2>2. n % L = s
    BY <2>1, <1>1, DivModUnique
  <2> QED
    BY <2>1, <2>2 DEF r
<1>4. CASE r + j >= L
  <2> DEFINE s == r + j - L
             h == k + 1
  <2>1. n = (L * h) + s /\ s \in 0 .. L - 1 /\ s # r /\ h \in Nat
    BY <1>1, <1>2, <1>4
  <2> HIDE DEF s, h
  <2>2. n % L = s
    BY <2>1, DivModUnique
  <2> QED
    BY <2>1, <2>2 DEF r
<1> QED
  BY <1>1, <1>2, <1>3, <1>4

(* A number and the one a full round later have the same slot.             *)
LEMMA ModRound ==
  ASSUME NEW L \in Nat \ {0}, NEW n \in Nat
  PROVE  (n + L) % L = n % L
<1> DEFINE k == n \div L
           r == n % L
<1>1. k \in Nat /\ r \in 0 .. L - 1 /\ n = (L * k) + r
  BY DivMod
<1> HIDE DEF k, r
<1>2. n + L = (L * (k + 1)) + r
  BY <1>1
<1>3. (n + L) % L = r
  BY <1>1, <1>2, DivModUnique
<1> QED
  BY <1>3 DEF r

(* When round k begins, the earlier numbers of rounds with the parity of k *)
(* are more than a full round back.                                        *)
LEMMA SameParityIsOld ==
  ASSUME NEW L \in Nat \ {0}, NEW n \in Nat, NEW k \in Nat,
         k % L = 0, n < k, (n \div L) % 2 = (k \div L) % 2
  PROVE  n < k - L
<1> DEFINE a == n \div L
           b == k \div L
           r == n % L
<1>1. a \in Nat /\ r \in 0 .. L - 1 /\ n = (L * a) + r
  BY DivMod
<1>2. b \in Nat /\ k = (L * b) + (k % L)
  BY DivMod
<1>3. a % 2 = b % 2
  OBVIOUS
<1>4. k = L * b
  <2> HIDE DEF b
  <2> QED
    BY <1>2
<1> HIDE DEF a, b, r
<1>5. a < b
  BY <1>1, <1>2, <1>4
<1>6. a <= b - 2
  BY <1>1, <1>2, <1>3, <1>5
<1>7. L * a <= L * (b - 2)
  BY <1>1, <1>2, <1>6
<1>8. L * (b - 2) = (L * b) - (2 * L)
  BY <1>2
<1> QED
  BY <1>1, <1>2, <1>4, <1>7, <1>8

=============================================================================
