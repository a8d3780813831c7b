----------------------- MODULE RoutingSessionsProofs -----------------------
(***************************************************************************)
(* RoutingSessions for any number of children, sessions and rows and any   *)
(* size of a batch: a row with a URL goes to the server it names, or back  *)
(* to the child it was scanned from, no child gets two rows running where  *)
(* there is a choice, and the rows are distributed evenly as long as       *)
(* nothing disturbs the rotation.                                          *)
(*                                                                         *)
(* For the last: after T rows without a URL the child with the i-th name   *)
(* has got as many of them as there are numbers below T with the remainder *)
(* i, and the entry in shared memory is the child with the remainder of    *)
(* T - 1, except while a batch is split.                                   *)
(***************************************************************************)
EXTENDS RoutingSessions, RingArithmetic, FiniteSetTheorems, NaturalsInduction,
        WellFoundedInduction, TLAPS

(* No two child tables have the same name.                                 *)
DistinctNames == \A c, d \in Table : relname[c] = relname[d] => c = d

(* The threads t of a statement, numbered from 0, in the order of their    *)
(* children's names.                                                       *)
Ordered(t) ==
  \E n \in Nat \ {0} :
    /\ t \in [0 .. n - 1 -> Table]
    /\ \A i, j \in 0 .. n - 1 : i < j => relname[t[i]] < relname[t[j]]

ThreadsOrdered == \A s \in Session : pc[s] # "idle" => Ordered(threads[s])

NumTables == Cardinality(Table)

(* The turns, of the first T, that are those of the child with the i-th    *)
(* name.                                                                   *)
Turns(T, i) == {t \in 0 .. T - 1 : t % NumTables = i}

(* The entry when T rows have been routed.                                 *)
EntryAfter(T) ==
  \/ entry.child = NoName /\ T % NumTables = 0
  \/ /\ entry.child = ByName(Table)[(T + (NumTables - 1)) % NumTables]
     /\ entry.tablename = relname[entry.child]

(* Every child is a candidate of every statement.                          *)
AllAlive ==
  \A s \in Session : pc[s] # "idle" =>
    status[s] = [c \in Table |-> "Alive"] /\ threads[s] = ByName(Table)

OneSplit == \A r, s \in Session : pc[r] = "split" /\ pc[s] = "split" => r = s

(* T rows have been routed in turn.                                        *)
InTurn(T) ==
  /\ \A i \in 0 .. NumTables - 1 :
       delivered[ByName(Table)[i]] = Cardinality(Turns(T, i))
  /\ \A s \in Session : pc[s] = "split" => start[s] = T % NumTables
  /\ (\A s \in Session : pc[s] # "split") => EntryAfter(T)

RoundRobin == undisturbed => AllAlive /\ OneSplit /\ \E T \in Nat : InTurn(T)

(* The functions whose elements the actions change.                        *)
Shapes ==
  /\ DOMAIN status = Session /\ DOMAIN threads = Session /\ DOMAIN start = Session
  /\ undisturbed \in BOOLEAN

(* The inductive invariant, for everything but the rotation,               *)
Safe == TypeOK /\ Shapes /\ DistinctNames /\ ThreadsOrdered /\ UrlObeyed

(* and with it.                                                            *)
Routes == Safe /\ RoundRobin

-----------------------------------------------------------------------------
(* Sets of numbers, ranks and remainders.                                  *)

(* A set of numbers that is not empty has a least one.                     *)
LEMMA MinIsLeast ==
  ASSUME NEW S, S \subseteq Nat, S # {}
  PROVE  Min(S) \in S /\ \A y \in S : Min(S) <= y
<1>1. PICK x \in S : \A y \in S : ~(<<y, x>> \in OpToRel(<, Nat))
  BY NatLessThanWellFounded, WFMin
<1>2. \A y \in S : ~(y < x)
  BY <1>1 DEF OpToRel
<1>3. \A y \in S : x <= y
  BY <1>2
<1> QED
  BY <1>3 DEF Min

(* The number of elements of S that come before c, in the order of f.      *)
Rank(S, f, c) == Cardinality({d \in S : f[d] < f[c]})

(* If f tells the elements of a finite set apart, their ranks count them   *)
(* in the order of f.                                                      *)
LEMMA Ranks ==
  ASSUME NEW S, IsFiniteSet(S), NEW D, S \subseteq D, NEW f \in [D -> Nat],
         \A c, d \in S : f[c] = f[d] => c = d
  PROVE  /\ Cardinality(S) \in Nat
         /\ \A c \in S : Rank(S, f, c) \in 0 .. Cardinality(S) - 1
         /\ \A c, d \in S : Rank(S, f, c) < Rank(S, f, d) <=> f[c] < f[d]
         /\ \A i \in 0 .. Cardinality(S) - 1 : \E c \in S : Rank(S, f, c) = i
<1> DEFINE Before(c) == {d \in S : f[d] < f[c]}
           N == Cardinality(S)
<1>1. N \in Nat
  BY FS_CardinalityType
<1>2. ASSUME NEW c \in S
      PROVE  /\ IsFiniteSet(Before(c))
             /\ Cardinality(Before(c)) \in Nat
             /\ Cardinality(Before(c)) \in 0 .. N - 1
  <2>1. Before(c) \subseteq S /\ c \notin Before(c)
    OBVIOUS
  <2> HIDE DEF Before
  <2>2. IsFiniteSet(Before(c)) /\ Cardinality(Before(c)) <= N
        /\ (N = Cardinality(Before(c)) => S = Before(c))
    BY <2>1, FS_Subset
  <2>3. Cardinality(Before(c)) \in Nat
    BY <2>2, FS_CardinalityType
  <2> QED
    BY <1>1, <2>1, <2>2, <2>3
<1>3. ASSUME NEW c \in S, NEW d \in S, f[c] < f[d]
      PROVE  Cardinality(Before(c)) < Cardinality(Before(d))
  <2>1. Before(c) \subseteq Before(d) /\ c \notin Before(c) /\ c \in Before(d)
    BY <1>3
  <2>2. IsFiniteSet(Before(d)) /\ Cardinality(Before(c)) \in Nat /\ Cardinality(Before(d)) \in Nat
    BY <1>1, <1>2
  <2> HIDE DEF Before
  <2>3. Cardinality(Before(c)) <= Cardinality(Before(d))
        /\ Cardinality(Before(c)) # Cardinality(Before(d))
    BY <2>1, <2>2, FS_Subset
  <2> QED
    BY <2>2, <2>3
<1>4. ASSUME NEW c \in S, NEW d \in S
      PROVE  Cardinality(Before(c)) < Cardinality(Before(d)) <=> f[c] < f[d]
  <2>1. f[c] \in Nat /\ f[d] \in Nat
    OBVIOUS
  <2>2. Cardinality(Before(c)) \in Nat /\ Cardinality(Before(d)) \in Nat
    BY <1>1, <1>2
  <2>3. CASE f[c] < f[d]
    BY <2>3, <1>3
  <2>4. CASE f[d] < f[c]
    <3>1. Cardinality(Before(d)) < Cardinality(Before(c))
      BY <2>4, <1>3
    <3> HIDE DEF Before
    <3> QED
      BY <2>1, <2>2, <2>4, <3>1
  <2>5. CASE f[c] = f[d]
    <3>1. c = d
      BY <2>5
    <3> HIDE DEF Before
    <3> QED
      BY <2>1, <2>2, <3>1
  <2> HIDE DEF Before
  <2> QED
    BY <2>1, <2>3, <2>4, <2>5
<1> DEFINE r == [c \in S |-> Cardinality(Before(c))]
<1>5. r \in Injection(S, 0 .. N - 1)
  <2>1. r \in [S -> 0 .. N - 1]
    BY <1>2
  <2>2. ASSUME NEW c \in S, NEW d \in S, Cardinality(Before(c)) = Cardinality(Before(d))
        PROVE  c = d
    <3>1. ~(f[c] < f[d]) /\ ~(f[d] < f[c]) /\ f[c] \in Nat /\ f[d] \in Nat
      <4>1. Cardinality(Before(c)) \in Nat
        BY <1>1, <1>2
      <4>2. f[c] \in Nat /\ f[d] \in Nat
        OBVIOUS
      <4>3. ASSUME f[c] < f[d] PROVE FALSE
        <5>1. Cardinality(Before(c)) < Cardinality(Before(d))
          BY <4>3, <1>3
        <5> HIDE DEF Before
        <5> QED
          BY <5>1, <4>1, <2>2
      <4>4. ASSUME f[d] < f[c] PROVE FALSE
        <5>1. Cardinality(Before(d)) < Cardinality(Before(c))
          BY <4>4, <1>3
        <5> HIDE DEF Before
        <5> QED
          BY <5>1, <4>1, <2>2
      <4> QED
        BY <4>2, <4>3, <4>4
    <3>2. f[c] = f[d]
      BY <3>1
    <3> QED
      BY <3>2
  <2> HIDE DEF Before
  <2> QED
    BY <2>1, <2>2 DEF Injection, IsInjective
<1>6. \A i \in 0 .. N - 1 : \E c \in S : r[c] = i
  <2>1. IsFiniteSet(0 .. N - 1) /\ Cardinality(0 .. N - 1) = N
    BY <1>1, FS_Interval
  <2> DEFINE I == 0 .. N - 1
  <2>2. r \in Injection(S, I) /\ IsFiniteSet(I) /\ Cardinality(S) = Cardinality(I)
    BY <1>5, <2>1
  <2> HIDE DEF r, N, I
  <2>3. r \in Surjection(S, I)
    BY <2>2, FS_Injection, SMTT(20)
  <2> QED
    BY <2>3 DEF Surjection, I
<1> QED
  BY <1>1, <1>2, <1>4, <1>6 DEF Rank

(* There are children.                                                     *)
LEMMA SomeTables == NumTables \in Nat \ {0}
<1>1. NumTables \in Nat /\ (NumTables = 0 <=> Table = {})
  BY RoutingAssumption, FS_CardinalityType, FS_EmptySet DEF NumTables
<1> QED
  BY <1>1, RoutingAssumption

(* The turns of a child are finitely many.                                 *)
LEMMA TurnsFinite ==
  ASSUME NEW T \in Nat, NEW i
  PROVE  IsFiniteSet(Turns(T, i)) /\ Cardinality(Turns(T, i)) \in Nat
<1>1. Turns(T, i) \subseteq 0 .. T - 1 /\ IsFiniteSet(0 .. T - 1)
  BY FS_Interval DEF Turns
<1>2. IsFiniteSet(Turns(T, i))
  BY <1>1, FS_Subset
<1> QED
  BY <1>2, FS_CardinalityType

(* Rows that are routed in turn are distributed evenly.                    *)
LEMMA TurnsEven ==
  ASSUME NEW T \in Nat, NEW i \in 0 .. NumTables - 1, NEW j \in 0 .. NumTables - 1
  PROVE  Cardinality(Turns(T, j)) <= Cardinality(Turns(T, i)) + 1
<1> DEFINE L == NumTables
           A == Turns(T, j)
           B == Turns(T, i)
<1>1. L \in Nat \ {0}
  BY SomeTables
<1>2. IsFiniteSet(A) /\ IsFiniteSet(B) /\ Cardinality(A) \in Nat /\ Cardinality(B) \in Nat
  BY TurnsFinite
<1>3. ASSUME NEW t \in A
      PROVE  t \in 0 .. T - 1 /\ \E k \in Nat : t = (L * k) + j
  <2>1. t \in 0 .. T - 1 /\ t \in Nat /\ t % L = j
    BY DEF Turns
  <2> HIDE DEF L
  <2>2. t \div L \in Nat /\ t = (L * (t \div L)) + (t % L)
    BY <1>1, <2>1, DivMod
  <2> QED
    BY <2>1, <2>2
<1>4. ASSUME NEW k \in Nat, NEW t \in 0 .. T - 1, t = (L * k) + i
      PROVE  t \in B
  <2>1. t % L = i
    BY <1>1, <1>4, DivModUnique
  <2> QED
    BY <2>1 DEF Turns
<1>5. CASE i <= j
  <2> DEFINE f == [t \in A |-> t - (j - i)]
  <2>1. ASSUME NEW t \in A PROVE t - (j - i) \in B
    <3>1. PICK k \in Nat : t = (L * k) + j
      BY <1>3
    <3>2. L * k \in Nat /\ t \in 0 .. T - 1
      BY <1>1, <1>3
    <3> HIDE DEF A, B
    <3>3. t - (j - i) = (L * k) + i /\ t - (j - i) \in 0 .. T - 1
      BY <1>5, <3>1, <3>2
    <3> QED
      BY <1>4, <3>3
  <2>2. \A t \in A : t \in Int
    BY <1>3
  <2> HIDE DEF A, B
  <2>3. f \in [A -> B]
    BY <2>1
  <2>4. \A t, u \in A : f[t] = f[u] => t = u
    BY <2>2
  <2>5. f \in Injection(A, B)
    BY <2>3, <2>4 DEF Injection, IsInjective
  <2> HIDE DEF f
  <2>6. Cardinality(A) <= Cardinality(B)
    BY <1>2, <2>5, FS_Injection
  <2> QED
    BY <1>2, <2>6 DEF A, B
<1>6. CASE j < i
  <2> DEFINE C == A \ {j}
             f == [t \in C |-> t - L + (i - j)]
  <2>1. ASSUME NEW t \in C PROVE t - L + (i - j) \in B
    <3>1. PICK k \in Nat : t = (L * k) + j
      BY <1>3
    <3>2. t \in 0 .. T - 1 /\ t # j
      BY <1>3
    <3>3. k # 0
      BY <1>1, <3>1, <3>2
    <3> DEFINE h == k - 1
    <3>4. h \in Nat /\ k = h + 1
      BY <3>3
    <3> HIDE DEF A, B, h
    <3>5. L * k = (L * h) + L /\ L * h \in Nat
      BY <1>1, <3>4
    <3> HIDE DEF L
    <3>6. t - L + (i - j) = (L * h) + i /\ t - L + (i - j) \in 0 .. T - 1
      <4>1. i < L
        BY SomeTables DEF L
      <4> QED
        BY <1>1, <1>6, <3>1, <3>2, <3>5, <4>1
    <3> QED
      BY <1>4, <3>4, <3>6
  <2>2. \A t \in C : t \in Int
    BY <1>3
  <2>3. IsFiniteSet(C) /\ Cardinality(C) \in Nat /\ Cardinality(A) <= Cardinality(C) + 1
    <3> HIDE DEF A
    <3>1. IsFiniteSet(C) /\ Cardinality(C) =
            (IF j \in A THEN Cardinality(A) - 1 ELSE Cardinality(A))
      BY <1>2, FS_RemoveElement
    <3>2. Cardinality(C) \in Nat
      BY <3>1, FS_CardinalityType
    <3> HIDE DEF C
    <3> QED
      BY <1>2, <3>1, <3>2
  <2> HIDE DEF C, B
  <2>4. f \in [C -> B]
    BY <2>1
  <2>5. \A t, u \in C : f[t] = f[u] => t = u
    BY <1>1, <2>2
  <2>6. f \in Injection(C, B)
    BY <2>4, <2>5 DEF Injection, IsInjective
  <2> HIDE DEF f
  <2>7. Cardinality(C) <= Cardinality(B)
    BY <1>2, <2>6, FS_Injection
  <2> HIDE DEF A
  <2>8. Cardinality(A) <= Cardinality(B) + 1
    BY <1>2, <2>3, <2>7
  <2> QED
    BY <2>8 DEF A, B
<1> QED
  BY <1>1, <1>5, <1>6

(* The rows, of the rows K of a batch that come in turn after T others,    *)
(* that are for the child with the i-th name.                              *)
BatchTurns(T, K, i) == {k \in K : (T + Cardinality({l \in K : l < k})) % NumTables = i}

(* The rows K of a batch, taken in turn after T others.                    *)
LEMMA TurnsOfBatch ==
  ASSUME NEW T \in Nat, NEW i \in 0 .. NumTables - 1, NEW n \in Nat, NEW K, K \subseteq 1 .. n
  PROVE  Cardinality(Turns(T + Cardinality(K), i)) =
           Cardinality(Turns(T, i)) + Cardinality(BatchTurns(T, K, i))
<1> DEFINE m == Cardinality(K)
           id == [k \in 1 .. n |-> k]
           r(k) == Cardinality({l \in K : l < k})
           G == {k \in K : (T + r(k)) % NumTables = i}
           A == Turns(T, i)
           B == {t \in T .. T + m - 1 : t % NumTables = i}
<1>1. IsFiniteSet(K)
  <2>1. IsFiniteSet(1 .. n)
    BY FS_Interval
  <2> QED
    BY <2>1, FS_Subset
<1>2. /\ m \in Nat
      /\ \A k \in K : r(k) \in 0 .. m - 1
      /\ \A k, l \in K : r(k) < r(l) <=> k < l
      /\ \A x \in 0 .. m - 1 : \E k \in K : r(k) = x
  <2>1. ASSUME NEW k \in K PROVE Rank(K, id, k) = r(k)
    <3>1. {l \in K : id[l] < id[k]} = {l \in K : l < k}
      OBVIOUS
    <3> QED
      BY <3>1 DEF Rank
  <2>2. \A k, l \in K : id[k] < id[l] <=> k < l
    OBVIOUS
  <2>3. id \in [1 .. n -> Nat] /\ \A k, l \in K : id[k] = id[l] => k = l
    OBVIOUS
  <2> HIDE DEF id
  <2>4. /\ m \in Nat
        /\ \A k \in K : Rank(K, id, k) \in 0 .. m - 1
        /\ \A k, l \in K : Rank(K, id, k) < Rank(K, id, l) <=> id[k] < id[l]
        /\ \A x \in 0 .. m - 1 : \E k \in K : Rank(K, id, k) = x
    BY <1>1, <2>3, Ranks
  <2> HIDE DEF r, m
  <2> QED
    BY <2>1, <2>2, <2>4
<1> HIDE DEF r, m
<1>3. Turns(T + m, i) = A \cup B /\ A \cap B = {}
  BY <1>2 DEF Turns
<1>4. IsFiniteSet(A) /\ Cardinality(A) \in Nat
  BY TurnsFinite
<1>5. IsFiniteSet(G) /\ Cardinality(G) \in Nat
  <2>1. IsFiniteSet(G)
    BY <1>1, FS_Subset
  <2> HIDE DEF G
  <2> QED
    BY <2>1, FS_CardinalityType
<1>6. IsFiniteSet(B) /\ Cardinality(B) = Cardinality(G)
  <2> DEFINE f == [k \in G |-> T + r(k)]
  <2>1. f \in [G -> B]
    <3>1. ASSUME NEW k \in G PROVE T + r(k) \in B
      <4>1. r(k) \in 0 .. m - 1 /\ (T + r(k)) % NumTables = i
        BY <1>2
      <4>2. T + r(k) \in T .. T + m - 1
        BY <1>2, <4>1
      <4> QED
        BY <4>1, <4>2
    <3> HIDE DEF G, B
    <3> QED
      BY <3>1
  <2>2. \A k, l \in G : f[k] = f[l] => k = l
    <3>1. ASSUME NEW k \in G, NEW l \in G, T + r(k) = T + r(l) PROVE k = l
      <4>1. k \in K /\ l \in K /\ k \in Nat /\ l \in Nat
        OBVIOUS
      <4>2. r(k) \in Nat /\ r(l) \in Nat
        BY <1>2, <4>1
      <4>3. ~(r(k) < r(l)) /\ ~(r(l) < r(k))
        BY <3>1, <4>2
      <4>4. ~(k < l) /\ ~(l < k)
        BY <1>2, <4>1, <4>3
      <4> QED
        BY <4>1, <4>4
    <3> HIDE DEF G
    <3> QED
      BY <3>1
  <2>3. \A t \in B : \E k \in G : f[k] = t
    <3>1. ASSUME NEW t \in B PROVE \E k \in G : T + r(k) = t
      <4>1. t - T \in 0 .. m - 1
        BY <1>2
      <4>2. PICK k \in K : r(k) = t - T
        BY <1>2, <4>1
      <4>3. T + r(k) = t
        BY <4>2
      <4> QED
        BY <4>3
    <3> HIDE DEF G, B
    <3> QED
      BY <3>1
  <2> HIDE DEF G, B
  <2>4. f \in Bijection(G, B)
    BY <2>1, <2>2, <2>3 DEF Bijection, Injection, IsInjective, Surjection
  <2> HIDE DEF f
  <2>5. ExistsBijection(G, B)
    BY <2>4 DEF ExistsBijection
  <2> QED
    BY <1>5, <2>5, FS_Bijection
<1> HIDE DEF A, B, G
<1>7. Cardinality(A \cup B) = Cardinality(A) + Cardinality(B) - Cardinality({})
  BY <1>3, <1>4, <1>6, FS_Union
<1>8. Cardinality(A \cup B) = Cardinality(A) + Cardinality(G)
  BY <1>4, <1>5, <1>6, <1>7, FS_EmptySet
<1> QED
  BY <1>3, <1>8 DEF A, G, m, r, BatchTurns

-----------------------------------------------------------------------------
(* The order of the children.                                              *)

(* What the names in the catalog are like.                                 *)
Names == relname \in [Table -> Nat] /\ DistinctNames

(* The children of S by name: all of them, in the order of their names.    *)
LEMMA ByNameOrders ==
  ASSUME Names, NEW S, S \subseteq Table, S # {}
  PROVE  /\ Cardinality(S) \in Nat \ {0}
         /\ ByName(S) \in [0 .. Cardinality(S) - 1 -> S]
         /\ \A i, j \in 0 .. Cardinality(S) - 1 :
              i < j <=> relname[ByName(S)[i]] < relname[ByName(S)[j]]
         /\ \A c \in S : \E i \in 0 .. Cardinality(S) - 1 : ByName(S)[i] = c
<1> DEFINE N == Cardinality(S)
           r(c) == Rank(S, relname, c)
           b == ByName(S)
<1>1. IsFiniteSet(S)
  BY RoutingAssumption, FS_Subset
<1>2. N \in Nat \ {0}
  BY <1>1, FS_CardinalityType, FS_EmptySet
<1>3. /\ \A c \in S : r(c) \in 0 .. N - 1
      /\ \A c, d \in S : r(c) < r(d) <=> relname[c] < relname[d]
      /\ \A i \in 0 .. N - 1 : \E c \in S : r(c) = i
  BY <1>1, Ranks DEF Names, DistinctNames
<1>4. b = [i \in 0 .. N - 1 |-> CHOOSE c \in S : r(c) = i]
  BY DEF ByName, Rank
<1> HIDE DEF N, r, b
<1>5. ASSUME NEW i \in 0 .. N - 1
      PROVE  b[i] \in S /\ r(b[i]) = i
  <2>1. \E c \in S : r(c) = i
    BY <1>3
  <2>2. b[i] = CHOOSE c \in S : r(c) = i
    BY <1>4
  <2> QED
    BY <2>1, <2>2
<1>6. b \in [0 .. N - 1 -> S]
  BY <1>4, <1>5
<1>7. ASSUME NEW i \in 0 .. N - 1, NEW j \in 0 .. N - 1
      PROVE  i < j <=> relname[b[i]] < relname[b[j]]
  BY <1>3, <1>5
<1>8. ASSUME NEW c \in S
      PROVE  \E i \in 0 .. N - 1 : b[i] = c
  <2>1. r(c) \in 0 .. N - 1
    BY <1>3
  <2>2. b[r(c)] \in S /\ r(b[r(c)]) = r(c)
    BY <1>5, <2>1
  <2>3. ~(relname[b[r(c)]] < relname[c]) /\ ~(relname[c] < relname[b[r(c)]])
    BY <1>2, <1>3, <2>1, <2>2
  <2>4. relname[b[r(c)]] \in Nat /\ relname[c] \in Nat
    BY <2>2 DEF Names
  <2>5. relname[b[r(c)]] = relname[c]
    BY <2>3, <2>4
  <2>6. b[r(c)] = c
    BY <2>2, <2>5 DEF Names, DistinctNames
  <2> QED
    BY <2>1, <2>6
<1> QED
  BY <1>2, <1>6, <1>7, <1>8 DEF N, b

(* What Ordered says of n threads.                                         *)
OrderedN(t, n) ==
  /\ n \in Nat \ {0}
  /\ t \in [0 .. n - 1 -> Table]
  /\ \A i, j \in 0 .. n - 1 : i < j => relname[t[i]] < relname[t[j]]

(* The children that BeginForeignModify gives threads are in order.        *)
LEMMA ByNameOrdered ==
  ASSUME Names, NEW S, S \subseteq Table, S # {}
  PROVE  OrderedN(ByName(S), Cardinality(S))
<1> DEFINE b == ByName(S)
           N == Cardinality(S)
<1>1. /\ N \in Nat \ {0}
      /\ b \in [0 .. N - 1 -> S]
      /\ \A i, j \in 0 .. N - 1 : i < j <=> relname[b[i]] < relname[b[j]]
  BY ByNameOrders
<1> HIDE DEF b, N
<1>2. b \in [0 .. N - 1 -> Table]
  BY <1>1
<1> QED
  BY <1>1, <1>2 DEF OrderedN, b, N

-----------------------------------------------------------------------------
(* Where a row is sent.                                                    *)

(* The least element of a set is its minimum.                              *)
LEMMA MinIs ==
  ASSUME NEW S, S \subseteq Nat, NEW x \in S, \A y \in S : x <= y
  PROVE  Min(S) = x
<1>1. Min(S) \in S /\ Min(S) <= x
  BY MinIsLeast
<1>2. x <= Min(S) /\ Min(S) \in Nat /\ x \in Nat
  BY <1>1
<1> QED
  BY <1>1, <1>2

(* spd_routing_choose finds a candidate where there is one.  If it is not  *)
(* after the last target, none is, and it is the first of all.             *)
LEMMA ChooseFinds ==
  ASSUME NEW t, NEW n, OrderedN(t, n), NEW st, Candidates(t, st) # {}, NEW prev
  PROVE  LET i == RoutingChoose(prev, t, st, relname)
         IN  /\ i \in Candidates(t, st)
             /\ i \in 0 .. n - 1 /\ i \in DOMAIN t /\ t[i] \in Table /\ st[t[i]] = "Alive"
             /\ \/ prev # NoName /\ relname[t[i]] > prev
                \/ \A j \in Candidates(t, st) :
                     i <= j /\ ~(prev # NoName /\ relname[t[j]] > prev)
<1> DEFINE C == Candidates(t, st)
           A == {j \in C : prev # NoName /\ relname[t[j]] > prev}
           M == IF A # {} THEN A ELSE C
           i == Min(M)
<1>1. C \subseteq 0 .. n - 1 /\ C \subseteq Nat
  BY DEF OrderedN, Candidates
<1>2. M \subseteq C /\ M # {}
  OBVIOUS
<1>3. i \in M /\ \A j \in M : i <= j
  <2> HIDE DEF C, M
  <2> QED
    BY <1>1, <1>2, MinIsLeast
<1>4. RoutingChoose(prev, t, st, relname) = i
  BY DEF RoutingChoose, IsAfter
<1>5. i \in C
  BY <1>2, <1>3
<1> HIDE DEF i
<1>6. i \in 0 .. n - 1 /\ i \in DOMAIN t /\ t[i] \in Table /\ st[t[i]] = "Alive"
  BY <1>1, <1>5 DEF OrderedN, Candidates
<1>7. CASE A # {}
  <2>1. i \in A
    BY <1>3, <1>7
  <2> QED
    BY <1>4, <1>5, <1>6, <2>1
<1>8. CASE A = {}
  <2>1. M = C
    BY <1>8
  <2>2. \A j \in C : i <= j /\ ~(prev # NoName /\ relname[t[j]] > prev)
    BY <1>3, <1>8, <2>1
  <2> QED
    BY <1>4, <1>5, <1>6, <2>2
<1> QED
  BY <1>7, <1>8

(* The slot of a number, of the n threads.                                 *)
LEMMA SlotOf ==
  ASSUME NEW t, NEW n, OrderedN(t, n)
  PROVE  /\ Cardinality(DOMAIN t) = n
         /\ \A x \in Nat : x % n \in DOMAIN t /\ x % n \in 0 .. n - 1 /\ t[x % n] \in Table
<1>1. DOMAIN t = 0 .. n - 1 /\ n \in Nat \ {0}
  BY DEF OrderedN
<1>2. Cardinality(0 .. n - 1) = n
  BY <1>1, FS_Interval
<1>3. \A x \in Nat : x % n \in 0 .. n - 1
  BY <1>1, DivMod
<1> QED
  BY <1>1, <1>2, <1>3 DEF OrderedN

(* The number of rows that are a part of a batch.                          *)
LEMMA RowsFinite ==
  ASSUME NEW n \in Nat, NEW K, K \subseteq 1 .. n
  PROVE  IsFiniteSet(K) /\ Cardinality(K) \in Nat
<1>1. IsFiniteSet(1 .. n)
  BY FS_Interval
<1>2. IsFiniteSet(K)
  BY <1>1, FS_Subset
<1> QED
  BY <1>2, FS_CardinalityType

(* Every row of a batch that can be distributed gets a thread, and one     *)
(* with a URL a thread of the server it names.                             *)
LEMMA SlotFinds ==
  ASSUME NEW t, NEW n, OrderedN(t, n), NEW st \in Nat,
         NEW m \in Nat, NEW rows, DOMAIN rows = 1 .. m, RowsHaveTargets(t, rows),
         NEW k \in 1 .. m
  PROVE  /\ SlotTarget(st, t, rows, k) \in 0 .. n - 1
         /\ t[SlotTarget(st, t, rows, k)] \in Table
         /\ rows[k] = NoUrl =>
              SlotTarget(st, t, rows, k) = (st + Cardinality(RowsBefore(rows, k))) % n
         /\ rows[k] # NoUrl => Server[t[SlotTarget(st, t, rows, k)]] = rows[k]
<1> DEFINE x == SlotTarget(st, t, rows, k)
<1>1. DOMAIN t = 0 .. n - 1 /\ t \in [0 .. n - 1 -> Table]
  BY DEF OrderedN
<1>2. CASE rows[k] = NoUrl
  <2> DEFINE y == st + Cardinality(RowsBefore(rows, k))
  <2>1. Cardinality(RowsBefore(rows, k)) \in Nat
    <3>1. RowsBefore(rows, k) \subseteq 1 .. m
      BY DEF RowsBefore
    <3> QED
      BY <3>1, RowsFinite
  <2>2. y \in Nat /\ x = y % Cardinality(DOMAIN t)
    BY <1>2, <2>1 DEF SlotTarget
  <2> HIDE DEF y, x
  <2>3. x = y % n /\ x \in 0 .. n - 1 /\ t[x] \in Table
    BY <2>2, SlotOf
  <2> QED
    BY <1>2, <2>3 DEF x, y
<1>3. CASE rows[k] # NoUrl
  <2> DEFINE U == ThreadsOf(t, rows[k])
  <2>1. U # {} /\ x = Min(U)
    BY <1>3 DEF RowsHaveTargets, SlotTarget
  <2>2. U \subseteq 0 .. n - 1 /\ \A i \in U : Server[t[i]] = rows[k]
    BY <1>1 DEF ThreadsOf
  <2> HIDE DEF U, x
  <2>3. U \subseteq Nat
    BY <2>2
  <2>4. x \in U
    BY <2>1, <2>3, MinIsLeast
  <2> QED
    BY <1>1, <1>3, <2>2, <2>4 DEF x
<1> QED
  BY <1>2, <1>3

(* The same for all rows of a batch of spd_split_slots: each goes to a     *)
(* child, and one with a URL to a child of the server that it names.       *)
LEMMA BatchFinds ==
  ASSUME NEW t, NEW n, OrderedN(t, n), NEW st \in Nat,
         NEW m \in Nat, NEW rows, DOMAIN rows = 1 .. m, RowsHaveTargets(t, rows)
  PROVE  \A k \in 1 .. m :
           /\ rows[k] # NoUrl => Server[t[SlotTarget(st, t, rows, k)]] = rows[k]
           /\ t[SlotTarget(st, t, rows, k)] \in Table
  BY SlotFinds

(* The target remembered after a batch is that of a thread,                *)
LEMMA SplitEnds ==
  ASSUME NEW t, NEW n, OrderedN(t, n), NEW st \in Nat,
         NEW m \in Nat, NEW rows, DOMAIN rows = 1 .. m
  PROVE  /\ SplitLast(st, t, rows) =
              (st + (Cardinality({k \in DOMAIN rows : rows[k] = NoUrl}) + (n - 1))) % n
         /\ t[SplitLast(st, t, rows)] \in Table
<1> DEFINE K == {k \in DOMAIN rows : rows[k] = NoUrl}
           c == Cardinality(K)
<1>1. c \in Nat
  BY RowsFinite
<1>2. Cardinality(DOMAIN t) = n /\ n \in Nat \ {0}
  BY SlotOf DEF OrderedN
<1>3. SplitLast(st, t, rows) = (st + c - 1 + n) % n
  BY <1>2 DEF SplitLast
<1> HIDE DEF c
<1>4. st + c - 1 + n = st + (c + (n - 1)) /\ st + (c + (n - 1)) \in Nat
  BY <1>1, <1>2
<1>5. t[(st + (c + (n - 1))) % n] \in Table
  BY <1>4, SlotOf
<1> QED
  BY <1>3, <1>4, <1>5 DEF c

(* and so is the one remembered after a batch that failed.                 *)
LEMMA SplitResets ==
  ASSUME NEW t, NEW n, OrderedN(t, n), NEW st \in Nat
  PROVE  /\ SplitReset(st, t) = (st + (n - 1)) % n
         /\ t[SplitReset(st, t)] \in Table
<1>1. Cardinality(DOMAIN t) = n /\ n \in Nat \ {0}
  BY SlotOf DEF OrderedN
<1>2. SplitReset(st, t) = (st - 1 + n) % n
  BY <1>1 DEF SplitReset
<1>3. st - 1 + n = st + (n - 1) /\ st + (n - 1) \in Nat
  BY <1>1
<1>4. t[(st + (n - 1)) % n] \in Table
  BY <1>3, SlotOf
<1> QED
  BY <1>2, <1>3, <1>4

-----------------------------------------------------------------------------
(* Types, names, the order of the threads, and the URLs.                   *)

(* The names are numbers, and the last target is remembered by one.        *)
LEMMA SafeNames ==
  ASSUME Safe
  PROVE  Names
BY RoutingAssumption DEF Safe, TypeOK, Names

(* The threads of a statement.                                             *)
LEMMA SafeThreads ==
  ASSUME Safe, NEW s \in Session, pc[s] # "idle"
  PROVE  \E n : OrderedN(threads[s], n)
BY DEF Safe, ThreadsOrdered, Ordered, OrderedN

(* Threads in order are those of Ordered.                                  *)
LEMMA OrderedNIs ==
  ASSUME NEW t, NEW n, OrderedN(t, n)
  PROVE  Ordered(t)
BY DEF Ordered, OrderedN

(* The invariant holds initially.                                          *)
LEMMA SafeInit == Init => Safe
<1> SUFFICES ASSUME Init PROVE Safe
  OBVIOUS
<1>1. TypeOK
  BY RoutingAssumption DEF Init, TypeOK
<1>2. Shapes /\ DistinctNames
  BY DEF Init, Shapes, DistinctNames
<1>3. ThreadsOrdered /\ UrlObeyed
  BY DEF Init, ThreadsOrdered, UrlObeyed
<1> QED
  BY <1>1, <1>2, <1>3 DEF Safe

(* A statement begins.                                                     *)
LEMMA SafeBegin ==
  ASSUME Safe, NEW s \in Session, Begin(s)
  PROVE  Safe'
<1>1. PICK refused \in SUBSET MayRefuse :
        /\ refused # Table
        /\ status' = [status EXCEPT ![s] =
                        [c \in Table |-> IF c \in refused THEN "NotTarget" ELSE "Alive"]]
        /\ threads' = [threads EXCEPT ![s] = ByName(Table \ refused)]
        /\ undisturbed' = (undisturbed /\ refused = {})
  BY DEF Begin
<1>2. PICK mode \in {"rows", "batches"} : pc' = [pc EXCEPT ![s] = mode]
  BY DEF Begin
<1>3. byUrl' = {} /\ UNCHANGED <<relname, entry, start, delivered, renames>>
  BY DEF Begin
<1>4. Ordered(ByName(Table \ refused))
  <2>1. Table \ refused # {}
    BY <1>1, RoutingAssumption
  <2> QED
    BY <2>1, SafeNames, ByNameOrdered, OrderedNIs
<1> DEFINE b == ByName(Table \ refused)
<1>5. Ordered(b)
  BY <1>4
<1>6. threads' = [threads EXCEPT ![s] = b]
  BY <1>1
<1> HIDE DEF b
<1>7. TypeOK'
  <2>1. [c \in Table |-> IF c \in refused THEN "NotTarget" ELSE "Alive"] \in [Table -> ChildStatus]
    BY DEF ChildStatus
  <2>2. \A r \in Session : pc'[r] # "idle" => status'[r] \in [Table -> ChildStatus]
    BY <1>1, <1>2, <2>1 DEF Safe, TypeOK, Shapes
  <2>3. \A r \in Session : pc'[r] = "split" => start'[r] \in DOMAIN threads'[r]
    BY <1>2, <1>3, <1>6 DEF Safe, TypeOK, Shapes
  <2>4. pc' \in [Session -> {"idle", "rows", "batches", "split"}]
    BY <1>2 DEF Safe, TypeOK
  <2> QED
    BY <1>3, <2>2, <2>3, <2>4 DEF Safe, TypeOK
<1>8. Shapes' /\ DistinctNames' /\ UrlObeyed'
  BY <1>1, <1>3 DEF Safe, Shapes, DistinctNames, UrlObeyed
<1>9. ThreadsOrdered'
  BY <1>2, <1>3, <1>5, <1>6 DEF Safe, TypeOK, Shapes, ThreadsOrdered, Ordered
<1> QED
  BY <1>7, <1>8, <1>9 DEF Safe

(* A statement is over, and the last target is still a child.              *)
LEMMA SafeOver ==
  ASSUME Safe, NEW s \in Session, Over(s),
         UNCHANGED <<relname, delivered, undisturbed>>,
         \/ entry' = entry
         \/ \E c \in Table : Remember(c)
  PROVE  Safe'
<1>1. /\ byUrl' = {}
      /\ pc' = [pc EXCEPT ![s] = "idle"]
      /\ status' = [status EXCEPT ![s] = NoChildren]
      /\ threads' = [threads EXCEPT ![s] = NoChildren]
      /\ start' = [start EXCEPT ![s] = 0]
  BY DEF Over
<1>2. TypeOK'
  <2>1. entry'.child \in Table \cup {NoName}
        /\ entry'.tablename \in Table \cup NewNames \cup {NoName}
    BY DEF Safe, TypeOK, Remember
  <2>2. pc' \in [Session -> {"idle", "rows", "batches", "split"}]
    BY <1>1 DEF Safe, TypeOK
  <2>3. \A r \in Session : pc'[r] # "idle" => status'[r] \in [Table -> ChildStatus]
    BY <1>1 DEF Safe, TypeOK, Shapes
  <2>4. \A r \in Session : pc'[r] = "split" => start'[r] \in DOMAIN threads'[r]
    BY <1>1 DEF Safe, TypeOK, Shapes
  <2> QED
    BY <1>1, <2>1, <2>2, <2>3, <2>4 DEF Safe, TypeOK
<1>3. Shapes' /\ DistinctNames' /\ UrlObeyed'
  BY <1>1 DEF Safe, Shapes, DistinctNames, UrlObeyed
<1>4. ThreadsOrdered'
  BY <1>1 DEF Safe, TypeOK, Shapes, ThreadsOrdered, Ordered
<1> QED
  BY <1>2, <1>3, <1>4 DEF Safe

(* A row is inserted.                                                      *)
LEMMA SafeInsertRow ==
  ASSUME Safe, NEW s \in Session, NEW u \in Urls, InsertRow(s, u)
  PROVE  Safe'
<1> DEFINE st == SpdUrlStatus(status[s], u)
           i == RoutingChoose(LastTable, threads[s], st, relname)
           c == threads[s][i]
<1>1. /\ pc[s] = "rows" /\ u # BadUrl
      /\ Candidates(threads[s], st) # {}
      /\ Remember(c)
      /\ delivered' = [delivered EXCEPT ![c] = IF u = NoUrl THEN @ + 1 ELSE @]
      /\ byUrl' = {UrlRow(c, v, NoName) : v \in {u} \ {NoUrl}}
      /\ status' = [status EXCEPT ![s] = st]
      /\ undisturbed' = (undisturbed /\ u = NoUrl /\ ~Splitting(s))
      /\ UNCHANGED <<relname, pc, threads, start, renames>>
  BY DEF InsertRow
<1>2. PICK n : OrderedN(threads[s], n)
  BY <1>1, SafeThreads
<1>3. c \in Table /\ st[c] = "Alive"
  <2> HIDE DEF st
  <2> QED
    BY <1>1, <1>2, ChooseFinds
<1>4. st \in [Table -> ChildStatus]
  BY <1>1 DEF Safe, TypeOK, SpdUrlStatus, ChildStatus
<1>5. u # NoUrl => Server[c] = u
  BY <1>3 DEF SpdUrlStatus
<1> HIDE DEF st, i, c
<1>6. TypeOK'
  <2>1. entry'.child \in Table \cup {NoName}
        /\ entry'.tablename \in Table \cup NewNames \cup {NoName}
    BY <1>1, <1>3 DEF Safe, TypeOK, Remember
  <2>2. \A r \in Session : pc'[r] # "idle" => status'[r] \in [Table -> ChildStatus]
    BY <1>1, <1>4 DEF Safe, TypeOK, Shapes
  <2>3. delivered' \in [Table -> Nat]
    BY <1>1, <1>3 DEF Safe, TypeOK
  <2>4. byUrl' \subseteq [to : Table, url : Urls, from : Table \cup {NoName}]
    BY <1>1, <1>3 DEF UrlRow
  <2> QED
    BY <1>1, <2>1, <2>2, <2>3, <2>4 DEF Safe, TypeOK
<1>7. Shapes' /\ DistinctNames'
  BY <1>1 DEF Safe, Shapes, DistinctNames
<1>8. ThreadsOrdered'
  BY <1>1 DEF Safe, ThreadsOrdered, Ordered
<1>9. UrlObeyed'
  BY <1>1, <1>5 DEF UrlObeyed, UrlRow
<1> QED
  BY <1>6, <1>7, <1>8, <1>9 DEF Safe

(* A row is inserted where it was scanned.                                 *)
LEMMA SafeInsertScanned ==
  ASSUME Safe, NEW s \in Session, NEW u \in Urls, NEW f \in Table, InsertScanned(s, u, f)
  PROVE  Safe'
<1>1. PICK i \in ScannedThreads(threads[s], f) : byUrl' = {UrlRow(threads[s][i], u, f)}
  BY DEF InsertScanned
<1>2. byUrl' = {UrlRow(f, u, f)}
  BY <1>1 DEF ScannedThreads
<1>3. UNCHANGED <<relname, entry, pc, status, threads, start, delivered, undisturbed>>
  BY DEF InsertScanned, sessionVars
<1>4. TypeOK'
  <2>1. byUrl' \subseteq [to : Table, url : Urls, from : Table \cup {NoName}]
    BY <1>2 DEF UrlRow
  <2> QED
    BY <1>3, <2>1 DEF Safe, TypeOK
<1>5. Shapes' /\ DistinctNames'
  BY <1>3 DEF Safe, Shapes, DistinctNames
<1>6. ThreadsOrdered'
  BY <1>3 DEF Safe, ThreadsOrdered, Ordered
<1>7. UrlObeyed'
  <2>1. f # NoName
    BY RoutingAssumption
  <2> QED
    BY <1>2, <2>1 DEF UrlObeyed, UrlRow
<1> QED
  BY <1>4, <1>5, <1>6, <1>7 DEF Safe

(* A batch gets the target of its first row.                               *)
LEMMA SafeSplitStart ==
  ASSUME Safe, NEW s \in Session, SplitStart(s)
  PROVE  Safe'
<1> DEFINE i == RoutingChoose(LastTable, threads[s], status[s], relname)
<1>1. /\ pc[s] = "batches"
      /\ Candidates(threads[s], status[s]) # {}
      /\ start' = [start EXCEPT ![s] = i]
      /\ Remember(threads[s][start'[s]])
      /\ pc' = [pc EXCEPT ![s] = "split"]
      /\ undisturbed' = (undisturbed /\ ~Splitting(s))
      /\ byUrl' = {}
      /\ UNCHANGED <<relname, status, threads, delivered, renames>>
  BY DEF SplitStart
<1>2. PICK n : OrderedN(threads[s], n)
  BY <1>1, SafeThreads
<1>3. i \in DOMAIN threads[s] /\ threads[s][i] \in Table
  BY <1>1, <1>2, ChooseFinds
<1> HIDE DEF i
<1>4. start'[s] = i
  BY <1>1 DEF Safe, Shapes
<1>5. TypeOK'
  <2>1. entry'.child \in Table \cup {NoName}
        /\ entry'.tablename \in Table \cup NewNames \cup {NoName}
    BY <1>1, <1>3, <1>4 DEF Safe, TypeOK, Remember
  <2>2. pc' \in [Session -> {"idle", "rows", "batches", "split"}]
    BY <1>1 DEF Safe, TypeOK
  <2>3. \A r \in Session : pc'[r] # "idle" => status'[r] \in [Table -> ChildStatus]
    BY <1>1 DEF Safe, TypeOK
  <2>4. \A r \in Session : pc'[r] = "split" => start'[r] \in DOMAIN threads'[r]
    BY <1>1, <1>3 DEF Safe, TypeOK, Shapes
  <2> QED
    BY <1>1, <2>1, <2>2, <2>3, <2>4 DEF Safe, TypeOK
<1>6. Shapes' /\ DistinctNames' /\ UrlObeyed'
  BY <1>1 DEF Safe, Shapes, DistinctNames, UrlObeyed
<1>7. ThreadsOrdered'
  BY <1>1 DEF Safe, TypeOK, ThreadsOrdered, Ordered
<1> QED
  BY <1>5, <1>6, <1>7 DEF Safe

(* A batch that fails puts the target back.                                *)
LEMMA SafeSplitFail ==
  ASSUME Safe, NEW s \in Session, SplitFail(s)
  PROVE  Safe'
<1>1. /\ pc[s] = "split" /\ Over(s)
      /\ Remember(threads[s][SplitReset(start[s], threads[s])])
      /\ UNCHANGED <<relname, delivered, undisturbed, renames>>
  BY DEF SplitFail
<1>2. PICK n : OrderedN(threads[s], n)
  BY <1>1, SafeThreads
<1>3. start[s] \in Nat
  BY <1>1, <1>2 DEF Safe, TypeOK, OrderedN
<1>4. threads[s][SplitReset(start[s], threads[s])] \in Table
  BY <1>2, <1>3, SplitResets
<1> QED
  BY <1>1, <1>4, SafeOver

(* The batch of n rows is distributed, and the target of its last one      *)
(* remembered.                                                             *)
Distributes(s, n, rows) ==
  LET Target(k) == threads[s][SlotTarget(start[s], threads[s], rows, k)]
  IN  /\ RowsHaveTargets(threads[s], rows)
      /\ delivered' = [c \in Table |->
           delivered[c] + Cardinality({k \in 1 .. n : Target(k) = c /\ rows[k] = NoUrl})]
      /\ byUrl' = {UrlRow(Target(k), rows[k], NoName) : k \in {j \in 1 .. n : rows[j] # NoUrl}}
      /\ Remember(threads[s][SplitLast(start[s], threads[s], rows)])

(* What a batch that is distributed does.                                  *)
LEMMA SplitDoneIs ==
  ASSUME NEW s \in Session, SplitDone(s)
  PROVE  \E n \in 1 .. MaxBatch : \E rows \in [1 .. n -> Urls] : Distributes(s, n, rows)
BY DEF SplitDone, Distributes

(* Distributing a batch keeps the invariant.                               *)
LEMMA SafeSplitDone ==
  ASSUME Safe, NEW s \in Session, SplitDone(s)
  PROVE  Safe'
<1> PICK n \in 1 .. MaxBatch : \E rows \in [1 .. n -> Urls] : Distributes(s, n, rows)
  BY SplitDoneIs
<1>1. PICK rows \in [1 .. n -> Urls] : Distributes(s, n, rows)
  OBVIOUS
<1> DEFINE Slot(k) == SlotTarget(start[s], threads[s], rows, k)
           RowsOf(c) == {k \in 1 .. n : threads[s][Slot(k)] = c /\ rows[k] = NoUrl}
           last == threads[s][SplitLast(start[s], threads[s], rows)]
<1>2. /\ RowsHaveTargets(threads[s], rows)
      /\ delivered' = [c \in Table |-> delivered[c] + Cardinality(RowsOf(c))]
      /\ byUrl' = {UrlRow(threads[s][Slot(k)], rows[k], NoName) :
                     k \in {j \in 1 .. n : rows[j] # NoUrl}}
      /\ Remember(last)
  BY <1>1 DEF Distributes
<1>3. /\ pc[s] = "split"
      /\ pc' = [pc EXCEPT ![s] = "batches"]
      /\ start' = [start EXCEPT ![s] = 0]
      /\ UNCHANGED <<relname, status, threads, undisturbed, renames>>
  BY DEF SplitDone
<1>4. PICK w : OrderedN(threads[s], w)
  BY <1>3, SafeThreads
<1>5. start[s] \in Nat /\ n \in Nat /\ DOMAIN rows = 1 .. n
  BY <1>3, <1>4, RoutingAssumption DEF Safe, TypeOK, OrderedN
<1>6. last \in Table
  BY <1>4, <1>5, SplitEnds DEF last
<1>7. /\ \A k \in 1 .. n : rows[k] # NoUrl => Server[threads[s][Slot(k)]] = rows[k]
      /\ \A k \in 1 .. n : threads[s][Slot(k)] \in Table
  <2>1. RowsHaveTargets(threads[s], rows)
    BY <1>2
  <2> QED
    BY <1>4, <1>5, <2>1, BatchFinds
<1>8. \A c \in Table : Cardinality(RowsOf(c)) \in Nat
  <2>1. \A c \in Table : RowsOf(c) \subseteq 1 .. n
    OBVIOUS
  <2> HIDE DEF RowsOf
  <2> QED
    BY <1>5, <2>1, RowsFinite
<1> HIDE DEF Slot, last
<1>9. TypeOK'
  <2>1. entry'.child \in Table \cup {NoName}
        /\ entry'.tablename \in Table \cup NewNames \cup {NoName}
    BY <1>2, <1>3, <1>6 DEF Safe, TypeOK, Remember
  <2>2. pc' \in [Session -> {"idle", "rows", "batches", "split"}]
    BY <1>3 DEF Safe, TypeOK
  <2>3. \A r \in Session : pc'[r] # "idle" => status'[r] \in [Table -> ChildStatus]
    BY <1>3 DEF Safe, TypeOK
  <2>4. \A r \in Session : pc'[r] = "split" => start'[r] \in DOMAIN threads'[r]
    BY <1>3 DEF Safe, TypeOK, Shapes
  <2>5. byUrl' \subseteq [to : Table, url : Urls, from : Table \cup {NoName}]
    BY <1>2, <1>7 DEF UrlRow
  <2>6. delivered' \in [Table -> Nat]
    <3> DEFINE q(c) == Cardinality(RowsOf(c))
    <3>1. delivered' = [c \in Table |-> delivered[c] + q(c)] /\ \A c \in Table : q(c) \in Nat
      BY <1>2, <1>8
    <3>2. \A c \in Table : delivered[c] \in Nat
      BY DEF Safe, TypeOK
    <3> HIDE DEF q
    <3>3. \A c \in Table : delivered[c] + q(c) \in Nat
      BY <3>1, <3>2
    <3> QED
      BY <3>1, <3>3
  <2> QED
    BY <1>3, <2>1, <2>2, <2>3, <2>4, <2>5, <2>6 DEF Safe, TypeOK
<1>10. Shapes' /\ DistinctNames'
  BY <1>3 DEF Safe, Shapes, DistinctNames
<1>11. ThreadsOrdered'
  BY <1>3 DEF Safe, TypeOK, ThreadsOrdered, Ordered
<1>12. UrlObeyed'
  BY <1>2, <1>7 DEF UrlObeyed, UrlRow
<1> QED
  BY <1>9, <1>10, <1>11, <1>12 DEF Safe

(* A child table is renamed, while no statement runs.                      *)
LEMMA SafeRename ==
  ASSUME Safe, NEW c \in Table, NEW n \in NewNames, Rename(c, n)
  PROVE  Safe'
<1>1. /\ \A s \in Session : pc[s] = "idle"
      /\ n \notin Range(relname)
      /\ relname' = [relname EXCEPT ![c] = n]
      /\ undisturbed' = FALSE
      /\ byUrl' = {}
      /\ UNCHANGED <<entry, sessionVars, delivered>>
  BY DEF Rename
<1>2. UNCHANGED <<entry, pc, status, threads, start, delivered>>
  BY <1>1 DEF sessionVars
<1>3. TypeOK'
  BY <1>1, <1>2 DEF Safe, TypeOK
<1>4. DistinctNames'
  <2>1. \A d \in Table : relname[d] # n
    BY <1>1 DEF Safe, TypeOK, Range
  <2>2. \A d \in Table : relname'[d] = IF d = c THEN n ELSE relname[d]
    BY <1>1 DEF Safe, TypeOK
  <2> QED
    BY <2>1, <2>2 DEF Safe, DistinctNames
<1>5. Shapes' /\ ThreadsOrdered' /\ UrlObeyed'
  BY <1>1, <1>2 DEF Safe, Shapes, ThreadsOrdered, UrlObeyed
<1> QED
  BY <1>3, <1>4, <1>5 DEF Safe

(* Every step keeps the invariant.                                         *)
LEMMA SafeNext == Safe /\ [Next]_vars => Safe'
<1> SUFFICES ASSUME Safe, [Next]_vars PROVE Safe'
  OBVIOUS
<1>1. ASSUME NEW s \in Session, End(s) PROVE Safe'
  BY <1>1, SafeOver DEF End
<1>2. ASSUME NEW s \in Session, NEW u \in Urls, InsertFail(s, u) PROVE Safe'
  BY <1>2, SafeOver DEF InsertFail
<1>3. CASE UNCHANGED vars
  <2>1. UNCHANGED <<relname, entry, pc, status, threads, start, delivered, byUrl, undisturbed>>
    BY <1>3 DEF vars, sessionVars
  <2>2. TypeOK' /\ Shapes' /\ DistinctNames'
    BY <2>1 DEF Safe, TypeOK, Shapes, DistinctNames
  <2>3. ThreadsOrdered' /\ UrlObeyed'
    BY <2>1 DEF Safe, ThreadsOrdered, Ordered, UrlObeyed
  <2> QED
    BY <2>2, <2>3 DEF Safe
<1> QED
  BY <1>1, <1>2, <1>3, SafeBegin, SafeInsertRow, SafeInsertScanned, SafeSplitStart,
     SafeSplitDone, SafeSplitFail, SafeRename DEF Next

(* The names, the threads, the last target and the URLs are as they should *)
(* be, in every reachable state.                                           *)
THEOREM SafeAlways == Spec => []Safe
BY SafeInit, SafeNext, PTL DEF Spec

(* The catalog, the entry in shared memory, the states of the children and *)
(* the index of the first target have their types, for any number of       *)
(* children and sessions and any size of a batch.                          *)
THEOREM TypeCorrect == Spec => []TypeOK
BY SafeAlways, PTL DEF Safe

(* A row with a URL only goes to a child of the server that it names,      *)
(* whether it is routed by itself (spd_routing_candidate_spdurl) or in a   *)
(* batch (spd_split_slots).  Only a row that was scanned from a child of   *)
(* the table goes back to that child, whatever its URL says                *)
(* (spd_ExecForeignInsert, server_found).                                  *)
THEOREM UrlObeyedAlways == Spec => []UrlObeyed
BY SafeAlways, PTL DEF Safe

(* The same child does not get two rows without a URL in a row when the    *)
(* statement has another candidate: spd_routing_choose looks for a name    *)
(* after the last one, and the threads are in the order of the names.      *)
THEOREM NotTwiceRunningAlways == Spec => NotTwiceRunning
<1> DEFINE Other ==
      \A c \in Table :
        /\ pc' = pc /\ delivered'[c] > delivered[c]
        /\ c = entry.child /\ LastTable # NoName
        => \E s \in Session : /\ pc[s] = "rows"
                              /\ \A i \in Candidates(threads[s], status[s]) : threads[s][i] = c
<1>1. ASSUME Safe, [Next]_vars PROVE [Other]_vars
  <2> SUFFICES ASSUME NEW c \in Table, pc' = pc, delivered'[c] > delivered[c],
                      c = entry.child, LastTable # NoName
               PROVE  \E s \in Session :
                        /\ pc[s] = "rows"
                        /\ \A i \in Candidates(threads[s], status[s]) : threads[s][i] = c
    OBVIOUS
  <2>1. delivered[c] \in Nat /\ delivered' # delivered
    BY <1>1 DEF Safe, TypeOK
  <2>2. PICK s \in Session : \E u \in Urls : InsertRow(s, u)
    <3>1. ASSUME NEW s \in Session, SplitDone(s) PROVE FALSE
      <4>1. pc[s] = "split" /\ pc'[s] = "batches"
        BY <1>1, <3>1 DEF SplitDone, Safe, TypeOK
      <4> QED
        BY <4>1
    <3>2. ASSUME NEW s \in Session, NEW u \in Urls,
                 Begin(s) \/ End(s) \/ SplitStart(s) \/ SplitFail(s) \/ InsertFail(s, u)
          PROVE  FALSE
      BY <2>1, <3>2 DEF Begin, End, SplitStart, SplitFail, InsertFail
    <3>3. ASSUME NEW d \in Table, NEW n \in NewNames, Rename(d, n) PROVE FALSE
      BY <2>1, <3>3 DEF Rename
    <3>4. ASSUME NEW r \in Session, NEW u \in Urls, NEW f \in Table, InsertScanned(r, u, f)
          PROVE  FALSE
      BY <2>1, <3>4 DEF InsertScanned
    <3>5. Next
      BY <1>1, <2>1 DEF vars
    <3>6. NoUrl \in Urls
      BY RoutingAssumption
    <3> QED
      BY <3>1, <3>2, <3>3, <3>4, <3>5, <3>6 DEF Next
  <2>3. PICK u \in Urls : InsertRow(s, u)
    BY <2>2
  <2> DEFINE st == SpdUrlStatus(status[s], u)
             t == threads[s]
             x == RoutingChoose(LastTable, t, st, relname)
  <2>4. /\ pc[s] = "rows" /\ Candidates(t, st) # {}
        /\ delivered' = [delivered EXCEPT ![t[x]] = IF u = NoUrl THEN @ + 1 ELSE @]
    BY <2>3 DEF InsertRow
  <2>5. t[x] = c /\ u = NoUrl
    <3> HIDE DEF x, t, st
    <3>1. delivered'[c] = IF c = t[x] /\ u = NoUrl THEN delivered[c] + 1 ELSE delivered[c]
      BY <1>1, <2>4 DEF Safe, TypeOK
    <3> QED
      BY <2>1, <3>1
  <2>6. st = status[s]
    BY <2>5 DEF SpdUrlStatus
  <2>7. LastTable = relname[c]
    BY DEF LastTable
  <2>8. PICK n : OrderedN(t, n)
    BY <1>1, <2>4, SafeThreads
  <2> HIDE DEF st
  <2>9. /\ x \in Candidates(t, st)
        /\ \/ relname[t[x]] > LastTable
           \/ \A j \in Candidates(t, st) :
                x <= j /\ ~(LastTable # NoName /\ relname[t[j]] > LastTable)
    BY <2>4, <2>8, ChooseFinds
  <2> HIDE DEF x, t
  <2>10. relname \in [Table -> Nat] /\ DistinctNames
    BY <1>1, SafeNames DEF Names
  <2>11. ASSUME NEW j \in Candidates(t, st) PROVE t[j] = c
    <3>1. x <= j /\ ~(relname[t[j]] > relname[c])
      BY <2>5, <2>7, <2>9, <2>10
    <3>2. x \in 0 .. n - 1 /\ j \in 0 .. n - 1 /\ t[j] \in Table
      BY <2>8, <2>9 DEF OrderedN, Candidates
    <3>3. x < j => relname[t[x]] < relname[t[j]]
      BY <2>8, <3>2 DEF OrderedN
    <3>4. ~(x < j)
      BY <2>5, <2>10, <3>1, <3>2, <3>3
    <3>5. x = j
      BY <2>8, <3>1, <3>2, <3>4 DEF OrderedN
    <3> QED
      BY <2>5, <3>5
  <2> QED
    BY <2>4, <2>6, <2>11 DEF t
<1>2. Safe /\ [Next]_vars => [Other]_vars
  BY <1>1
<1> QED
  BY <1>2, SafeAlways, PTL DEF Spec, NotTwiceRunning

-----------------------------------------------------------------------------
(* The rotation.                                                           *)

(* While every child is a candidate, the child that spd_routing_choose     *)
(* takes after T rows is the one whose turn it is.                         *)
LEMMA ChooseInTurn ==
  ASSUME Names, NEW T \in Nat, EntryAfter(T)
  PROVE  RoutingChoose(LastTable, ByName(Table), [c \in Table |-> "Alive"], relname)
           = T % NumTables
<1> DEFINE L == NumTables
           b == ByName(Table)
           st == [c \in Table |-> "Alive"]
           C == Candidates(b, st)
           A(prev) == {i \in C : prev # NoName /\ IsAfter(relname[b[i]], prev)}
<1>1. L \in Nat \ {0}
  BY SomeTables
<1>2. /\ b \in [0 .. L - 1 -> Table]
      /\ \A i, j \in 0 .. L - 1 : i < j <=> relname[b[i]] < relname[b[j]]
  <2>1. Table # {}
    BY RoutingAssumption
  <2> QED
    BY <2>1, ByNameOrders DEF NumTables
<1> HIDE DEF b, L
<1>3. C = 0 .. L - 1
  BY <1>2 DEF Candidates
<1>4. Min(C) = 0
  <2>1. C \subseteq Nat /\ 0 \in C /\ \A y \in C : 0 <= y
    BY <1>1, <1>3
  <2> HIDE DEF C
  <2> QED
    BY <2>1, MinIs
<1>5. \A prev : RoutingChoose(prev, b, st, relname) = Min(IF A(prev) # {} THEN A(prev) ELSE C)
  BY DEF RoutingChoose
<1>6. CASE entry.child = NoName /\ T % L = 0
  <2>1. LastTable = NoName
    BY <1>6 DEF LastTable
  <2>2. A(NoName) = {}
    OBVIOUS
  <2> HIDE DEF A, C, st
  <2>3. RoutingChoose(LastTable, b, st, relname) = Min(C)
    BY <1>5, <2>1, <2>2
  <2> QED
    BY <1>4, <1>6, <2>3 DEF b, L, st
<1>7. CASE /\ entry.child = b[(T + (L - 1)) % L]
           /\ entry.tablename = relname[entry.child]
  <2> DEFINE y == T + (L - 1)
             p == y % L
  <2>1. y \in Nat /\ y + 1 = T + L
    BY <1>1
  <2> HIDE DEF y
  <2>2. p \in 0 .. L - 1
    BY <1>1, <2>1, DivMod
  <2>3. (p + 1) % L = T % L
    <3>1. (p + 1) % L = (y + 1) % L
      BY <1>1, <2>1, ModSucc
    <3>2. (T + L) % L = T % L
      BY <1>1, ModRound
    <3> QED
      BY <2>1, <3>1, <3>2
  <2>4. entry.child = b[p]
    BY <1>7 DEF y
  <2> HIDE DEF p
  <2>5. LastTable = relname[b[p]] /\ relname[b[p]] \in Nat /\ NoName \notin Nat
    <3>1. b[p] \in Table /\ NoName \notin Nat /\ Table \subseteq Nat
      BY <1>2, <2>2, RoutingAssumption
    <3>2. relname[b[p]] \in Nat
      BY <3>1 DEF Names
    <3>3. entry.child # NoName
      BY <2>4, <3>1
    <3> QED
      BY <1>7, <2>4, <3>1, <3>2, <3>3 DEF LastTable
  <2> DEFINE Z == A(LastTable)
  <2>6. Z = p + 1 .. L - 1
    <3>1. Z = {i \in 0 .. L - 1 : relname[b[i]] > relname[b[p]]}
      BY <1>3, <2>5 DEF IsAfter
    <3>2. \A i \in 0 .. L - 1 : relname[b[i]] \in Nat
      BY <1>2 DEF Names
    <3>3. \A i \in 0 .. L - 1 : relname[b[i]] > relname[b[p]] <=> i > p
      BY <1>2, <2>2, <2>5, <3>2
    <3> QED
      BY <1>1, <2>2, <3>1, <3>3
  <2>7. RoutingChoose(LastTable, b, st, relname) = Min(IF Z # {} THEN Z ELSE C)
    BY <1>5
  <2> HIDE DEF Z, C, st
  <2>8. CASE p = L - 1
    <3>1. Z = {}
      BY <1>1, <2>6, <2>8
    <3>2. T % L = 0
      <4>1. p + 1 = (L * 1) + 0 /\ p + 1 \in Nat /\ 0 \in 0 .. L - 1
        BY <1>1, <2>8
      <4>2. (p + 1) % L = 0
        BY <1>1, <4>1, DivModUnique
      <4> QED
        BY <2>3, <4>2
    <3> QED
      BY <1>4, <2>7, <3>1, <3>2 DEF b, L, st
  <2>9. CASE p # L - 1
    <3> DEFINE h == p + 1
    <3>1. h \in 0 .. L - 1 /\ h \in Nat /\ h = (L * 0) + h
      BY <1>1, <2>2, <2>9
    <3>2. Z \subseteq Nat /\ h \in Z /\ \A x \in Z : h <= x
      BY <1>1, <2>2, <2>6, <2>9
    <3>3. h % L = T % L
      BY <2>3
    <3> HIDE DEF h
    <3>4. h % L = h
      BY <1>1, <3>1, DivModUnique
    <3>5. Min(Z) = h
      BY <3>2, MinIs
    <3> QED
      BY <2>7, <3>2, <3>3, <3>4, <3>5 DEF b, L, st
  <2> QED
    BY <2>8, <2>9
<1> QED
  BY <1>6, <1>7 DEF EntryAfter, b, L

(* The child whose turn it is, and no other, has its name there.           *)
LEMMA TurnIsUnique ==
  ASSUME Names
  PROVE  /\ ByName(Table) \in [0 .. NumTables - 1 -> Table]
         /\ OrderedN(ByName(Table), NumTables)
         /\ \A i, j \in 0 .. NumTables - 1 : ByName(Table)[i] = ByName(Table)[j] => i = j
         /\ \A c \in Table : \E i \in 0 .. NumTables - 1 : ByName(Table)[i] = c
<1> DEFINE b == ByName(Table)
           L == NumTables
<1>1. Table # {}
  BY RoutingAssumption
<1>2. /\ L \in Nat
      /\ b \in [0 .. L - 1 -> Table]
      /\ \A i, j \in 0 .. L - 1 : i < j <=> relname[b[i]] < relname[b[j]]
      /\ \A c \in Table : \E i \in 0 .. L - 1 : b[i] = c
  BY <1>1, ByNameOrders DEF NumTables
<1>3. OrderedN(b, L)
  BY <1>1, ByNameOrdered DEF NumTables
<1> HIDE DEF b, L
<1>4. ASSUME NEW i \in 0 .. L - 1, NEW j \in 0 .. L - 1, b[i] = b[j] PROVE i = j
  <2>1. relname[b[i]] = relname[b[j]] /\ relname[b[i]] \in Nat
    BY <1>2, <1>4 DEF Names
  <2>2. ~(i < j) /\ ~(j < i)
    BY <1>2, <2>1
  <2> QED
    BY <2>2
<1> QED
  BY <1>2, <1>3, <1>4 DEF b, L

(* Rows in turn are distributed evenly.                                    *)
LEMMA RoundRobinEven ==
  ASSUME Routes
  PROVE  EvenIfUndisturbed
<1> SUFFICES ASSUME undisturbed, NEW c \in Table, NEW d \in Table
             PROVE  delivered[c] <= delivered[d] + 1
  BY DEF EvenIfUndisturbed, Even
<1>1. PICK T \in Nat : InTurn(T)
  BY DEF Routes, RoundRobin
<1>2. Names
  BY SafeNames DEF Routes
<1>3. PICK j \in 0 .. NumTables - 1 : ByName(Table)[j] = c
  BY <1>2, TurnIsUnique
<1>4. PICK i \in 0 .. NumTables - 1 : ByName(Table)[i] = d
  BY <1>2, TurnIsUnique
<1>5. delivered[c] = Cardinality(Turns(T, j)) /\ delivered[d] = Cardinality(Turns(T, i))
  BY <1>1, <1>3, <1>4 DEF InTurn
<1> QED
  BY <1>5, TurnsEven

(* No row has been routed initially.                                       *)
LEMMA RoundRobinInit == Init => RoundRobin
<1> SUFFICES ASSUME Init PROVE RoundRobin
  OBVIOUS
<1>1. Names
  BY SafeInit, SafeNames
<1>2. ASSUME NEW i \in 0 .. NumTables - 1
      PROVE  delivered[ByName(Table)[i]] = Cardinality(Turns(0, i))
  <2>1. Turns(0, i) = {}
    BY DEF Turns
  <2>2. ByName(Table)[i] \in Table
    BY <1>1, TurnIsUnique
  <2> QED
    BY <2>1, <2>2, FS_EmptySet DEF Init
<1>3. EntryAfter(0)
  <2>1. 0 % NumTables = 0
    <3>1. 0 = (NumTables * 0) + 0 /\ 0 \in 0 .. NumTables - 1
      BY SomeTables
    <3> QED
      BY <3>1, SomeTables, DivModUnique
  <2> QED
    BY <2>1 DEF EntryAfter, Init
<1>4. AllAlive /\ OneSplit /\ \A s \in Session : pc[s] # "split"
  BY DEF AllAlive, OneSplit, Init
<1>5. InTurn(0)
  BY <1>2, <1>3, <1>4 DEF InTurn
<1> QED
  BY <1>4, <1>5 DEF RoundRobin

(* The children keep their order as long as they keep their names.         *)
LEMMA SameOrder ==
  ASSUME relname' = relname
  PROVE  ByName(Table)' = ByName(Table)
BY DEF ByName

(* A step that routes no row.                                              *)
LEMMA RoundRobinKept ==
  ASSUME Routes, undisturbed' => undisturbed /\ AllAlive',
         UNCHANGED <<relname, entry, delivered>>,
         \A r \in Session : /\ pc'[r] = "split" <=> pc[r] = "split"
                            /\ pc'[r] = "split" => start'[r] = start[r]
  PROVE  RoundRobin'
<1> SUFFICES ASSUME undisturbed' PROVE AllAlive' /\ OneSplit' /\ \E T \in Nat : InTurn(T)'
  BY DEF RoundRobin
<1>1. PICK T \in Nat : InTurn(T)
  BY DEF Routes, RoundRobin
<1>2. OneSplit'
  BY DEF Routes, RoundRobin, OneSplit
<1>3. ByName(Table)' = ByName(Table)
  BY SameOrder
<1>4. EntryAfter(T) => EntryAfter(T)'
  BY <1>3 DEF EntryAfter
<1>5. InTurn(T)'
  BY <1>1, <1>3, <1>4 DEF InTurn
<1> QED
  BY <1>2, <1>5

(* A statement begins: if a child is not updatable, the rotation is        *)
(* disturbed.                                                              *)
LEMMA RoundRobinBegin ==
  ASSUME Routes, NEW s \in Session, Begin(s)
  PROVE  RoundRobin'
<1>1. PICK refused \in SUBSET MayRefuse :
        /\ refused # Table
        /\ status' = [status EXCEPT ![s] =
                        [c \in Table |-> IF c \in refused THEN "NotTarget" ELSE "Alive"]]
        /\ threads' = [threads EXCEPT ![s] = ByName(Table \ refused)]
        /\ undisturbed' = (undisturbed /\ refused = {})
  BY DEF Begin
<1>2. PICK mode \in {"rows", "batches"} : pc' = [pc EXCEPT ![s] = mode]
  BY DEF Begin
<1>3. pc[s] = "idle" /\ UNCHANGED <<relname, entry, start, delivered, renames>>
  BY DEF Begin
<1>4. ASSUME undisturbed' PROVE undisturbed /\ AllAlive'
  <2>1. undisturbed /\ refused = {}
    BY <1>1, <1>4
  <2>2. Table \ refused = Table
    BY <2>1
  <2>3. status' = [status EXCEPT ![s] = [c \in Table |-> "Alive"]]
    BY <1>1, <2>1
  <2>4. threads' = [threads EXCEPT ![s] = ByName(Table)]
    BY <1>1, <2>2
  <2>5. ByName(Table)' = ByName(Table)
    BY <1>3, SameOrder
  <2>6. ASSUME NEW r \in Session, pc'[r] # "idle"
        PROVE  status'[r] = [c \in Table |-> "Alive"] /\ threads'[r] = ByName(Table)
    <3>1. CASE r = s
      BY <2>3, <2>4, <3>1 DEF Routes, Safe, Shapes
    <3>2. CASE r # s
      <4>1. pc[r] # "idle"
        BY <1>2, <2>6, <3>2 DEF Routes, Safe, TypeOK
      <4>2. status[r] = [c \in Table |-> "Alive"] /\ threads[r] = ByName(Table)
        BY <2>1, <4>1 DEF Routes, RoundRobin, AllAlive
      <4> QED
        BY <2>3, <2>4, <3>2, <4>2 DEF Routes, Safe, Shapes
    <3> QED
      BY <3>1, <3>2
  <2> QED
    BY <2>1, <2>5, <2>6 DEF AllAlive
<1>5. \A r \in Session : /\ pc'[r] = "split" <=> pc[r] = "split"
                         /\ pc'[r] = "split" => start'[r] = start[r]
  BY <1>2, <1>3 DEF Routes, Safe, TypeOK
<1> QED
  BY <1>3, <1>4, <1>5, RoundRobinKept

(* The other statements go on when one is over.                            *)
LEMMA AliveAfterOver ==
  ASSUME Routes, undisturbed, NEW s \in Session, Over(s), relname' = relname
  PROVE  AllAlive'
<1>1. /\ pc' = [pc EXCEPT ![s] = "idle"]
      /\ status' = [status EXCEPT ![s] = NoChildren]
      /\ threads' = [threads EXCEPT ![s] = NoChildren]
  BY DEF Over
<1>2. ByName(Table)' = ByName(Table)
  BY SameOrder
<1>3. ASSUME NEW r \in Session, pc'[r] # "idle"
      PROVE  status'[r] = [c \in Table |-> "Alive"] /\ threads'[r] = ByName(Table)
  <2>1. r # s /\ pc[r] # "idle"
    BY <1>1, <1>3 DEF Routes, Safe, TypeOK
  <2>2. status[r] = [c \in Table |-> "Alive"] /\ threads[r] = ByName(Table)
    BY <2>1 DEF Routes, RoundRobin, AllAlive
  <2> QED
    BY <1>1, <2>1, <2>2 DEF Routes, Safe, Shapes
<1> QED
  BY <1>2, <1>3 DEF AllAlive

(* A statement is over that splits no batch.                               *)
LEMMA RoundRobinOver ==
  ASSUME Routes, NEW s \in Session, pc[s] # "split", Over(s),
         UNCHANGED <<relname, entry, delivered, undisturbed>>
  PROVE  RoundRobin'
<1>1. pc' = [pc EXCEPT ![s] = "idle"] /\ start' = [start EXCEPT ![s] = 0]
  BY DEF Over
<1>2. undisturbed' => undisturbed /\ AllAlive'
  BY AliveAfterOver
<1>3. \A r \in Session : /\ pc'[r] = "split" <=> pc[r] = "split"
                         /\ pc'[r] = "split" => start'[r] = start[r]
  BY <1>1 DEF Routes, Safe, TypeOK, Shapes
<1> QED
  BY <1>2, <1>3, RoundRobinKept

(* A row takes its turn.                                                   *)
LEMMA RoundRobinInsertRow ==
  ASSUME Routes, NEW s \in Session, NEW u \in Urls, InsertRow(s, u)
  PROVE  RoundRobin'
<1> SUFFICES ASSUME undisturbed' PROVE AllAlive' /\ OneSplit' /\ \E T \in Nat : InTurn(T)'
  BY DEF RoundRobin
<1> DEFINE st == SpdUrlStatus(status[s], u)
           b == ByName(Table)
           L == NumTables
           c == threads[s][RoutingChoose(LastTable, threads[s], st, relname)]
<1>1. /\ pc[s] = "rows"
      /\ Remember(c)
      /\ delivered' = [delivered EXCEPT ![c] = IF u = NoUrl THEN @ + 1 ELSE @]
      /\ status' = [status EXCEPT ![s] = st]
      /\ undisturbed' = (undisturbed /\ u = NoUrl /\ ~Splitting(s))
      /\ UNCHANGED <<relname, pc, threads, start, renames>>
  BY DEF InsertRow
<1>2. undisturbed /\ u = NoUrl /\ \A r \in Session : pc[r] # "split"
  BY <1>1 DEF Splitting
<1>3. AllAlive /\ OneSplit
  BY <1>2 DEF Routes, RoundRobin
<1>4. PICK T \in Nat : InTurn(T)
  BY <1>2 DEF Routes, RoundRobin
<1>5. st = [d \in Table |-> "Alive"] /\ st = status[s] /\ threads[s] = b
  BY <1>1, <1>2, <1>3 DEF AllAlive, SpdUrlStatus
<1>6. Names /\ L \in Nat \ {0}
  BY SafeNames, SomeTables DEF Routes
<1>7. c = b[T % L]
  <2>1. EntryAfter(T)
    BY <1>2, <1>4 DEF InTurn
  <2> QED
    BY <1>5, <1>6, <2>1, ChooseInTurn
<1>8. b' = b
  BY <1>1, SameOrder
<1> HIDE DEF st, b, L, c
<1>9. AllAlive'
  <2>1. \A r \in Session : status'[r] = status[r]
    BY <1>1, <1>5 DEF Routes, Safe, Shapes
  <2> QED
    BY <1>1, <1>3, <1>8, <2>1 DEF AllAlive, b
<1>10. OneSplit'
  BY <1>1, <1>3 DEF OneSplit
<1>11. T % L \in 0 .. L - 1
  BY <1>6, DivMod
<1>12. ASSUME NEW i \in 0 .. L - 1
       PROVE  delivered'[b[i]] = Cardinality(Turns(T + 1, i))
  <2>1. /\ delivered[b[i]] = Cardinality(Turns(T, i))
        /\ b[i] \in Table /\ c \in Table
        /\ (c = b[i] <=> i = T % L)
    BY <1>4, <1>6, <1>7, <1>11, TurnIsUnique DEF InTurn, b, L
  <2>2. IsFiniteSet(Turns(T, i)) /\ Cardinality(Turns(T, i)) \in Nat /\ T \notin Turns(T, i)
    <3>1. T \notin Turns(T, i)
      BY DEF Turns
    <3> QED
      BY <3>1, TurnsFinite
  <2>3. CASE i = T % L
    <3>1. Turns(T + 1, i) = Turns(T, i) \cup {T}
      BY <2>3 DEF Turns, L
    <3>2. Cardinality(Turns(T + 1, i)) = Cardinality(Turns(T, i)) + 1
      BY <2>2, <3>1, FS_AddElement
    <3>3. delivered'[b[i]] = delivered[b[i]] + 1
      BY <1>1, <1>2, <2>1, <2>3 DEF Routes, Safe, TypeOK
    <3> QED
      BY <2>1, <3>2, <3>3
  <2>4. CASE i # T % L
    <3>1. Turns(T + 1, i) = Turns(T, i)
      BY <2>4 DEF Turns, L
    <3>2. delivered'[b[i]] = delivered[b[i]]
      BY <1>1, <2>1, <2>4 DEF Routes, Safe, TypeOK
    <3> QED
      BY <2>1, <3>1, <3>2
  <2> QED
    BY <2>3, <2>4
<1>13. EntryAfter(T + 1)'
  <2>1. ((T + 1) + (L - 1)) % L = T % L
    <3>1. (T + 1) + (L - 1) = T + L
      BY <1>6
    <3> QED
      BY <1>6, <3>1, ModRound
  <2>2. entry'.child = b[T % L] /\ entry'.tablename = relname'[entry'.child]
    BY <1>1, <1>7 DEF Remember
  <2>3. entry'.child = b'[((T + 1) + (L - 1)) % L]
    BY <1>8, <2>1, <2>2
  <2> QED
    BY <2>2, <2>3 DEF EntryAfter, b, L
<1>14. InTurn(T + 1)'
  <2>1. \A i \in 0 .. L - 1 : delivered'[b'[i]] = Cardinality(Turns(T + 1, i))
    BY <1>8, <1>12
  <2>2. \A r \in Session : pc'[r] # "split"
    BY <1>1, <1>2
  <2> QED
    BY <1>13, <2>1, <2>2 DEF InTurn, b, L, Turns, NumTables
<1> QED
  BY <1>9, <1>10, <1>14

(* A batch begins with the child whose turn it is.                         *)
LEMMA RoundRobinSplitStart ==
  ASSUME Routes, NEW s \in Session, SplitStart(s)
  PROVE  RoundRobin'
<1> SUFFICES ASSUME undisturbed' PROVE AllAlive' /\ OneSplit' /\ \E T \in Nat : InTurn(T)'
  BY DEF RoundRobin
<1>1. /\ pc[s] = "batches"
      /\ start' = [start EXCEPT ![s] = RoutingChoose(LastTable, threads[s], status[s], relname)]
      /\ pc' = [pc EXCEPT ![s] = "split"]
      /\ undisturbed' = (undisturbed /\ ~Splitting(s))
      /\ byUrl' = {}
      /\ UNCHANGED <<relname, status, threads, delivered, renames>>
  BY DEF SplitStart
<1>2. undisturbed /\ \A r \in Session : pc[r] # "split"
  BY <1>1 DEF Splitting
<1>3. AllAlive
  BY <1>2 DEF Routes, RoundRobin
<1>4. PICK T \in Nat : InTurn(T)
  BY <1>2 DEF Routes, RoundRobin
<1>5. ByName(Table)' = ByName(Table)
  BY <1>1, SameOrder
<1>6. AllAlive'
  <2>1. \A r \in Session : pc'[r] # "idle" => pc[r] # "idle"
    BY <1>1 DEF Routes, Safe, TypeOK
  <2> QED
    BY <1>1, <1>3, <1>5, <2>1 DEF AllAlive
<1>7. \A r \in Session : pc'[r] = "split" <=> r = s
  BY <1>1, <1>2 DEF Routes, Safe, TypeOK
<1>8. start'[s] = T % NumTables
  <2>1. EntryAfter(T)
    BY <1>2, <1>4 DEF InTurn
  <2>2. status[s] = [c \in Table |-> "Alive"] /\ threads[s] = ByName(Table)
    BY <1>1, <1>3 DEF AllAlive
  <2>3. RoutingChoose(LastTable, threads[s], status[s], relname) = T % NumTables
    BY <2>1, <2>2, ChooseInTurn, SafeNames DEF Routes
  <2> QED
    BY <1>1, <2>3 DEF Routes, Safe, Shapes
<1>9. InTurn(T)'
  <2>1. \A i \in 0 .. NumTables - 1 : delivered'[ByName(Table)'[i]] = Cardinality(Turns(T, i))
    BY <1>1, <1>4, <1>5 DEF InTurn
  <2> QED
    BY <1>7, <1>8, <2>1 DEF InTurn, Turns, NumTables
<1>10. OneSplit'
  BY <1>7 DEF OneSplit
<1> QED
  BY <1>6, <1>9, <1>10

(* After a batch of another number of rows, it is another child's turn.    *)
LEMMA EntryAfterSplit ==
  ASSUME Routes, undisturbed, NEW s \in Session, pc[s] = "split", NEW T \in Nat, InTurn(T),
         NEW m \in Nat, relname' = relname,
         Remember(threads[s][(start[s] + (m + (NumTables - 1))) % NumTables])
  PROVE  EntryAfter(T + m)'
<1> DEFINE b == ByName(Table)
           L == NumTables
<1>1. L \in Nat \ {0} /\ b' = b
  BY SomeTables, SameOrder
<1>2. threads[s] = b /\ start[s] = T % L
  BY DEF Routes, RoundRobin, AllAlive, InTurn
<1> HIDE DEF b, L
<1>3. ((T % L) + (m + (L - 1))) % L = ((T + m) + (L - 1)) % L
  <2>1. m + (L - 1) \in Nat /\ T + (m + (L - 1)) = (T + m) + (L - 1)
    BY <1>1
  <2>2. ((T % L) + (m + (L - 1))) % L = (T + (m + (L - 1))) % L
    BY <1>1, <2>1, ModAdd
  <2> QED
    BY <2>1, <2>2
<1>4. Remember(b[((T + m) + (L - 1)) % L])
  BY <1>2, <1>3 DEF L
<1>5. /\ entry'.child = b'[((T + m) + (L - 1)) % L]
      /\ entry'.tablename = relname'[entry'.child]
  BY <1>1, <1>4 DEF Remember
<1> QED
  BY <1>5 DEF EntryAfter, b, L

(* A batch takes as many turns as it has rows without a URL.               *)
LEMMA RoundRobinSplitDone ==
  ASSUME Routes, NEW s \in Session, SplitDone(s)
  PROVE  RoundRobin'
<1> SUFFICES ASSUME undisturbed' PROVE AllAlive' /\ OneSplit' /\ \E T \in Nat : InTurn(T)'
  BY DEF RoundRobin
<1> PICK n \in 1 .. MaxBatch : \E rows \in [1 .. n -> Urls] : Distributes(s, n, rows)
  BY SplitDoneIs
<1>1. PICK rows \in [1 .. n -> Urls] : Distributes(s, n, rows)
  OBVIOUS
<1> DEFINE b == ByName(Table)
           L == NumTables
           Slot(k) == SlotTarget(start[s], threads[s], rows, k)
           RowsOf(c) == {k \in 1 .. n : threads[s][Slot(k)] = c /\ rows[k] = NoUrl}
           K == {k \in 1 .. n : rows[k] = NoUrl}
           m == Cardinality(K)
<1>2. /\ RowsHaveTargets(threads[s], rows)
      /\ delivered' = [c \in Table |-> delivered[c] + Cardinality(RowsOf(c))]
      /\ Remember(threads[s][SplitLast(start[s], threads[s], rows)])
  BY <1>1 DEF Distributes
<1>3. /\ pc[s] = "split" /\ pc' = [pc EXCEPT ![s] = "batches"]
      /\ UNCHANGED <<relname, status, threads, undisturbed, renames>>
  BY DEF SplitDone
<1>4. undisturbed /\ AllAlive /\ OneSplit
  BY <1>3 DEF Routes, RoundRobin
<1>5. PICK T \in Nat : InTurn(T)
  BY <1>4 DEF Routes, RoundRobin
<1>6. threads[s] = b /\ start[s] = T % L
  BY <1>3, <1>4, <1>5 DEF AllAlive, InTurn
<1>7. L \in Nat \ {0} /\ Names /\ b' = b /\ OrderedN(b, L)
  BY <1>3, SomeTables, SafeNames, SameOrder, TurnIsUnique DEF Routes
<1>8. T % L \in Nat /\ n \in Nat /\ DOMAIN rows = 1 .. n
  BY <1>7, DivMod, RoutingAssumption
<1>9. K \subseteq 1 .. n /\ m \in Nat
  BY <1>8, RowsFinite
<1> HIDE DEF b, L
<1>10. ASSUME NEW k \in K
       PROVE  /\ Slot(k) = (T + Cardinality({l \in K : l < k})) % L
              /\ Slot(k) \in 0 .. L - 1
  <2>1. RowsBefore(rows, k) = {l \in K : l < k}
    BY <1>8 DEF RowsBefore
  <2>2. Cardinality({l \in K : l < k}) \in Nat
    BY <1>8, RowsFinite
  <2>3. /\ Slot(k) = ((T % L) + Cardinality(RowsBefore(rows, k))) % L
        /\ Slot(k) \in 0 .. L - 1
    <3>1. k \in 1 .. n /\ rows[k] = NoUrl
      OBVIOUS
    <3> DEFINE x == start[s] + Cardinality(RowsBefore(rows, k))
    <3>2. x \in Nat /\ x = (T % L) + Cardinality(RowsBefore(rows, k))
      BY <1>6, <1>8, <2>1, <2>2
    <3>3. Slot(k) = x % Cardinality(DOMAIN b)
      BY <1>6, <3>1 DEF SlotTarget
    <3> HIDE DEF K, Slot, x
    <3>4. Cardinality(DOMAIN b) = L /\ x % L \in 0 .. L - 1
      BY <1>7, <3>2, SlotOf
    <3> QED
      BY <3>2, <3>3, <3>4
  <2> QED
    BY <1>7, <2>1, <2>2, <2>3, ModAdd
<1> HIDE DEF Slot, m
<1>11. ASSUME NEW i \in 0 .. L - 1
       PROVE  delivered'[b[i]] = Cardinality(Turns(T + m, i))
  <2> DEFINE G == {k \in K : (T + Cardinality({l \in K : l < k})) % L = i}
  <2>1. /\ delivered[b[i]] = Cardinality(Turns(T, i))
        /\ b[i] \in Table
        /\ \A j \in 0 .. L - 1 : b[j] = b[i] => j = i
    BY <1>5, <1>7, TurnIsUnique DEF InTurn, b, L
  <2>2. RowsOf(b[i]) = {k \in K : b[Slot(k)] = b[i]}
    BY <1>6
  <2>3. \A k \in K : b[Slot(k)] = b[i] <=> (T + Cardinality({l \in K : l < k})) % L = i
    BY <1>10, <2>1
  <2>4. {k \in K : b[Slot(k)] = b[i]} = G
    BY <2>3
  <2>5. delivered'[b[i]] = delivered[b[i]] + Cardinality(G)
    <3>1. delivered'[b[i]] = delivered[b[i]] + Cardinality(RowsOf(b[i]))
      <4> HIDE DEF RowsOf
      <4> QED
        BY <1>2, <2>1
    <3> HIDE DEF G, RowsOf, K
    <3> QED
      BY <2>2, <2>4, <3>1
  <2> HIDE DEF K
  <2>6. Cardinality(Turns(T + m, i)) = Cardinality(Turns(T, i)) + Cardinality(G)
    <3>1. i \in 0 .. NumTables - 1
      BY DEF L
    <3>2. Cardinality(Turns(T + m, i)) = Cardinality(Turns(T, i)) + Cardinality(BatchTurns(T, K, i))
      BY <1>8, <1>9, <3>1, TurnsOfBatch DEF m
    <3>3. G = BatchTurns(T, K, i)
      BY DEF BatchTurns, L
    <3> HIDE DEF G
    <3> QED
      BY <3>2, <3>3
  <2> HIDE DEF G
  <2> QED
    BY <2>1, <2>5, <2>6
<1>12. EntryAfter(T + m)'
  <2>1. K = {k \in DOMAIN rows : rows[k] = NoUrl}
    BY <1>8
  <2> HIDE DEF K
  <2>2. SplitLast(start[s], threads[s], rows) = ((T % L) + (m + (L - 1))) % L
    BY <1>6, <1>7, <1>8, <2>1, SplitEnds DEF m
  <2>3. Remember(threads[s][(start[s] + (m + (L - 1))) % L])
    BY <1>2, <1>6, <2>2
  <2> QED
    BY <1>3, <1>4, <1>5, <1>9, <2>3, EntryAfterSplit DEF L
<1>13. \A r \in Session : pc'[r] # "split"
  BY <1>3, <1>4 DEF Routes, Safe, TypeOK, OneSplit
<1>14. AllAlive' /\ OneSplit'
  <2>1. \A r \in Session : pc'[r] # "idle" => pc[r] # "idle"
    BY <1>3 DEF Routes, Safe, TypeOK
  <2>2. AllAlive'
    BY <1>3, <1>4, <1>7, <2>1 DEF AllAlive, b
  <2> QED
    BY <1>13, <2>2 DEF OneSplit
<1>15. InTurn(T + m)'
  <2>1. \A i \in 0 .. L - 1 : delivered'[b'[i]] = Cardinality(Turns(T + m, i))
    BY <1>7, <1>11
  <2> HIDE DEF K
  <2> QED
    BY <1>12, <1>13, <2>1 DEF InTurn, b, L, Turns, NumTables
<1> HIDE DEF K
<1> QED
  BY <1>9, <1>14, <1>15

(* A batch that fails takes no turn.                                       *)
LEMMA RoundRobinSplitFail ==
  ASSUME Routes, NEW s \in Session, SplitFail(s)
  PROVE  RoundRobin'
<1> SUFFICES ASSUME undisturbed' PROVE AllAlive' /\ OneSplit' /\ \E T \in Nat : InTurn(T)'
  BY DEF RoundRobin
<1>1. /\ pc[s] = "split" /\ Over(s)
      /\ Remember(threads[s][SplitReset(start[s], threads[s])])
      /\ UNCHANGED <<relname, delivered, undisturbed, renames>>
  BY DEF SplitFail
<1>2. undisturbed /\ AllAlive /\ OneSplit
  BY <1>1 DEF Routes, RoundRobin
<1>3. PICK T \in Nat : InTurn(T)
  BY <1>2 DEF Routes, RoundRobin
<1>4. ByName(Table)' = ByName(Table)
  BY <1>1, SameOrder
<1>5. AllAlive'
  BY <1>1, <1>2, AliveAfterOver
<1>6. \A r \in Session : pc'[r] # "split"
  <2>1. pc' = [pc EXCEPT ![s] = "idle"]
    BY <1>1 DEF Over
  <2> QED
    BY <1>1, <1>2, <2>1 DEF Routes, Safe, TypeOK, OneSplit
<1>7. EntryAfter(T)'
  <2> DEFINE L == NumTables
  <2>1. L \in Nat \ {0}
    BY SomeTables
  <2>2. OrderedN(threads[s], L)
    BY <1>1, <1>2, SafeNames, TurnIsUnique DEF Routes, AllAlive
  <2>3. start[s] = T % L /\ T % L \in Nat
    BY <1>1, <1>3, <2>1, DivMod DEF InTurn
  <2> HIDE DEF L
  <2>4. SplitReset(start[s], threads[s]) = (start[s] + (L - 1)) % L
    BY <2>2, <2>3, SplitResets
  <2>5. L - 1 = 0 + (L - 1)
    BY <2>1
  <2>6. Remember(threads[s][(start[s] + (0 + (L - 1))) % L])
    BY <1>1, <2>4, <2>5
  <2>7. EntryAfter(T + 0)'
    BY <1>1, <1>2, <1>3, <2>6, EntryAfterSplit DEF L
  <2>8. T + 0 = T
    OBVIOUS
  <2> QED
    BY <2>7, <2>8
<1>8. InTurn(T)'
  <2>1. \A i \in 0 .. NumTables - 1 : delivered'[ByName(Table)'[i]] = Cardinality(Turns(T, i))
    BY <1>1, <1>3, <1>4 DEF InTurn
  <2> QED
    BY <1>6, <1>7, <2>1 DEF InTurn, Turns, NumTables
<1>9. OneSplit'
  BY <1>6 DEF OneSplit
<1> QED
  BY <1>5, <1>8, <1>9

(* Every step keeps the rotation.                                          *)
LEMMA RoundRobinNext == Routes /\ [Next]_vars => RoundRobin'
<1> SUFFICES ASSUME Routes, [Next]_vars PROVE RoundRobin'
  OBVIOUS
<1>1. ASSUME NEW s \in Session, End(s) PROVE RoundRobin'
  <2>1. pc[s] # "split"
    BY <1>1 DEF End
  <2> QED
    BY <1>1, <2>1, RoundRobinOver DEF End
<1>2. ASSUME NEW s \in Session, NEW u \in Urls, InsertFail(s, u) PROVE RoundRobin'
  <2>1. pc[s] # "split"
    BY <1>2 DEF InsertFail
  <2> QED
    BY <1>2, <2>1, RoundRobinOver DEF InsertFail
<1>3. ASSUME NEW c \in Table, NEW n \in NewNames, Rename(c, n) PROVE RoundRobin'
  BY <1>3 DEF Rename, RoundRobin
<1>4. ASSUME \/ UNCHANGED vars
             \/ \E s \in Session, u \in Urls, f \in Table : InsertScanned(s, u, f)
      PROVE  RoundRobin'
  <2>1. UNCHANGED <<relname, entry, pc, status, threads, start, delivered, undisturbed>>
    BY <1>4 DEF vars, sessionVars, InsertScanned
  <2>2. ByName(Table)' = ByName(Table)
    BY <2>1, SameOrder
  <2>3. undisturbed' => undisturbed /\ AllAlive'
    BY <2>1, <2>2 DEF Routes, RoundRobin, AllAlive
  <2> QED
    BY <2>1, <2>3, RoundRobinKept
<1> QED
  BY <1>1, <1>2, <1>3, <1>4, RoundRobinBegin, RoundRobinInsertRow, RoundRobinSplitStart,
     RoundRobinSplitDone, RoundRobinSplitFail DEF Next

(* Rows without a URL take turns, in every reachable state.                *)
THEOREM RoutesAlways == Spec => []Routes
<1>1. Init => Routes
  BY SafeInit, RoundRobinInit DEF Routes
<1>2. Routes /\ [Next]_vars => Routes'
  BY SafeNext, RoundRobinNext DEF Routes
<1> QED
  BY <1>1, <1>2, PTL DEF Spec

(* Rows without a URL are distributed evenly by statements of any number   *)
(* of sessions, row by row or in batches, failed batches included          *)
(* (spd_routing_set_target puts the target back), as long as all children  *)
(* are updatable and keep their names, rows with a URL come in batches or  *)
(* from a scan only, and no batch is split while another session routes a  *)
(* row.                                                                    *)
THEOREM EvenIfUndisturbedAlways == Spec => []EvenIfUndisturbed
<1>1. Routes => EvenIfUndisturbed
  BY RoundRobinEven
<1> QED
  BY <1>1, RoutesAlways, PTL
=============================================================================
