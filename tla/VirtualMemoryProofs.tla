------------------------- MODULE VirtualMemoryProofs -------------------------
(***************************************************************************)
(* Proofs about VirtualMemory, for tables of any size and depth, memory of *)
(* any size, and any number of pages that other CPUs own and of            *)
(* translations in the TLB.                                                *)
(***************************************************************************)
EXTENDS VirtualMemory, FiniteSetTheorems, WellFoundedInduction, TLAPS

------------------------------------------------------------------------------
(* Division with a divisor that is a parameter, and least numbers.         *)

LEMMA DivMod ==
  ASSUME NEW a \in Int, NEW d \in Nat \ {0}
  PROVE  a \div d \in Int /\ a % d \in 0 .. d - 1 /\ a = d * (a \div d) + (a % d)
OBVIOUS

LEMMA DivUnique ==
  ASSUME NEW a \in Int, NEW d \in Nat \ {0}, NEW q \in Int, d * q <= a, a < d * q + d
  PROVE  a \div d = q /\ a % d = a - d * q
OBVIOUS

LEMMA TimesMonotone ==
  ASSUME NEW a \in Int, NEW b \in Int, NEW d \in Nat \ {0}
  PROVE  (a <= b <=> d * a <= d * b) /\ (a < b <=> d * a < d * b)
OBVIOUS

LEMMA DivMonotone ==
  ASSUME NEW a \in Int, NEW b \in Int, NEW d \in Nat \ {0}, a <= b
  PROVE  a \div d <= b \div d
OBVIOUS

LEMMA DivOfMultiple ==
  ASSUME NEW a \in Int, NEW b \in Int, NEW d \in Nat \ {0}
  PROVE  (d * a + b) \div d = a + (b \div d) /\ (d * a + b) % d = b % d
<1>1. b = d * (b \div d) + (b % d) /\ b \div d \in Int /\ b % d \in 0 .. d - 1
  BY DivMod
<1>2. d * (a + (b \div d)) = d * a + d * (b \div d)
  BY <1>1
<1> DEFINE x == d * a + b
           q == a + (b \div d)
<1>3. x \in Int /\ q \in Int /\ d * q <= x /\ x < d * q + d
  BY <1>1, <1>2
<1>4. x \div d = q /\ x % d = x - d * q
  <2> HIDE DEF x, q
  <2> QED
    BY <1>3, DivUnique
<1>5. x - d * q = b % d
  BY <1>1, <1>2
<1> QED
  BY <1>4, <1>5

\* Dividing by d and then by e.
LEMMA DivDiv ==
  ASSUME NEW a \in Int, NEW d \in Nat \ {0}, NEW e \in Nat \ {0}, NEW m \in Nat \ {0},
         m = e * d
  PROVE  a \div m = (a \div d) \div e
<1> DEFINE b == a \div d
           q == b \div e
<1>1. b \in Int /\ a % d \in 0 .. d - 1 /\ a = d * b + (a % d)
  BY DivMod
<1>2. q \in Int /\ b % e \in 0 .. e - 1 /\ b = e * q + (b % e)
  <2> HIDE DEF b
  <2> QED
    BY <1>1, DivMod
<1> HIDE DEF b, q
<1>3. m * q = d * (e * q) /\ m * q + m = d * (e * q + e)
  BY <1>2
<1>4. d * (e * q) <= d * b
  <2>1. e * q \in Int /\ e * q <= b
    BY <1>1, <1>2
  <2> QED
    BY <1>1, <2>1, TimesMonotone
<1>5. d * (b + 1) <= d * (e * q + e)
  <2>1. e * q + e \in Int /\ b + 1 \in Int /\ b + 1 <= e * q + e
    BY <1>1, <1>2
  <2> QED
    BY <2>1, TimesMonotone
<1>6. d * (b + 1) = d * b + d
  BY <1>1
<1>7. m * q <= a /\ a < m * q + m
  <2> DEFINE A == d * b
             M == m * q
             N == d * (e * q + e)
             B == d * (b + 1)
  <2>1. A \in Int /\ M \in Int /\ N \in Int /\ B \in Int /\ a % d \in 0 .. d - 1
    BY <1>1, <1>2
  <2>2. a = A + (a % d) /\ M <= A /\ N = M + m /\ B <= N /\ B = A + d
    BY <1>1, <1>3, <1>4, <1>5, <1>6
  <2> HIDE DEF A, M, N, B
  <2>3. M <= a /\ a < M + m
    BY <2>1, <2>2
  <2> QED
    BY <2>3 DEF M
<1>8. a \div m = q
  BY <1>2, <1>7, DivUnique
<1> QED
  BY <1>8 DEF b, q

LEMMA SmallestNat ==
  ASSUME NEW T \in SUBSET Nat, T # {}
  PROVE  \E x \in T : \A y \in T : x <= y
<1> DEFINE Finite == FiniteSubsetsOf(Nat)
           Upto(k) == 1 .. k
           U == {Upto(k) : k \in T}
<1>1. IsWellFoundedOn(StrictSubsetOrdering(Nat), Finite)
  BY FS_StrictSubsetOrderingWellFounded
<1>2. U \subseteq Finite
  BY FS_Interval DEF FiniteSubsetsOf
<1>3. U # {}
  OBVIOUS
<1> HIDE DEF Finite
<1>4. PICK X \in U : \A Y \in U : ~ (<<Y, X>> \in StrictSubsetOrdering(Nat))
  BY <1>1, <1>2, <1>3, WFMin, Zenon
<1>5. PICK x \in T : X = Upto(x)
  OBVIOUS
<1>6. ASSUME NEW y \in T, y < x
      PROVE  FALSE
  <2>1. x \in Upto(x) /\ x \notin Upto(y) /\ Upto(y) \subseteq Upto(x)
    BY <1>6
  <2>2. Upto(x) \in SUBSET Nat /\ Upto(y) \in SUBSET Nat /\ Upto(y) # Upto(x)
    BY <2>1
  <2>3. <<Upto(y), Upto(x)>> \in StrictSubsetOrdering(Nat)
    <3> HIDE DEF Upto
    <3> QED
      BY <2>1, <2>2, Zenon DEF StrictSubsetOrdering
  <2>4. Upto(y) \in U
    OBVIOUS
  <2> QED
    BY <2>3, <2>4, <1>4, <1>5
<1> QED
  BY <1>6

LEMMA Parameters ==
  /\ Fan \in Nat /\ Fan >= 2 /\ Fan \in Nat \ {0}
  /\ Depth \in Nat /\ Depth >= 2
  /\ Frames \in Nat /\ Frames >= 1
  /\ MaxPages \in Nat /\ MaxKept \in Nat /\ MaxCached \in Nat
BY ShapeAssumption, BoundsAssumption

USE Parameters

------------------------------------------------------------------------------
(* Units and levels.                                                       *)

Last == Depth - 1

\* Tables of a level, and the numbers of their entries.
Count(l) == Unit[0] \div Unit[l]
EntriesAt(l) == 0 .. Fan * Count(l) - 1

\* Number of the entry of level l that virtual page v is below.
On(l, v) == v \div Unit[l]

LEMMA Levels ==
  /\ Last \in Nat /\ Last >= 1 /\ 0 .. Depth - 1 = 0 .. Last /\ 0 \in 0 .. Last
  /\ Last \in 0 .. Last /\ Last \in 1 .. Last
  /\ \A l \in 0 .. Last : l \in Int /\ 0 <= l /\ l <= Last
BY DEF Last

\* The recursive function that gives units has the values its equation says.
LEMMA UnitEquation ==
  /\ Unit[Last] = 1
  /\ \A l \in 0 .. Last : l # Last => Unit[l] = Fan * Unit[l + 1]
<1> DEFINE D == 0 .. Depth - 1
           F(f) == [l \in D |-> IF l = Depth - 1 THEN 1 ELSE Fan * f[l + 1]]
           h == CHOOSE f : f = F(f)
           Good(k, f) == /\ f \in [D -> Nat] /\ f[Depth - 1] = 1
                         /\ \A l \in D : l # Depth - 1 /\ l >= Depth - 1 - k => f[l] = Fan * f[l + 1]
           Bad == {k \in Nat : ~ \E f : Good(k, f)}
<1>1. \E f : Good(Depth, f)
  <2> SUFFICES ASSUME Bad # {} PROVE FALSE
    OBVIOUS
  <2>1. PICK k \in Bad : \A m \in Bad : k <= m
    <3>1. Bad \in SUBSET Nat
      OBVIOUS
    <3> HIDE DEF Bad
    <3> QED
      BY <3>1, SmallestNat
  <2>2. k # 0
    <3> DEFINE f == [l \in D |-> 1]
    <3>1. f \in [D -> Nat] /\ f[Depth - 1] = 1
      OBVIOUS
    <3>2. \A l \in D : ~ (l # Depth - 1 /\ l >= Depth - 1 - 0)
      OBVIOUS
    <3> HIDE DEF f
    <3>3. Good(0, f)
      BY <3>1, <3>2
    <3> QED
      BY <3>3
  <2>3. k - 1 \in Nat /\ k - 1 \notin Bad
    <3>1. k \in Nat
      OBVIOUS
    <3>2. k - 1 \in Nat /\ ~ (k <= k - 1)
      BY <3>1, <2>2
    <3> HIDE DEF Bad
    <3> QED
      BY <3>2, <2>1
  <2>4. PICK f : Good(k - 1, f)
    BY <2>3
  <2> DEFINE p == Depth - 1 - k
             g == [l \in D |-> IF l = p /\ l # Depth - 1 THEN Fan * f[l + 1] ELSE f[l]]
  <2>5. p \in Int /\ p < Depth - 1 /\ k \in Nat /\ k >= 1
    <3>1. k \in Nat
      OBVIOUS
    <3> QED
      BY <3>1, <2>2
  <2>6. \A l \in D : g[l] = IF l = p THEN Fan * f[l + 1] ELSE f[l]
    BY <2>5
  <2>7. \A l \in D : l = p => l + 1 \in D /\ l + 1 # p
    BY <2>5
  <2>8. g \in [D -> Nat]
    <3>1. \A l \in D : l = p => Fan * f[l + 1] \in Nat
      BY <2>4, <2>7
    <3> QED
      BY <2>4, <2>6, <3>1
  <2>9. g[Depth - 1] = 1
    BY <2>4, <2>5, <2>6
  <2>10. ASSUME NEW l \in D, l # Depth - 1, l >= p
         PROVE  g[l] = Fan * g[l + 1]
    <3>1. l + 1 \in D /\ l + 1 # p
      BY <2>10, <2>5
    <3>2. g[l + 1] = f[l + 1]
      BY <3>1, <2>6
    <3>3. l # p => l >= Depth - 1 - (k - 1)
      BY <2>10, <2>5
    <3>4. l # p => f[l] = Fan * f[l + 1]
      BY <3>3, <2>4, <2>10
    <3> QED
      BY <3>2, <3>4, <2>6
  <2>11. Good(k, g)
    <3> HIDE DEF g
    <3> QED
      BY <2>8, <2>9, <2>10
  <2> QED
    BY <2>1, <2>11
<1>2. PICK f : Good(Depth, f)
  BY <1>1
<1>3. f = F(f)
  <2>1. \A l \in D : l >= Depth - 1 - Depth
    OBVIOUS
  <2>2. \A l \in D : f[l] = IF l = Depth - 1 THEN 1 ELSE Fan * f[l + 1]
    BY <1>2, <2>1
  <2>3. f \in [D -> Nat]
    BY <1>2
  <2> QED
    BY <2>2, <2>3
<1>4. h = F(h)
  <2> HIDE DEF F
  <2> QED
    BY <1>3
<1>5. Unit = h
  BY DEF Unit
<1>6. \A l \in D : Unit[l] = F(Unit)[l]
  <2> HIDE DEF h, F, D
  <2> QED
    BY <1>4, <1>5
<1>7. D = 0 .. Last /\ Last \in D /\ Last = Depth - 1
  BY DEF Last
<1> QED
  BY <1>6, <1>7

LEMMA UnitNat == \A l \in 0 .. Last : Unit[l] \in Nat \ {0}
<1> DEFINE Bad == {k \in 0 .. Last : Unit[Last - k] \notin Nat \ {0}}
<1>1. SUFFICES ASSUME Bad # {} PROVE FALSE
  <2>1. \A l \in 0 .. Last : Last - l \in 0 .. Last /\ Last - (Last - l) = l
    BY Levels
  <2> QED
    BY <2>1
<1>2. PICK k \in Bad : \A m \in Bad : k <= m
  <2>1. Bad \in SUBSET Nat
    BY Levels
  <2> HIDE DEF Bad
  <2> QED
    BY <2>1, <1>1, SmallestNat
<1>3. k \in 0 .. Last /\ Unit[Last - k] \notin Nat \ {0}
  OBVIOUS
<1>4. k # 0
  <2>1. Last - 0 = Last
    BY Levels
  <2> QED
    BY <1>3, <2>1, UnitEquation
<1> DEFINE l == Last - k
<1>5. l \in 0 .. Last /\ l # Last /\ l + 1 = Last - (k - 1) /\ k - 1 \in 0 .. Last /\ k - 1 < k
  BY <1>3, <1>4, Levels
<1>6. k - 1 \notin Bad
  <2> HIDE DEF Bad
  <2> QED
    BY <1>2, <1>3, <1>5
<1>7. Unit[l + 1] \in Nat \ {0}
  BY <1>5, <1>6
<1>8. Unit[l] = Fan * Unit[l + 1]
  BY <1>5, UnitEquation
<1>9. Fan * Unit[l + 1] \in Nat \ {0}
  <2> DEFINE u == Unit[l + 1]
  <2>1. u \in Nat \ {0}
    BY <1>7
  <2> HIDE DEF u
  <2>2. Fan * u \in Nat \ {0}
    BY <2>1
  <2> QED
    BY <2>2 DEF u
<1> QED
  BY <1>3, <1>8, <1>9

\* A table of a level has as many tables of the next as it has entries.
LEMMA CountEquation ==
  /\ Count(0) = 1
  /\ \A l \in 0 .. Last : Count(l) \in Nat \ {0} /\ Unit[0] = Unit[l] * Count(l)
  /\ \A l \in 0 .. Last : l # Last => Count(l + 1) = Fan * Count(l)
<1> DEFINE Whole(l, c) == c \in Nat \ {0} /\ Unit[0] = Unit[l] * c
           Bad == {l \in 0 .. Last : ~ \E c : Whole(l, c)}
<1>1. ASSUME NEW l \in 0 .. Last, NEW c, Whole(l, c)
      PROVE  Count(l) = c
  <2> DEFINE u == Unit[l]
  <2>1. u \in Nat \ {0} /\ c \in Nat \ {0} /\ Unit[0] = u * c
    BY <1>1, UnitNat
  <2> HIDE DEF u
  <2>2. (u * c) \div u = c
    <3>1. u * c \in Int /\ c \in Int /\ u * c <= u * c /\ u * c < u * c + u
      BY <2>1
    <3> QED
      BY <2>1, <3>1, DivUnique
  <2> QED
    BY <2>1, <2>2 DEF Count, u
<1>2. Whole(0, 1)
  BY UnitNat, Levels
<1>3. ASSUME NEW l \in 0 .. Last, l # Last, NEW c, Whole(l, c)
      PROVE  Whole(l + 1, Fan * c)
  <2> DEFINE u == Unit[l + 1]
  <2>1. l + 1 \in 0 .. Last
    BY <1>3, Levels
  <2>2. u \in Nat \ {0} /\ Unit[l] = Fan * u
    BY <2>1, <1>3, UnitNat, UnitEquation
  <2> HIDE DEF u
  <2>3. (Fan * u) * c = u * (Fan * c) /\ Fan * c \in Nat \ {0}
    BY <2>2, <1>3
  <2> QED
    BY <2>2, <2>3, <1>3 DEF u
<1>4. Bad = {}
  <2> SUFFICES ASSUME Bad # {} PROVE FALSE
    OBVIOUS
  <2>1. PICK k \in Bad : \A m \in Bad : k <= m
    <3>1. Bad \in SUBSET Nat
      BY Levels
    <3> HIDE DEF Bad
    <3> QED
      BY <3>1, SmallestNat
  <2>2. k \in 0 .. Last /\ ~ \E c : Whole(k, c)
    OBVIOUS
  <2>3. k # 0
    BY <2>2, <1>2
  <2>4. k - 1 \in 0 .. Last /\ k - 1 # Last /\ k - 1 < k /\ (k - 1) + 1 = k
    BY <2>2, <2>3, Levels
  <2>5. k - 1 \notin Bad
    <3> HIDE DEF Bad
    <3> QED
      BY <2>1, <2>2, <2>4
  <2>6. PICK c : Whole(k - 1, c)
    BY <2>4, <2>5
  <2>7. Whole(k, Fan * c)
    <3> HIDE DEF Whole
    <3> QED
      BY <2>4, <2>6, <1>3
  <2> QED
    BY <2>2, <2>7
<1>5. \A l \in 0 .. Last : \E c : Whole(l, c)
  BY <1>4
<1>6. \A l \in 0 .. Last : Whole(l, Count(l))
  <2> HIDE DEF Whole
  <2> QED
    BY <1>1, <1>5
<1>7. Count(0) = 1
  <2> HIDE DEF Whole
  <2> QED
    BY <1>1, <1>2, Levels
<1>8. \A l \in 0 .. Last : l # Last => Count(l + 1) = Fan * Count(l)
  <2> TAKE l \in 0 .. Last
  <2> HAVE l # Last
  <2>1. l + 1 \in 0 .. Last
    BY Levels
  <2> HIDE DEF Whole
  <2> QED
    BY <2>1, <1>1, <1>3, <1>6
<1> QED
  BY <1>6, <1>7, <1>8

LEMMA EntriesOfLevels ==
  /\ \A l \in 0 .. Last : TablesAt(l) = 0 .. Count(l) - 1
  /\ \A l \in 0 .. Last : l # Last => EntriesAt(l) = TablesAt(l + 1)
  /\ EntriesAt(Last) = Page
  /\ TablesAt(0) = {0} /\ 0 \in TablesAt(0)
<1>1. \A l \in 0 .. Last : TablesAt(l) = 0 .. Count(l) - 1
  BY DEF TablesAt, Count
<1>2. \A l \in 0 .. Last : l # Last => EntriesAt(l) = TablesAt(l + 1)
  <2> TAKE l \in 0 .. Last
  <2> HAVE l # Last
  <2>1. l + 1 \in 0 .. Last
    BY Levels
  <2> QED
    BY <2>1, <1>1, CountEquation DEF EntriesAt
<1>3. EntriesAt(Last) = Page
  <2>1. Unit[0] = Count(Last)
    <3>1. Unit[Last] = 1 /\ Unit[0] = Unit[Last] * Count(Last) /\ Count(Last) \in Nat \ {0}
      BY UnitEquation, CountEquation, Levels
    <3>2. 1 * Count(Last) = Count(Last)
      BY <3>1
    <3> QED
      BY <3>1, <3>2
  <2> QED
    BY <2>1 DEF EntriesAt, Page
<1>4. TablesAt(0) = {0}
  <2>1. TablesAt(0) = 0 .. 0
    BY <1>1, CountEquation, Levels
  <2> QED
    BY <2>1
<1> QED
  BY <1>1, <1>2, <1>3, <1>4

\* An entry is one of its table's, at an index.
LEMMA EntryOfTable ==
  ASSUME NEW l \in 0 .. Last
  PROVE  /\ \A x \in EntriesAt(l) : /\ x \in Int /\ x \div Fan \in TablesAt(l) /\ x % Fan \in Index
                                    /\ x = Fan * (x \div Fan) + (x % Fan)
         /\ \A t \in TablesAt(l), k \in Index :
              /\ Fan * t + k \in EntriesAt(l)
              /\ (Fan * t + k) \div Fan = t /\ (Fan * t + k) % Fan = k
<1> DEFINE c == Count(l)
<1>1. c \in Nat \ {0} /\ TablesAt(l) = 0 .. c - 1 /\ EntriesAt(l) = 0 .. Fan * c - 1
      /\ Index = 0 .. Fan - 1
  BY CountEquation, EntriesOfLevels DEF EntriesAt, Index
<1> HIDE DEF c
<1>2. Fan * c \in Int
  BY <1>1
<1>3. ASSUME NEW x \in EntriesAt(l)
      PROVE  /\ x \in Int /\ x \div Fan \in TablesAt(l) /\ x % Fan \in Index
             /\ x = Fan * (x \div Fan) + (x % Fan)
  <2>1. x \in Int /\ 0 <= x /\ x < Fan * c
    BY <1>1, <1>2
  <2> DEFINE q == x \div Fan
             r == x % Fan
  <2>2. q \in Int /\ r \in 0 .. Fan - 1 /\ x = Fan * q + r
    BY <2>1, DivMod
  <2> HIDE DEF q, r
  <2>3. q < c
    <3>1. Fan * q < Fan * c
      BY <2>1, <2>2, <1>2
    <3> QED
      BY <3>1, <2>2, <1>1, TimesMonotone
  <2>4. 0 <= q
    <3> SUFFICES ASSUME q + 1 <= 0 PROVE FALSE
      BY <2>2
    <3>1. q + 1 \in Int /\ 0 \in Int
      BY <2>2
    <3>2. Fan * (q + 1) <= Fan * 0
      BY <3>1, TimesMonotone
    <3>3. Fan * (q + 1) = Fan * q + Fan
      BY <2>2
    <3> QED
      BY <3>2, <3>3, <2>1, <2>2
  <2>5. q \in TablesAt(l) /\ r \in Index
    BY <2>2, <2>3, <2>4, <1>1
  <2> QED
    BY <2>1, <2>2, <2>5 DEF q, r
<1>4. ASSUME NEW t \in TablesAt(l), NEW k \in Index
      PROVE  /\ Fan * t + k \in EntriesAt(l)
             /\ (Fan * t + k) \div Fan = t /\ (Fan * t + k) % Fan = k
  <2>1. t \in Int /\ 0 <= t /\ t + 1 <= c /\ k \in Int /\ 0 <= k /\ k < Fan
    BY <1>1
  <2>2. Fan * (t + 1) <= Fan * c
    <3>1. t + 1 \in Int /\ c \in Int
      BY <2>1, <1>1
    <3> QED
      BY <3>1, <2>1, TimesMonotone
  <2>3. Fan * (t + 1) = Fan * t + Fan /\ Fan * t \in Int /\ 0 <= Fan * t
    BY <2>1
  <2>4. Fan * t + k \in 0 .. Fan * c - 1
    BY <2>1, <2>2, <2>3, <1>2
  <2>5. (Fan * t + k) \div Fan = t /\ (Fan * t + k) % Fan = (Fan * t + k) - Fan * t
    <3>1. Fan * t + k \in Int /\ Fan * t <= Fan * t + k /\ Fan * t + k < Fan * t + Fan
      BY <2>1, <2>3
    <3> QED
      BY <3>1, <2>1, DivUnique
  <2> QED
    BY <2>1, <2>3, <2>4, <2>5, <1>1
<1> QED
  BY <1>3, <1>4

\* Page v is below one entry of each level, and that below the one before.
LEMMA OnLevels ==
  ASSUME NEW v \in Page
  PROVE  /\ \A l \in 0 .. Last : On(l, v) \in EntriesAt(l)
         /\ On(Last, v) = v
         /\ \A l \in 1 .. Last : On(l, v) \div Fan = On(l - 1, v)
<1>1. v \in Int /\ 0 <= v /\ v < Fan * Unit[0]
  <2>1. Unit[0] \in Nat \ {0}
    BY UnitNat, Levels
  <2> DEFINE u == Unit[0]
  <2> HIDE DEF u
  <2>2. u \in Nat \ {0} /\ v \in 0 .. Fan * u - 1
    BY <2>1 DEF Page, u
  <2>3. Fan * u \in Int
    BY <2>2
  <2>4. v \in Int /\ 0 <= v /\ v < Fan * u
    BY <2>2, <2>3
  <2> QED
    BY <2>4 DEF u
<1>2. ASSUME NEW l \in 0 .. Last
      PROVE  On(l, v) \in EntriesAt(l)
  <2> DEFINE u == Unit[l]
             c == Count(l)
             q == On(l, v)
  <2>1. u \in Nat \ {0} /\ c \in Nat \ {0} /\ Unit[0] = u * c /\ EntriesAt(l) = 0 .. Fan * c - 1
        /\ q = v \div u
    BY UnitNat, CountEquation DEF EntriesAt, On
  <2>2. q \in Int /\ v % u \in 0 .. u - 1 /\ v = u * q + (v % u)
    <3> HIDE DEF q, u
    <3> QED
      BY <1>1, <2>1, DivMod
  <2> HIDE DEF q, c, u
  <2>3. Fan * (u * c) = u * (Fan * c) /\ Fan * c \in Int
    BY <2>1
  <2>4. q < Fan * c
    <3>1. u * q <= v /\ v < u * (Fan * c)
      BY <1>1, <2>1, <2>2, <2>3
    <3>2. u * q < u * (Fan * c)
      <4>1. u * q \in Int /\ u * (Fan * c) \in Int
        BY <2>1, <2>2
      <4> QED
        BY <4>1, <3>1, <1>1
    <3> QED
      BY <3>2, <2>1, <2>2, <2>3, TimesMonotone
  <2>5. 0 <= q
    <3> SUFFICES ASSUME q + 1 <= 0 PROVE FALSE
      BY <2>2
    <3>1. q + 1 \in Int /\ 0 \in Int
      BY <2>2
    <3>2. u * (q + 1) <= u * 0
      BY <3>1, <2>1, TimesMonotone
    <3>3. u * (q + 1) = u * q + u /\ u * 0 = 0 /\ u * q \in Int
      <4>1. u \in Int /\ q \in Int
        BY <2>1, <2>2
      <4> QED
        BY <4>1
    <3>4. v % u \in 0 .. u - 1 /\ v = u * q + (v % u) /\ u \in Nat
      BY <2>1, <2>2
    <3> QED
      BY <3>2, <3>3, <3>4, <1>1
  <2>6. q \in 0 .. Fan * c - 1
    BY <2>2, <2>3, <2>4, <2>5
  <2> QED
    BY <2>1, <2>6 DEF q
<1>3. On(Last, v) = v
  <2>1. v \div 1 = v
    BY <1>1, DivUnique
  <2> QED
    BY <2>1, UnitEquation DEF On
<1>4. ASSUME NEW l \in 1 .. Last
      PROVE  On(l, v) \div Fan = On(l - 1, v)
  <2>1. l \in 0 .. Last /\ l - 1 \in 0 .. Last /\ l - 1 # Last /\ (l - 1) + 1 = l
    BY Levels
  <2> DEFINE u == Unit[l]
             m == Unit[l - 1]
  <2>2. u \in Nat \ {0} /\ m \in Nat \ {0} /\ m = Fan * u
    BY <2>1, UnitNat, UnitEquation
  <2>3. On(l, v) = v \div u /\ On(l - 1, v) = v \div m
    BY DEF On
  <2> HIDE DEF u, m
  <2>4. v \div m = (v \div u) \div Fan
    BY <1>1, <2>2, DivDiv
  <2> QED
    BY <2>3, <2>4
<1> QED
  BY <1>2, <1>3, <1>4

\* Entries of level l that the m pages from v on are below.
Span(l, v, m) == On(l, v) .. On(l, v + m - 1)

LEMMA SpanEnds ==
  ASSUME NEW v \in Page, NEW m \in Nat \ {0}, v .. v + m - 1 \subseteq Page
  PROVE  /\ v + m - 1 \in Page
         /\ \A l \in 0 .. Last :
              /\ On(l, v) \in Int /\ On(l, v + m - 1) \in Int
              /\ On(l, v) <= On(l, v + m - 1)
              /\ Span(l, v, m) \subseteq EntriesAt(l)
<1>1. v \in Int
  <2>1. v \in EntriesAt(Last)
    BY EntriesOfLevels
  <2> QED
    BY <2>1, EntryOfTable, Levels
<1>2. v + m - 1 \in v .. v + m - 1
  BY <1>1
<1>3. v + m - 1 \in Page
  BY <1>2
<1> DEFINE w == v + m - 1
<1>4. w \in Page /\ w \in Int /\ v <= w
  BY <1>1, <1>3
<1> HIDE DEF w
<1>5. ASSUME NEW l \in 0 .. Last
      PROVE  /\ On(l, v) \in Int /\ On(l, w) \in Int
             /\ On(l, v) <= On(l, w)
             /\ On(l, v) .. On(l, w) \subseteq EntriesAt(l)
  <2>1. On(l, v) \in EntriesAt(l) /\ On(l, w) \in EntriesAt(l)
    BY <1>4, OnLevels
  <2>2. On(l, v) <= On(l, w)
    <3>1. Unit[l] \in Nat \ {0}
      BY UnitNat
    <3> QED
      BY <3>1, <1>1, <1>4, DivMonotone DEF On
  <2>3. On(l, v) \in Int /\ On(l, w) \in Int
    BY <2>1, EntryOfTable
  <2>4. EntriesAt(l) = 0 .. Fan * Count(l) - 1 /\ Fan * Count(l) \in Int
    <3>1. Count(l) \in Nat \ {0}
      BY CountEquation
    <3> QED
      BY <3>1 DEF EntriesAt
  <2> DEFINE a == On(l, v)
             b == On(l, w)
             e == Fan * Count(l)
  <2> HIDE DEF a, b, e
  <2>5. a .. b \subseteq 0 .. e - 1
    <3>1. a \in 0 .. e - 1 /\ b \in 0 .. e - 1 /\ e \in Int /\ a \in Int /\ b \in Int
      BY <2>1, <2>3, <2>4 DEF a, b, e
    <3> QED
      BY <3>1
  <2> QED
    BY <2>2, <2>3, <2>4, <2>5 DEF a, b, e
<1> QED
  BY <1>3, <1>5 DEF Span, w

\* The entries of a level are in the tables that those of the level above
\* point to, and each of these tables has one of them.
LEMMA SpanLevels ==
  ASSUME NEW v \in Page, NEW m \in Nat \ {0}, v .. v + m - 1 \subseteq Page,
         NEW l \in 1 .. Last
  PROVE  /\ \A x \in Span(l, v, m) : x \div Fan \in Span(l - 1, v, m)
         /\ \A t \in Span(l - 1, v, m) : \E x \in Span(l, v, m) : x \div Fan = t
<1> DEFINE w == v + m - 1
           a == On(l, v)
           b == On(l, w)
<1>1. w \in Page /\ l \in 0 .. Last
  <2>1. v + m - 1 \in Page
    BY SpanEnds, Zenon
  <2>2. l \in 0 .. Last
    BY Levels
  <2> QED
    BY <2>1, <2>2
<1>2. a \in Int /\ b \in Int /\ a <= b
  <2> HIDE DEF a, b
  <2>1. On(l, v) \in Int /\ On(l, w) \in Int /\ On(l, v) <= On(l, w)
    BY <1>1, SpanEnds
  <2> QED
    BY <2>1 DEF a, b
<1>3. On(l - 1, v) = a \div Fan /\ On(l - 1, w) = b \div Fan
  <2> HIDE DEF w
  <2> QED
    BY <1>1, OnLevels
<1>4. Span(l, v, m) = a .. b /\ Span(l - 1, v, m) = a \div Fan .. b \div Fan
  BY <1>3 DEF Span
<1> HIDE DEF a, b, w
<1>5. ASSUME NEW x \in a .. b
      PROVE  x \div Fan \in a \div Fan .. b \div Fan
  <2>1. x \in Int /\ a <= x /\ x <= b
    BY <1>2
  <2>2. a \div Fan <= x \div Fan /\ x \div Fan <= b \div Fan
    BY <2>1, <1>2, DivMonotone
  <2>3. x \div Fan \in Int /\ a \div Fan \in Int /\ b \div Fan \in Int
    BY <2>1, <1>2, DivMod
  <2> QED
    BY <2>2, <2>3
<1>6. ASSUME NEW t \in a \div Fan .. b \div Fan
      PROVE  \E x \in a .. b : x \div Fan = t
  <2> DEFINE p == a \div Fan
             q == b \div Fan
  <2>1. /\ p \in Int /\ a = Fan * p + (a % Fan) /\ a % Fan \in 0 .. Fan - 1
        /\ q \in Int /\ b = Fan * q + (b % Fan) /\ b % Fan \in 0 .. Fan - 1
    BY <1>2, DivMod
  <2>2. t \in p .. q
    OBVIOUS
  <2> HIDE DEF p, q
  <2>3. t \in Int /\ p <= t /\ t <= q
    BY <2>1, <2>2
  <2>4. CASE t = p
    <3>1. a \in a .. b
      BY <1>2
    <3> QED
      BY <3>1, <2>4 DEF p
  <2>5. CASE t # p
    <3>1. p + 1 <= t
      BY <2>1, <2>3, <2>5
    <3>2. Fan * (p + 1) <= Fan * t /\ Fan * t <= Fan * q
      <4>1. p + 1 \in Int
        BY <2>1
      <4> QED
        BY <4>1, <3>1, <2>1, <2>3, TimesMonotone
    <3>3. Fan * (p + 1) = Fan * p + Fan
      BY <2>1
    <3>4. Fan * t \in a .. b
      <4> DEFINE X == Fan * t
                 Y == Fan * p
                 Z == Fan * q
      <4>1. X \in Int /\ Y \in Int /\ Z \in Int
        BY <2>1, <2>3
      <4>2. Y + Fan <= X /\ X <= Z
        BY <3>2, <3>3
      <4> HIDE DEF X, Y, Z
      <4>3. a = Y + (a % Fan) /\ b = Z + (b % Fan)
        BY <2>1 DEF Y, Z
      <4>4. X \in a .. b
        BY <4>1, <4>2, <4>3, <2>1, <1>2
      <4> QED
        BY <4>4 DEF X
    <3>5. (Fan * t) \div Fan = t
      <4>1. Fan * t \in Int /\ Fan * t <= Fan * t /\ Fan * t < Fan * t + Fan
        BY <2>3
      <4> QED
        BY <4>1, <2>3, DivUnique
    <3> QED
      BY <3>4, <3>5
  <2> QED
    BY <2>4, <2>5
<1> QED
  BY <1>4, <1>5, <1>6

\* The code's count of the entries that a range touches.
LEMMA NumsIsSpan ==
  ASSUME NEW v \in Page, NEW m \in Nat \ {0}, v .. v + m - 1 \subseteq Page,
         NEW l \in 0 .. Last
  PROVE  /\ (m + (v % Unit[l]) + Unit[l] - 1) \div Unit[l] = On(l, v + m - 1) - On(l, v) + 1
         /\ On(l, v + m - 1) - On(l, v) + 1 <= m
<1> DEFINE u == Unit[l]
           q == v \div u
           r == v % u
           p == (r + m - 1) \div u
<1>1. u \in Nat \ {0} /\ v \in Int
  <2>1. v \in EntriesAt(Last)
    BY EntriesOfLevels
  <2> QED
    BY <2>1, EntryOfTable, Levels, UnitNat
<1> HIDE DEF u
<1>2. q \in Int /\ r \in 0 .. u - 1 /\ v = u * q + r
  BY <1>1, DivMod
<1> HIDE DEF q, r
<1>3. r + m - 1 \in Int /\ p \in Int /\ r \in Int /\ q \in Int
  <2>1. r + m - 1 \in Int /\ r \in Int
    BY <1>1, <1>2
  <2> QED
    BY <2>1, <1>1, <1>2, DivMod
<1>4. (v + m - 1) \div u = q + p
  <2>1. v + m - 1 = u * q + (r + m - 1)
    BY <1>1, <1>2
  <2>2. (u * q + (r + m - 1)) \div u = q + p
    BY <1>1, <1>3, DivOfMultiple
  <2> QED
    BY <2>1, <2>2
<1>5. (m + r + u - 1) \div u = 1 + p
  <2>1. m + r + u - 1 = u * 1 + (r + m - 1)
    BY <1>1, <1>3
  <2>2. (u * 1 + (r + m - 1)) \div u = 1 + p
    <3>1. 1 \in Int
      OBVIOUS
    <3> QED
      BY <3>1, <1>1, <1>3, DivOfMultiple
  <2> QED
    BY <2>1, <2>2
<1>6. p <= m - 1
  <2> SUFFICES ASSUME m <= p PROVE FALSE
    BY <1>3
  <2>1. (r + m - 1) % u \in 0 .. u - 1 /\ r + m - 1 = u * p + ((r + m - 1) % u)
    BY <1>1, <1>3, DivMod
  <2> HIDE DEF p
  <2>2. u * m <= u * p
    <3>1. m \in Int /\ p \in Int
      BY <1>3
    <3> QED
      BY <3>1, <1>1, TimesMonotone
  <2>3. u * p \in Int /\ u * m \in Int
    BY <1>1, <1>3
  <2>4. u * p <= r + m - 1
    <3> DEFINE X == u * p
               Y == (r + m - 1) % u
    <3>1. Y \in 0 .. u - 1 /\ r + m - 1 = X + Y /\ X \in Int
      BY <2>1, <2>3
    <3> HIDE DEF X, Y
    <3>2. X <= r + m - 1
      BY <3>1, <1>1
    <3> QED
      BY <3>2 DEF X
  <2>5. u * m <= u - 1 + m - 1
    BY <2>2, <2>3, <2>4, <1>1, <1>2, <1>3
  <2>6. (u - 1) * (m - 1) >= 0
    <3> DEFINE a == u - 1
               b == m - 1
    <3>1. a \in Nat /\ b \in Nat
      BY <1>1
    <3> HIDE DEF a, b
    <3>2. a * b >= 0
      BY <3>1
    <3> QED
      BY <3>2 DEF a, b
  <2>7. (u - 1) * (m - 1) = u * m - u - m + 1
    <3>1. u \in Int /\ m \in Int
      BY <1>1
    <3> QED
      BY <3>1
  <2> QED
    BY <2>3, <2>5, <2>6, <2>7, <1>1
<1> HIDE DEF p
<1>7. On(l, v) = q /\ On(l, v + m - 1) = q + p
  BY <1>4 DEF On, q, u
<1>8. (q + p) - q + 1 = 1 + p /\ (q + p) - q + 1 <= m
  BY <1>3, <1>6
<1>9. (m + (v % Unit[l]) + Unit[l] - 1) \div Unit[l] = 1 + p
  BY <1>5 DEF r, u
<1> QED
  BY <1>7, <1>8, <1>9

------------------------------------------------------------------------------
(* Walks.  W[l][t] is the frame of table t of level l that a walk of the   *)
(* memory c finds, as TableFrame says of mem.                              *)

\* What entry x of level l leads to.
Pointee(c, W, l, x) ==
  IF W[l][x \div Fan] \in Table THEN c[W[l][x \div Fan]][x % Fan].frame ELSE None

Walks(c, W) ==
  /\ W[0][0] = Root
  /\ \A l \in 1 .. Last : \A t \in TablesAt(l) : W[l][t] = Pointee(c, W, l - 1, t)

\* Where it leads the processor, which goes on through what is no table.
Goal(c, V, l, x) ==
  IF V[l][x \div Fan] \in Table THEN c[V[l][x \div Fan]][x % Fan].frame
  ELSE IF V[l][x \div Fan] \in Present THEN Anywhere ELSE None

Follows(c, V) ==
  /\ V[0][0] = Root
  /\ \A l \in 1 .. Last : \A t \in TablesAt(l) : V[l][t] = Goal(c, V, l - 1, t)

\* What both have in common: they reach tables through tables.
Climbs(c, W) ==
  /\ W[0][0] = Root
  /\ \A l \in 1 .. Last : \A t \in TablesAt(l) :
       IF W[l - 1][t \div Fan] \in Table THEN W[l][t] = c[W[l - 1][t \div Fan]][t % Fan].frame
       ELSE W[l][t] \notin Table

LEMMA WalksClimb ==
  /\ \A c, W : Walks(c, W) => Climbs(c, W)
  /\ \A c, W : Follows(c, W) => Climbs(c, W)
<1>1. None \notin Table /\ Anywhere \notin Table
  BY DEF None, Anywhere, Table, Frame, Root, Bar
<1>2. ASSUME NEW c, NEW W, Walks(c, W) PROVE Climbs(c, W)
  BY <1>1, <1>2 DEF Walks, Climbs, Pointee
<1>3. ASSUME NEW c, NEW W, Follows(c, W) PROVE Climbs(c, W)
  BY <1>1, <1>3 DEF Follows, Climbs, Goal
<1> QED
  BY <1>2, <1>3

LEMMA WalkOfMem ==
  /\ Follows(mem, TableFrame)
  /\ \A v \in Page : Translate(v) = Goal(mem, TableFrame, Last, v)
<1> DEFINE D == 0 .. Depth - 1
           Row(f, l) == [t \in TablesAt(l) |->
                           IF l = 0 THEN Root
                           ELSE Onward(f[l - 1][t \div Fan], t % Fan)]
           F(f) == [l \in D |-> Row(f, l)]
           h == CHOOSE f : f = F(f)
           Good(k, f) == f = [l \in D |-> f[l]] /\ \A l \in D : l <= k => f[l] = Row(f, l)
           Bad == {k \in Nat : ~ \E f : Good(k, f)}
<1>0. ASSUME NEW f, NEW g, NEW l, l = 0 \/ f[l - 1] = g[l - 1]
      PROVE  Row(f, l) = Row(g, l)
  BY <1>0
<1> HIDE DEF Row
<1>1. \E f : Good(Depth, f)
  <2> SUFFICES ASSUME Bad # {} PROVE FALSE
    OBVIOUS
  <2>1. PICK k \in Bad : \A m \in Bad : k <= m
    <3>1. Bad \in SUBSET Nat
      OBVIOUS
    <3> HIDE DEF Bad
    <3> QED
      BY <3>1, SmallestNat
  <2>2. k \in Nat /\ ~ \E f : Good(k, f)
    OBVIOUS
  <2>3. CASE k = 0
    <3> DEFINE f == [l \in D |-> Row(<<>>, 0)]
    <3>1. f = [l \in D |-> f[l]]
      OBVIOUS
    <3>2. \A l \in D : l <= 0 => l = 0 /\ f[l] = Row(<<>>, 0)
      OBVIOUS
    <3> HIDE DEF f
    <3>3. Row(<<>>, 0) = Row(f, 0)
      BY <1>0
    <3>4. Good(0, f)
      BY <3>1, <3>2, <3>3
    <3> QED
      BY <3>4, <2>2, <2>3
  <2>4. CASE k # 0
    <3>1. k - 1 \in Nat /\ ~ (k <= k - 1)
      BY <2>2, <2>4
    <3>2. k - 1 \notin Bad
      <4> HIDE DEF Bad
      <4> QED
        BY <3>1, <2>1
    <3>3. PICK f : Good(k - 1, f)
      BY <3>1, <3>2
    <3> DEFINE g == [l \in D |-> IF l = k THEN Row(f, k) ELSE f[l]]
    <3>4. g = [l \in D |-> g[l]]
      OBVIOUS
    <3>5. \A l \in D : g[l] = IF l = k THEN Row(f, k) ELSE f[l]
      OBVIOUS
    <3> HIDE DEF g
    <3>6. ASSUME NEW l \in D, l <= k
          PROVE  g[l] = Row(g, l)
      <4>1. g[l] = Row(f, l)
        <5>1. l # k => l <= k - 1
          BY <3>6, <2>2
        <5>2. l # k => f[l] = Row(f, l)
          BY <5>1, <3>3
        <5>3. g[l] = IF l = k THEN Row(f, k) ELSE f[l]
          BY <3>5
        <5> QED
          BY <5>2, <5>3
      <4>2. l = 0 \/ (l - 1 \in D /\ l - 1 # k)
        BY <3>6, <2>2
      <4>3. Row(f, l) = Row(g, l)
        <5>1. l = 0 \/ f[l - 1] = g[l - 1]
          BY <4>2, <3>5
        <5> QED
          BY <5>1, <1>0
      <4> QED
        BY <4>1, <4>3
    <3>7. Good(k, g)
      BY <3>4, <3>6
    <3> QED
      BY <3>7, <2>2
  <2> QED
    BY <2>3, <2>4
<1>2. PICK f : Good(Depth, f)
  BY <1>1
<1>3. f = F(f)
  <2>1. \A l \in D : l <= Depth
    OBVIOUS
  <2>2. \A l \in D : f[l] = Row(f, l)
    BY <1>2, <2>1
  <2>3. f = [l \in D |-> f[l]]
    BY <1>2
  <2> QED
    BY <2>2, <2>3
<1>4. h = F(h)
  <2> HIDE DEF F
  <2> QED
    BY <1>3
<1>5. TableFrame = h
  BY DEF TableFrame, Row
<1>6. \A l \in D : TableFrame[l] = Row(TableFrame, l)
  <2>1. TableFrame = F(TableFrame)
    <3> HIDE DEF h, F
    <3> QED
      BY <1>4, <1>5
  <2>2. \A l \in D : F(TableFrame)[l] = Row(TableFrame, l)
    OBVIOUS
  <2> QED
    BY <2>1, <2>2
<1> DEFINE W == TableFrame
<1> HIDE DEF W, h
<1>7. \A l \in 0 .. Last : W[l] = Row(W, l)
  BY <1>6 DEF Last, W
<1>8. W[0][0] = Root
  <2>1. W[0] = Row(W, 0) /\ 0 \in TablesAt(0)
    BY <1>7, Levels, EntriesOfLevels
  <2> QED
    BY <2>1 DEF Row
<1>9. ASSUME NEW l \in 1 .. Last, NEW t \in TablesAt(l)
      PROVE  W[l][t] = Goal(mem, W, l - 1, t)
  <2>1. l \in 0 .. Last /\ l # 0
    BY Levels
  <2>2. W[l] = Row(W, l)
    BY <2>1, <1>7
  <2> QED
    BY <2>1, <2>2 DEF Row, Goal, Onward
<1>10. \A v \in Page : Translate(v) = Goal(mem, W, Last, v)
  BY DEF Translate, Goal, Onward, W, Last
<1> QED
  BY <1>8, <1>9, <1>10 DEF Follows, W

\* A walk reaches a table only through tables.
LEMMA WalkUp ==
  ASSUME NEW c, NEW W, Climbs(c, W), NEW l \in 1 .. Last, NEW t \in TablesAt(l),
         W[l][t] \in Table
  PROVE  /\ l - 1 \in 0 .. Last /\ l - 1 # Last /\ t \in EntriesAt(l - 1)
         /\ t \div Fan \in TablesAt(l - 1) /\ t % Fan \in Index
         /\ W[l - 1][t \div Fan] \in Table
         /\ c[W[l - 1][t \div Fan]][t % Fan].frame = W[l][t]
<1>1. l - 1 \in 0 .. Last /\ l - 1 # Last /\ (l - 1) + 1 = l
  BY Levels
<1>2. t \in EntriesAt(l - 1)
  BY <1>1, EntriesOfLevels
<1>3. t \div Fan \in TablesAt(l - 1) /\ t % Fan \in Index
  BY <1>1, <1>2, EntryOfTable
<1>4. /\ W[l - 1][t \div Fan] \in Table
      /\ W[l][t] = c[W[l - 1][t \div Fan]][t % Fan].frame
  BY DEF Climbs
<1> QED
  BY <1>1, <1>2, <1>3, <1>4

\* Memory that has kept the entries for tables has kept the tables.
LEMMA WalkExtends ==
  ASSUME NEW c, NEW W, NEW d, NEW V, Climbs(c, W), Climbs(d, V),
         \A f \in Table, k \in Index : c[f][k].frame \in Table => d[f][k].frame = c[f][k].frame
  PROVE  \A l \in 0 .. Last : \A t \in TablesAt(l) : W[l][t] \in Table => V[l][t] = W[l][t]
<1> DEFINE Same(l) == \A t \in TablesAt(l) : W[l][t] \in Table => V[l][t] = W[l][t]
           Bad == {l \in 0 .. Last : ~ Same(l)}
<1>1. SUFFICES ASSUME Bad # {} PROVE FALSE
  OBVIOUS
<1>2. PICK l \in Bad : \A m \in Bad : l <= m
  <2>1. Bad \in SUBSET Nat
    BY Levels
  <2> HIDE DEF Bad
  <2> QED
    BY <2>1, <1>1, SmallestNat
<1>3. l \in 0 .. Last /\ ~ Same(l)
  OBVIOUS
<1>4. l # 0
  <2>1. W[0][0] = V[0][0] /\ TablesAt(0) = {0}
    BY EntriesOfLevels DEF Climbs
  <2> QED
    BY <2>1, <1>3
<1>5. l \in 1 .. Last /\ l - 1 \in 0 .. Last /\ l - 1 < l
  BY <1>3, <1>4, Levels
<1>6. Same(l - 1)
  <2>1. l - 1 \notin Bad
    <3> HIDE DEF Bad
    <3>1. ~ (l <= l - 1)
      BY <1>3, <1>5
    <3> QED
      BY <1>2, <3>1
  <2> QED
    BY <2>1, <1>5
<1>7. PICK t \in TablesAt(l) : W[l][t] \in Table /\ V[l][t] # W[l][t]
  BY <1>3
<1> HIDE DEF Bad
<1>8. /\ t \div Fan \in TablesAt(l - 1) /\ t % Fan \in Index
      /\ W[l - 1][t \div Fan] \in Table
      /\ c[W[l - 1][t \div Fan]][t % Fan].frame = W[l][t]
  BY <1>5, <1>7, WalkUp
<1>9. V[l - 1][t \div Fan] = W[l - 1][t \div Fan]
  BY <1>6, <1>8
<1>10. V[l][t] = d[V[l - 1][t \div Fan]][t % Fan].frame
  BY <1>5, <1>8, <1>9 DEF Climbs
<1>11. d[W[l - 1][t \div Fan]][t % Fan].frame = W[l][t]
  BY <1>7, <1>8
<1> QED
  BY <1>7, <1>9, <1>10, <1>11

------------------------------------------------------------------------------
(* Trees of tables.                                                        *)

\* What the entries of a table of level l in the tree hold.
Proper(l) ==
  {Zero} \cup (IF l = Last THEN [frame : Frame \cup Device, nx : Nx]
                           ELSE [frame : Frame, nx : {FALSE}])

\* The tables that the walk finds in c hold such entries, and no table is
\* found twice.
Tree(c, W) ==
  /\ c \in [Table -> [Index -> Entries]]
  /\ Walks(c, W)
  /\ \A l \in 0 .. Last : \A t \in TablesAt(l) :
       W[l][t] \in Table => \A k \in Index : c[W[l][t]][k] \in Proper(l)
  /\ \A l, m \in 0 .. Last : \A t \in TablesAt(l), u \in TablesAt(m) :
       W[l][t] \in Table /\ W[l][t] = W[m][u] => l = m /\ t = u

LEMMA PlacesApart ==
  /\ None \notin Table /\ None \notin Frame /\ None \notin Device /\ None \in Int
  /\ Root \in Table /\ Root \notin Frame /\ Root \notin Device
  /\ Frame \subseteq Table /\ Frame \cap Device = {} /\ Frames \notin Frame \cup Device
  /\ Frame \subseteq Int /\ Device \subseteq Int /\ Table \subseteq Int
  /\ Table \ {Root} = Frame /\ Device \cap Table = {}
BY DEF None, Table, Frame, Root, Bar, Device

LEMMA EntryFields ==
  /\ Zero.frame = None /\ Zero.nx = FALSE /\ Zero = Entry(None, FALSE)
  /\ Failed.frame = -3 /\ Failed.frame \notin Table /\ Failed # Zero /\ Failed \in Entries
  /\ Junk \in Entries /\ Zero \in Entries
  /\ \A f, x : Entry(f, x).frame = f /\ Entry(f, x).nx = x
  /\ \A f \in Frame : /\ Entry(f, FALSE) \in [frame : Frame, nx : {FALSE}]
                      /\ Entry(f, FALSE) \in Entries /\ Entry(f, FALSE) # Zero
<1>1. Zero.frame = None /\ Zero.nx = FALSE /\ Zero = Entry(None, FALSE)
  BY DEF Zero, Entry
<1>2. Failed.frame = -3 /\ Failed # Zero /\ Junk \in Entries /\ Zero \in Entries /\ Failed \in Entries
  BY DEF Zero, Entry, Failed, Junk, Entries, None
<1>3. -3 \notin Table
  BY DEF Table, Frame, Root, Bar
<1>4. \A f, x : Entry(f, x).frame = f /\ Entry(f, x).nx = x
  BY DEF Entry
<1>5. ASSUME NEW f \in Frame
      PROVE  /\ Entry(f, FALSE) \in [frame : Frame, nx : {FALSE}]
             /\ Entry(f, FALSE) \in Entries /\ Entry(f, FALSE) # Zero
  <2>1. f # None
    BY PlacesApart
  <2>2. Entry(f, FALSE) # Zero
    BY <1>1, <1>4, <2>1
  <2> QED
    BY <2>2 DEF Entry, Entries
<1> QED
  BY <1>1, <1>2, <1>3, <1>4, <1>5

LEMMA ProperFields ==
  /\ \A l \in 0 .. Last : Zero \in Proper(l)
  /\ \A l \in 0 .. Last : \A e \in Proper(l) :
       l # Last => e = Zero \/ (e.frame \in Frame /\ e.nx = FALSE)
  /\ \A e \in Proper(Last) : e = Zero \/ (e.frame \in Frame \cup Device /\ e.nx \in Nx)
BY DEF Proper

\* What a table's entry leads to: a frame of memory, or nothing.
LEMMA TreeValues ==
  ASSUME NEW c, NEW W, Tree(c, W)
  PROVE  /\ \A l \in 1 .. Last : \A t \in TablesAt(l) : W[l][t] \in Frame \cup {None}
         /\ W[0][0] = Root
         /\ \A v \in Page : Pointee(c, W, Last, v) \in Frame \cup Device \cup {None}
<1>1. ASSUME NEW l \in 0 .. Last, NEW x \in EntriesAt(l)
      PROVE  /\ l # Last => Pointee(c, W, l, x) \in Frame \cup {None}
             /\ l = Last => Pointee(c, W, l, x) \in Frame \cup Device \cup {None}
  <2>1. x \div Fan \in TablesAt(l) /\ x % Fan \in Index
    BY EntryOfTable
  <2>2. CASE W[l][x \div Fan] \in Table
    <3> DEFINE e == c[W[l][x \div Fan]][x % Fan]
    <3>1. e \in Proper(l) /\ Pointee(c, W, l, x) = e.frame
      BY <2>1, <2>2 DEF Tree, Pointee
    <3> HIDE DEF e
    <3>2. l # Last => e.frame \in Frame \cup {None}
      BY <3>1, ProperFields, EntryFields
    <3>3. l = Last => e.frame \in Frame \cup Device \cup {None}
      BY <3>1, ProperFields, EntryFields
    <3> QED
      BY <3>1, <3>2, <3>3
  <2>3. CASE W[l][x \div Fan] \notin Table
    BY <2>3 DEF Pointee
  <2> QED
    BY <2>2, <2>3
<1>2. ASSUME NEW l \in 1 .. Last, NEW t \in TablesAt(l)
      PROVE  W[l][t] \in Frame \cup {None}
  <2>1. l - 1 \in 0 .. Last /\ l - 1 # Last /\ (l - 1) + 1 = l
    BY Levels
  <2>2. t \in EntriesAt(l - 1)
    BY <2>1, EntriesOfLevels
  <2>3. W[l][t] = Pointee(c, W, l - 1, t)
    BY DEF Tree, Walks
  <2> QED
    BY <2>1, <2>2, <2>3, <1>1
<1>3. \A v \in Page : Pointee(c, W, Last, v) \in Frame \cup Device \cup {None}
  BY <1>1, EntriesOfLevels, Levels
<1> QED
  BY <1>2, <1>3 DEF Tree, Walks

\* The processor finds the tables of a tree, and nothing behind them.
LEMMA FollowsTree ==
  ASSUME NEW c, NEW W, NEW V, Tree(c, W), Follows(c, V)
  PROVE  \A l \in 0 .. Last : \A t \in TablesAt(l) : V[l][t] = W[l][t]
<1> DEFINE Same(l) == \A t \in TablesAt(l) : V[l][t] = W[l][t]
           Bad == {l \in 0 .. Last : ~ Same(l)}
<1>1. SUFFICES ASSUME Bad # {} PROVE FALSE
  OBVIOUS
<1>2. PICK l \in Bad : \A m \in Bad : l <= m
  <2>1. Bad \in SUBSET Nat
    BY Levels
  <2> HIDE DEF Bad
  <2> QED
    BY <2>1, <1>1, SmallestNat
<1>3. l \in 0 .. Last /\ ~ Same(l)
  OBVIOUS
<1>4. l # 0
  <2>1. W[0][0] = V[0][0] /\ TablesAt(0) = {0}
    BY EntriesOfLevels DEF Tree, Walks, Follows
  <2> QED
    BY <2>1, <1>3
<1>5. /\ l \in 1 .. Last /\ l - 1 \in 0 .. Last /\ l - 1 < l
      /\ l - 1 # Last /\ (l - 1) + 1 = l
  BY <1>3, <1>4, Levels
<1>6. Same(l - 1)
  <2>1. l - 1 \notin Bad
    <3> HIDE DEF Bad
    <3>1. ~ (l <= l - 1)
      BY <1>3, <1>5
    <3> QED
      BY <1>2, <3>1
  <2> QED
    BY <2>1, <1>5
<1>7. PICK t \in TablesAt(l) : V[l][t] # W[l][t]
  BY <1>3
<1> HIDE DEF Bad
<1>8. t \div Fan \in TablesAt(l - 1)
  <2>1. t \in EntriesAt(l - 1)
    BY <1>5, EntriesOfLevels
  <2> QED
    BY <2>1, <1>5, EntryOfTable
<1> DEFINE u == t \div Fan
<1>9. V[l - 1][u] = W[l - 1][u]
  BY <1>6, <1>8
<1>10. /\ V[l][t] = Goal(c, V, l - 1, t) /\ W[l][t] = Pointee(c, W, l - 1, t)
  BY <1>5 DEF Tree, Walks, Follows
<1>11. W[l - 1][u] \in Table \cup {None}
  <2>1. CASE l - 1 = 0
    <3>1. u = 0 /\ W[0][0] = Root
      BY <1>8, <2>1, EntriesOfLevels DEF Tree, Walks
    <3> QED
      BY <3>1, <2>1, PlacesApart
  <2>2. CASE l - 1 # 0
    <3>1. l - 1 \in 1 .. Last
      BY <1>5, <2>2, Levels
    <3> HIDE DEF u
    <3>2. W[l - 1][u] \in Frame \cup {None}
      BY <3>1, <1>8, TreeValues DEF u
    <3> QED
      BY <3>2, PlacesApart
  <2> QED
    BY <2>1, <2>2
<1>12. None \notin Present /\ None \notin Table
  BY PlacesApart DEF Present, None, Anywhere
<1>13. V[l][t] = W[l][t]
  BY <1>9, <1>10, <1>11, <1>12 DEF Goal, Pointee
<1> QED
  BY <1>7, <1>13

\* Memory that has kept the tables that link others is the same tree.
LEMMA SameTree ==
  ASSUME NEW c, NEW W, Tree(c, W), NEW d \in [Table -> [Index -> Entries]],
         \A l \in 0 .. Last : \A t \in TablesAt(l) : W[l][t] \in Table =>
           \A k \in Index : /\ l # Last => d[W[l][t]][k] = c[W[l][t]][k]
                            /\ d[W[l][t]][k] \in Proper(l)
  PROVE  Tree(d, W)
<1>1. ASSUME NEW l \in 1 .. Last, NEW t \in TablesAt(l)
      PROVE  W[l][t] = Pointee(d, W, l - 1, t)
  <2>1. l - 1 \in 0 .. Last /\ l - 1 # Last /\ (l - 1) + 1 = l
    BY Levels
  <2>2. t \in EntriesAt(l - 1)
    BY <2>1, EntriesOfLevels
  <2>3. t \div Fan \in TablesAt(l - 1) /\ t % Fan \in Index
    BY <2>1, <2>2, EntryOfTable
  <2>4. W[l][t] = Pointee(c, W, l - 1, t)
    BY DEF Tree, Walks
  <2>5. Pointee(d, W, l - 1, t) = Pointee(c, W, l - 1, t)
    BY <2>1, <2>3 DEF Pointee
  <2> QED
    BY <2>4, <2>5
<1>2. Walks(d, W)
  BY <1>1 DEF Walks, Tree
<1> QED
  BY <1>2 DEF Tree

\* W with f as table t of level l.
With(W, l, t, f) ==
  [m \in 0 .. Last |-> [u \in TablesAt(m) |-> IF m = l /\ u = t THEN f ELSE W[m][u]]]

LEMMA WithValue ==
  ASSUME NEW W, NEW l, NEW t, NEW f, NEW m \in 0 .. Last, NEW u \in TablesAt(m)
  PROVE  With(W, l, t, f)[m][u] = IF m = l /\ u = t THEN f ELSE W[m][u]
BY DEF With

\* Nothing is below entry x of level l, either because it leads nowhere or
\* because the table it leads to is empty.
Bare(c, W, l, x) ==
  W[l + 1][x] \in Table => \A k \in Index : c[W[l + 1][x]][k] = Zero

\* Entry x of level l, which leads to nothing or to an empty table, is
\* changed into e, which leads to an empty table of its own or to nothing.
LEMMA Graft ==
  ASSUME NEW c, NEW W, Tree(c, W), NEW d \in [Table -> [Index -> Entries]],
         NEW l \in 0 .. Last, l # Last, NEW x \in EntriesAt(l), NEW e \in Proper(l),
         W[l][x \div Fan] \in Table, Bare(c, W, l, x),
         d[W[l][x \div Fan]][x % Fan] = e,
         e.frame \in Frame =>
           /\ \A m \in 0 .. Last : \A u \in TablesAt(m) : W[m][u] # e.frame
           /\ \A k \in Index : d[e.frame][k] = Zero,
         \A h \in Table, k \in Index :
           h # e.frame /\ ~ (h = W[l][x \div Fan] /\ k = x % Fan) => d[h][k] = c[h][k]
  PROVE  /\ Tree(d, With(W, l + 1, x, e.frame))
         /\ \A v \in Page :
              Pointee(d, With(W, l + 1, x, e.frame), Last, v) = Pointee(c, W, Last, v)
<1> DEFINE f == e.frame
           V == With(W, l + 1, x, f)
           P == W[l][x \div Fan]
<1>1. /\ l + 1 \in 0 .. Last /\ l + 1 \in 1 .. Last /\ l + 1 # l /\ l + 1 # 0
      /\ x \in TablesAt(l + 1) /\ x \div Fan \in TablesAt(l) /\ x % Fan \in Index
      /\ (l + 1) - 1 = l
  BY Levels, EntriesOfLevels, EntryOfTable
<1>2. f \in Frame \cup {None}
  BY ProperFields, EntryFields
<1>3. \A m \in 0 .. Last : \A u \in TablesAt(m) :
        V[m][u] = IF m = l + 1 /\ u = x THEN f ELSE W[m][u]
  BY WithValue
<1> HIDE DEF V, f, P
<1>4. f \in Frame => /\ \A m \in 0 .. Last : \A u \in TablesAt(m) : W[m][u] # f
                     /\ \A k \in Index : d[f][k] = Zero
  BY DEF f
<1>5. P \in Table /\ d[P][x % Fan] = e /\ V[l][x \div Fan] = P
  BY <1>1, <1>3 DEF P
<1>6. \A h \in Table, k \in Index : h # f /\ ~ (h = P /\ k = x % Fan) => d[h][k] = c[h][k]
  BY DEF f, P
<1>7. ASSUME NEW m \in 0 .. Last, NEW y \in EntriesAt(m), ~ (m = l /\ y = x)
      PROVE  Pointee(d, V, m, y) = Pointee(c, W, m, y)
  <2>1. /\ y \div Fan \in TablesAt(m) /\ y % Fan \in Index /\ y = Fan * (y \div Fan) + (y % Fan)
        /\ x = Fan * (x \div Fan) + (x % Fan)
    BY EntryOfTable
  <2>2. CASE m = l + 1 /\ y \div Fan = x
    <3>1. V[m][y \div Fan] = f
      BY <2>1, <2>2, <1>3
    <3>2. Pointee(d, V, m, y) = None
      BY <2>1, <3>1, <1>2, <1>4, EntryFields, PlacesApart DEF Pointee
    <3>3. Pointee(c, W, m, y) = None
      BY <2>1, <2>2, EntryFields DEF Pointee, Bare
    <3> QED
      BY <3>2, <3>3
  <2>3. CASE ~ (m = l + 1 /\ y \div Fan = x)
    <3>1. V[m][y \div Fan] = W[m][y \div Fan]
      BY <2>1, <2>3, <1>3
    <3>2. CASE W[m][y \div Fan] \notin Table
      BY <3>1, <3>2 DEF Pointee
    <3>3. CASE W[m][y \div Fan] \in Table
      <4> DEFINE h == W[m][y \div Fan]
      <4>1. h # f
        <5>1. f \in Frame => h # f
          BY <2>1, <1>4
        <5>2. f = None => h # f
          BY <3>3, PlacesApart
        <5> QED
          BY <5>1, <5>2, <1>2
      <4>2. ~ (h = P /\ y % Fan = x % Fan)
        <5> SUFFICES ASSUME h = P, y % Fan = x % Fan PROVE FALSE
          OBVIOUS
        <5>1. m = l /\ y \div Fan = x \div Fan
          BY <2>1, <3>3, <1>1 DEF Tree, P
        <5>2. y = x
          BY <5>1, <2>1
        <5> QED
          BY <5>1, <5>2, <1>7
      <4>3. d[h][y % Fan] = c[h][y % Fan]
        BY <4>1, <4>2, <3>3, <2>1, <1>6
      <4> QED
        BY <3>1, <3>3, <4>3 DEF Pointee
    <3> QED
      BY <3>2, <3>3
  <2> QED
    BY <2>2, <2>3
<1>8. Walks(d, V)
  <2>1. V[0][0] = Root
    BY <1>1, <1>3, Levels, EntriesOfLevels, TreeValues
  <2>2. ASSUME NEW m \in 1 .. Last, NEW u \in TablesAt(m)
        PROVE  V[m][u] = Pointee(d, V, m - 1, u)
    <3>1. m - 1 \in 0 .. Last /\ m - 1 # Last /\ (m - 1) + 1 = m /\ m \in 0 .. Last
      BY Levels
    <3>2. u \in EntriesAt(m - 1)
      BY <3>1, EntriesOfLevels
    <3>3. CASE m = l + 1 /\ u = x
      <4>1. V[m][u] = f
        BY <3>1, <3>3, <1>3
      <4>2. Pointee(d, V, m - 1, u) = f
        BY <3>3, <1>1, <1>5 DEF Pointee, f
      <4> QED
        BY <4>1, <4>2
    <3>4. CASE ~ (m = l + 1 /\ u = x)
      <4>1. V[m][u] = W[m][u]
        BY <3>1, <3>4, <1>3
      <4>2. ~ (m - 1 = l /\ u = x)
        BY <3>1, <3>4
      <4>3. Pointee(d, V, m - 1, u) = Pointee(c, W, m - 1, u)
        BY <3>1, <3>2, <4>2, <1>7
      <4>4. W[m][u] = Pointee(c, W, m - 1, u)
        BY DEF Tree, Walks
      <4> QED
        BY <4>1, <4>3, <4>4
    <3> QED
      BY <3>3, <3>4
  <2> QED
    BY <2>1, <2>2 DEF Walks
<1>9. ASSUME NEW m \in 0 .. Last, NEW u \in TablesAt(m), V[m][u] \in Table, NEW k \in Index
      PROVE  d[V[m][u]][k] \in Proper(m)
  <2>1. CASE m = l + 1 /\ u = x
    <3>1. V[m][u] = f
      BY <2>1, <1>3
    <3>2. f \in Frame
      BY <3>1, <1>9, <1>2, PlacesApart
    <3> QED
      BY <3>1, <3>2, <1>4, ProperFields
  <2>2. CASE ~ (m = l + 1 /\ u = x)
    <3>1. V[m][u] = W[m][u]
      BY <2>2, <1>3
    <3>2. W[m][u] # f
      <4>1. f \in Frame => W[m][u] # f
        BY <1>4
      <4>2. f = None => W[m][u] # f
        BY <1>9, <3>1, PlacesApart
      <4> QED
        BY <4>1, <4>2, <1>2
    <3>3. CASE W[m][u] = P /\ k = x % Fan
      <4>1. m = l
        BY <3>3, <1>1, <1>5 DEF Tree, P
      <4> QED
        BY <3>1, <3>3, <4>1, <1>5
    <3>4. CASE ~ (W[m][u] = P /\ k = x % Fan)
      <4>1. d[W[m][u]][k] = c[W[m][u]][k]
        BY <3>1, <3>2, <3>4, <1>6, <1>9
      <4> QED
        BY <4>1, <3>1, <1>9 DEF Tree
    <3> QED
      BY <3>3, <3>4
  <2> QED
    BY <2>1, <2>2
<1>10. ASSUME NEW m \in 0 .. Last, NEW p \in 0 .. Last, NEW t \in TablesAt(m), NEW u \in TablesAt(p),
              V[m][t] \in Table, V[m][t] = V[p][u]
       PROVE  m = p /\ t = u
  <2>1. /\ V[m][t] = IF m = l + 1 /\ t = x THEN f ELSE W[m][t]
        /\ V[p][u] = IF p = l + 1 /\ u = x THEN f ELSE W[p][u]
    BY <1>3
  <2>2. f \in Table => f \in Frame
    BY <1>2, PlacesApart
  <2>3. f \in Table => W[m][t] # f /\ W[p][u] # f
    BY <2>2, <1>4
  <2>4. CASE m = l + 1 /\ t = x
    BY <2>1, <2>3, <2>4, <1>10
  <2>5. CASE p = l + 1 /\ u = x
    BY <2>1, <2>3, <2>5, <1>10
  <2>6. CASE ~ (m = l + 1 /\ t = x) /\ ~ (p = l + 1 /\ u = x)
    <3>1. W[m][t] \in Table /\ W[m][t] = W[p][u]
      BY <2>1, <2>6, <1>10
    <3> QED
      BY <3>1 DEF Tree
  <2> QED
    BY <2>4, <2>5, <2>6
<1>11. Tree(d, V)
  BY <1>8, <1>9, <1>10 DEF Tree
<1>12. \A v \in Page : Pointee(d, V, Last, v) = Pointee(c, W, Last, v)
  BY <1>7, EntriesOfLevels, Levels
<1> QED
  BY <1>11, <1>12 DEF V, f

------------------------------------------------------------------------------
(* The inductive invariant.                                                *)
(*                                                                         *)
(* Between the step that writes a table's entry and the one that clears    *)
(* the table, and between the one that frees a table and the one that      *)
(* clears its entry, a walk of mem finds a table that is not there.  c is  *)
(* mem with 0 in that entry, and W the walk of it.                         *)

Touched(l) == Span(l, va, n)

Hole == pc \in {"clear", "unlink"}
HoleLevel == IF pc = "clear" THEN i ELSE Parent
HoleFrame(W) == W[HoleLevel][Slot(HoleLevel) \div Fan]
HoleIndex == Slot(HoleLevel) % Fan
HoleEntry(W) == mem[HoleFrame(W)][HoleIndex]

Linked(c, W) ==
  /\ mem \in [Table -> [Index -> Entries]]
  /\ \A f \in Table, k \in Index :
       ~ (Hole /\ f = HoleFrame(W) /\ k = HoleIndex) => mem[f][k] = c[f][k]
  /\ Hole => HoleFrame(W) \in Table /\ c[HoleFrame(W)][HoleIndex] = Zero
  /\ pc = "clear" => HoleEntry(W) = Failed \/ HoleEntry(W) \in [frame : Frame, nx : {FALSE}]

\* Frames of the tables in the tree, of the table being linked, and of pages
\* that a call no longer has in `space' and has yet to give back.
TreeFrames(W) == {f \in Frame : \E l \in 1 .. Last : \E t \in TablesAt(l) : W[l][t] = f}
Fresh(W) == IF pc = "clear" THEN {HoleEntry(W).frame} \cap Frame ELSE {}
InFlight(c, W) ==
  IF pc = "free" THEN {Pointee(c, W, Last, u) : u \in CallRange} \cap Frame ELSE {}

Apart(A, B, C, D, E) ==
  /\ A \cap (B \cup C \cup D \cup E) = {} /\ B \cap (C \cup D \cup E) = {}
  /\ C \cap (D \cup E) = {} /\ D \cap E = {}

\* Every frame has at most one owner, and one unless PAGE_NX is in use.
Accounts(c, W) ==
  /\ Apart(free, kept, DataFrames, InFlight(c, W), TreeFrames(W) \cup Fresh(W))
  /\ TreeFrames(W) \cap Fresh(W) = {}
  /\ \A u, v \in Page : space[u] \in Frame /\ space[u] = space[v] => u = v
  /\ Nx \subseteq {FALSE} =>
       Frame \subseteq free \cup kept \cup DataFrames \cup InFlight(c, W) \cup TreeFrames(W)
                         \cup Fresh(W)

Contents(c, W) ==
  \A v \in Page :
    IF pc \in {"free", "zero"} /\ v \in CallRange
      THEN /\ Pointee(c, W, Last, v) \in Frame \cup Device
           /\ Pointee(c, W, Last, v) = Pointee(c, W, Last, va) + v - va
      ELSE Pointee(c, W, Last, v) = Want(v)

\* Tables of level l that the call has linked already, or has yet to look at.
Required(l, x) ==
  \/ pc \in {"tables", "clear"} /\ (l <= i \/ (l = i + 1 /\ x < Slot(i)))
  \/ pc \in {"fill", "free", "zero", "flush"}
  \/ pc = "prune" /\ (l <= Parent \/ (l = Parent + 1 /\ x >= Slot(Parent)))
  \/ pc = "unlink" /\ (l <= Parent \/ (l = Parent + 1 /\ x > Slot(Parent)))

Standing(W) ==
  \A l \in 1 .. Last : \A x \in Touched(l - 1) : Required(l, x) => W[l][x] \in Table

\* A table is empty only on the way of a call.
NonEmpty(c, W) ==
  \A l \in 1 .. Last : \A t \in TablesAt(l) :
    W[l][t] \in Table /\ (\A k \in Index : c[W[l][t]][k] = Zero)
      => pc # "idle" /\ t \in Touched(l - 1) /\ (Mapping \/ Required(l, t))

Loops ==
  /\ pc = "idle" => i = 0 /\ j = 0
  /\ pc \in {"tables", "clear"} => i \in 0 .. Depth - 2 /\ j \in 0 .. Nums(i) - 1
  /\ pc \in {"fill", "flush"} => i \in 0 .. n - 1 /\ j = 0
  /\ pc \in {"free", "zero"} => i = 0 /\ j = 0
  /\ pc \in {"prune", "unlink"} => i \in 0 .. Depth - 2 /\ j \in 0 .. Nums(Parent) - 1

Call ==
  pc # "idle" =>
    /\ n \in 1 .. MaxPages /\ va \in Page /\ CallRange \subseteq Page
    /\ Mapping => /\ nx \in Nx /\ pa \in Frame \cup Device
                  /\ \A u \in CallRange : space[u] = pa + u - va /\ space[u] \in Frame \cup Device
    /\ ~ Mapping => \A u \in CallRange : space[u] = None

Sound(c, W) ==
  /\ Tree(c, W) /\ Linked(c, W) /\ Accounts(c, W) /\ Contents(c, W)
  /\ Standing(W) /\ NonEmpty(c, W) /\ Loops /\ Call

\* After a page fault: an allocation has failed, the loops have stopped, and
\* the pages outside the call's range lead where they should.
Broken(c, W) ==
  /\ Walks(c, W)
  /\ \A f \in Table, k \in Index : c[f][k].frame \in Table => mem[f][k].frame = c[f][k].frame
  /\ \A v \in Page \ CallRange : space[v] # None =>
       /\ Pointee(c, W, Last, v) = space[v]
       /\ c[W[Last][v \div Fan]][v % Fan] = mem[W[Last][v \div Fan]][v % Fan]
  /\ \E f \in Table, k \in Index : mem[f][k] = Failed
  /\ i \in 0 .. Depth + MaxPages /\ j \in 0 .. MaxPages

Types ==
  /\ mem \in [Table -> [Index -> Entries]]
  /\ free \subseteq Frame /\ kept \subseteq Frame
  /\ space \in [Page -> Frame \cup Device \cup {None}]
  /\ DOMAIN tlb \subseteq Page
  /\ \A v \in DOMAIN tlb : tlb[v] \in Present
  /\ DOMAIN window = {}
  /\ pc \in {"idle", "tables", "clear", "fill", "free", "zero", "flush",
             "prune", "unlink", "fault"}
  /\ pa \in Frame \cup Device /\ va \in Page /\ n \in 0 .. MaxPages /\ nx \in BOOLEAN

UpperTypes ==
  /\ DOMAIN upper \subseteq UNION {{l} \X TablesAt(l) : l \in 1 .. Depth - 1}
  /\ \A p \in DOMAIN upper : upper[p] \in Present

VInv ==
  /\ Types /\ UpperTypes
  /\ pc = "fault" => \E c, W : Broken(c, W)
  /\ pc # "fault" => \E c, W : Sound(c, W)

------------------------------------------------------------------------------
(* What a step can rely on.                                                *)

LEMMA LowestFree ==
  ASSUME NEW m, CanTake(m)
  PROVE  Lowest(m) \in Frame /\ Run(Lowest(m), m) \subseteq free
<1> DEFINE S == {f \in Frame : Run(f, m) \subseteq free}
<1>1. S \in SUBSET Nat /\ S # {}
  BY DEF CanTake, Frame
<1>2. \E f \in S : \A g \in S : f <= g
  <2> HIDE DEF S
  <2> QED
    BY <1>1, SmallestNat
<1>3. \E f \in Frame : /\ Run(f, m) \subseteq free
                       /\ \A g \in Frame : Run(g, m) \subseteq free => f <= g
  BY <1>2
<1> QED
  BY <1>3, Zenon DEF Lowest

LEMMA OneIsFree ==
  ASSUME CanTake(1)
  PROVE  Lowest(1) \in Frame /\ Lowest(1) \in free
<1>1. Lowest(1) \in Frame /\ Run(Lowest(1), 1) \subseteq free
  BY LowestFree
<1>2. Lowest(1) \in Run(Lowest(1), 1)
  <2>1. Lowest(1) \in Int
    BY <1>1, PlacesApart
  <2> QED
    BY <2>1 DEF Run
<1> QED
  BY <1>1, <1>2

LEMMA MemIsClean ==
  ASSUME NEW c, NEW W, Tree(c, W), Linked(c, W), ~ Hole
  PROVE  mem = c
<1>1. c \in [Table -> [Index -> Entries]] /\ mem \in [Table -> [Index -> Entries]]
  BY DEF Tree, Linked
<1>2. \A f \in Table, k \in Index : mem[f][k] = c[f][k]
  BY DEF Linked
<1>3. \A f \in Table : mem[f] = c[f]
  BY <1>1, <1>2
<1> QED
  BY <1>1, <1>3

\* A table of the tree is where the window reaches it.
LEMMA ReachTable ==
  ASSUME NEW c, NEW W, Tree(c, W), Linked(c, W), DOMAIN window = {}
  PROVE  /\ \A l \in 0 .. Last : \A t \in TablesAt(l) : W[l][t] \in Table =>
              Reach(l, t) = W[l][t] /\ TableFrame[l][t] = W[l][t]
         /\ ~ Hole => /\ \A l \in 0 .. Last : \A t \in TablesAt(l) :
                           Reach(l, t) \in Table => W[l][t] = Reach(l, t)
                      /\ \A l \in 0 .. Last : \A t \in TablesAt(l) :
                           TableFrame[l][t] \in Table => W[l][t] = TableFrame[l][t]
<1>1. \A l, t : Reach(l, t) = TableFrame[l][t]
  BY DEF Reach
<1>2. Climbs(c, W) /\ Climbs(mem, TableFrame)
  BY WalkOfMem, WalksClimb DEF Tree
<1>3. ASSUME NEW f \in Table, NEW k \in Index, c[f][k].frame \in Table
      PROVE  mem[f][k].frame = c[f][k].frame
  <2>1. c[f][k] # Zero
    BY <1>3, EntryFields, PlacesApart
  <2>2. mem[f][k] = c[f][k]
    BY <2>1 DEF Linked
  <2> QED
    BY <2>2
<1>4. \A l \in 0 .. Last : \A t \in TablesAt(l) : W[l][t] \in Table => TableFrame[l][t] = W[l][t]
  <2> DEFINE V == TableFrame
  <2> HIDE DEF V
  <2>1. Climbs(mem, V)
    BY <1>2 DEF V
  <2>2. \A l \in 0 .. Last : \A t \in TablesAt(l) : W[l][t] \in Table => V[l][t] = W[l][t]
    BY <1>2, <1>3, <2>1, WalkExtends
  <2> QED
    BY <2>2 DEF V
<1>5. ASSUME ~ Hole
      PROVE  \A l \in 0 .. Last : \A t \in TablesAt(l) :
               TableFrame[l][t] \in Table => W[l][t] = TableFrame[l][t]
  <2> DEFINE V == TableFrame
  <2> HIDE DEF V
  <2>1. Climbs(mem, V) /\ mem = c
    BY <1>2, <1>5, MemIsClean DEF V
  <2>2. \A f \in Table, k \in Index : mem[f][k].frame \in Table => c[f][k].frame = mem[f][k].frame
    BY <2>1
  <2>3. \A l \in 0 .. Last : \A t \in TablesAt(l) : V[l][t] \in Table => W[l][t] = V[l][t]
    BY <1>2, <2>1, <2>2, WalkExtends
  <2> QED
    BY <2>3 DEF V
<1> QED
  BY <1>1, <1>4, <1>5

\* The page a virtual page is mapped to is what the walk translates it to.
LEMMA TranslatePage ==
  ASSUME NEW c, NEW W, Tree(c, W), Linked(c, W), DOMAIN window = {}, NEW v \in Page
  PROVE  /\ Pointee(c, W, Last, v) # None => Translate(v) = Pointee(c, W, Last, v)
         /\ ~ Hole => Translate(v) = Pointee(c, W, Last, v)
<1>1. v \in EntriesAt(Last) /\ Last \in 0 .. Last
  BY EntriesOfLevels, Levels
<1>2. v \div Fan \in TablesAt(Last) /\ v % Fan \in Index
  BY <1>1, EntryOfTable
<1> DEFINE V == TableFrame
           f == W[Last][v \div Fan]
<1>3. Translate(v) = Goal(mem, V, Last, v)
  BY WalkOfMem
<1>4. f \in Table => V[Last][v \div Fan] = f
  BY <1>1, <1>2, ReachTable
<1>5. ~ Hole => mem = c
  BY MemIsClean
<1>6. ~ Hole => f = V[Last][v \div Fan]
  <2> SUFFICES ASSUME ~ Hole PROVE f = V[Last][v \div Fan]
    OBVIOUS
  <2>1. Follows(c, V)
    BY <1>5, WalkOfMem
  <2> HIDE DEF V
  <2> QED
    BY <2>1, <1>1, <1>2, FollowsTree
<1>7. Pointee(c, W, Last, v) = IF f \in Table THEN c[f][v % Fan].frame ELSE None
  BY DEF Pointee
<1>8. /\ V[Last][v \div Fan] \in Table =>
             Goal(mem, V, Last, v) = mem[V[Last][v \div Fan]][v % Fan].frame
      /\ V[Last][v \div Fan] = None => Goal(mem, V, Last, v) = None
  BY PlacesApart DEF Goal, Present, None, Anywhere
<1> HIDE DEF f, V
<1>9. ASSUME Pointee(c, W, Last, v) # None
      PROVE  Translate(v) = Pointee(c, W, Last, v)
  <2>1. f \in Table /\ c[f][v % Fan].frame # None
    BY <1>7, <1>9
  <2>2. c[f][v % Fan] # Zero
    BY <2>1, EntryFields
  <2>3. mem[f][v % Fan] = c[f][v % Fan]
    BY <2>1, <2>2, <1>2 DEF Linked
  <2> QED
    BY <2>1, <2>3, <1>3, <1>4, <1>7, <1>8
<1>10. ASSUME ~ Hole
       PROVE  Translate(v) = Pointee(c, W, Last, v)
  <2>1. f \in Table \cup {None}
    <3>1. Last \in 1 .. Last
      BY Levels
    <3>2. f \in Frame \cup {None}
      BY <3>1, <1>2, TreeValues DEF f
    <3> QED
      BY <3>2, PlacesApart
  <2> QED
    BY <2>1, <1>10, <1>3, <1>5, <1>6, <1>7, <1>8, PlacesApart
<1> QED
  BY <1>9, <1>10

\* What the code writes through the window.
LEMMA WrittenValue ==
  ASSUME mem \in [Table -> [Index -> Entries]], NEW l, NEW X, NEW e \in Entries
  PROVE  /\ Written(l, X, e) \in [Table -> [Index -> Entries]]
         /\ \A f \in Table, k \in Index :
              Written(l, X, e)[f][k] =
                IF \E x \in X : Reach(l, x \div Fan) = f /\ x % Fan = k THEN e ELSE mem[f][k]
BY DEF Written

LEMMA ScribbledValue ==
  ASSUME mem \in [Table -> [Index -> Entries]], NEW S
  PROVE  /\ Scribbled(S) \in [Table -> [Index -> Entries]]
         /\ \A f \in Table, k \in Index :
              Scribbled(S)[f][k] = IF f \in S THEN Junk ELSE mem[f][k]
BY EntryFields DEF Scribbled

\* The entry a loop is at.
LEMMA SlotTouched ==
  ASSUME Loops, Call
  PROVE  /\ pc \in {"tables", "clear"} =>
              /\ i \in 0 .. Last /\ i # Last /\ i \in Int
              /\ Slot(i) \in Touched(i) /\ Slot(i) \in EntriesAt(i) /\ Slot(i) \in Int
         /\ pc \in {"prune", "unlink"} =>
              /\ Parent \in 0 .. Last /\ Parent # Last /\ Parent \in Int /\ i = Last - 1 - Parent
              /\ Slot(Parent) \in Touched(Parent) /\ Slot(Parent) \in EntriesAt(Parent)
              /\ Slot(Parent) \in Int
<1>1. ASSUME NEW l \in 0 .. Last, pc # "idle", j \in 0 .. Nums(l) - 1
      PROVE  Slot(l) \in Touched(l) /\ Slot(l) \in EntriesAt(l) /\ Slot(l) \in Int
  <2>1. va \in Page /\ n \in Nat \ {0} /\ va .. va + n - 1 \subseteq Page
    BY <1>1 DEF Call, CallRange
  <2>2. /\ On(l, va) \in Int /\ On(l, va + n - 1) \in Int
        /\ Span(l, va, n) \subseteq EntriesAt(l)
    BY <2>1, SpanEnds
  <2>3. Nums(l) = On(l, va + n - 1) - On(l, va) + 1
    BY <2>1, NumsIsSpan DEF Nums
  <2>4. Slot(l) = On(l, va) + j
    BY DEF Slot, On
  <2> DEFINE a == On(l, va)
             b == On(l, va + n - 1)
  <2>5. a \in Int /\ b \in Int /\ j \in 0 .. (b - a + 1) - 1 /\ Slot(l) = a + j
        /\ Span(l, va, n) = a .. b
    BY <2>2, <2>3, <2>4, <1>1 DEF Span
  <2> HIDE DEF a, b
  <2>6. Slot(l) \in a .. b /\ Slot(l) \in Int
    BY <2>5
  <2> QED
    BY <2>2, <2>5, <2>6 DEF Touched
<1>2. ASSUME pc \in {"tables", "clear"}
      PROVE  i \in 0 .. Last /\ i # Last /\ i \in Int /\ j \in 0 .. Nums(i) - 1
  BY <1>2, Levels DEF Loops, Last
<1>3. ASSUME pc \in {"prune", "unlink"}
      PROVE  /\ Parent \in 0 .. Last /\ Parent # Last /\ Parent \in Int /\ i = Last - 1 - Parent
             /\ j \in 0 .. Nums(Parent) - 1
  <2>1. i \in 0 .. Depth - 2 /\ j \in 0 .. Nums(Parent) - 1
    BY <1>3 DEF Loops
  <2> QED
    BY <2>1, Levels DEF Parent, Last
<1> QED
  BY <1>1, <1>2, <1>3

LEMMA TouchedEntries ==
  ASSUME Call, pc # "idle", NEW l \in 0 .. Last
  PROVE  /\ Nums(l) \in Nat \ {0} /\ Nums(l) <= n /\ n \in Nat \ {0} /\ n <= MaxPages
         /\ On(l, va) \in Int
         /\ Touched(l) = On(l, va) .. On(l, va) + Nums(l) - 1
         /\ Touched(l) \subseteq EntriesAt(l)
         /\ Slot(l) = On(l, va) + j
<1>1. va \in Page /\ n \in Nat \ {0} /\ va .. va + n - 1 \subseteq Page /\ n <= MaxPages
  BY DEF Call, CallRange
<1>2. /\ On(l, va) \in Int /\ On(l, va + n - 1) \in Int
      /\ On(l, va) <= On(l, va + n - 1)
      /\ Span(l, va, n) \subseteq EntriesAt(l)
  BY <1>1, SpanEnds
<1>3. Nums(l) = On(l, va + n - 1) - On(l, va) + 1 /\ On(l, va + n - 1) - On(l, va) + 1 <= n
  BY <1>1, NumsIsSpan DEF Nums
<1>4. Slot(l) = On(l, va) + j
  BY DEF Slot, On
<1> DEFINE a == On(l, va)
           b == On(l, va + n - 1)
           m == Nums(l)
<1>5. a \in Int /\ b \in Int /\ a <= b /\ m = b - a + 1 /\ m <= n /\ Touched(l) = a .. b
      /\ a .. b \subseteq EntriesAt(l) /\ n \in Nat \ {0} /\ n <= MaxPages
  BY <1>1, <1>2, <1>3 DEF Span, Touched
<1> HIDE DEF a, b, m
<1>6. m \in Nat \ {0} /\ a + m - 1 = b /\ m <= n
  BY <1>5
<1>7. Slot(l) = a + j
  BY <1>4 DEF a
<1> QED
  BY <1>5, <1>6, <1>7 DEF a, m

\* The next entry of map_pages' loop: the tables linked so far are required.
LEMMA AdvanceUp ==
  ASSUME Loops, Call, pc \in {"tables", "clear"}, Advance(i, "tables", "fill"),
         UNCHANGED <<va, n>>
  PROVE  /\ Loops' /\ pc' \in {"tables", "fill"}
         /\ \A l \in 1 .. Last : \A x \in Touched(l - 1) :
              Required(l, x)' => l <= i \/ (l = i + 1 /\ x <= Slot(i))
<1>1. /\ i \in Int /\ 0 <= i /\ i <= Depth - 2 /\ Last = Depth - 1
      /\ j \in Int /\ 0 <= j /\ j <= Nums(i) - 1 /\ i \in 0 .. Last
  <2>1. i \in 0 .. Depth - 2 /\ j \in 0 .. Nums(i) - 1
    BY DEF Loops
  <2>2. i \in 0 .. Last
    BY <2>1, Levels DEF Last
  <2>3. Nums(i) \in Int
    BY <2>2, TouchedEntries
  <2> QED
    BY <2>1, <2>2, <2>3 DEF Last
<1>2. \A l \in 0 .. Last : /\ Nums(l) \in Nat \ {0} /\ On(l, va) \in Int
                           /\ Touched(l) = On(l, va) .. On(l, va) + Nums(l) - 1
                           /\ Slot(l) = On(l, va) + j
  BY TouchedEntries
<1>3. \A l : Nums(l)' = Nums(l) /\ On(l, va)' = On(l, va)
  BY DEF Nums, On
<1>4. n \in Nat \ {0} /\ n' = n
  BY <1>1, TouchedEntries
<1>7. /\ Nums(i) \in Nat \ {0} /\ On(i, va) \in Int
      /\ Touched(i) = On(i, va) .. On(i, va) + Nums(i) - 1
      /\ Slot(i) = On(i, va) + j
  BY <1>1, <1>2
<1>5. CASE j + 1 < Nums(i)
  <2>1. j' = j + 1 /\ i' = i /\ pc' = "tables"
    BY <1>5 DEF Advance
  <2>2. Slot(i)' = Slot(i) + 1 /\ Slot(i) \in Int
    <3>1. Slot(i)' = On(i, va) + (j + 1)
      BY <2>1, <1>3 DEF Slot, On
    <3>2. j \in Int
      BY <1>1
    <3> QED
      BY <3>1, <3>2, <1>7
  <2>3. Loops'
    <3>1. Nums(i)' = Nums(i) /\ Nums(i) \in Int
      BY <2>1, <1>1, <1>2, <1>3 DEF Nums
    <3>2. i \in 0 .. Depth - 2 /\ j + 1 \in 0 .. Nums(i) - 1
      BY <3>1, <1>1, <1>5
    <3> QED
      BY <2>1, <3>1, <3>2 DEF Loops
  <2>4. ASSUME NEW l \in 1 .. Last, NEW x \in Touched(l - 1), Required(l, x)'
        PROVE  l <= i \/ (l = i + 1 /\ x <= Slot(i))
    <3>1. l <= i \/ (l = i + 1 /\ x < Slot(i) + 1)
      BY <2>1, <2>2, <2>4 DEF Required
    <3>2. x \in Int
      <4>1. l - 1 \in 0 .. Last
        BY Levels
      <4> QED
        BY <4>1, <1>2
    <3> QED
      BY <3>1, <3>2, <2>2
  <2> QED
    BY <2>1, <2>3, <2>4
<1>6. CASE ~ (j + 1 < Nums(i))
  <2>0. j = Nums(i) - 1 /\ \A x \in Touched(i) : x \in Int /\ x <= Slot(i)
    <3>1. j = Nums(i) - 1
      <4>1. j \in Int /\ j <= Nums(i) - 1 /\ Nums(i) \in Int
        BY <1>1, <1>7
      <4> QED
        BY <4>1, <1>6
    <3>2. \A x \in Touched(i) : x \in Int /\ x <= On(i, va) + Nums(i) - 1
      BY <1>7
    <3> QED
      BY <3>1, <3>2, <1>7
  <2>1. CASE i + 1 < Depth - 1
    <3>1. j' = 0 /\ i' = i + 1 /\ pc' = "tables"
      BY <1>6, <2>1 DEF Advance
    <3>2. i + 1 \in 0 .. Last /\ i + 1 \in 0 .. Depth - 2
      BY <1>1, <2>1
    <3>3. Loops'
      <4>1. Nums(i)' = Nums(i + 1)
        BY <3>1 DEF Nums
      <4>2. 0 \in 0 .. Nums(i + 1) - 1
        BY <1>2, <3>2
      <4> QED
        BY <3>1, <3>2, <4>1, <4>2 DEF Loops
    <3>4. ASSUME NEW l \in 1 .. Last, NEW x \in Touched(l - 1), Required(l, x)'
          PROVE  l <= i \/ (l = i + 1 /\ x <= Slot(i))
      <4>1. Slot(i)' = On(i + 1, va)
        <5>1. Slot(i)' = On(i + 1, va) + 0
          BY <3>1 DEF Slot, On
        <5> QED
          BY <5>1, <1>2, <3>2
      <4>2. l <= i + 1 \/ (l = i + 2 /\ x < On(i + 1, va))
        BY <3>1, <3>4, <4>1, <1>1 DEF Required
      <4>3. l = i + 2 => x >= On(i + 1, va)
        <5>1. l = i + 2 => x \in Touched(i + 1)
          BY <3>4, <1>1
        <5> QED
          BY <5>1, <3>2, <1>2
      <4>4. l = i + 1 => x \in Touched(i)
        BY <3>4, <1>1
      <4>5. x \in Int
        <5>1. l - 1 \in 0 .. Last
          BY Levels
        <5> QED
          BY <5>1, <1>2
      <4>6. On(i + 1, va) \in Int
        BY <1>2, <3>2
      <4> QED
        BY <4>2, <4>3, <4>4, <4>5, <4>6, <2>0, <1>1
    <3> QED
      BY <3>1, <3>3, <3>4
  <2>2. CASE ~ (i + 1 < Depth - 1)
    <3>1. j' = 0 /\ i' = 0 /\ pc' = "fill"
      BY <1>6, <2>2 DEF Advance
    <3>2. Loops'
      BY <3>1, <1>4 DEF Loops
    <3>3. ASSUME NEW l \in 1 .. Last, NEW x \in Touched(l - 1)
          PROVE  l <= i \/ (l = i + 1 /\ x <= Slot(i))
      <4>1. l <= i + 1 /\ l \in Int
        BY <1>1, <2>2
      <4>2. l = i + 1 => x \in Touched(i)
        BY <3>3, <1>1
      <4> QED
        BY <4>1, <4>2, <2>0, <1>1
    <3> QED
      BY <3>1, <3>2, <3>3
  <2> QED
    BY <2>1, <2>2
<1> QED
  BY <1>5, <1>6

\* The next table of unmap_pages' loops: those before it are done.
LEMMA AdvanceDown ==
  ASSUME Loops, Call, pc \in {"prune", "unlink"}, Advance(Parent, "prune", "idle"),
         UNCHANGED <<va, n>>
  PROVE  /\ Loops' /\ pc' \in {"prune", "idle"}
         /\ \A l \in 1 .. Last : \A x \in Touched(l - 1) :
              Required(l, x)' <=> l <= Parent \/ (l = Parent + 1 /\ x > Slot(Parent))
<1> DEFINE p == Parent
<1>1. /\ i \in Int /\ 0 <= i /\ i <= Depth - 2 /\ Last = Depth - 1 /\ p = Depth - 2 - i
      /\ j \in Int /\ 0 <= j /\ j <= Nums(p) - 1 /\ p \in 0 .. Last /\ p \in Int
  <2>1. i \in 0 .. Depth - 2 /\ j \in 0 .. Nums(p) - 1
    BY DEF Loops
  <2>2. p \in 0 .. Last /\ p \in Int
    BY <2>1, Levels DEF Last, Parent
  <2>3. Nums(p) \in Int
    BY <2>2, TouchedEntries
  <2> QED
    BY <2>1, <2>2, <2>3 DEF Last, Parent
<1>2. \A l \in 0 .. Last : /\ Nums(l) \in Nat \ {0} /\ On(l, va) \in Int
                           /\ Touched(l) = On(l, va) .. On(l, va) + Nums(l) - 1
                           /\ Slot(l) = On(l, va) + j
  BY TouchedEntries
<1>4. \A l \in 1 .. Last : \A x \in Touched(l - 1) : x \in Int /\ l \in Int
  <2> TAKE l \in 1 .. Last
  <2>1. l - 1 \in 0 .. Last
    BY Levels
  <2> QED
    BY <2>1, <1>2
<1>7. /\ Nums(p) \in Nat \ {0} /\ On(p, va) \in Int
      /\ Touched(p) = On(p, va) .. On(p, va) + Nums(p) - 1
      /\ Slot(p) = On(p, va) + j
  BY <1>1, <1>2
<1>5. CASE j + 1 < Nums(p)
  <2>1. j' = j + 1 /\ i' = i /\ pc' = "prune"
    BY <1>5 DEF Advance
  <2>2. Parent' = p
    BY <2>1 DEF Parent
  <2>3. Slot(Parent)' = Slot(p) + 1 /\ Slot(p) \in Int
    <3>1. Slot(Parent)' = On(p, va) + (j + 1)
      BY <2>1, <2>2 DEF Slot, On
    <3>2. j \in Int
      BY <1>1
    <3> QED
      BY <3>1, <3>2, <1>7
  <2>4. Loops'
    <3>1. Nums(Parent)' = Nums(p) /\ Nums(p) \in Int
      BY <2>2, <1>1, <1>2 DEF Nums
    <3>2. i \in 0 .. Depth - 2 /\ j + 1 \in 0 .. Nums(p) - 1
      BY <3>1, <1>1, <1>5
    <3> HIDE DEF p
    <3> QED
      BY <2>1, <3>1, <3>2 DEF Loops
  <2>5. ASSUME NEW l \in 1 .. Last, NEW x \in Touched(l - 1)
        PROVE  Required(l, x)' <=> l <= p \/ (l = p + 1 /\ x > Slot(p))
    <3>1. Required(l, x)' <=> l <= p \/ (l = p + 1 /\ x >= Slot(p) + 1)
      BY <2>1, <2>2, <2>3 DEF Required
    <3>2. x \in Int
      BY <1>4
    <3> QED
      BY <3>1, <3>2, <2>3
  <2> QED
    BY <2>1, <2>4, <2>5
<1>6. CASE ~ (j + 1 < Nums(p))
  <2>0. j = Nums(p) - 1 /\ \A x \in Touched(p) : x \in Int /\ ~ (x > Slot(p))
    <3>1. j = Nums(p) - 1
      <4>1. j \in Int /\ j <= Nums(p) - 1 /\ Nums(p) \in Int
        BY <1>1, <1>7
      <4> HIDE DEF p
      <4> QED
        BY <4>1, <1>6
    <3>2. \A x \in Touched(p) : x \in Int /\ x <= On(p, va) + Nums(p) - 1
      BY <1>7
    <3> QED
      BY <3>1, <3>2, <1>7
  <2>1. CASE i + 1 < Depth - 1
    <3>1. j' = 0 /\ i' = i + 1 /\ pc' = "prune"
      BY <1>6, <2>1 DEF Advance
    <3>2. p - 1 \in 0 .. Last /\ i + 1 \in 0 .. Depth - 2 /\ Parent' = p - 1
      BY <1>1, <2>1, <3>1 DEF Parent
    <3>3. Loops'
      <4>1. Nums(Parent)' = Nums(p - 1)
        BY <3>2 DEF Nums
      <4>2. 0 \in 0 .. Nums(p - 1) - 1
        BY <1>2, <3>2
      <4> HIDE DEF p
      <4> QED
        BY <3>1, <3>2, <4>1, <4>2 DEF Loops
    <3>4. ASSUME NEW l \in 1 .. Last, NEW x \in Touched(l - 1)
          PROVE  Required(l, x)' <=> l <= p \/ (l = p + 1 /\ x > Slot(p))
      <4>1. Slot(Parent)' = On(p - 1, va) /\ On(p - 1, va) \in Int
        <5>1. Slot(Parent)' = On(p - 1, va) + 0
          BY <3>1, <3>2 DEF Slot, On
        <5> QED
          BY <5>1, <1>2, <3>2
      <4>2. Required(l, x)' <=> l <= p - 1 \/ (l = (p - 1) + 1 /\ x >= On(p - 1, va))
        BY <3>1, <3>2, <4>1 DEF Required
      <4>3. l = p => x >= On(p - 1, va)
        <5>1. l = p => x \in Touched(p - 1)
          BY <3>4, <1>1
        <5> QED
          BY <5>1, <3>2, <1>2
      <4>4. l = p + 1 => ~ (x > Slot(p))
        <5>1. l = p + 1 => x \in Touched(p)
          BY <3>4, <1>1
        <5> QED
          BY <5>1, <2>0
      <4>5. x \in Int /\ l \in Int
        BY <1>4
      <4> QED
        BY <4>2, <4>3, <4>4, <4>5, <1>1
    <3> QED
      BY <3>1, <3>3, <3>4
  <2>2. CASE ~ (i + 1 < Depth - 1)
    <3>1. j' = 0 /\ i' = 0 /\ pc' = "idle"
      BY <1>6, <2>2 DEF Advance
    <3>2. Loops'
      BY <3>1 DEF Loops
    <3>3. ASSUME NEW l \in 1 .. Last, NEW x \in Touched(l - 1)
          PROVE  ~ (l <= p \/ (l = p + 1 /\ x > Slot(p))) /\ ~ Required(l, x)'
      <4>1. p = 0 /\ l >= 1 /\ l \in Int
        BY <1>1, <2>2
      <4>2. l = p + 1 => x \in Touched(p)
        BY <3>3, <1>1
      <4>3. ~ Required(l, x)'
        BY <3>1 DEF Required
      <4> QED
        BY <4>1, <4>2, <4>3, <2>0
    <3> QED
      BY <3>1, <3>2, <3>3
  <2> QED
    BY <2>1, <2>2
<1> QED
  BY <1>5, <1>6 DEF p

\* The tables a step accesses are in the tree.
LEMMA TableAbove ==
  ASSUME NEW c, NEW W, Tree(c, W), Standing(W), Call, pc # "idle",
         NEW l \in 0 .. Last, NEW x \in Touched(l), l # 0 => Required(l, x \div Fan)
  PROVE  W[l][x \div Fan] \in Table /\ x \div Fan \in TablesAt(l)
<1>1. x \in EntriesAt(l)
  BY TouchedEntries
<1>2. x \div Fan \in TablesAt(l)
  BY <1>1, EntryOfTable
<1>3. CASE l = 0
  BY <1>2, <1>3, EntriesOfLevels, PlacesApart DEF Tree, Walks
<1>4. CASE l # 0
  <2>1. l \in 1 .. Last
    BY <1>4, Levels
  <2>2. va \in Page /\ n \in Nat \ {0} /\ va .. va + n - 1 \subseteq Page
    BY DEF Call, CallRange
  <2>3. x \div Fan \in Touched(l - 1)
    BY <2>1, <2>2, SpanLevels DEF Touched
  <2> QED
    BY <2>1, <2>3, <1>2, <1>4 DEF Standing
<1> QED
  BY <1>3, <1>4

LEMMA RangeTouched ==
  ASSUME Call, pc # "idle"
  PROVE  /\ CallRange = Touched(Last) /\ va \in CallRange /\ CallRange \subseteq Page
         /\ n \in Nat \ {0} /\ va \in Int /\ n \in Int
         /\ \A u \in CallRange : u \in EntriesAt(Last) /\ u \in Int
<1>1. va \in Page /\ n \in Nat \ {0} /\ CallRange \subseteq Page
  BY DEF Call
<1>2. Page = EntriesAt(Last) /\ Last \in 0 .. Last
  BY EntriesOfLevels, Levels
<1>3. \A u \in Page : u \in Int
  BY <1>2, EntryOfTable
<1>4. va \in Int /\ va \in CallRange
  BY <1>1, <1>3 DEF CallRange
<1>5. va + n - 1 \in CallRange
  BY <1>1, <1>4 DEF CallRange
<1>6. On(Last, va) = va /\ On(Last, va + n - 1) = va + n - 1
  BY <1>1, <1>5, OnLevels
<1>7. CallRange = Touched(Last)
  BY <1>6 DEF CallRange, Touched, Span
<1> QED
  BY <1>1, <1>2, <1>3, <1>4, <1>7

LEMMA StepTables ==
  ASSUME NEW c, NEW W, Sound(c, W)
  PROVE  /\ pc = "tables" => W[i][Slot(i) \div Fan] \in Table
         /\ pc \in {"fill", "free", "zero"} => \A u \in CallRange : W[Last][u \div Fan] \in Table
         /\ pc = "prune" => /\ W[Parent + 1][Slot(Parent)] \in Table
                            /\ W[Parent][Slot(Parent) \div Fan] \in Table
         /\ Hole => /\ HoleFrame(W) \in Table /\ HoleIndex \in Index
                    /\ HoleLevel \in 0 .. Last /\ HoleLevel # Last /\ HoleLevel \in Int
                    /\ Slot(HoleLevel) \in EntriesAt(HoleLevel)
                    /\ Slot(HoleLevel) \in Touched(HoleLevel)
<1>1. Tree(c, W) /\ Standing(W) /\ Call /\ Loops /\ Linked(c, W)
  BY DEF Sound
<1>2. ASSUME pc = "tables"
      PROVE  W[i][Slot(i) \div Fan] \in Table
  <2>1. i \in 0 .. Last /\ Slot(i) \in Touched(i) /\ i \in Int
    BY <1>1, <1>2, SlotTouched
  <2>2. Required(i, Slot(i) \div Fan)
    BY <1>2, <2>1 DEF Required
  <2> QED
    BY <1>1, <1>2, <2>1, <2>2, TableAbove
<1>3. ASSUME pc \in {"fill", "free", "zero"}, NEW u \in CallRange
      PROVE  W[Last][u \div Fan] \in Table
  <2>1. u \in Touched(Last) /\ Last \in 0 .. Last
    BY <1>1, <1>3, RangeTouched, Levels
  <2>2. Required(Last, u \div Fan)
    BY <1>3 DEF Required
  <2> QED
    BY <1>1, <1>3, <2>1, <2>2, TableAbove
<1>4. ASSUME pc = "prune"
      PROVE  /\ W[Parent + 1][Slot(Parent)] \in Table
             /\ W[Parent][Slot(Parent) \div Fan] \in Table
  <2>1. Parent \in 0 .. Last /\ Parent # Last /\ Parent \in Int /\ Slot(Parent) \in Touched(Parent)
        /\ Slot(Parent) \in Int
    BY <1>1, <1>4, SlotTouched
  <2>2. Required(Parent, Slot(Parent) \div Fan) /\ Required(Parent + 1, Slot(Parent))
    BY <1>4, <2>1 DEF Required
  <2>3. W[Parent][Slot(Parent) \div Fan] \in Table
    <3> DEFINE p == Parent
               s == Slot(Parent)
    <3>1. p \in 0 .. Last /\ s \in Touched(p) /\ Required(p, s \div Fan) /\ pc # "idle"
      BY <1>4, <2>1, <2>2
    <3> HIDE DEF p, s
    <3>2. W[p][s \div Fan] \in Table
      BY <3>1, <1>1, TableAbove
    <3> QED
      BY <3>2 DEF p, s
  <2>4. Parent + 1 \in 1 .. Last /\ (Parent + 1) - 1 = Parent
    BY <2>1, Levels
  <2> QED
    BY <1>1, <2>1, <2>2, <2>3, <2>4 DEF Standing
<1>5. ASSUME Hole
      PROVE  /\ HoleFrame(W) \in Table /\ HoleIndex \in Index
             /\ HoleLevel \in 0 .. Last /\ HoleLevel # Last /\ HoleLevel \in Int
             /\ Slot(HoleLevel) \in EntriesAt(HoleLevel)
             /\ Slot(HoleLevel) \in Touched(HoleLevel)
  <2>1. HoleFrame(W) \in Table
    BY <1>1, <1>5 DEF Linked
  <2>2. /\ HoleLevel \in 0 .. Last /\ HoleLevel # Last /\ HoleLevel \in Int
        /\ Slot(HoleLevel) \in EntriesAt(HoleLevel)
        /\ Slot(HoleLevel) \in Touched(HoleLevel)
    <3>1. CASE pc = "clear"
      <4>1. HoleLevel = i
        BY <3>1 DEF HoleLevel
      <4> QED
        BY <4>1, <3>1, <1>1, SlotTouched
    <3>2. CASE pc = "unlink"
      <4>1. HoleLevel = Parent
        BY <3>2 DEF HoleLevel
      <4> QED
        BY <4>1, <3>2, <1>1, SlotTouched
    <3> QED
      BY <3>1, <3>2, <1>5 DEF Hole
  <2>3. HoleIndex \in Index
    BY <2>2, EntryOfTable DEF HoleIndex
  <2> QED
    BY <2>1, <2>2, <2>3
<1> QED
  BY <1>2, <1>3, <1>4, <1>5

\* The entries of the table that entry x points to.
LEMMA BelowEntries ==
  ASSUME NEW l \in 0 .. Last, l # Last, NEW x \in EntriesAt(l)
  PROVE  /\ \A y \in Below(x) : y \div Fan = x /\ y % Fan \in Index /\ y \in Int
         /\ \A k \in Index : \E y \in Below(x) : y \div Fan = x /\ y % Fan = k
         /\ x \in TablesAt(l + 1) /\ l + 1 \in 0 .. Last /\ l + 1 \in 1 .. Last
<1>1. l + 1 \in 0 .. Last /\ l + 1 \in 1 .. Last /\ x \in TablesAt(l + 1) /\ x \in Int
  BY Levels, EntriesOfLevels, EntryOfTable
<1>2. ASSUME NEW k \in Index
      PROVE  (Fan * x + k) \div Fan = x /\ (Fan * x + k) % Fan = k
  BY <1>1, EntryOfTable
<1>3. \A y \in Below(x) : y \in Int /\ \E k \in Index : y = Fan * x + k
  <2> DEFINE b == x * Fan
  <2>1. b \in Int /\ b = Fan * x
    BY <1>1
  <2>2. Below(x) = b .. b + Fan - 1
    BY DEF Below
  <2> HIDE DEF b
  <2>3. \A y \in b .. b + Fan - 1 : y \in Int /\ y - b \in Index /\ y = b + (y - b)
    BY <2>1 DEF Index
  <2> QED
    BY <2>1, <2>2, <2>3
<1>4. \A k \in Index : Fan * x + k \in Below(x)
  <2> DEFINE b == x * Fan
  <2>1. b \in Int /\ b = Fan * x
    BY <1>1
  <2>2. Below(x) = b .. b + Fan - 1
    BY DEF Below
  <2> HIDE DEF b
  <2>3. \A k \in Index : b + k \in b .. b + Fan - 1
    BY <2>1 DEF Index
  <2> QED
    BY <2>1, <2>2, <2>3
<1> QED
  BY <1>1, <1>2, <1>3, <1>4

\* Only a table whose allocation failed is not where the window expects it.
LEMMA FaultIsFailure ==
  ASSUME NEW c, NEW W, Sound(c, W), DOMAIN window = {},
         NEW p \in AccessedTables, Reach(p[1], p[2]) \notin Table, pc # "fault"
  PROVE  pc = "clear" /\ HoleEntry(W) = Failed
<1> DEFINE Kept(l, t) == l \in 0 .. Last /\ t \in TablesAt(l) /\ W[l][t] \in Table
<1>1. Tree(c, W) /\ Standing(W) /\ Call /\ Loops /\ Linked(c, W)
  BY DEF Sound
<1>2. ~ Kept(p[1], p[2])
  BY <1>1, ReachTable
<1>3. PICK x \in Accessed.entries : p = <<Accessed.level, x \div Fan>>
  BY DEF AccessedTables
<1>4. p[1] = Accessed.level /\ p[2] = x \div Fan
  BY <1>3
<1> HIDE DEF Kept
<1>5. pc # "tables"
  <2> SUFFICES ASSUME pc = "tables" PROVE FALSE
    OBVIOUS
  <2>1. p[1] = i /\ p[2] = Slot(i) \div Fan
    BY <1>3, <1>4 DEF Accessed
  <2>2. i \in 0 .. Last /\ Slot(i) \in EntriesAt(i)
    BY <1>1, SlotTouched
  <2>3. Kept(i, Slot(i) \div Fan)
    BY <2>2, EntryOfTable, StepTables DEF Kept
  <2> QED
    BY <2>1, <2>3, <1>2
<1>6. pc \notin {"fill", "free", "zero"}
  <2> SUFFICES ASSUME pc \in {"fill", "free", "zero"} PROVE FALSE
    OBVIOUS
  <2>1. p[1] = Last
    BY <1>4 DEF Accessed, Last
  <2>2. x \in CallRange
    <3>1. va \in CallRange /\ va \in Int /\ n \in Int
      BY <1>1, RangeTouched
    <3>2. pc = "fill" => va + i \in CallRange
      <4>1. pc = "fill" => i \in 0 .. n - 1
        BY <1>1 DEF Loops
      <4> QED
        BY <4>1, <3>1 DEF CallRange
    <3>3. pc = "fill" => x = va + i
      BY <1>3 DEF Accessed
    <3>4. pc = "free" => x = va
      BY <1>3 DEF Accessed
    <3>5. pc = "zero" => x \in CallRange
      BY <1>3 DEF Accessed
    <3> QED
      BY <3>1, <3>2, <3>3, <3>4, <3>5
  <2>3. x \in EntriesAt(Last) /\ W[Last][x \div Fan] \in Table
    BY <2>2, <1>1, RangeTouched, StepTables
  <2>4. Kept(Last, x \div Fan)
    BY <2>3, EntryOfTable, Levels DEF Kept
  <2> QED
    BY <2>1, <2>4, <1>2, <1>4
<1>7. pc # "prune"
  <2> SUFFICES ASSUME pc = "prune" PROVE FALSE
    OBVIOUS
  <2>1. p[1] = Parent + 1 /\ x \in Below(Slot(Parent))
    BY <1>3, <1>4 DEF Accessed
  <2>2. Parent \in 0 .. Last /\ Parent # Last /\ Slot(Parent) \in EntriesAt(Parent)
    BY <1>1, SlotTouched
  <2> DEFINE q == Parent
             s == Slot(Parent)
  <2>3. W[q + 1][s] \in Table
    BY StepTables
  <2> HIDE DEF q, s
  <2>4. q \in 0 .. Last /\ q # Last /\ s \in EntriesAt(q) /\ x \in Below(s) /\ p[1] = q + 1
    BY <2>1, <2>2 DEF q, s
  <2>5. x \div Fan = s /\ s \in TablesAt(q + 1) /\ q + 1 \in 0 .. Last
    BY <2>4, BelowEntries
  <2> QED
    BY <2>3, <2>4, <2>5, <1>2, <1>4 DEF Kept
<1>8. pc # "unlink"
  <2> SUFFICES ASSUME pc = "unlink" PROVE FALSE
    OBVIOUS
  <2>1. p[1] = Parent /\ p[2] = Slot(Parent) \div Fan
    BY <1>3, <1>4 DEF Accessed
  <2>2. Parent \in 0 .. Last /\ Slot(Parent) \in EntriesAt(Parent)
    BY <1>1, SlotTouched
  <2>3. W[Parent][Slot(Parent) \div Fan] \in Table
    BY StepTables DEF Hole, HoleFrame, HoleLevel
  <2>4. Kept(Parent, Slot(Parent) \div Fan)
    BY <2>2, <2>3, EntryOfTable DEF Kept
  <2> QED
    BY <2>1, <2>4, <1>2
<1>9. pc = "clear"
  <2>1. Accessed.entries # {}
    BY <1>3
  <2> QED
    BY <2>1, <1>5, <1>6, <1>7, <1>8 DEF Accessed
<1>10. ASSUME HoleEntry(W) # Failed
       PROVE  FALSE
  <2>1. p[1] = i + 1 /\ x \in Below(Slot(i))
    BY <1>3, <1>4, <1>9 DEF Accessed
  <2>2. i \in 0 .. Last /\ i # Last /\ Slot(i) \in EntriesAt(i)
    BY <1>1, <1>9, SlotTouched
  <2> DEFINE s == Slot(i)
             V == TableFrame
             f == W[i][s \div Fan]
  <2>3. f \in Table /\ mem[f][s % Fan] \in [frame : Frame, nx : {FALSE}]
    BY <1>1, <1>9, <1>10, StepTables DEF Linked, HoleEntry, HoleFrame, HoleIndex, HoleLevel, Hole
  <2> HIDE DEF s, V
  <2>4. s \in EntriesAt(i) /\ x \in Below(s)
    BY <2>1, <2>2 DEF s
  <2>5. x \div Fan = s /\ s \in TablesAt(i + 1) /\ i + 1 \in 0 .. Last /\ i + 1 \in 1 .. Last
    BY <2>2, <2>4, BelowEntries
  <2>6. s \div Fan \in TablesAt(i)
    BY <2>2, <2>4, EntryOfTable
  <2>7. V[i][s \div Fan] = f
    BY <1>1, <2>2, <2>3, <2>6, ReachTable DEF V
  <2>8. V[i + 1][s] = Goal(mem, V, i, s)
    <3>1. (i + 1) - 1 = i
      BY <2>2, Levels
    <3>2. Follows(mem, V)
      BY WalkOfMem DEF V
    <3> QED
      BY <3>1, <3>2, <2>5 DEF Follows
  <2>9. V[i + 1][s] \in Frame
    <3> HIDE DEF f
    <3>1. V[i + 1][s] = mem[f][s % Fan].frame
      BY <2>3, <2>7, <2>8 DEF Goal
    <3>2. mem[f][s % Fan].frame \in Frame
      BY <2>3
    <3> QED
      BY <3>1, <3>2
  <2>10. Reach(p[1], p[2]) = V[i + 1][s]
    BY <2>1, <2>5, <1>4 DEF Reach, V
  <2> QED
    BY <2>9, <2>10, PlacesApart
<1> QED
  BY <1>9, <1>10

------------------------------------------------------------------------------
(* Other CPUs and the hardware.                                            *)

\* Steps that leave the tables and the call alone.
LEMMA Untouched ==
  ASSUME NEW c, NEW W, Sound(c, W), UNCHANGED <<mem, space, pc, args, i, j>>
  PROVE  /\ Linked(c, W)' /\ Contents(c, W)' /\ Standing(W)' /\ NonEmpty(c, W)' /\ Loops' /\ Call'
         /\ DataFrames' = DataFrames /\ InFlight(c, W)' = InFlight(c, W)
         /\ TreeFrames(W)' = TreeFrames(W) /\ Fresh(W)' = Fresh(W)
<1>0. /\ mem' = mem /\ space' = space /\ pc' = pc /\ i' = i /\ j' = j
      /\ pa' = pa /\ va' = va /\ n' = n /\ nx' = nx
  BY DEF args
<1>1. Linked(c, W)'
  <2>1. /\ Hole' = Hole /\ HoleLevel' = HoleLevel /\ HoleFrame(W)' = HoleFrame(W)
        /\ HoleIndex' = HoleIndex
    BY <1>0 DEF Hole, HoleFrame, HoleLevel, HoleIndex, Slot, Parent
  <2>2. HoleEntry(W)' = HoleEntry(W)
    BY <2>1, <1>0 DEF HoleEntry
  <2>3. Linked(c, W)
    BY DEF Sound
  <2> QED
    BY <2>1, <2>2, <2>3, <1>0 DEF Linked
<1>2. CallRange' = CallRange /\ \A l : Touched(l)' = Touched(l)
  BY <1>0 DEF CallRange, Touched, Span, On
<1>3. Contents(c, W)'
  BY <1>0, <1>2 DEF Sound, Contents, Want, Mapping
<1>4. \A l, x : Required(l, x)' <=> Required(l, x)
  BY <1>0 DEF Required, Slot, Parent
<1>5. Standing(W)'
  BY <1>2, <1>4 DEF Sound, Standing
<1>6. NonEmpty(c, W)'
  BY <1>0, <1>2, <1>4 DEF Sound, NonEmpty, Mapping
<1>7. Loops'
  BY <1>0 DEF Sound, Loops, Nums, Parent
<1>8. Call'
  BY <1>0, <1>2 DEF Sound, Call, Mapping
<1>9. DataFrames' = DataFrames /\ InFlight(c, W)' = InFlight(c, W)
  BY <1>0, <1>2 DEF DataFrames, InFlight
<1>10. TreeFrames(W)' = TreeFrames(W) /\ Fresh(W)' = Fresh(W)
  BY <1>0 DEF TreeFrames, Fresh, HoleFrame, HoleLevel, HoleIndex, HoleEntry, Slot, Parent
<1> QED
  BY <1>1, <1>3, <1>5, <1>6, <1>7, <1>8, <1>9, <1>10

LEMMA ApartElements ==
  ASSUME NEW A, NEW B, NEW C, NEW D, NEW E
  PROVE  Apart(A, B, C, D, E) <=>
           \A x : /\ x \in A => x \notin B /\ x \notin C /\ x \notin D /\ x \notin E
                  /\ x \in B => x \notin C /\ x \notin D /\ x \notin E
                  /\ x \in C => x \notin D /\ x \notin E
                  /\ x \in D => x \notin E
BY DEF Apart

LEMMA GiveSound ==
  ASSUME NEW c, NEW W, Sound(c, W), Types, Give
  PROVE  Types' /\ Sound(c, W)'
<1>1. UNCHANGED <<mem, space, pc, args, i, j>> /\ UNCHANGED <<tlb, window>>
  BY DEF Give
<1>2. PICK f \in kept : kept' = kept \ {f} /\ free' = free \cup {f}
  BY DEF Give
<1>3. Types'
  BY <1>1, <1>2 DEF Types, args
<1>4. Accounts(c, W)'
  <2>1. /\ DataFrames' = DataFrames /\ InFlight(c, W)' = InFlight(c, W)
        /\ TreeFrames(W)' = TreeFrames(W) /\ Fresh(W)' = Fresh(W) /\ space' = space
    BY <1>1, Untouched
  <2>2. Accounts(c, W)
    BY DEF Sound
  <2> DEFINE D == DataFrames
             I == InFlight(c, W)
             B == TreeFrames(W) \cup Fresh(W)
  <2>3. Apart(free, kept, D, I, B)
    BY <2>2 DEF Accounts
  <2> HIDE DEF D, I, B
  <2>4. Apart(free \cup {f}, kept \ {f}, D, I, B)
    BY <2>3, ApartElements
  <2>5. free' \cup kept' = free \cup kept
    BY <1>2
  <2>6. Apart(free, kept, DataFrames, InFlight(c, W), TreeFrames(W) \cup Fresh(W))'
    BY <2>1, <2>4, <1>2 DEF D, I, B
  <2> QED
    BY <2>1, <2>2, <2>5, <2>6 DEF Accounts
<1>5. Tree(c, W)
  BY DEF Sound
<1> QED
  BY <1>1, <1>3, <1>4, <1>5, Untouched DEF Sound

LEMMA HardwareSound ==
  ASSUME NEW c, NEW W, Sound(c, W), Types, Touch \/ TouchTable \/ Forget
  PROVE  Types' /\ Sound(c, W)'
<1>1. UNCHANGED <<mem, space, pc, args, i, j>> /\ UNCHANGED <<free, kept>>
  BY DEF Touch, TouchTable, Forget
<1>2. /\ DOMAIN tlb' \subseteq Page
      /\ \A v \in DOMAIN tlb' : tlb'[v] \in Present
      /\ DOMAIN window' = {}
  <2>1. CASE Touch
    <3>1. PICK v \in Places \ DOMAIN tlb : \E f \in Walked(v) \cap Present :
            tlb' = [u \in DOMAIN tlb \cup {v} |-> IF u = v THEN f ELSE tlb[u]]
      BY <2>1 DEF Touch
    <3>2. PICK f \in Walked(v) \cap Present :
            tlb' = [u \in DOMAIN tlb \cup {v} |-> IF u = v THEN f ELSE tlb[u]]
      BY <3>1
    <3>3. window' = window /\ v \in Page
      BY <2>1, PlacesAssumption DEF Touch
    <3> QED
      BY <3>2, <3>3 DEF Types
  <2>2. CASE Forget
    <3>1. /\ \E X \in SUBSET DOMAIN tlb : tlb' = [v \in DOMAIN tlb \ X |-> tlb[v]]
          /\ \E P \in SUBSET DOMAIN window : window' = [p \in DOMAIN window \ P |-> window[p]]
      BY <2>2 DEF Forget
    <3> QED
      BY <3>1 DEF Types
  <2>3. CASE TouchTable
    BY <2>3 DEF TouchTable, Types
  <2> QED
    BY <2>1, <2>2, <2>3
<1>3. Types'
  BY <1>1, <1>2 DEF Types, args
<1>4. Accounts(c, W)'
  <2>1. /\ DataFrames' = DataFrames /\ InFlight(c, W)' = InFlight(c, W)
        /\ TreeFrames(W)' = TreeFrames(W) /\ Fresh(W)' = Fresh(W) /\ space' = space
    BY <1>1, Untouched
  <2>2. Accounts(c, W)
    BY DEF Sound
  <2> QED
    BY <2>1, <2>2, <1>1 DEF Accounts, Apart
<1>5. Tree(c, W)
  BY DEF Sound
<1> QED
  BY <1>1, <1>3, <1>4, <1>5, Untouched DEF Sound

\* Tables of the tree are not free.
LEMMA TreeNotFree ==
  ASSUME NEW c, NEW W, Tree(c, W), Accounts(c, W), free \subseteq Frame
  PROVE  /\ \A l \in 0 .. Last : \A t \in TablesAt(l) : W[l][t] \notin free
         /\ \A l \in 0 .. Last : \A t \in TablesAt(l) :
              W[l][t] \in Table => W[l][t] \notin free /\ W[l][t] \notin Fresh(W)
<1> SUFFICES ASSUME NEW l \in 0 .. Last
             PROVE  /\ \A t \in TablesAt(l) : W[l][t] \notin free
                    /\ \A t \in TablesAt(l) :
                         W[l][t] \in Table => W[l][t] \notin free /\ W[l][t] \notin Fresh(W)
  OBVIOUS
<1> DEFINE D == DataFrames
           I == InFlight(c, W)
           B == TreeFrames(W) \cup Fresh(W)
<1>1. Apart(free, kept, D, I, B) /\ TreeFrames(W) \cap Fresh(W) = {}
  BY DEF Accounts
<1>2. Fresh(W) \subseteq Frame
  BY DEF Fresh
<1>3. CASE l = 0
  <2>1. \A t \in TablesAt(l) : W[l][t] = Root
    BY <1>3, EntriesOfLevels, TreeValues
  <2> QED
    BY <2>1, <1>2, PlacesApart
<1>4. CASE l # 0
  <2>1. l \in 1 .. Last
    BY <1>4, Levels
  <2>2. \A t \in TablesAt(l) : W[l][t] \in Frame \cup {None}
    BY <2>1, TreeValues
  <2>3. \A t \in TablesAt(l) : W[l][t] \in Frame => W[l][t] \in TreeFrames(W)
    BY <2>1 DEF TreeFrames
  <2>4. \A f \in B : f \notin free
    <3> HIDE DEF D, I, B
    <3> QED
      BY <1>1, ApartElements
  <2> QED
    BY <2>2, <2>3, <2>4, <1>1, PlacesApart
<1> QED
  BY <1>3, <1>4

LEMMA ScribbledTree ==
  ASSUME NEW c, NEW W, Tree(c, W), NEW d \in [Table -> [Index -> Entries]],
         \A l \in 0 .. Last : \A t \in TablesAt(l) : W[l][t] \in Table =>
           \A k \in Index : d[W[l][t]][k] = c[W[l][t]][k]
  PROVE  /\ Tree(d, W)
         /\ \A v \in Page : Pointee(d, W, Last, v) = Pointee(c, W, Last, v)
<1>1. Tree(d, W)
  <2>1. \A l \in 0 .. Last : \A t \in TablesAt(l) : W[l][t] \in Table =>
          \A k \in Index : d[W[l][t]][k] \in Proper(l)
    BY DEF Tree
  <2> QED
    BY <2>1, SameTree
<1>2. ASSUME NEW v \in Page
      PROVE  Pointee(d, W, Last, v) = Pointee(c, W, Last, v)
  <2>1. v \div Fan \in TablesAt(Last) /\ v % Fan \in Index /\ Last \in 0 .. Last
    BY EntriesOfLevels, EntryOfTable, Levels
  <2> QED
    BY <2>1 DEF Pointee
<1> QED
  BY <1>1, <1>2

LEMMA TakeSound ==
  ASSUME NEW c, NEW W, Sound(c, W), Types, Take
  PROVE  Types' /\ \E d : Sound(d, W)'
<1>1. UNCHANGED <<space, pc, args, i, j>> /\ UNCHANGED <<tlb, window>> /\ CanTake(1)
  BY DEF Take
<1> DEFINE f == Lowest(1)
<1>2. /\ free' = free \ {f} /\ kept' = kept \cup {f} /\ mem' = Scribbled({f})
      /\ f \in Frame /\ f \in free
  BY <1>1, OneIsFree DEF Take
<1> HIDE DEF f
<1>3. /\ Tree(c, W) /\ Linked(c, W) /\ Accounts(c, W) /\ Contents(c, W) /\ Standing(W)
      /\ NonEmpty(c, W) /\ Loops /\ Call
  BY DEF Sound
<1>4. /\ mem' \in [Table -> [Index -> Entries]]
      /\ \A g \in Table, k \in Index : mem'[g][k] = IF g = f THEN Junk ELSE mem[g][k]
  <2>1. mem \in [Table -> [Index -> Entries]]
    BY DEF Types
  <2> QED
    BY <2>1, <1>2, ScribbledValue
<1>5. Types'
  BY <1>1, <1>2, <1>4 DEF Types, args
<1>6. PICK d : d = [g \in Table |-> [k \in Index |-> IF g \in {f} THEN Junk ELSE c[g][k]]]
  OBVIOUS
<1>7. \A l \in 0 .. Last : \A t \in TablesAt(l) : W[l][t] \in Table => W[l][t] \notin {f}
  <2>1. free \subseteq Frame
    BY DEF Types
  <2> QED
    BY <2>1, <1>2, <1>3, TreeNotFree
<1>8. /\ Tree(d, W)
      /\ \A g \in Table : \A k \in Index : d[g][k] = IF g \in {f} THEN Junk ELSE c[g][k]
      /\ \A l \in 0 .. Last : \A t \in TablesAt(l) : W[l][t] \in Table =>
           \A k \in Index : d[W[l][t]][k] = c[W[l][t]][k]
      /\ \A v \in Page : Pointee(d, W, Last, v) = Pointee(c, W, Last, v)
  <2>1. c \in [Table -> [Index -> Entries]]
    BY <1>3 DEF Tree
  <2>2. d \in [Table -> [Index -> Entries]]
    BY <2>1, <1>6, EntryFields
  <2>3. \A g \in Table : \A k \in Index : d[g][k] = IF g \in {f} THEN Junk ELSE c[g][k]
    BY <1>6
  <2>4. \A l \in 0 .. Last : \A t \in TablesAt(l) : W[l][t] \in Table =>
          \A k \in Index : d[W[l][t]][k] = c[W[l][t]][k]
    BY <2>3, <1>7
  <2>5. Tree(c, W)
    BY <1>3
  <2> QED
    BY <2>2, <2>3, <2>4, <2>5, ScribbledTree
<1>9. Hole => HoleFrame(W) # f /\ HoleFrame(W) \in Table /\ HoleIndex \in Index
  <2> SUFFICES ASSUME Hole PROVE HoleFrame(W) # f /\ HoleFrame(W) \in Table /\ HoleIndex \in Index
    OBVIOUS
  <2>1. /\ HoleFrame(W) \in Table /\ HoleIndex \in Index
        /\ HoleLevel \in 0 .. Last /\ Slot(HoleLevel) \in EntriesAt(HoleLevel)
    BY StepTables
  <2>2. Slot(HoleLevel) \div Fan \in TablesAt(HoleLevel)
    BY <2>1, EntryOfTable
  <2> QED
    BY <2>1, <2>2, <1>7 DEF HoleFrame
<1>10. /\ Hole' = Hole /\ HoleFrame(W)' = HoleFrame(W) /\ HoleIndex' = HoleIndex /\ pc' = pc
       /\ CallRange' = CallRange /\ (\A l : Touched(l)' = Touched(l))
       /\ (\A l, x : Required(l, x)' <=> Required(l, x))
  BY <1>1 DEF args, Hole, HoleFrame, HoleLevel, HoleIndex, Slot, Parent, Touched, Span, On,
     CallRange, Required
<1>11. pc = "clear" => HoleEntry(W)' = HoleEntry(W)
  <2> DEFINE g == HoleFrame(W)
             k == HoleIndex
  <2>1. pc = "clear" => g \in Table /\ k \in Index /\ g # f
    BY <1>9 DEF Hole
  <2>2. HoleEntry(W)' = mem'[g][k] /\ HoleEntry(W) = mem[g][k]
    BY <1>10 DEF HoleEntry
  <2> HIDE DEF g, k
  <2> QED
    BY <2>1, <2>2, <1>4
<1>12. Linked(d, W)'
  <2>1. \A g \in Table, k \in Index :
          ~ (Hole /\ g = HoleFrame(W) /\ k = HoleIndex) => mem'[g][k] = d[g][k]
    BY <1>3, <1>4, <1>8 DEF Linked
  <2>2. Hole => HoleFrame(W) \in Table /\ d[HoleFrame(W)][HoleIndex] = Zero
    BY <1>3, <1>8, <1>9 DEF Linked
  <2>3. pc = "clear" => HoleEntry(W)' = Failed \/ HoleEntry(W)' \in [frame : Frame, nx : {FALSE}]
    BY <1>3, <1>11 DEF Linked
  <2> QED
    BY <2>1, <2>2, <2>3, <1>4, <1>10 DEF Linked
<1>13. Accounts(d, W)'
  <2> DEFINE D == DataFrames
             I == InFlight(c, W)
             B == TreeFrames(W) \cup Fresh(W)
  <2>1. DataFrames' = D /\ TreeFrames(W)' = TreeFrames(W) /\ space' = space
    BY <1>1 DEF DataFrames, TreeFrames
  <2>2. Fresh(W)' = Fresh(W)
    BY <1>10, <1>11 DEF Fresh
  <2>3. InFlight(d, W)' = I
    <3>1. pc # "idle" => CallRange \subseteq Page
      BY <1>3 DEF Call
    <3>2. pc = "free" => {Pointee(d, W, Last, u) : u \in CallRange}
                           = {Pointee(c, W, Last, u) : u \in CallRange}
      BY <3>1, <1>8
    <3> QED
      BY <3>2, <1>10 DEF InFlight
  <2>4. Apart(free, kept, D, I, B)
    BY <1>3 DEF Accounts
  <2>5. Apart(free \ {f}, kept \cup {f}, D, I, B)
    <3> HIDE DEF D, I, B
    <3> QED
      BY <2>4, <1>2, ApartElements
  <2>6. Apart(free, kept, DataFrames, InFlight(d, W), TreeFrames(W) \cup Fresh(W))'
    <3> HIDE DEF I, D
    <3> QED
      BY <2>1, <2>2, <2>3, <2>5, <1>2
  <2>7. free' \cup kept' = free \cup kept
    BY <1>2
  <2> HIDE DEF I, D
  <2>8. Nx \subseteq {FALSE} =>
          Frame \subseteq free \cup kept \cup D \cup I \cup TreeFrames(W) \cup Fresh(W)
    BY <1>3 DEF Accounts, D, I
  <2> QED
    BY <2>1, <2>2, <2>3, <2>6, <2>7, <2>8, <1>3 DEF Accounts
<1>14. Contents(d, W)'
  <2>1. \A v : Want(v)' = Want(v)
    BY <1>1, <1>10 DEF Want, Mapping, args
  <2>2. va' = va
    BY <1>1 DEF args
  <2>3. pc # "idle" => va \in Page
    BY <1>3 DEF Call
  <2> QED
    BY <2>1, <2>2, <2>3, <1>3, <1>8, <1>10 DEF Contents
<1>15. Standing(W)'
  BY <1>3, <1>10 DEF Standing
<1>16. NonEmpty(d, W)'
  <2>1. \A l \in 1 .. Last : l \in 0 .. Last
    BY Levels
  <2> QED
    BY <2>1, <1>3, <1>8, <1>10 DEF NonEmpty, Mapping
<1>17. Loops' /\ Call'
  BY <1>1, <1>3, <1>10 DEF Loops, Call, Nums, Parent, Mapping, args
<1> QED
  BY <1>5, <1>8, <1>12, <1>13, <1>14, <1>15, <1>16, <1>17 DEF Sound

------------------------------------------------------------------------------
(* The callers.                                                            *)

\* The rows of d are those of c, and Pointee is the same.
SameRows(c, d, W) ==
  /\ \A l \in 0 .. Last : \A t \in TablesAt(l) : W[l][t] \in Table =>
       \A k \in Index : d[W[l][t]][k] = c[W[l][t]][k]
  /\ \A v \in Page : Pointee(d, W, Last, v) = Pointee(c, W, Last, v)

LEMMA PagesAreInts == Page \subseteq Int /\ Places \subseteq Page
<1>1. \A v \in EntriesAt(Last) : v \in Int
  BY EntryOfTable, Levels
<1> QED
  BY <1>1, EntriesOfLevels, PlacesAssumption

LEMMA MapSound ==
  ASSUME NEW c, NEW W, Sound(c, W), Types, NEW p, NEW v \in Places, NEW m \in 1 .. MaxPages,
         NEW x \in Nx, Map(p, v, m, x), p \in Frame \cup Device,
         \A u \in Run(v, m) : p + u - v \in Frame \cup Device,
         NEW d, Tree(d, W), SameRows(c, d, W), mem' = d
  PROVE  /\ Linked(d, W)' /\ Contents(d, W)' /\ Standing(W)' /\ NonEmpty(d, W)' /\ Loops' /\ Call'
         /\ space' \in [Page -> Frame \cup Device \cup {None}]
         /\ pa' \in Frame \cup Device /\ va' \in Page /\ n' \in 0 .. MaxPages /\ nx' \in BOOLEAN
<1>1. /\ pc = "idle" /\ Run(v, m) \subseteq Places /\ (\A u \in Run(v, m) : space[u] = None)
      /\ pc' = "tables" /\ pa' = p /\ va' = v /\ n' = m /\ nx' = x
      /\ i' = 0 /\ j' = 0
      /\ space' = [u \in Page |-> IF u \in Run(v, m) THEN p + u - v ELSE space[u]]
  BY DEF Map
<1>2. /\ v \in Page /\ v \in Int /\ m \in Nat \ {0} /\ Run(v, m) \subseteq Page
      /\ v .. v + m - 1 \subseteq Page
  <2>1. m \in Nat \ {0}
    OBVIOUS
  <2>2. v \in Page /\ v \in Int
    BY PagesAreInts
  <2>3. Run(v, m) \subseteq Page
    BY <1>1, PagesAreInts
  <2> QED
    BY <2>1, <2>2, <2>3 DEF Run
<1>3. \A u \in Page : space'[u] = IF u \in Run(v, m) THEN p + u - v ELSE space[u]
  BY <1>1
<1>4. CallRange' = Run(v, m)
  BY <1>1 DEF CallRange, Run
<1>5. Linked(d, W)'
  <2>1. d \in [Table -> [Index -> Entries]]
    BY DEF Tree
  <2>2. ~ Hole'
    BY <1>1 DEF Hole
  <2> QED
    BY <2>1, <2>2, <1>1 DEF Linked
<1>6. Contents(d, W)'
  <2>1. ASSUME NEW u \in Page
        PROVE  Pointee(d, W, Last, u) = Want(u)'
    <3>1. Pointee(d, W, Last, u) = space[u]
      <4>1. Pointee(c, W, Last, u) = Want(u)
        BY <1>1 DEF Sound, Contents
      <4>2. Want(u) = space[u]
        BY <1>1 DEF Want, Mapping
      <4> QED
        BY <4>1, <4>2 DEF SameRows
    <3>2. Want(u)' = IF u \in Run(v, m) THEN None ELSE space'[u]
      BY <1>1, <1>4 DEF Want, Mapping
    <3> QED
      BY <3>1, <3>2, <1>1, <1>3
  <2> QED
    BY <2>1, <1>1 DEF Contents
<1>7. Standing(W)'
  <2>1. /\ Touched(0)' = On(0, v) .. On(0, v + m - 1)
        /\ On(0, v) \in Int /\ On(0, v + m - 1) \in Int
    BY <1>1, <1>2, SpanEnds, Levels DEF Touched, Span
  <2>2. ASSUME NEW l \in 1 .. Last, NEW y \in Touched(l - 1)', Required(l, y)'
        PROVE  FALSE
    <3>1. Slot(0)' = On(0, v) + 0
      BY <1>1 DEF Slot, On
    <3>2. l <= 0 \/ (l = 0 + 1 /\ y < Slot(0)')
      BY <1>1, <2>2 DEF Required
    <3>3. l \in Int /\ l >= 1
      BY Levels
    <3>4. l = 1 /\ y < On(0, v)
      BY <3>1, <3>2, <3>3, <2>1
    <3>5. l - 1 = 0
      BY <3>4
    <3>6. y \in Touched(0)'
      BY <3>5, <2>2
    <3>7. y \in On(0, v) .. On(0, v + m - 1)
      BY <3>6, <2>1
    <3> QED
      BY <3>4, <3>7, <2>1
  <2> QED
    BY <2>2 DEF Standing
<1>8. NonEmpty(d, W)'
  <2>1. \A l \in 1 .. Last : l \in 0 .. Last
    BY Levels
  <2>2. ASSUME NEW l \in 1 .. Last, NEW t \in TablesAt(l), W[l][t] \in Table,
               \A k \in Index : d[W[l][t]][k] = Zero
        PROVE  FALSE
    BY <2>1, <2>2, <1>1 DEF SameRows, Sound, NonEmpty
  <2> QED
    BY <2>2 DEF NonEmpty
<1>9. Loops'
  <2>1. Nums(0)' = (m + (v % Unit[0]) + Unit[0] - 1) \div Unit[0]
    BY <1>1 DEF Nums
  <2>2. Nums(0)' = On(0, v + m - 1) - On(0, v) + 1
    BY <2>1, <1>2, NumsIsSpan, Levels
  <2>3. On(0, v) \in Int /\ On(0, v + m - 1) \in Int /\ On(0, v) <= On(0, v + m - 1)
    BY <1>2, SpanEnds, Levels
  <2>4. 0 \in 0 .. Nums(0)' - 1
    BY <2>2, <2>3
  <2>5. Nums(i)' = Nums(0)'
    BY <1>1 DEF Nums
  <2> QED
    BY <2>4, <2>5, <1>1 DEF Loops
<1>10. Call'
  <2>1. \A u \in CallRange' : space'[u] = p + u - v /\ space'[u] \in Frame \cup Device
    BY <1>2, <1>3, <1>4
  <2> QED
    BY <2>1, <1>1, <1>2, <1>4 DEF Call, Mapping
<1>11. space' \in [Page -> Frame \cup Device \cup {None}]
  <2>1. space \in [Page -> Frame \cup Device \cup {None}]
    BY DEF Types
  <2>2. \A u \in Page : space'[u] \in Frame \cup Device \cup {None}
    BY <2>1, <1>3
  <2> QED
    BY <2>2, <1>1
<1>12. pa' \in Frame \cup Device /\ va' \in Page /\ n' \in 0 .. MaxPages /\ nx' \in BOOLEAN
  BY <1>1, <1>2, FlagsAssumption
<1> QED
  BY <1>5, <1>6, <1>7, <1>8, <1>9, <1>10, <1>11, <1>12

LEMMA CallMapDeviceSound ==
  ASSUME NEW c, NEW W, Sound(c, W), Types, CallMapDevice
  PROVE  Types' /\ Sound(c, W)'
<1>1. PICK v \in Places, m \in 1 .. MaxPages, x \in Nx : Map(Bar, v, m, x)
  BY DEF CallMapDevice
<1>2. free' = free /\ mem' = mem /\ pc = "idle" /\ UNCHANGED <<kept, tlb, window>>
  BY <1>1 DEF CallMapDevice, Map
<1>3. Tree(c, W) /\ mem = c /\ Linked(c, W) /\ Accounts(c, W)
  BY <1>2, MemIsClean DEF Sound, Hole
<1>4. SameRows(c, c, W)
  BY DEF SameRows
<1>5. v \in Int /\ Run(v, m) \subseteq Page
  BY <1>1, PagesAreInts DEF Map
<1>6. Bar \in Frame \cup Device /\ \A u \in Run(v, m) : Bar + u - v \in Device
  BY <1>5 DEF Device, Bar, Run
<1>7. /\ Linked(c, W)' /\ Contents(c, W)' /\ Standing(W)' /\ NonEmpty(c, W)' /\ Loops' /\ Call'
      /\ space' \in [Page -> Frame \cup Device \cup {None}]
      /\ pa' \in Frame \cup Device /\ va' \in Page /\ n' \in 0 .. MaxPages /\ nx' \in BOOLEAN
  <2>1. \A u \in Run(v, m) : Bar + u - v \in Frame \cup Device
    BY <1>6
  <2>2. mem' = c
    BY <1>2, <1>3
  <2>3. Bar \in Frame \cup Device
    BY <1>6
  <2> DEFINE p == Bar
  <2> HIDE DEF p
  <2>4. Map(p, v, m, x) /\ p \in Frame \cup Device /\ \A u \in Run(v, m) : p + u - v \in Frame \cup Device
    BY <2>1, <2>3, <1>1 DEF p
  <2> QED
    BY <2>2, <2>4, <1>3, <1>4, MapSound
<1>8. /\ \A u \in Page : space'[u] = IF u \in Run(v, m) THEN Bar + u - v ELSE space[u]
      /\ pc' = "tables" /\ \A u \in Run(v, m) : space[u] = None
  BY <1>1 DEF Map
<1>9. \A u \in Page : space'[u] \in Frame <=> space[u] \in Frame
  BY <1>6, <1>8, PlacesApart
<1>10. \A u \in Page : space[u] \in Frame => space'[u] = space[u]
  BY <1>8, PlacesApart
<1>11. Accounts(c, W)'
  <2>1. DataFrames' = DataFrames
    <3>1. DataFrames' = {space'[u] : u \in Page} \cap Frame
      BY DEF DataFrames
    <3> QED
      BY <3>1, <1>9, <1>10 DEF DataFrames
  <2>2. InFlight(c, W)' = {} /\ InFlight(c, W) = {} /\ Fresh(W)' = {} /\ Fresh(W) = {}
        /\ TreeFrames(W)' = TreeFrames(W)
    BY <1>2, <1>8 DEF InFlight, Fresh, TreeFrames
  <2>3. \A u, w \in Page : space'[u] \in Frame /\ space'[u] = space'[w] => u = w
    BY <1>3, <1>9, <1>10 DEF Accounts
  <2> QED
    BY <2>1, <2>2, <2>3, <1>2, <1>3 DEF Accounts
<1>12. Types'
  BY <1>2, <1>7, <1>8 DEF Types
<1> QED
  BY <1>3, <1>7, <1>11, <1>12 DEF Sound

LEMMA CallMapMemorySound ==
  ASSUME NEW c, NEW W, Sound(c, W), Types, CallMapMemory
  PROVE  Types' /\ \E d : Sound(d, W)'
<1>1. PICK v \in Places, m \in 1 .. MaxPages, x \in Nx :
        /\ CanTake(m) /\ Map(Lowest(m), v, m, x)
        /\ free' = free \ Run(Lowest(m), m) /\ mem' = Scribbled(Run(Lowest(m), m))
  BY DEF CallMapMemory
<1> DEFINE p == Lowest(m)
           S == Run(p, m)
<1>2. p \in Frame /\ S \subseteq free /\ free' = free \ S /\ mem' = Scribbled(S)
      /\ Map(p, v, m, x)
  BY <1>1, LowestFree
<1> HIDE DEF p
<1>3. pc = "idle" /\ pc' = "tables" /\ UNCHANGED <<kept, tlb, window>>
      /\ (\A u \in Run(v, m) : space[u] = None) /\ Run(v, m) \subseteq Places
      /\ \A u \in Page : space'[u] = IF u \in Run(v, m) THEN p + u - v ELSE space[u]
  BY <1>2 DEF Map
<1>4. Tree(c, W) /\ mem = c /\ Linked(c, W) /\ Accounts(c, W)
  BY <1>3, MemIsClean DEF Sound, Hole
<1>5. free \subseteq Frame /\ mem \in [Table -> [Index -> Entries]] /\ p \in Int /\ m \in Int
      /\ space \in [Page -> Frame \cup Device \cup {None}]
  BY <1>2, PlacesApart DEF Types
<1>6. v \in Int /\ Run(v, m) \subseteq Page
  BY <1>3, PagesAreInts
<1>7. /\ \A u \in Run(v, m) : u \in Int /\ p + u - v \in S /\ p + u - v \in Frame
      /\ \A f \in S : \E u \in Run(v, m) : f = p + u - v
  <2>1. \A u \in Run(v, m) : u \in Int /\ p + u - v \in S
    BY <1>5, <1>6 DEF Run
  <2>2. \A f \in S : f \in Int /\ f - p + v \in Run(v, m) /\ f = p + (f - p + v) - v
    BY <1>5, <1>6 DEF Run
  <2> QED
    BY <2>1, <2>2, <1>2, <1>5
<1> HIDE DEF S
<1>8. PICK d : d = mem'
  OBVIOUS
<1>9. /\ d \in [Table -> [Index -> Entries]]
      /\ \A f \in Table, k \in Index : d[f][k] = IF f \in S THEN Junk ELSE c[f][k]
  BY <1>2, <1>4, <1>5, <1>8, ScribbledValue
<1>10. Tree(d, W) /\ SameRows(c, d, W)
  <2>1. \A l \in 0 .. Last : \A t \in TablesAt(l) : W[l][t] \in Table => W[l][t] \notin S
    BY <1>2, <1>4, <1>5, TreeNotFree
  <2>2. \A l \in 0 .. Last : \A t \in TablesAt(l) : W[l][t] \in Table =>
          \A k \in Index : d[W[l][t]][k] = c[W[l][t]][k]
    BY <2>1, <1>9
  <2>3. Tree(d, W) /\ \A u \in Page : Pointee(d, W, Last, u) = Pointee(c, W, Last, u)
    BY <2>2, <1>4, <1>9, ScribbledTree
  <2> QED
    BY <2>2, <2>3 DEF SameRows
<1>11. /\ Linked(d, W)' /\ Contents(d, W)' /\ Standing(W)' /\ NonEmpty(d, W)' /\ Loops' /\ Call'
       /\ space' \in [Page -> Frame \cup Device \cup {None}]
       /\ pa' \in Frame \cup Device /\ va' \in Page /\ n' \in 0 .. MaxPages /\ nx' \in BOOLEAN
  <2>1. p \in Frame \cup Device /\ \A u \in Run(v, m) : p + u - v \in Frame \cup Device
    BY <1>2, <1>7
  <2> QED
    BY <2>1, <1>2, <1>8, <1>10, MapSound
<1>12. Accounts(d, W)'
  <2> DEFINE D == DataFrames
  <2>1. DataFrames' = D \cup S
    <3>1. DataFrames' = {space'[u] : u \in Page} \cap Frame
      BY DEF DataFrames
    <3>2. D = {space[u] : u \in Page} \cap Frame
      BY DEF DataFrames
    <3> HIDE DEF D
    <3>3. \A f \in DataFrames' : f \in D \cup S
      BY <3>1, <3>2, <1>3, <1>7
    <3>4. \A f \in D : f \in DataFrames'
      <4> TAKE f \in D
      <4>1. PICK u \in Page : f = space[u] /\ f \in Frame
        BY <3>2
      <4>2. u \notin Run(v, m)
        BY <4>1, <1>3, PlacesApart
      <4>3. f = space'[u]
        BY <4>1, <4>2, <1>3
      <4> QED
        BY <4>1, <4>3, <3>1
    <3>5. \A f \in S : f \in DataFrames'
      <4> TAKE f \in S
      <4>1. PICK u \in Run(v, m) : f = p + u - v
        BY <1>7
      <4>2. u \in Page /\ f = space'[u] /\ f \in Frame
        BY <4>1, <1>3, <1>6, <1>7
      <4> QED
        BY <4>2, <3>1
    <3> QED
      BY <3>3, <3>4, <3>5
  <2>2. InFlight(d, W)' = {} /\ InFlight(c, W) = {} /\ Fresh(W)' = {} /\ Fresh(W) = {}
        /\ TreeFrames(W)' = TreeFrames(W)
    BY <1>3 DEF InFlight, Fresh, TreeFrames
  <2>3. ASSUME NEW u \in Page, NEW w \in Page, space'[u] \in Frame, space'[u] = space'[w]
        PROVE  u = w
    <3>1. ASSUME NEW y \in Page, NEW z \in Page, y \in Run(v, m), z \notin Run(v, m),
                 space'[y] = space'[z]
          PROVE  FALSE
      <4>1. space[z] \in S
        BY <3>1, <1>3, <1>7
      <4>2. space[z] \in D /\ space[z] \in free
        BY <4>1, <1>2, <1>5 DEF DataFrames
      <4>3. free \cap D = {}
        BY <1>4 DEF Accounts, Apart
      <4> QED
        BY <4>2, <4>3
    <3>2. CASE u \in Run(v, m) /\ w \in Run(v, m)
      <4>1. p + u - v = p + w - v
        BY <3>2, <2>3, <1>3
      <4> QED
        <5>1. u \in Int /\ w \in Int /\ p \in Int /\ v \in Int
          BY <3>2, <1>5, <1>6, <1>7
        <5> QED
          BY <4>1, <5>1
    <3>3. CASE u \notin Run(v, m) /\ w \notin Run(v, m)
      BY <3>3, <2>3, <1>3, <1>4 DEF Accounts
    <3> QED
      BY <3>1, <3>2, <3>3, <2>3
  <2>4. Apart(free, kept, D, {}, TreeFrames(W) \cup Fresh(W))
    BY <1>4, <2>2 DEF Accounts
  <2> HIDE DEF D
  <2>5. Apart(free \ S, kept, D \cup S, {}, TreeFrames(W) \cup Fresh(W))
    BY <2>4, <1>2, ApartElements
  <2>6. kept' = kept /\ free' = free \ S
    BY <1>2, <1>3
  <2>7. Nx \subseteq {FALSE} =>
          Frame \subseteq free \cup kept \cup D \cup {} \cup TreeFrames(W) \cup Fresh(W)
    BY <1>4, <2>2 DEF Accounts, D
  <2>8. Nx \subseteq {FALSE} =>
          Frame \subseteq (free \ S) \cup kept \cup (D \cup S) \cup {} \cup TreeFrames(W) \cup Fresh(W)
    BY <2>7
  <2>9. TreeFrames(W)' \cap Fresh(W)' = {}
    BY <2>2
  <2> QED
    BY <2>1, <2>2, <2>3, <2>5, <2>6, <2>8, <2>9 DEF Accounts
<1>13. Types'
  <2>1. mem' \in [Table -> [Index -> Entries]] /\ free' \subseteq Frame
    BY <1>2, <1>5, <1>8, <1>9
  <2> QED
    BY <2>1, <1>3, <1>11 DEF Types
<1> QED
  BY <1>10, <1>11, <1>12, <1>13 DEF Sound

LEMMA CallUnmapSound ==
  ASSUME NEW c, NEW W, Sound(c, W), Types, CallUnmap
  PROVE  Types' /\ Sound(c, W)'
<1>1. PICK v \in Places, m \in 1 .. MaxPages :
        /\ Run(v, m) \subseteq Places /\ space[v] # None
        /\ \A u \in Run(v, m) : space[u] = space[v] + u - v
        /\ va' = v /\ n' = m
        /\ space' = [u \in Page |-> IF u \in Run(v, m) THEN None ELSE space[u]]
  BY DEF CallUnmap
<1>2. /\ pc = "idle" /\ pc' = "free" /\ i' = 0 /\ j' = 0
      /\ UNCHANGED <<mem, free, kept, tlb, window, pa, nx>>
  BY DEF CallUnmap
<1>3. Tree(c, W) /\ mem = c /\ Linked(c, W) /\ Accounts(c, W) /\ NonEmpty(c, W)
  BY <1>2, MemIsClean DEF Sound, Hole
<1>4. v \in Int /\ Run(v, m) \subseteq Page /\ m \in Nat \ {0} /\ v \in Page /\ v \in Run(v, m)
      /\ v .. v + m - 1 \subseteq Page
  <2>1. v \in Int /\ Run(v, m) \subseteq Page /\ v \in Page
    BY <1>1, PagesAreInts
  <2>2. m \in Nat \ {0}
    OBVIOUS
  <2>3. v \in Run(v, m)
    BY <2>1, <2>2 DEF Run
  <2> QED
    BY <2>1, <2>2, <2>3 DEF Run
<1>5. \A u \in Page : space'[u] = IF u \in Run(v, m) THEN None ELSE space[u]
  BY <1>1
<1>6. CallRange' = Run(v, m)
  BY <1>1 DEF CallRange, Run
<1>7. space \in [Page -> Frame \cup Device \cup {None}]
  BY DEF Types
<1>8. \A u \in Page : Pointee(c, W, Last, u) = space[u]
  BY <1>2 DEF Sound, Contents, Want, Mapping
<1>9. \A u \in Run(v, m) : /\ space[u] = space[v] + u - v /\ space[u] # None
                           /\ space[u] \in Frame \cup Device /\ u \in Page
  <2>1. space[v] \in Frame \cup Device
    BY <1>1, <1>4, <1>7
  <2> TAKE u \in Run(v, m)
  <2>2. space[u] = space[v] + u - v /\ u \in Page
    BY <1>1, <1>4
  <2>3. u \in v .. v + m - 1 /\ u >= v
    BY <1>4 DEF Run
  <2>4. space[v] \in Int /\ space[v] >= 0
    BY <2>1 DEF Frame, Device, Bar
  <2>5. space[u] >= 0
    BY <2>2, <2>3, <2>4, <1>4
  <2>6. space[u] # None
    BY <2>5 DEF None
  <2> QED
    BY <2>2, <2>6, <1>7
<1>10. Linked(c, W)'
  BY <1>2, <1>3 DEF Linked, Hole
<1>11. Contents(c, W)'
  <2>1. \A u \in Page : u \notin Run(v, m) => Want(u)' = space[u]
    BY <1>2, <1>5 DEF Want, Mapping
  <2>2. \A u \in Run(v, m) : /\ Pointee(c, W, Last, u) \in Frame \cup Device
                             /\ Pointee(c, W, Last, u) = Pointee(c, W, Last, v) + u - v
    BY <1>4, <1>8, <1>9
  <2> QED
    BY <2>1, <2>2, <1>1, <1>2, <1>6, <1>8 DEF Contents
<1>12. Standing(W)'
  <2> DEFINE Here(l) == \A x \in Span(l - 1, v, m) : W[l][x] \in Table
             Bad == {k \in 0 .. Last - 1 : ~ Here(Last - k)}
  <2>1. Bad = {}
    <3> SUFFICES ASSUME Bad # {} PROVE FALSE
      OBVIOUS
    <3>1. PICK k \in Bad : \A q \in Bad : k <= q
      <4>1. Bad \in SUBSET Nat
        BY Levels
      <4> HIDE DEF Bad
      <4> QED
        BY <4>1, SmallestNat
    <3>2. k \in 0 .. Last - 1 /\ ~ Here(Last - k)
      OBVIOUS
    <3> DEFINE l == Last - k
    <3>3. /\ l \in 1 .. Last /\ l \in 0 .. Last /\ l - 1 \in 0 .. Last
          /\ (k = 0 => l = Last)
          /\ (k # 0 => k - 1 \in 0 .. Last - 1 /\ Last - (k - 1) = l + 1 /\ ~ (k <= k - 1)
                       /\ l + 1 \in 1 .. Last /\ (l + 1) - 1 = l)
      BY <3>2, Levels
    <3>4. PICK x \in Span(l - 1, v, m) : W[l][x] \notin Table
      BY <3>2
    <3> HIDE DEF l
    <3>5. PICK y \in Span(l, v, m) : y \div Fan = x
      BY <3>3, <3>4, <1>4, SpanLevels
    <3>6. CASE k = 0
      <4>1. y \in Run(v, m)
        <5>1. v + m - 1 \in Page /\ On(Last, v) = v
          BY <1>4, SpanEnds, OnLevels
        <5>2. On(Last, v + m - 1) = v + m - 1
          BY <5>1, OnLevels
        <5> QED
          BY <5>1, <5>2, <3>5, <3>6, <3>3 DEF Span, Run
      <4>2. Pointee(c, W, Last, y) # None
        BY <4>1, <1>8, <1>9
      <4> QED
        BY <4>2, <3>3, <3>4, <3>5, <3>6 DEF Pointee
    <3>7. CASE k # 0
      <4>1. k - 1 \notin Bad
        <5> HIDE DEF Bad
        <5> QED
          BY <3>1, <3>3, <3>7
      <4>2. Here(l + 1)
        BY <4>1, <3>3, <3>7
      <4>3. W[l + 1][y] \in Table
        BY <4>2, <3>3, <3>5, <3>7
      <4>4. l + 1 \in 1 .. Last /\ y \in TablesAt(l + 1) /\ (l + 1) - 1 = l
        <5>1. y \in EntriesAt(l)
          BY <3>3, <3>5, <1>4, SpanEnds
        <5>2. l # Last
          BY <3>3, <3>7, Levels
        <5> QED
          BY <5>1, <5>2, <3>3, <3>7, EntriesOfLevels
      <4>5. W[l][y \div Fan] \in Table
        BY <4>3, <4>4, <1>3, WalkUp, WalksClimb DEF Tree
      <4> QED
        BY <4>5, <3>4, <3>5
    <3> QED
      BY <3>6, <3>7
  <2>2. \A l \in 1 .. Last : Here(l)
    <3> TAKE l \in 1 .. Last
    <3>1. Last - l \in 0 .. Last - 1 /\ Last - (Last - l) = l
      BY Levels
    <3> QED
      BY <2>1, <3>1
  <2>3. \A l : Touched(l)' = Span(l, v, m)
    BY <1>1 DEF Touched, Span, On
  <2> QED
    BY <2>2, <2>3 DEF Standing
<1>13. NonEmpty(c, W)'
  BY <1>2, <1>3 DEF NonEmpty
<1>14. Loops' /\ Call'
  <2>1. \A u \in CallRange' : space'[u] = None
    BY <1>4, <1>5, <1>6
  <2>2. Loops'
    BY <1>2 DEF Loops
  <2> QED
    BY <2>1, <2>2, <1>1, <1>2, <1>4, <1>6 DEF Call, Mapping
<1>15. Accounts(c, W)'
  <2> DEFINE D == DataFrames
             I == InFlight(c, W)'
             A == DataFrames'
  <2>1. /\ D = {space[u] : u \in Page} \cap Frame
        /\ A = {space'[u] : u \in Page} \cap Frame
        /\ I = {space[u] : u \in Run(v, m)} \cap Frame
    <3>1. {Pointee(c, W, Last, u) : u \in Run(v, m)} = {space[u] : u \in Run(v, m)}
      BY <1>8, <1>9
    <3> QED
      BY <3>1, <1>2, <1>6 DEF DataFrames, InFlight
  <2> HIDE DEF D, I, A
  <2>2. \A u, w \in Page : space[u] \in Frame /\ space[u] = space[w] => u = w
    BY <1>3 DEF Accounts
  <2>3. \A f \in A : f \in D /\ f \notin I
    <3> TAKE f \in A
    <3>1. PICK u \in Page : f = space'[u] /\ f \in Frame
      BY <2>1
    <3>2. u \notin Run(v, m) /\ f = space[u]
      BY <3>1, <1>5, PlacesApart
    <3>3. f \in D
      BY <3>1, <3>2, <2>1
    <3>4. f \notin I
      BY <3>1, <3>2, <2>1, <2>2, <1>9
    <3> QED
      BY <3>3, <3>4
  <2>4. \A f \in I : f \in D
    BY <2>1, <1>9
  <2>5. \A f \in D : f \in A \cup I
    <3> TAKE f \in D
    <3>1. PICK u \in Page : f = space[u] /\ f \in Frame
      BY <2>1
    <3> QED
      BY <3>1, <2>1, <1>5
  <2>6. /\ InFlight(c, W) = {} /\ Fresh(W)' = {} /\ Fresh(W) = {}
        /\ TreeFrames(W)' = TreeFrames(W)
    BY <1>2 DEF InFlight, Fresh, TreeFrames
  <2>7. Apart(free, kept, D, {}, TreeFrames(W) \cup {})
    BY <1>3, <2>6 DEF Accounts, D
  <2>8. Apart(free, kept, A, I, TreeFrames(W) \cup {})
    BY <2>7, <2>3, <2>4, <2>5, ApartElements
  <2>9. \A u, w \in Page : space'[u] \in Frame /\ space'[u] = space'[w] => u = w
    BY <2>2, <1>5, PlacesApart
  <2>10. Nx \subseteq {FALSE} => Frame \subseteq free \cup kept \cup D \cup {} \cup TreeFrames(W) \cup {}
    BY <1>3, <2>6 DEF Accounts, D
  <2>11. Nx \subseteq {FALSE} => Frame \subseteq free \cup kept \cup A \cup I \cup TreeFrames(W) \cup {}
    BY <2>5, <2>10
  <2>12. free' = free /\ kept' = kept
    BY <1>2
  <2> QED
    BY <2>6, <2>8, <2>9, <2>11, <2>12 DEF Accounts, A, I
<1>16. Types'
  <2>1. space' \in [Page -> Frame \cup Device \cup {None}]
    BY <1>1, <1>7
  <2> QED
    BY <2>1, <1>1, <1>2, <1>4 DEF Types
<1> QED
  BY <1>3, <1>10, <1>11, <1>12, <1>13, <1>14, <1>15, <1>16 DEF Sound

------------------------------------------------------------------------------
(* map_pages.                                                              *)

\* Every table so far is linked: the loop goes on.
LEMMA AdvancedUp ==
  ASSUME Loops, Call, pc \in {"tables", "clear"}, Advance(i, "tables", "fill"),
         UNCHANGED <<space, args>>, NEW d, NEW V,
         \A v \in Page : Pointee(d, V, Last, v) = Want(v),
         \A l \in 1 .. Last : \A x \in Touched(l - 1) :
           l <= i \/ (l = i + 1 /\ x <= Slot(i)) => V[l][x] \in Table,
         \A l \in 1 .. Last : \A t \in TablesAt(l) :
           V[l][t] \in Table /\ (\A k \in Index : d[V[l][t]][k] = Zero) => t \in Touched(l - 1)
  PROVE  /\ Contents(d, V)' /\ Standing(V)' /\ NonEmpty(d, V)' /\ Loops' /\ Call'
         /\ pc' \in {"tables", "fill"} /\ ~ Hole'
<1>1. va' = va /\ n' = n /\ pa' = pa /\ nx' = nx /\ space' = space
  BY DEF args
<1>2. /\ Loops' /\ pc' \in {"tables", "fill"}
      /\ \A l \in 1 .. Last : \A x \in Touched(l - 1) :
           Required(l, x)' => l <= i \/ (l = i + 1 /\ x <= Slot(i))
  BY <1>1, AdvanceUp
<1>3. CallRange' = CallRange /\ \A l : Touched(l)' = Touched(l)
  BY <1>1 DEF CallRange, Touched, Span, On
<1>4. va \in Int /\ pc # "idle" /\ CallRange \subseteq Int
  BY RangeTouched
<1>5. Contents(d, V)'
  <2>1. pc' = "fill" => i' = 0
    BY DEF Advance
  <2>2. \A v \in CallRange : ~ (v < va + 0)
    BY <1>4, RangeTouched DEF CallRange
  <2>3. \A v \in Page : Want(v)' = Want(v)
    BY <1>1, <1>2, <1>3, <2>1, <2>2 DEF Want, Mapping
  <2> QED
    BY <2>3, <1>2 DEF Contents
<1>6. Standing(V)'
  BY <1>2, <1>3 DEF Standing
<1>7. NonEmpty(d, V)'
  BY <1>2, <1>3 DEF NonEmpty, Mapping
<1>8. Call'
  BY <1>1, <1>2, <1>3, <1>4 DEF Call, Mapping
<1>9. ~ Hole'
  BY <1>2 DEF Hole
<1> QED
  BY <1>2, <1>5, <1>6, <1>7, <1>8, <1>9

\* What the entry a loop is at says.
LEMMA SlotEntry ==
  ASSUME NEW c, NEW W, Tree(c, W), NEW l \in 0 .. Last, l # Last, NEW x \in EntriesAt(l),
         W[l][x \div Fan] \in Table
  PROVE  /\ c[W[l][x \div Fan]][x % Fan] \in Proper(l)
         /\ W[l + 1][x] = c[W[l][x \div Fan]][x % Fan].frame
         /\ c[W[l][x \div Fan]][x % Fan] = Zero => W[l + 1][x] = None
         /\ c[W[l][x \div Fan]][x % Fan] # Zero =>
              /\ W[l + 1][x] \in Frame /\ c[W[l][x \div Fan]][x % Fan].nx = FALSE
              /\ W[l + 1][x] \in Table
<1>1. /\ x \div Fan \in TablesAt(l) /\ x % Fan \in Index
      /\ l + 1 \in 1 .. Last /\ (l + 1) - 1 = l /\ x \in TablesAt(l + 1)
  BY EntryOfTable, EntriesOfLevels, Levels
<1> DEFINE e == c[W[l][x \div Fan]][x % Fan]
<1>2. e \in Proper(l)
  BY <1>1 DEF Tree
<1>3. W[l + 1][x] = Pointee(c, W, l, x)
  BY <1>1 DEF Tree, Walks
<1>4. W[l + 1][x] = e.frame
  BY <1>3 DEF Pointee
<1> HIDE DEF e
<1>5. e = Zero => e.frame = None
  BY EntryFields
<1>6. e # Zero => e.frame \in Frame /\ e.nx = FALSE
  BY <1>2, ProperFields
<1>7. Frame \subseteq Table
  BY PlacesApart
<1> QED
  BY <1>2, <1>4, <1>5, <1>6, <1>7 DEF e

\* Without the TLB for the window, an access leaves no trace.
LEMMA AccessWindow ==
  ASSUME WindowTlb = FALSE, Access
  PROVE  window' = window /\ \A p \in AccessedTables : Reach(p[1], p[2]) \in Table
BY DEF Access

LEMMA KeepTableSound ==
  ASSUME WindowTlb = FALSE, NEW c, NEW W, Sound(c, W), Types, KeepTable
  PROVE  Types' /\ Sound(c, W)'
<1>1. /\ pc = "tables" /\ Access /\ Read(i, Slot(i)) # Zero /\ Advance(i, "tables", "fill")
      /\ UNCHANGED <<mem, free, kept, space, tlb, args>> /\ window' = window
  BY AccessWindow DEF KeepTable
<1>2. /\ Tree(c, W) /\ Linked(c, W) /\ Accounts(c, W) /\ Contents(c, W) /\ Standing(W)
      /\ NonEmpty(c, W) /\ Loops /\ Call /\ mem = c /\ DOMAIN window = {}
  BY <1>1, MemIsClean DEF Sound, Hole, Types
<1> DEFINE s == Slot(i)
<1>3. /\ i \in 0 .. Last /\ i # Last /\ i \in Int /\ s \in Touched(i) /\ s \in EntriesAt(i)
      /\ s \in Int /\ W[i][s \div Fan] \in Table /\ s \div Fan \in TablesAt(i)
  BY <1>1, <1>2, SlotTouched, StepTables, EntryOfTable
<1>4. c[W[i][s \div Fan]][s % Fan] # Zero
  BY <1>1, <1>2, <1>3, ReachTable DEF Read
<1> HIDE DEF s
<1>5. W[i + 1][s] \in Table
  BY <1>2, <1>3, <1>4, SlotEntry
<1>6. \A v \in Page : Pointee(c, W, Last, v) = Want(v)
  BY <1>1, <1>2 DEF Contents
<1>7. ASSUME NEW l \in 1 .. Last, NEW x \in Touched(l - 1),
             l <= i \/ (l = i + 1 /\ x <= Slot(i))
      PROVE  W[l][x] \in Table
  <2>1. x \in Int /\ l \in Int
    <3>1. l - 1 \in 0 .. Last
      BY Levels
    <3>2. x \in EntriesAt(l - 1)
      BY <3>1, <1>1, <1>2, TouchedEntries
    <3> QED
      BY <3>1, <3>2, EntryOfTable
  <2>2. CASE l = i + 1 /\ x = s
    BY <2>2, <1>5
  <2>3. CASE ~ (l = i + 1 /\ x = s)
    <3>1. Required(l, x)
      BY <2>1, <2>3, <1>1, <1>3, <1>7 DEF Required, s
    <3> QED
      BY <3>1, <1>2 DEF Standing
  <2> QED
    BY <2>2, <2>3
<1>8. \A l \in 1 .. Last : \A t \in TablesAt(l) :
        W[l][t] \in Table /\ (\A k \in Index : c[W[l][t]][k] = Zero) => t \in Touched(l - 1)
  BY <1>2 DEF NonEmpty
<1>9. /\ Contents(c, W)' /\ Standing(W)' /\ NonEmpty(c, W)' /\ Loops' /\ Call'
      /\ pc' \in {"tables", "fill"} /\ ~ Hole'
  <2>1. UNCHANGED <<space, args>> /\ pc \in {"tables", "clear"}
    BY <1>1
  <2> QED
    BY <2>1, <1>1, <1>2, <1>6, <1>7, <1>8, AdvancedUp
<1>10. Linked(c, W)'
  BY <1>1, <1>2, <1>9 DEF Linked
<1>11. Accounts(c, W)'
  <2>1. /\ DataFrames' = DataFrames /\ InFlight(c, W)' = {} /\ InFlight(c, W) = {}
        /\ Fresh(W)' = {} /\ Fresh(W) = {} /\ TreeFrames(W)' = TreeFrames(W)
        /\ free' = free /\ kept' = kept /\ space' = space
    BY <1>1, <1>9 DEF DataFrames, InFlight, Fresh, TreeFrames
  <2> QED
    BY <2>1, <1>2 DEF Accounts
<1>12. Types'
  BY <1>1, <1>9 DEF Types, args
<1> QED
  BY <1>2, <1>9, <1>10, <1>11, <1>12 DEF Sound

\* The entry is written, the table it points to is still what the page held.
LEMMA LinkTableSound ==
  ASSUME WindowTlb = FALSE, NEW c, NEW W, Sound(c, W), Types, LinkTable
  PROVE  Types' /\ Sound(c, W)'
<1> DEFINE e == IF CanTake(1) THEN Entry(Lowest(1), FALSE) ELSE Failed
           S == {e.frame} \cap Frame
           s == Slot(i)
           g == W[i][s \div Fan]
           k == s % Fan
<1>1. /\ pc = "tables" /\ Access /\ Read(i, s) = Zero /\ pc' = "clear"
      /\ UNCHANGED <<kept, space, tlb, args, i, j>> /\ window' = window
  BY AccessWindow DEF LinkTable
<1>2. /\ Tree(c, W) /\ Linked(c, W) /\ Accounts(c, W) /\ Contents(c, W) /\ Standing(W)
      /\ NonEmpty(c, W) /\ Loops /\ Call /\ mem = c /\ DOMAIN window = {}
      /\ mem \in [Table -> [Index -> Entries]]
  BY <1>1, MemIsClean DEF Sound, Hole, Types
<1>3. /\ mem' = Written(i, {s}, e) /\ free' = free \ S /\ S \subseteq free
      /\ e \in Entries /\ (e = Failed \/ e \in [frame : Frame, nx : {FALSE}])
  <2>1. CASE CanTake(1)
    <3>1. mem' = Written(i, {s}, Entry(Lowest(1), FALSE)) /\ free' = free \ {Lowest(1)}
      BY <2>1 DEF LinkTable
    <3>2. Lowest(1) \in Frame /\ Lowest(1) \in free
      BY <2>1, OneIsFree
    <3>3. e = Entry(Lowest(1), FALSE)
      BY <2>1
    <3>4. S = {Lowest(1)} /\ e \in Entries /\ e \in [frame : Frame, nx : {FALSE}]
      <4> HIDE DEF e
      <4> DEFINE f == Lowest(1)
      <4>1. f \in Frame /\ e = Entry(f, FALSE)
        BY <3>2, <3>3
      <4> HIDE DEF f
      <4>2. e.frame = f /\ e \in Entries /\ e \in [frame : Frame, nx : {FALSE}]
        BY <4>1, EntryFields
      <4>3. S = {f}
        BY <4>1, <4>2
      <4> QED
        BY <4>2, <4>3 DEF f
    <3> HIDE DEF e, S
    <3> QED
      BY <3>1, <3>2, <3>3, <3>4
  <2>2. CASE ~ CanTake(1)
    <3>1. mem' = Written(i, {s}, Failed) /\ free' = free
      BY <2>2 DEF LinkTable
    <3>2. e = Failed
      BY <2>2
    <3>3. S = {} /\ e \in Entries
      <4> HIDE DEF e
      <4>1. Failed.frame \notin Frame
        BY EntryFields, PlacesApart
      <4> QED
        BY <3>2, <4>1, EntryFields
    <3> HIDE DEF e, S
    <3> QED
      BY <3>1, <3>2, <3>3
  <2> QED
    BY <2>1, <2>2
<1>4. /\ i \in 0 .. Last /\ i # Last /\ s \in Touched(i) /\ s \in EntriesAt(i)
      /\ g \in Table /\ s \div Fan \in TablesAt(i) /\ k \in Index
  BY <1>1, <1>2, SlotTouched, StepTables, EntryOfTable
<1>5. Reach(i, s \div Fan) = g
  BY <1>2, <1>4, ReachTable
<1>6. c[g][k] = Zero
  BY <1>1, <1>2, <1>5 DEF Read
<1> HIDE DEF e
<1>7. /\ mem' \in [Table -> [Index -> Entries]]
      /\ \A f \in Table, q \in Index : mem'[f][q] = IF f = g /\ q = k THEN e ELSE c[f][q]
  <2>1. \A x \in {s} : Reach(i, x \div Fan) = g /\ x % Fan = k
    BY <1>5
  <2> HIDE DEF s, g, k
  <2> QED
    BY <2>1, <1>2, <1>3, WrittenValue
<1>8. /\ Hole' /\ HoleFrame(W)' = g /\ HoleIndex' = k /\ HoleLevel' = i
      /\ CallRange' = CallRange /\ (\A l : Touched(l)' = Touched(l))
      /\ (\A l, x : Required(l, x)' <=> Required(l, x))
  BY <1>1 DEF args, Hole, HoleFrame, HoleLevel, HoleIndex, Slot, Touched, Span, On,
     CallRange, Required
<1>9. HoleEntry(W)' = e
  BY <1>4, <1>7, <1>8 DEF HoleEntry
<1>10. Linked(c, W)'
  BY <1>3, <1>4, <1>6, <1>7, <1>8, <1>9 DEF Linked
<1>11. Accounts(c, W)'
  <2> DEFINE D == DataFrames
             T == TreeFrames(W)
  <2>1. /\ DataFrames' = D /\ InFlight(c, W)' = {} /\ InFlight(c, W) = {}
        /\ Fresh(W)' = S /\ Fresh(W) = {} /\ TreeFrames(W)' = T
        /\ kept' = kept /\ space' = space
    BY <1>1, <1>9 DEF DataFrames, InFlight, Fresh, TreeFrames
  <2>2. Apart(free, kept, D, {}, T \cup {})
    BY <2>1, <1>2 DEF Accounts
  <2> HIDE DEF D, T, S
  <2>3. Apart(free \ S, kept, D, {}, T \cup S) /\ T \cap S = {}
    BY <2>2, <1>3, ApartElements
  <2>4. Nx \subseteq {FALSE} => Frame \subseteq free \cup kept \cup D \cup {} \cup T \cup {}
    BY <2>1, <1>2 DEF Accounts, D, T
  <2>5. Nx \subseteq {FALSE} => Frame \subseteq (free \ S) \cup kept \cup D \cup {} \cup T \cup S
    BY <2>4
  <2> QED
    BY <2>1, <2>3, <2>5, <1>2, <1>3 DEF Accounts, D, T
<1>12. Contents(c, W)'
  <2>1. \A v : Want(v)' = Want(v)
    BY <1>1, <1>8 DEF Want, Mapping, args
  <2> QED
    BY <2>1, <1>1, <1>2 DEF Contents
<1>13. Standing(W)' /\ NonEmpty(c, W)'
  BY <1>1, <1>2, <1>8 DEF Standing, NonEmpty, Mapping
<1>14. Loops' /\ Call'
  BY <1>1, <1>2, <1>8 DEF Loops, Call, Nums, Parent, Mapping, args
<1>15. Types'
  <2>1. free' \subseteq Frame
    BY <1>3 DEF Types
  <2> QED
    BY <2>1, <1>1, <1>7 DEF Types, args
<1> QED
  BY <1>2, <1>10, <1>11, <1>12, <1>13, <1>14, <1>15 DEF Sound

\* The window finds the table being linked where its entry says.
LEMMA HoleReach ==
  ASSUME NEW c, NEW W, Sound(c, W), DOMAIN window = {}, pc = "clear"
  PROVE  /\ Reach(i + 1, Slot(i)) = HoleEntry(W).frame
         /\ <<i + 1, Slot(i)>> \in AccessedTables
<1>1. Tree(c, W) /\ Call /\ Loops /\ Linked(c, W)
  BY DEF Sound
<1> DEFINE s == Slot(i)
           V == TableFrame
           f == W[i][s \div Fan]
<1>2. i \in 0 .. Last /\ i # Last /\ s \in EntriesAt(i) /\ f \in Table
  BY <1>1, SlotTouched, StepTables DEF HoleFrame, HoleLevel, Hole
<1>3. /\ (\A y \in Below(s) : y \div Fan = s) /\ (\E y \in Below(s) : y \div Fan = s)
      /\ s \in TablesAt(i + 1) /\ i + 1 \in 1 .. Last /\ (i + 1) - 1 = i
  <2>1. 0 \in Index
    BY DEF Index
  <2>2. i \in Int
    BY <1>2, Levels
  <2> HIDE DEF s
  <2> QED
    BY <2>1, <2>2, <1>2, BelowEntries
<1>4. s \div Fan \in TablesAt(i)
  BY <1>2, EntryOfTable
<1>5. V[i][s \div Fan] = f
  BY <1>1, <1>2, <1>4, ReachTable
<1>6. V[i + 1][s] = Goal(mem, V, i, s)
  <2>1. Follows(mem, V)
    BY WalkOfMem
  <2> HIDE DEF s, V
  <2> QED
    BY <2>1, <1>3 DEF Follows
<1>7. V[i + 1][s] = mem[f][s % Fan].frame
  BY <1>2, <1>5, <1>6 DEF Goal
<1>8. HoleEntry(W) = mem[f][s % Fan]
  BY DEF HoleEntry, HoleFrame, HoleIndex, HoleLevel
<1>9. Reach(i + 1, s) = V[i + 1][s]
  BY DEF Reach
<1>10. <<i + 1, s>> \in AccessedTables
  <2>1. Accessed.level = i + 1 /\ Accessed.entries = Below(s)
    BY DEF Accessed
  <2> QED
    BY <2>1, <1>3 DEF AccessedTables
<1> QED
  BY <1>7, <1>8, <1>9, <1>10

\* The tables in a tree after one is linked or unlinked.
LEMMA WithFrames ==
  ASSUME NEW W, NEW l \in 1 .. Last, NEW x \in TablesAt(l)
  PROVE  /\ \A f \in Frame : W[l][x] \notin Frame =>
              TreeFrames(With(W, l, x, f)) = TreeFrames(W) \cup {f}
         /\ \A f \in Frame :
              (\A m \in 0 .. Last : \A u \in TablesAt(m) : W[m][u] = f <=> m = l /\ u = x) =>
                TreeFrames(With(W, l, x, None)) = TreeFrames(W) \ {f}
<1>1. l \in 0 .. Last /\ \A m \in 1 .. Last : m \in 0 .. Last
  BY Levels
<1>2. \A f : \A m \in 1 .. Last : \A u \in TablesAt(m) :
        With(W, l, x, f)[m][u] = IF m = l /\ u = x THEN f ELSE W[m][u]
  BY <1>1, WithValue
<1>3. ASSUME NEW f \in Frame, W[l][x] \notin Frame
      PROVE  TreeFrames(With(W, l, x, f)) = TreeFrames(W) \cup {f}
  <2> DEFINE V == With(W, l, x, f)
  <2>1. \A m \in 1 .. Last : \A u \in TablesAt(m) :
          V[m][u] = IF m = l /\ u = x THEN f ELSE W[m][u]
    BY <1>2
  <2> HIDE DEF V
  <2>2. ASSUME NEW g \in TreeFrames(V) PROVE g \in TreeFrames(W) \cup {f}
    BY <2>1 DEF TreeFrames
  <2>3. ASSUME NEW g \in TreeFrames(W) PROVE g \in TreeFrames(V)
    <3>0. PICK m \in 1 .. Last : \E u \in TablesAt(m) : W[m][u] = g /\ g \in Frame
      BY DEF TreeFrames
    <3>1. PICK u \in TablesAt(m) : W[m][u] = g /\ g \in Frame
      BY <3>0
    <3>2. ~ (m = l /\ u = x)
      BY <3>1, <1>3
    <3>3. V[m][u] = g
      BY <3>1, <3>2, <2>1
    <3> QED
      BY <3>1, <3>3 DEF TreeFrames
  <2>4. f \in TreeFrames(V)
    BY <2>1 DEF TreeFrames
  <2> QED
    BY <2>2, <2>3, <2>4 DEF V
<1>4. ASSUME NEW f \in Frame,
             \A m \in 0 .. Last : \A u \in TablesAt(m) : W[m][u] = f <=> m = l /\ u = x
      PROVE  TreeFrames(With(W, l, x, None)) = TreeFrames(W) \ {f}
  <2> DEFINE V == With(W, l, x, None)
  <2>1. \A m \in 1 .. Last : \A u \in TablesAt(m) :
          V[m][u] = IF m = l /\ u = x THEN None ELSE W[m][u]
    BY <1>2
  <2> HIDE DEF V
  <2>2. None \notin Frame
    BY PlacesApart
  <2>3. ASSUME NEW g \in TreeFrames(V) PROVE g \in TreeFrames(W) \ {f}
    <3>0. PICK m \in 1 .. Last : \E u \in TablesAt(m) : V[m][u] = g /\ g \in Frame
      BY DEF TreeFrames
    <3>1. PICK u \in TablesAt(m) : V[m][u] = g /\ g \in Frame
      BY <3>0
    <3>2. ~ (m = l /\ u = x)
      BY <3>1, <2>1, <2>2
    <3>3. W[m][u] = g
      BY <3>1, <3>2, <2>1
    <3>4. g # f
      BY <3>1, <3>2, <3>3, <1>1, <1>4
    <3> QED
      BY <3>1, <3>3, <3>4 DEF TreeFrames
  <2>4. ASSUME NEW g \in TreeFrames(W), g # f PROVE g \in TreeFrames(V)
    <3>0. PICK m \in 1 .. Last : \E u \in TablesAt(m) : W[m][u] = g /\ g \in Frame
      BY DEF TreeFrames
    <3>1. PICK u \in TablesAt(m) : W[m][u] = g /\ g \in Frame
      BY <3>0
    <3>2. ~ (m = l /\ u = x)
      BY <3>1, <2>4, <1>1, <1>4
    <3>3. V[m][u] = g
      BY <3>1, <3>2, <2>1
    <3> QED
      BY <3>1, <3>3 DEF TreeFrames
  <2> QED
    BY <2>3, <2>4 DEF V
<1> QED
  BY <1>3, <1>4

\* The new table is empty and in the tree.
LEMMA ClearTableSound ==
  ASSUME WindowTlb = FALSE, NEW c, NEW W, Sound(c, W), Types, ClearTable
  PROVE  Types' /\ \E d, V : Sound(d, V)'
<1> DEFINE e == HoleEntry(W)
           f == e.frame
           s == Slot(i)
           g == W[i][s \div Fan]
           k == s % Fan
<1>1. /\ pc = "clear" /\ Access /\ mem' = Written(i + 1, Below(s), Zero)
      /\ Advance(i, "tables", "fill")
      /\ UNCHANGED <<free, kept, space, tlb, args>> /\ window' = window
  BY AccessWindow DEF ClearTable
<1>2. /\ Tree(c, W) /\ Linked(c, W) /\ Accounts(c, W) /\ Contents(c, W) /\ Standing(W)
      /\ NonEmpty(c, W) /\ Loops /\ Call /\ DOMAIN window = {}
      /\ mem \in [Table -> [Index -> Entries]] /\ c \in [Table -> [Index -> Entries]]
  BY DEF Sound, Types, Tree
<1>3. /\ i \in 0 .. Last /\ i # Last /\ s \in Touched(i) /\ s \in EntriesAt(i)
      /\ g \in Table /\ s \div Fan \in TablesAt(i) /\ k \in Index /\ s \in Int /\ i \in Int
  BY <1>1, <1>2, SlotTouched, StepTables, EntryOfTable DEF HoleFrame, HoleLevel, Hole
<1>4. Hole /\ HoleFrame(W) = g /\ HoleIndex = k /\ e = mem[g][k] /\ c[g][k] = Zero
      /\ \A h \in Table, q \in Index : ~ (h = g /\ q = k) => mem[h][q] = c[h][q]
  <2>1. Hole /\ HoleFrame(W) = g /\ HoleIndex = k
    BY <1>1 DEF HoleFrame, HoleIndex, HoleLevel, Hole
  <2>2. e = mem[g][k]
    BY <2>1 DEF HoleEntry
  <2>3. c[g][k] = Zero /\ \A h \in Table, q \in Index : ~ (h = g /\ q = k) => mem[h][q] = c[h][q]
    <3> HIDE DEF g, k
    <3> QED
      BY <2>1, <1>2 DEF Linked
  <2> QED
    BY <2>1, <2>2, <2>3
<1>5. Reach(i + 1, s) = f /\ f \in Table
  <2>1. Reach(i + 1, s) = f /\ <<i + 1, s>> \in AccessedTables
    BY <1>1, <1>2, HoleReach
  <2>2. \A p \in AccessedTables : Reach(p[1], p[2]) \in Table
    BY <1>1, AccessWindow
  <2> QED
    BY <2>1, <2>2
<1>6. e \in [frame : Frame, nx : {FALSE}] /\ f \in Frame /\ Fresh(W) = {f}
  <2>1. e = Failed \/ e \in [frame : Frame, nx : {FALSE}]
    BY <1>1, <1>2 DEF Linked
  <2>2. e # Failed
    BY <1>5, EntryFields
  <2>3. f \in Frame
    BY <2>1, <2>2
  <2> QED
    BY <2>1, <2>2, <2>3, <1>1 DEF Fresh
<1>7. /\ (\A y \in Below(s) : y \div Fan = s)
      /\ (\A q \in Index : \E y \in Below(s) : y \div Fan = s /\ y % Fan = q)
      /\ s \in TablesAt(i + 1) /\ i + 1 \in 1 .. Last /\ i + 1 \in 0 .. Last /\ (i + 1) - 1 = i
  <2>1. (i + 1) - 1 = i
    BY <1>3
  <2> HIDE DEF s
  <2> QED
    BY <2>1, <1>3, BelowEntries
<1>8. W[i + 1][s] = None
  <2>1. W[i + 1][s] = Pointee(c, W, i, s)
    <3> HIDE DEF s
    <3> QED
      BY <1>2, <1>7 DEF Tree, Walks
  <2>2. Pointee(c, W, i, s) = c[g][k].frame
    BY <1>3 DEF Pointee
  <2> QED
    BY <2>1, <2>2, <1>4, EntryFields
<1> HIDE DEF e, f, s, g, k
<1>9. /\ mem' \in [Table -> [Index -> Entries]]
      /\ \A h \in Table, q \in Index : mem'[h][q] = IF h = f THEN Zero ELSE mem[h][q]
  <2> DEFINE B == Below(s)
             R(h, q) == \E y \in B : Reach(i + 1, y \div Fan) = h /\ y % Fan = q
  <2>1. /\ mem' \in [Table -> [Index -> Entries]]
        /\ \A h \in Table, q \in Index : mem'[h][q] = IF R(h, q) THEN Zero ELSE mem[h][q]
    <3>1. Zero \in Entries
      BY EntryFields
    <3> QED
      BY <3>1, <1>1, <1>2, WrittenValue
  <2>2. \A h \in Table, q \in Index : R(h, q) <=> h = f
    BY <1>5, <1>7
  <2> HIDE DEF R
  <2> QED
    BY <2>1, <2>2
<1>10. /\ \A m \in 0 .. Last : \A u \in TablesAt(m) : W[m][u] # f
      /\ g # f
  <2>1. \A m \in 0 .. Last : \A u \in TablesAt(m) :
          W[m][u] \in Table => W[m][u] \notin free /\ W[m][u] \notin Fresh(W)
    <3>1. free \subseteq Frame
      BY DEF Types
    <3> QED
      BY <3>1, <1>2, TreeNotFree
  <2>2. \A m \in 0 .. Last : \A u \in TablesAt(m) : W[m][u] # f
    BY <2>1, <1>5, <1>6
  <2> QED
    BY <2>2, <1>3 DEF g
<1>11. PICK d : d = mem'
  OBVIOUS
<1>12. PICK V : V = With(W, i + 1, s, f)
  OBVIOUS
<1>13. \A m \in 0 .. Last : \A u \in TablesAt(m) :
         V[m][u] = IF m = i + 1 /\ u = s THEN f ELSE W[m][u]
  BY <1>12, WithValue
<1>14. d[g][k] = e /\ e # Zero /\ e \in Proper(i)
  <2>1. d[g][k] = e
    BY <1>3, <1>4, <1>9, <1>10, <1>11
  <2>2. e # Zero
    BY <1>6, EntryFields, PlacesApart DEF f
  <2>3. e \in Proper(i)
    BY <1>3, <1>6 DEF Proper
  <2> QED
    BY <2>1, <2>2, <2>3
<1>15. /\ Tree(d, V)
       /\ \A v \in Page : Pointee(d, V, Last, v) = Pointee(c, W, Last, v)
  <2>1. Bare(c, W, i, s)
    BY <1>8, PlacesApart DEF Bare
  <2>2. /\ d \in [Table -> [Index -> Entries]] /\ W[i][s \div Fan] \in Table
        /\ d[W[i][s \div Fan]][s % Fan] = e
    BY <1>3, <1>9, <1>11, <1>14 DEF g, k
  <2>3. \A q \in Index : d[e.frame][q] = Zero
    BY <1>5, <1>9, <1>11 DEF f
  <2>4. \A h \in Table, q \in Index :
          h # e.frame /\ ~ (h = W[i][s \div Fan] /\ q = s % Fan) => d[h][q] = c[h][q]
    BY <1>4, <1>9, <1>11 DEF f, g, k
  <2>5. \A m \in 0 .. Last : \A u \in TablesAt(m) : W[m][u] # e.frame
    BY <1>10 DEF f
  <2>6. /\ Tree(d, With(W, i + 1, s, e.frame))
        /\ \A v \in Page :
             Pointee(d, With(W, i + 1, s, e.frame), Last, v) = Pointee(c, W, Last, v)
    <3>1. e \in Proper(i) /\ Tree(c, W) /\ i \in 0 .. Last /\ i # Last /\ s \in EntriesAt(i)
      BY <1>2, <1>3, <1>14
    <3> QED
      BY <2>1, <2>2, <2>3, <2>4, <2>5, <3>1, Graft
  <2> QED
    BY <2>6, <1>12 DEF f
<1>16. \A v \in Page : Pointee(d, V, Last, v) = Want(v)
  BY <1>1, <1>2, <1>15 DEF Contents
<1>17. ASSUME NEW l \in 1 .. Last, NEW y \in Touched(l - 1),
              l <= i \/ (l = i + 1 /\ y <= Slot(i))
       PROVE  V[l][y] \in Table
  <2>1. y \in Int /\ l \in Int /\ l \in 0 .. Last /\ y \in TablesAt(l)
    <3>1. l - 1 \in 0 .. Last /\ l - 1 # Last /\ (l - 1) + 1 = l
      BY Levels
    <3>2. y \in EntriesAt(l - 1)
      BY <3>1, <1>1, <1>2, TouchedEntries
    <3> QED
      BY <3>1, <3>2, EntryOfTable, EntriesOfLevels, Levels
  <2>2. CASE l = i + 1 /\ y = s
    BY <2>1, <2>2, <1>5, <1>13
  <2>3. CASE ~ (l = i + 1 /\ y = s)
    <3>1. Required(l, y)
      BY <2>1, <2>3, <1>1, <1>3, <1>17 DEF Required, s
    <3>2. W[l][y] \in Table
      BY <3>1, <1>2 DEF Standing
    <3> QED
      BY <3>2, <2>1, <2>3, <1>13
  <2> QED
    BY <2>2, <2>3
<1>18. ASSUME NEW l \in 1 .. Last, NEW t \in TablesAt(l),
              V[l][t] \in Table, \A q \in Index : d[V[l][t]][q] = Zero
       PROVE  t \in Touched(l - 1)
  <2>1. l \in 0 .. Last
    BY Levels
  <2>2. CASE l = i + 1 /\ t = s
    BY <2>2, <1>3, <1>7
  <2>3. CASE ~ (l = i + 1 /\ t = s)
    <3>1. V[l][t] = W[l][t] /\ W[l][t] \in Table
      BY <2>1, <2>3, <1>13, <1>18
    <3>2. W[l][t] # f /\ W[l][t] # g
      BY <3>1, <2>1, <1>3, <1>10, <1>14, <1>18
    <3>3. \A q \in Index : c[W[l][t]][q] = Zero
      BY <3>1, <3>2, <1>4, <1>9, <1>11, <1>18
    <3> QED
      BY <3>1, <3>3, <1>2 DEF NonEmpty
  <2> QED
    BY <2>2, <2>3
<1>19. /\ Contents(d, V)' /\ Standing(V)' /\ NonEmpty(d, V)' /\ Loops' /\ Call'
       /\ pc' \in {"tables", "fill"} /\ ~ Hole'
  <2>1. UNCHANGED <<space, args>> /\ pc \in {"tables", "clear"}
    BY <1>1
  <2> QED
    BY <2>1, <1>1, <1>2, <1>16, <1>17, <1>18, AdvancedUp
<1>20. Linked(d, V)'
  BY <1>9, <1>11, <1>19 DEF Linked
<1>21. Accounts(d, V)'
  <2> DEFINE D == DataFrames
             T == TreeFrames(W)
             F == {f}
  <2>1. /\ DataFrames' = D /\ InFlight(d, V)' = {} /\ InFlight(c, W) = {}
        /\ Fresh(V)' = {} /\ Fresh(W) = F /\ free' = free /\ kept' = kept /\ space' = space
    BY <1>1, <1>6, <1>19 DEF DataFrames, InFlight, Fresh
  <2>2. TreeFrames(V) = T \cup F /\ TreeFrames(V)' = TreeFrames(V)
    <3>1. W[i + 1][s] \notin Frame
      BY <1>8, PlacesApart
    <3>2. TreeFrames(V) = T \cup F
      BY <3>1, <1>6, <1>7, <1>12, WithFrames
    <3> QED
      BY <3>2 DEF TreeFrames
  <2>3. Apart(free, kept, D, {}, T \cup F)
    BY <2>1, <1>2 DEF Accounts
  <2>4. Nx \subseteq {FALSE} => Frame \subseteq free \cup kept \cup D \cup {} \cup T \cup F
    BY <2>1, <1>2 DEF Accounts, D, T
  <2>5. \A u, v \in Page : space[u] \in Frame /\ space[u] = space[v] => u = v
    BY <1>2 DEF Accounts
  <2> HIDE DEF D, T, F
  <2>6. Apart(free, kept, D, {}, (T \cup F) \cup {})
    BY <2>3, ApartElements
  <2>7. Nx \subseteq {FALSE} => Frame \subseteq free \cup kept \cup D \cup {} \cup (T \cup F) \cup {}
    BY <2>4
  <2> QED
    BY <2>1, <2>2, <2>5, <2>6, <2>7 DEF Accounts
<1>22. Types'
  BY <1>1, <1>9, <1>19 DEF Types, args
<1> QED
  BY <1>15, <1>19, <1>20, <1>21, <1>22 DEF Sound

\* d is c with e in the page table entries of the pages in X.
Filled(c, d, W, X, e) ==
  /\ X \subseteq Page /\ \A u \in X : W[Last][u \div Fan] \in Table
  /\ d \in [Table -> [Index -> Entries]]
  /\ \A h \in Table, q \in Index :
       d[h][q] = IF \E u \in X : W[Last][u \div Fan] = h /\ u % Fan = q THEN e ELSE c[h][q]

LEMMA LeafTree ==
  ASSUME NEW c, NEW W, Tree(c, W), NEW d, NEW X, NEW e \in Proper(Last), Filled(c, d, W, X, e)
  PROVE  /\ Tree(d, W)
         /\ \A v \in Page :
              Pointee(d, W, Last, v) = IF v \in X THEN e.frame ELSE Pointee(c, W, Last, v)
         /\ \A l \in 0 .. Last : \A t \in TablesAt(l) : W[l][t] \in Table /\ l # Last =>
              \A q \in Index : d[W[l][t]][q] = c[W[l][t]][q]
<1> DEFINE R(h, q) == \E u \in X : W[Last][u \div Fan] = h /\ u % Fan = q
<1>1. \A u \in Page : /\ u \div Fan \in TablesAt(Last) /\ u % Fan \in Index /\ Last \in 0 .. Last
                      /\ u = Fan * (u \div Fan) + (u % Fan)
  BY EntryOfTable, EntriesOfLevels, Levels
<1>2. /\ \A h \in Table, q \in Index : d[h][q] = IF R(h, q) THEN e ELSE c[h][q]
      /\ X \subseteq Page /\ \A u \in X : W[Last][u \div Fan] \in Table
      /\ d \in [Table -> [Index -> Entries]]
  BY DEF Filled
<1>3. ASSUME NEW l \in 0 .. Last, NEW t \in TablesAt(l), W[l][t] \in Table, NEW u \in X,
             W[Last][u \div Fan] = W[l][t]
      PROVE  l = Last /\ t = u \div Fan
  <2>1. u \div Fan \in TablesAt(Last) /\ Last \in 0 .. Last
    BY <1>1, <1>2
  <2> QED
    BY <2>1, <1>3 DEF Tree
<1>4. ASSUME NEW l \in 0 .. Last, NEW t \in TablesAt(l), W[l][t] \in Table, l # Last,
             NEW q \in Index
      PROVE  d[W[l][t]][q] = c[W[l][t]][q]
  <2>1. ~ R(W[l][t], q)
    BY <1>3, <1>4
  <2> HIDE DEF R
  <2> QED
    BY <2>1, <1>2, <1>4
<1>5. ASSUME NEW l \in 0 .. Last, NEW t \in TablesAt(l), W[l][t] \in Table, NEW q \in Index
      PROVE  d[W[l][t]][q] \in Proper(l)
  <2>1. c[W[l][t]][q] \in Proper(l)
    BY <1>5 DEF Tree
  <2>2. CASE l = Last
    <3>1. d[W[l][t]][q] = e \/ d[W[l][t]][q] = c[W[l][t]][q]
      <4> HIDE DEF R
      <4> QED
        BY <1>2, <1>5
    <3> QED
      BY <3>1, <2>1, <2>2
  <2>3. CASE l # Last
    BY <2>1, <2>3, <1>4, <1>5
  <2> QED
    BY <2>2, <2>3
<1>6. Tree(d, W)
  BY <1>2, <1>4, <1>5, SameTree
<1>7. ASSUME NEW v \in Page
      PROVE  Pointee(d, W, Last, v) = IF v \in X THEN e.frame ELSE Pointee(c, W, Last, v)
  <2> DEFINE t == v \div Fan
             q == v % Fan
             h == W[Last][t]
  <2>1. t \in TablesAt(Last) /\ q \in Index /\ Last \in 0 .. Last /\ v = Fan * t + q
    BY <1>1
  <2>2. /\ Pointee(d, W, Last, v) = IF h \in Table THEN d[h][q].frame ELSE None
        /\ Pointee(c, W, Last, v) = IF h \in Table THEN c[h][q].frame ELSE None
    BY DEF Pointee
  <2>3. v \in X => h \in Table
    BY <1>2
  <2>4. h \in Table => (R(h, q) <=> v \in X)
    <3>1. v \in X => R(h, q)
      OBVIOUS
    <3>2. ASSUME h \in Table, R(h, q) PROVE v \in X
      <4>1. PICK u \in X : W[Last][u \div Fan] = h /\ u % Fan = q
        BY <3>2
      <4>2. t = u \div Fan
        <5> HIDE DEF t
        <5> QED
          BY <4>1, <3>2, <2>1, <1>3
      <4>3. u = Fan * (u \div Fan) + (u % Fan)
        BY <1>1, <1>2
      <4>4. u = v
        BY <4>1, <4>2, <4>3, <2>1
      <4> QED
        BY <4>4
    <3> QED
      BY <3>1, <3>2
  <2> HIDE DEF R, h, t, q
  <2> QED
    BY <2>1, <2>2, <2>3, <2>4, <1>2
<1> QED
  BY <1>4, <1>6, <1>7

\* What map_pages and unmap_pages write into page table entries.
LEMMA WrittenLeaves ==
  ASSUME NEW c, NEW W, Sound(c, W), Types, ~ Hole, NEW X, X \subseteq Page,
         \A u \in X : W[Last][u \div Fan] \in Table, NEW e \in Entries
  PROVE  /\ Filled(c, Written(Last, X, e), W, X, e)
         /\ Written(Last, X, e) \in [Table -> [Index -> Entries]]
         /\ \A h \in Table, q \in Index :
              Written(Last, X, e)[h][q] = e \/ Written(Last, X, e)[h][q] = c[h][q]
<1>1. /\ Tree(c, W) /\ Linked(c, W) /\ mem = c /\ DOMAIN window = {}
      /\ mem \in [Table -> [Index -> Entries]]
  BY MemIsClean DEF Sound, Types
<1>2. \A u \in X : Reach(Last, u \div Fan) = W[Last][u \div Fan]
  <2> TAKE u \in X
  <2>1. u \div Fan \in TablesAt(Last) /\ Last \in 0 .. Last
    BY EntryOfTable, EntriesOfLevels, Levels
  <2> QED
    BY <2>1, <1>1, ReachTable
<1> DEFINE d == Written(Last, X, e)
<1>3. /\ d \in [Table -> [Index -> Entries]]
      /\ \A h \in Table, q \in Index :
           d[h][q] = IF \E u \in X : Reach(Last, u \div Fan) = h /\ u % Fan = q
                       THEN e ELSE mem[h][q]
  BY <1>1, WrittenValue
<1> HIDE DEF d
<1>4. Filled(c, d, W, X, e) /\ \A h \in Table, q \in Index : d[h][q] = e \/ d[h][q] = c[h][q]
  BY <1>1, <1>2, <1>3 DEF Filled
<1> QED
  BY <1>3, <1>4 DEF d

\* When every page of the range leads to its target, its tables have entries.
LEMMA FilledTables ==
  ASSUME NEW c, NEW W, Sound(c, W), pc = "fill", NEW d,
         \A l \in 0 .. Last : \A t \in TablesAt(l) : W[l][t] \in Table /\ l # Last =>
           \A q \in Index : d[W[l][t]][q] = c[W[l][t]][q],
         \A v \in CallRange : Pointee(d, W, Last, v) # None,
         NEW l \in 1 .. Last, NEW t \in TablesAt(l), W[l][t] \in Table, t \in Touched(l - 1)
  PROVE  \E q \in Index : d[W[l][t]][q] # Zero
<1>1. Tree(c, W) /\ Standing(W) /\ Call
  BY DEF Sound
<1>2. va \in Page /\ n \in Nat \ {0} /\ va .. va + n - 1 \subseteq Page
  BY <1>1 DEF Call, CallRange
<1>3. PICK y \in Touched(l) : y \div Fan = t
  BY <1>2, SpanLevels DEF Touched
<1>4. l \in 0 .. Last /\ y \in EntriesAt(l) /\ y % Fan \in Index
  <2>1. l \in 0 .. Last
    BY Levels
  <2>2. y \in EntriesAt(l)
    BY <2>1, <1>1, TouchedEntries
  <2> QED
    BY <2>1, <2>2, EntryOfTable
<1> DEFINE q == y % Fan
           f == W[l][t]
<1>5. CASE l = Last
  <2>1. y \in CallRange
    BY <1>1, <1>3, <1>5, RangeTouched
  <2>2. Pointee(d, W, Last, y) = d[f][q].frame
    BY <1>3, <1>5 DEF Pointee
  <2>3. d[f][q] # Zero
    BY <2>1, <2>2, EntryFields
  <2> QED
    BY <2>3, <1>4
<1>6. CASE l # Last
  <2>1. l + 1 \in 1 .. Last /\ (l + 1) - 1 = l /\ y \in TablesAt(l + 1)
    <3>1. l + 1 \in 1 .. Last /\ (l + 1) - 1 = l
      BY <1>4, <1>6, Levels
    <3> QED
      BY <3>1, <1>4, <1>6, EntriesOfLevels
  <2>2. Required(l + 1, y)
    BY DEF Required
  <2>3. W[l + 1][y] \in Table
    BY <2>1, <2>2, <1>1, <1>3 DEF Standing
  <2>4. W[l + 1][y] = Pointee(c, W, l, y)
    BY <2>1, <1>1 DEF Tree, Walks
  <2>5. Pointee(c, W, l, y) = c[f][q].frame
    BY <1>3 DEF Pointee
  <2>6. c[f][q] # Zero
    BY <2>3, <2>4, <2>5, EntryFields, PlacesApart
  <2>7. d[f][q] = c[f][q]
    BY <1>4, <1>6
  <2> QED
    BY <2>6, <2>7, <1>4
<1> QED
  BY <1>5, <1>6

\* One page of the range leads to its target.
LEMMA FillEntrySound ==
  ASSUME WindowTlb = FALSE, NEW c, NEW W, Sound(c, W), Types, FillEntry
  PROVE  Types' /\ \E d : Sound(d, W)'
<1> DEFINE e == Entry(pa + i, nx)
           x == va + i
<1>1. /\ pc = "fill" /\ Access /\ mem' = Written(Last, {x}, e)
      /\ tlb' = [v \in DOMAIN tlb \ {x} |-> tlb[v]]
      /\ IF i + 1 < n THEN i' = i + 1 /\ pc' = "fill" ELSE i' = 0 /\ pc' = "idle"
      /\ UNCHANGED <<free, kept, space, args, j>> /\ window' = window
  BY AccessWindow DEF FillEntry, Invlpg, Last
<1>2. /\ Tree(c, W) /\ Linked(c, W) /\ Accounts(c, W) /\ Contents(c, W) /\ Standing(W)
      /\ NonEmpty(c, W) /\ Loops /\ Call /\ mem = c /\ DOMAIN window = {}
      /\ mem \in [Table -> [Index -> Entries]]
  BY <1>1, MemIsClean DEF Sound, Hole, Types
<1>3. /\ i \in 0 .. n - 1 /\ j = 0 /\ n \in Nat \ {0} /\ va \in Int /\ x \in CallRange
      /\ CallRange \subseteq Page /\ CallRange = va .. va + n - 1
  <2>1. i \in 0 .. n - 1 /\ j = 0 /\ n \in Nat \ {0} /\ va \in Int /\ CallRange \subseteq Page
    BY <1>1, <1>2, RangeTouched DEF Loops
  <2> QED
    BY <2>1 DEF CallRange
<1>4. /\ e.frame = space[x] /\ space[x] \in Frame \cup Device
      /\ e \in Proper(Last) /\ e \in Entries /\ e # Zero /\ e.frame # None
  <2>1. Mapping
    BY <1>1 DEF Mapping
  <2>2. nx \in Nx /\ pa \in Frame \cup Device /\ space[x] = pa + x - va
        /\ space[x] \in Frame \cup Device
    BY <2>1, <1>1, <1>2, <1>3 DEF Call
  <2>3. pa + x - va = pa + i
    <3>1. pa \in Int
      BY <2>2, PlacesApart
    <3> QED
      BY <3>1, <1>3
  <2> HIDE DEF x
  <2>4. e.frame = space[x] /\ e.nx = nx
    BY <2>2, <2>3, EntryFields
  <2>5. e \in [frame : Frame \cup Device, nx : Nx]
    BY <2>2, <2>3 DEF Entry
  <2>6. e \in Entries
    BY <2>5, FlagsAssumption DEF Entries
  <2>7. e.frame # None
    BY <2>2, <2>4, PlacesApart
  <2>8. e # Zero
    BY <2>7, EntryFields
  <2>9. e \in Proper(Last)
    BY <2>5 DEF Proper
  <2> QED
    BY <2>2, <2>4, <2>6, <2>7, <2>8, <2>9
<1> HIDE DEF e
<1>5. PICK d : d = mem'
  OBVIOUS
<1> DEFINE X == {x}
<1>6. X \in SUBSET Page /\ X \in SUBSET CallRange /\ \A u \in X : W[Last][u \div Fan] \in Table
  BY <1>1, <1>3, StepTables
<1>7. /\ Filled(c, d, W, X, e) /\ d \in [Table -> [Index -> Entries]]
      /\ \A h \in Table, q \in Index : d[h][q] = e \/ d[h][q] = c[h][q]
  <2>1. d = Written(Last, X, e)
    BY <1>1, <1>5
  <2> HIDE DEF X
  <2>2. X \subseteq Page /\ \A u \in X : W[Last][u \div Fan] \in Table
    BY <1>6
  <2>3. ~ Hole /\ e \in Entries
    BY <1>1, <1>4 DEF Hole
  <2> QED
    BY <2>1, <2>2, <2>3, WrittenLeaves
<1>8. /\ Tree(d, W)
      /\ \A v \in Page :
           Pointee(d, W, Last, v) = IF v \in X THEN e.frame ELSE Pointee(c, W, Last, v)
      /\ \A l \in 0 .. Last : \A t \in TablesAt(l) : W[l][t] \in Table /\ l # Last =>
           \A q \in Index : d[W[l][t]][q] = c[W[l][t]][q]
  <2> HIDE DEF X
  <2> QED
    BY <1>2, <1>4, <1>7, LeafTree
<1>9. /\ va' = va /\ n' = n /\ pa' = pa /\ nx' = nx /\ CallRange' = CallRange
      /\ (\A l : Touched(l)' = Touched(l)) /\ ~ Hole' /\ pc' \in {"fill", "idle"}
  BY <1>1 DEF args, CallRange, Touched, Span, On, Hole
<1>10. \A v \in Page : Pointee(d, W, Last, v) = Want(v)'
  <2> TAKE v \in Page
  <2>1. Pointee(c, W, Last, v) = Want(v)
    BY <1>1, <1>2 DEF Contents
  <2>2. Want(v) = IF v \in CallRange /\ ~ (v < va + i) THEN None ELSE space[v]
    BY <1>1 DEF Want, Mapping
  <2>3. Want(v)' = IF pc' = "fill" /\ v \in CallRange /\ ~ (v < va + i') THEN None ELSE space[v]
    BY <1>1, <1>9 DEF Want, Mapping
  <2>4. v \in CallRange /\ v # x =>
          (v < va + i <=> (pc' = "fill" => v < va + i'))
    BY <1>1, <1>3
  <2>5. v = x => (pc' = "fill" => v < va + i')
    BY <1>1, <1>3
  <2> HIDE DEF x
  <2> QED
    BY <2>1, <2>2, <2>3, <2>4, <2>5, <1>3, <1>4, <1>8
<1>11. Linked(d, W)'
  BY <1>5, <1>7, <1>9 DEF Linked
<1>12. Contents(d, W)'
  BY <1>9, <1>10 DEF Contents
<1>13. Standing(W)'
  <2>1. \A l, y : Required(l, y)' => Required(l, y)
    BY <1>1, <1>9 DEF Required
  <2> QED
    BY <2>1, <1>2, <1>9 DEF Standing
<1>14. NonEmpty(d, W)'
  <2>1. ASSUME NEW l \in 1 .. Last, NEW t \in TablesAt(l), W[l][t] \in Table,
               \A q \in Index : d[W[l][t]][q] = Zero
        PROVE  t \in Touched(l - 1)
    <3>1. \A q \in Index : c[W[l][t]][q] = Zero
      <4> TAKE q \in Index
      <4>1. d[W[l][t]][q] = e \/ d[W[l][t]][q] = c[W[l][t]][q]
        <5> HIDE DEF X
        <5> QED
          BY <2>1, <1>7
      <4> QED
        BY <4>1, <2>1, <1>4
    <3> QED
      BY <3>1, <2>1, <1>2 DEF NonEmpty
  <2>2. CASE pc' = "fill"
    BY <2>1, <2>2, <1>9 DEF NonEmpty, Mapping
  <2>3. CASE pc' = "idle"
    <3>1. \A v \in CallRange : Pointee(d, W, Last, v) # None
      <4> TAKE v \in CallRange
      <4>1. v \in Page /\ Pointee(d, W, Last, v) = space[v]
        BY <2>3, <1>1, <1>3, <1>10 DEF Want, Mapping
      <4>2. space[v] \in Frame \cup Device
        BY <1>1, <1>2 DEF Call, Mapping
      <4> QED
        BY <4>1, <4>2, PlacesApart
    <3>2. ASSUME NEW l \in 1 .. Last, NEW t \in TablesAt(l), W[l][t] \in Table
          PROVE  \E q \in Index : d[W[l][t]][q] # Zero
      <4> SUFFICES ASSUME \A q \in Index : d[W[l][t]][q] = Zero PROVE FALSE
        OBVIOUS
      <4>1. t \in Touched(l - 1)
        BY <2>1, <3>2
      <4> HIDE DEF X
      <4> QED
        BY <4>1, <3>1, <3>2, <1>1, <1>8, FilledTables
    <3> QED
      BY <3>2 DEF NonEmpty
  <2> QED
    BY <2>2, <2>3, <1>9
<1>15. Loops' /\ Call'
  <2>1. Loops'
    BY <1>1, <1>3, <1>9 DEF Loops
  <2> QED
    BY <2>1, <1>1, <1>2, <1>9 DEF Call, Mapping
<1>16. Accounts(d, W)'
  <2>1. /\ DataFrames' = DataFrames /\ InFlight(d, W)' = {} /\ InFlight(c, W) = {}
        /\ Fresh(W)' = {} /\ Fresh(W) = {} /\ TreeFrames(W)' = TreeFrames(W)
        /\ free' = free /\ kept' = kept /\ space' = space
    BY <1>1, <1>9 DEF DataFrames, InFlight, Fresh, TreeFrames
  <2> QED
    BY <2>1, <1>2 DEF Accounts
<1>17. Types'
  <2>1. DOMAIN tlb' \subseteq Page /\ \A v \in DOMAIN tlb' : tlb'[v] \in Present
    BY <1>1 DEF Types
  <2> QED
    BY <2>1, <1>1, <1>5, <1>7, <1>9 DEF Types, args
<1> QED
  BY <1>8, <1>11, <1>12, <1>13, <1>14, <1>15, <1>16, <1>17 DEF Sound

------------------------------------------------------------------------------
(* unmap_pages.                                                            *)

\* The pages of the call are those of its first page's entry, either all of
\* memory or all of a device.
LEMMA FreedPages ==
  ASSUME NEW c, NEW W, Sound(c, W), Types, pc = "free", NEW e, e = Read(Last, va)
  PROVE  /\ Freed(e, n) \subseteq Frame
         /\ Freed(e, n) = free \/ Freed(e, n) = free \cup InFlight(c, W)
         /\ Nx \subseteq {FALSE} => Freed(e, n) = free \cup InFlight(c, W)
<1> DEFINE f == Pointee(c, W, Last, va)
           I == InFlight(c, W)
<1>1. /\ Tree(c, W) /\ Linked(c, W) /\ Accounts(c, W) /\ Contents(c, W) /\ Call
      /\ mem = c /\ DOMAIN window = {} /\ free \subseteq Frame
  BY MemIsClean DEF Sound, Hole, Types
<1>2. /\ va \in CallRange /\ va \in Page /\ va \in Int /\ n \in Nat \ {0} /\ CallRange \subseteq Page
      /\ CallRange = va .. va + n - 1
  BY <1>1, RangeTouched DEF CallRange
<1> DEFINE g == W[Last][va \div Fan]
           k == va % Fan
<1>3. g \in Table /\ va \div Fan \in TablesAt(Last) /\ k \in Index /\ Last \in 0 .. Last
  BY <1>2, StepTables, EntryOfTable, EntriesOfLevels, Levels
<1>4. e = c[g][k] /\ e.frame = f /\ e \in Proper(Last)
  <2>1. Reach(Last, va \div Fan) = g
    BY <1>1, <1>3, ReachTable
  <2>2. e = c[g][k]
    BY <2>1, <1>1 DEF Read
  <2>3. c[g][k] \in Proper(Last)
    BY <1>1, <1>3 DEF Tree
  <2>4. f = c[g][k].frame
    BY <1>3 DEF Pointee
  <2> HIDE DEF f, g, k
  <2> QED
    BY <2>2, <2>3, <2>4
<1> HIDE DEF g, k
<1>5. \A u \in CallRange : Pointee(c, W, Last, u) \in Frame \cup Device
                           /\ Pointee(c, W, Last, u) = f + u - va
  BY <1>1, <1>2 DEF Contents
<1>6. f \in Frame \cup Device /\ f \in Int /\ Frames \in Nat
  BY <1>2, <1>5, PlacesApart
<1> HIDE DEF f
<1>7. I = {f + u - va : u \in CallRange} \cap Frame
  BY <1>5 DEF InFlight
<1>8. {f + u - va : u \in CallRange} = Run(f, n)
  <2>1. ASSUME NEW u \in CallRange PROVE f + u - va \in Run(f, n)
    BY <1>2, <1>6 DEF Run
  <2>2. ASSUME NEW p \in Run(f, n) PROVE \E u \in CallRange : p = f + u - va
    <3>1. p \in Int /\ f <= p /\ p <= f + n - 1
      BY <1>2, <1>6 DEF Run
    <3>2. va + p - f \in CallRange /\ p = f + (va + p - f) - va
      BY <3>1, <1>2, <1>6
    <3> QED
      BY <3>2
  <2> QED
    BY <2>1, <2>2
<1>9. I = Run(f, n) \cap Frame /\ Run(f, n) \subseteq Frame \cup Device
  <2>1. \A p \in Run(f, n) : p \in Frame \cup Device
    <3> TAKE p \in Run(f, n)
    <3>1. PICK u \in CallRange : p = f + u - va
      BY <1>8
    <3> QED
      BY <3>1, <1>5
  <2> QED
    BY <2>1, <1>7, <1>8
<1>10. I \cap free = {} /\ I \subseteq Frame
  <2>1. Apart(free, kept, DataFrames, I, TreeFrames(W) \cup Fresh(W))
    BY <1>1 DEF Accounts
  <2> HIDE DEF I
  <2>2. I \cap free = {}
    BY <2>1 DEF Apart
  <2> QED
    BY <2>2, <1>9
<1> HIDE DEF I
<1>11. CASE e.nx \/ f + n > Frames
  <2>1. Freed(e, n) = free
    BY <1>4, <1>11 DEF Freed
  <2>2. ASSUME Nx \subseteq {FALSE} PROVE I = {}
    <3>1. e.nx = FALSE
      <4>1. Zero.nx = FALSE
        BY EntryFields
      <4> QED
        BY <4>1, <2>2, <1>4, ProperFields
    <3>2. f + n > Frames
      BY <3>1, <1>11
    <3>3. f \notin Frame
      <4> SUFFICES ASSUME f \in Frame PROVE FALSE
        OBVIOUS
      <4>1. Frames \in Run(f, n)
        BY <3>2, <1>2, <1>6 DEF Frame, Run
      <4> QED
        BY <4>1, <1>9, PlacesApart
    <3>4. \A p \in Run(f, n) : p \notin Frame
      BY <3>3, <1>2, <1>6 DEF Run, Frame, Device, Bar
    <3> QED
      BY <3>4, <1>9
  <2> QED
    BY <2>1, <2>2, <1>1 DEF I
<1>12. CASE ~ (e.nx \/ f + n > Frames)
  <2>1. Freed(e, n) = (free \ Run(f, n)) \cup (Run(f, n) \ free)
    BY <1>4, <1>12 DEF Freed
  <2>2. Run(f, n) = I
    <3>1. \A p \in Run(f, n) : p \notin Device
      BY <1>2, <1>6, <1>12 DEF Run, Device, Bar
    <3> QED
      BY <3>1, <1>9
  <2>3. Freed(e, n) = free \cup I
    BY <2>1, <2>2, <1>10
  <2> QED
    BY <2>3, <1>1, <1>10 DEF I
<1> QED
  BY <1>11, <1>12

\* The pages go back to the allocator.
LEMMA FreeDataSound ==
  ASSUME WindowTlb = FALSE, NEW c, NEW W, Sound(c, W), Types, FreeData
  PROVE  Types' /\ Sound(c, W)'
<1>1. /\ pc = "free" /\ Access /\ free' = Freed(Read(Last, va), n) /\ pc' = "zero"
      /\ UNCHANGED <<mem, kept, space, tlb, args, i, j>> /\ window' = window
  BY AccessWindow DEF FreeData, Last
<1>2. /\ Tree(c, W) /\ Linked(c, W) /\ Accounts(c, W) /\ Contents(c, W) /\ Standing(W)
      /\ NonEmpty(c, W) /\ Loops /\ Call
  BY DEF Sound
<1> DEFINE I == InFlight(c, W)
<1>3. /\ free' \subseteq Frame /\ (free' = free \/ free' = free \cup I)
      /\ Nx \subseteq {FALSE} => free' = free \cup I
  BY <1>1, FreedPages
<1>4. /\ CallRange' = CallRange /\ (\A l : Touched(l)' = Touched(l))
      /\ (\A l, x : Required(l, x) /\ Required(l, x)') /\ ~ Hole /\ ~ Hole'
  BY <1>1 DEF args, Touched, Span, On, CallRange, Required, Hole
<1>5. Linked(c, W)'
  BY <1>1, <1>2, <1>4 DEF Linked
<1>6. Accounts(c, W)'
  <2> DEFINE D == DataFrames
             T == TreeFrames(W)
  <2>1. /\ DataFrames' = D /\ InFlight(c, W)' = {} /\ Fresh(W)' = {} /\ Fresh(W) = {}
        /\ TreeFrames(W)' = T /\ kept' = kept /\ space' = space
    BY <1>1 DEF DataFrames, InFlight, Fresh, TreeFrames
  <2>2. Apart(free, kept, D, I, T \cup {})
    BY <2>1, <1>2 DEF Accounts
  <2>3. Nx \subseteq {FALSE} => Frame \subseteq free \cup kept \cup D \cup I \cup T \cup {}
    BY <2>1, <1>2 DEF Accounts, D, T
  <2> HIDE DEF D, T, I
  <2>4. Apart(free', kept, D, {}, T \cup {})
    BY <2>2, <1>3, ApartElements
  <2>5. Nx \subseteq {FALSE} => Frame \subseteq free' \cup kept \cup D \cup {} \cup T \cup {}
    BY <2>3, <1>3
  <2> QED
    BY <2>1, <2>4, <2>5, <1>2 DEF Accounts, D, T
<1>7. Contents(c, W)'
  <2>1. \A v : Want(v)' = Want(v)
    BY <1>1, <1>4 DEF Want, Mapping, args
  <2>2. va' = va
    BY <1>1 DEF args
  <2> QED
    BY <2>1, <2>2, <1>1, <1>2, <1>4 DEF Contents
<1>8. Standing(W)' /\ NonEmpty(c, W)'
  BY <1>1, <1>2, <1>4 DEF Standing, NonEmpty
<1>9. Loops' /\ Call'
  BY <1>1, <1>2, <1>4 DEF Loops, Call, Mapping, args
<1>10. Types'
  BY <1>1, <1>3 DEF Types, args
<1> QED
  BY <1>2, <1>5, <1>6, <1>7, <1>8, <1>9, <1>10 DEF Sound

\* The entries are cleared: a table may be empty now.
LEMMA ClearEntriesSound ==
  ASSUME WindowTlb = FALSE, NEW c, NEW W, Sound(c, W), Types, ClearEntries
  PROVE  Types' /\ \E d : Sound(d, W)'
<1>1. /\ pc = "zero" /\ Access /\ mem' = Written(Last, CallRange, Zero) /\ pc' = "flush"
      /\ UNCHANGED <<free, kept, space, tlb, args, i, j>> /\ window' = window
  BY AccessWindow DEF ClearEntries, Last
<1>2. /\ Tree(c, W) /\ Linked(c, W) /\ Accounts(c, W) /\ Contents(c, W) /\ Standing(W)
      /\ NonEmpty(c, W) /\ Loops /\ Call
  BY DEF Sound
<1>3. PICK d : d = mem'
  OBVIOUS
<1> DEFINE X == CallRange
<1>4. X \subseteq Page /\ (\A u \in X : W[Last][u \div Fan] \in Table) /\ n \in Nat \ {0}
  BY <1>1, <1>2, RangeTouched, StepTables
<1>5. /\ Filled(c, d, W, X, Zero) /\ d \in [Table -> [Index -> Entries]]
      /\ \A h \in Table, q \in Index : d[h][q] = Zero \/ d[h][q] = c[h][q]
  <2>1. d = Written(Last, X, Zero)
    BY <1>1, <1>3
  <2> HIDE DEF X
  <2>2. ~ Hole /\ Zero \in Entries
    BY <1>1, EntryFields DEF Hole
  <2>3. X \subseteq Page /\ \A u \in X : W[Last][u \div Fan] \in Table
    BY <1>4
  <2>4. /\ Filled(c, Written(Last, X, Zero), W, X, Zero)
        /\ Written(Last, X, Zero) \in [Table -> [Index -> Entries]]
        /\ \A h \in Table, q \in Index :
             Written(Last, X, Zero)[h][q] = Zero \/ Written(Last, X, Zero)[h][q] = c[h][q]
    BY <2>2, <2>3, WrittenLeaves
  <2> QED
    BY <2>1, <2>4
<1>6. /\ Tree(d, W)
      /\ \A v \in Page :
           Pointee(d, W, Last, v) = IF v \in X THEN Zero.frame ELSE Pointee(c, W, Last, v)
      /\ \A l \in 0 .. Last : \A t \in TablesAt(l) : W[l][t] \in Table /\ l # Last =>
           \A q \in Index : d[W[l][t]][q] = c[W[l][t]][q]
  <2>1. Zero \in Proper(Last)
    BY ProperFields, Levels
  <2> HIDE DEF X
  <2> QED
    BY <2>1, <1>2, <1>5, LeafTree
<1>7. /\ CallRange' = CallRange /\ (\A l : Touched(l)' = Touched(l))
      /\ (\A l, x : Required(l, x) /\ Required(l, x)') /\ ~ Hole /\ ~ Hole'
  BY <1>1 DEF args, Touched, Span, On, CallRange, Required, Hole
<1>8. Linked(d, W)'
  <2>1. mem' = d /\ pc' # "clear"
    BY <1>1, <1>3
  <2> QED
    BY <2>1, <1>5, <1>7 DEF Linked
<1>9. Contents(d, W)'
  <2> SUFFICES ASSUME NEW v \in Page PROVE Pointee(d, W, Last, v) = Want(v)'
    BY <1>1 DEF Contents
  <2>1. Want(v)' = space[v]
    BY <1>1 DEF Want, Mapping
  <2>2. CASE v \in CallRange
    <3>1. space[v] = None
      BY <2>2, <1>1, <1>2 DEF Call, Mapping
    <3> QED
      BY <3>1, <2>1, <2>2, <1>6, EntryFields
  <2>3. CASE v \notin CallRange
    <3>1. Pointee(c, W, Last, v) = space[v]
      BY <2>3, <1>1, <1>2 DEF Contents, Want, Mapping
    <3> QED
      BY <3>1, <2>1, <2>3, <1>6
  <2> QED
    BY <2>2, <2>3
<1>10. Standing(W)'
  BY <1>2, <1>7 DEF Standing
<1>11. NonEmpty(d, W)'
  <2> SUFFICES ASSUME NEW l \in 1 .. Last, NEW t \in TablesAt(l), W[l][t] \in Table,
                      \A q \in Index : d[W[l][t]][q] = Zero
               PROVE  t \in Touched(l - 1)
    BY <1>1, <1>7 DEF NonEmpty
  <2>1. CASE \A q \in Index : d[W[l][t]][q] = c[W[l][t]][q]
    BY <2>1, <1>2 DEF NonEmpty
  <2>2. CASE \E q \in Index : d[W[l][t]][q] # c[W[l][t]][q]
    <3>1. PICK q \in Index : d[W[l][t]][q] # c[W[l][t]][q]
      BY <2>2
    <3>2. l = Last /\ l \in 0 .. Last
      BY <3>1, <1>6, Levels
    <3>3. PICK u \in CallRange : W[Last][u \div Fan] = W[l][t]
      <4> HIDE DEF X
      <4>1. \E u \in X : W[Last][u \div Fan] = W[l][t]
        BY <3>1, <1>5 DEF Filled
      <4> QED
        BY <4>1 DEF X
    <3>4. u \in Page /\ u \div Fan \in TablesAt(Last)
      BY <3>2, <1>4, EntryOfTable, EntriesOfLevels
    <3>5. t = u \div Fan
      BY <3>2, <3>3, <3>4, <1>2 DEF Tree
    <3>6. u \div Fan \in Touched(Last - 1)
      <4>1. u \in Touched(Last)
        BY <1>1, <1>2, RangeTouched
      <4>2. va \in Page /\ n \in Nat \ {0} /\ va .. va + n - 1 \subseteq Page /\ Last \in 1 .. Last
        BY <1>1, <1>2, Levels DEF Call, CallRange
      <4> QED
        BY <4>1, <4>2, SpanLevels DEF Touched
    <3> QED
      BY <3>2, <3>5, <3>6
  <2> QED
    BY <2>1, <2>2
<1>12. Loops' /\ Call'
  <2>1. Loops'
    BY <1>1, <1>2, <1>4 DEF Loops, args
  <2> QED
    BY <2>1, <1>1, <1>2, <1>7 DEF Call, Mapping, args
<1>13. Accounts(d, W)'
  <2>1. /\ DataFrames' = DataFrames /\ InFlight(d, W)' = {} /\ InFlight(c, W) = {}
        /\ Fresh(W)' = {} /\ Fresh(W) = {} /\ TreeFrames(W)' = TreeFrames(W)
        /\ free' = free /\ kept' = kept /\ space' = space
    BY <1>1 DEF DataFrames, InFlight, Fresh, TreeFrames
  <2> QED
    BY <2>1, <1>2 DEF Accounts
<1>14. Types'
  BY <1>1, <1>3, <1>5 DEF Types, args
<1> QED
  BY <1>6, <1>8, <1>9, <1>10, <1>11, <1>12, <1>13, <1>14 DEF Sound

\* The pages' translations are flushed; then the last level is looked at.
LEMMA FlushPageSound ==
  ASSUME NEW c, NEW W, Sound(c, W), Types, FlushPage
  PROVE  Types' /\ Sound(c, W)'
<1>1. /\ pc = "flush" /\ tlb' = [v \in DOMAIN tlb \ {va + i} |-> tlb[v]]
      /\ IF i + 1 < n THEN i' = i + 1 /\ pc' = "flush" ELSE i' = 0 /\ pc' = "prune"
      /\ UNCHANGED <<mem, free, kept, space, window, args, j>>
  BY DEF FlushPage, Invlpg
<1>2. /\ Tree(c, W) /\ Linked(c, W) /\ Accounts(c, W) /\ Contents(c, W) /\ Standing(W)
      /\ NonEmpty(c, W) /\ Loops /\ Call
  BY DEF Sound
<1>3. /\ i \in 0 .. n - 1 /\ j = 0 /\ n \in Nat \ {0}
  BY <1>1, <1>2, RangeTouched DEF Loops
<1>4. /\ CallRange' = CallRange /\ (\A l : Touched(l)' = Touched(l)) /\ pc' \in {"flush", "prune"}
      /\ (\A l, x : Required(l, x)) /\ ~ Hole /\ ~ Hole' /\ j' = 0
  BY <1>1, <1>3 DEF args, Touched, Span, On, CallRange, Required, Hole
<1> DEFINE p == Depth - 2
<1>5. /\ p \in 0 .. Last /\ Last = p + 1 /\ Nums(p)' = Nums(p) /\ Nums(p) \in Nat \ {0}
      /\ On(p, va) \in Int /\ Touched(p) = On(p, va) .. On(p, va) + Nums(p) - 1
      /\ On(p, va)' = On(p, va)
  <2>1. p \in 0 .. Last /\ Last = p + 1
    BY DEF Last
  <2>2. Nums(p)' = Nums(p) /\ On(p, va)' = On(p, va)
    BY <1>1 DEF args, Nums, On
  <2> HIDE DEF p
  <2>3. /\ Nums(p) \in Nat \ {0} /\ On(p, va) \in Int
        /\ Touched(p) = On(p, va) .. On(p, va) + Nums(p) - 1
    BY <2>1, <1>1, <1>2, TouchedEntries
  <2> QED
    BY <2>1, <2>2, <2>3
<1>6. pc' = "prune" => i' = 0 /\ Parent' = p /\ Slot(p)' = On(p, va)
  <2>1. pc' = "prune" => i' = 0 /\ Parent' = p - 0
    BY <1>1 DEF Parent
  <2>2. Slot(p)' = On(p, va)' + j'
    BY DEF Slot, On
  <2> HIDE DEF p
  <2> QED
    BY <2>1, <2>2, <1>4, <1>5
<1> HIDE DEF p
<1>7. ASSUME NEW l \in 1 .. Last, NEW t \in Touched(l - 1)
      PROVE  Required(l, t)'
  <2>1. CASE pc' = "flush"
    BY <2>1 DEF Required
  <2>2. CASE pc' = "prune"
    <3>1. l <= p \/ l = p + 1
      BY <1>5
    <3>2. l = p + 1 => t >= On(p, va)
      BY <1>5
    <3>3. Required(l, t)' <=> l <= Parent' \/ (l = Parent' + 1 /\ t >= Slot(Parent)')
      BY <2>2 DEF Required
    <3>4. Slot(Parent)' = Slot(p)' /\ Parent' = p
      BY <2>2, <1>6 DEF Slot
    <3> QED
      BY <2>2, <3>1, <3>2, <3>3, <3>4, <1>6
  <2> QED
    BY <2>1, <2>2, <1>4
<1>8. Linked(c, W)'
  BY <1>1, <1>2, <1>4 DEF Linked
<1>9. Contents(c, W)'
  <2>1. \A v : Want(v) = space[v] /\ Want(v)' = space[v]
    BY <1>1, <1>4 DEF Want, Mapping
  <2> QED
    BY <2>1, <1>1, <1>2, <1>4 DEF Contents
<1>10. Standing(W)'
  BY <1>2, <1>4 DEF Standing
<1>11. NonEmpty(c, W)'
  BY <1>2, <1>4, <1>7 DEF NonEmpty
<1>12. Loops' /\ Call'
  <2>1. pc' = "prune" => i' \in 0 .. Depth - 2 /\ j' \in 0 .. Nums(Parent)' - 1
    <3>1. pc' = "prune" => Nums(Parent)' = Nums(p)'
      BY <1>1, <1>6 DEF Nums, args
    <3> QED
      BY <3>1, <1>4, <1>5, <1>6
  <2>2. pc' = "flush" => i' \in 0 .. n - 1 /\ j' = 0 /\ n' = n
    BY <1>1, <1>3, <1>4 DEF args
  <2>3. Loops'
    BY <2>1, <2>2, <1>4 DEF Loops
  <2> QED
    BY <2>3, <1>1, <1>2, <1>4 DEF Call, Mapping, args
<1>13. Accounts(c, W)'
  <2>1. /\ DataFrames' = DataFrames /\ InFlight(c, W)' = {} /\ InFlight(c, W) = {}
        /\ Fresh(W)' = {} /\ Fresh(W) = {} /\ TreeFrames(W)' = TreeFrames(W)
        /\ free' = free /\ kept' = kept /\ space' = space
    BY <1>1, <1>4 DEF DataFrames, InFlight, Fresh, TreeFrames
  <2> QED
    BY <2>1, <1>2 DEF Accounts
<1>14. Types'
  <2>1. DOMAIN tlb' \subseteq Page /\ \A v \in DOMAIN tlb' : tlb'[v] \in Present
    BY <1>1 DEF Types
  <2> QED
    BY <2>1, <1>1, <1>4 DEF Types, args
<1> QED
  BY <1>2, <1>8, <1>9, <1>10, <1>11, <1>12, <1>13, <1>14 DEF Sound

\* This table is done: the loop goes on.
LEMMA AdvancedDown ==
  ASSUME Loops, Call, pc \in {"prune", "unlink"}, Advance(Parent, "prune", "idle"),
         UNCHANGED <<space, args>>, NEW d, NEW V,
         \A v \in Page : Pointee(d, V, Last, v) = Want(v),
         \A l \in 1 .. Last : \A x \in Touched(l - 1) :
           l <= Parent \/ (l = Parent + 1 /\ x > Slot(Parent)) => V[l][x] \in Table,
         \A l \in 1 .. Last : \A t \in TablesAt(l) :
           V[l][t] \in Table /\ (\A k \in Index : d[V[l][t]][k] = Zero)
             => t \in Touched(l - 1) /\ (l <= Parent \/ (l = Parent + 1 /\ t > Slot(Parent)))
  PROVE  /\ Contents(d, V)' /\ Standing(V)' /\ NonEmpty(d, V)' /\ Loops' /\ Call'
         /\ pc' \in {"prune", "idle"} /\ ~ Hole'
<1>1. va' = va /\ n' = n /\ pa' = pa /\ nx' = nx /\ space' = space
  BY DEF args
<1>2. /\ Loops' /\ pc' \in {"prune", "idle"}
      /\ \A l \in 1 .. Last : \A x \in Touched(l - 1) :
           Required(l, x)' <=> l <= Parent \/ (l = Parent + 1 /\ x > Slot(Parent))
  BY <1>1, AdvanceDown
<1>3. CallRange' = CallRange /\ \A l : Touched(l)' = Touched(l)
  BY <1>1 DEF CallRange, Touched, Span, On
<1>4. Contents(d, V)'
  <2>1. \A v \in Page : Want(v)' = Want(v)
    BY <1>1, <1>2 DEF Want, Mapping
  <2> QED
    BY <2>1, <1>2 DEF Contents
<1>5. Standing(V)'
  BY <1>2, <1>3 DEF Standing
<1>6. NonEmpty(d, V)'
  <2> SUFFICES ASSUME NEW l \in 1 .. Last, NEW t \in TablesAt(l), V[l][t] \in Table,
                      \A k \in Index : d[V[l][t]][k] = Zero
               PROVE  pc' # "idle" /\ t \in Touched(l - 1)' /\ (Mapping' \/ Required(l, t)')
    BY DEF NonEmpty
  <2>1. t \in Touched(l - 1) /\ (l <= Parent \/ (l = Parent + 1 /\ t > Slot(Parent)))
    OBVIOUS
  <2>2. Required(l, t)'
    BY <2>1, <1>2
  <2>3. pc' # "idle"
    BY <2>2 DEF Required
  <2> QED
    BY <2>1, <2>2, <2>3, <1>3
<1>7. Call'
  BY <1>1, <1>2, <1>3 DEF Call, Mapping
<1>8. ~ Hole'
  BY <1>2 DEF Hole
<1> QED
  BY <1>2, <1>4, <1>5, <1>6, <1>7, <1>8

\* A table that has an entry stays.
LEMMA KeepFullSound ==
  ASSUME WindowTlb = FALSE, NEW c, NEW W, Sound(c, W), Types, KeepFull
  PROVE  Types' /\ Sound(c, W)'
<1>1. /\ pc = "prune" /\ Access /\ ~ AllZero /\ Advance(Parent, "prune", "idle")
      /\ UNCHANGED <<mem, free, kept, space, tlb, args>> /\ window' = window
  BY AccessWindow DEF KeepFull
<1>2. /\ Tree(c, W) /\ Linked(c, W) /\ Accounts(c, W) /\ Contents(c, W) /\ Standing(W)
      /\ NonEmpty(c, W) /\ Loops /\ Call /\ mem = c /\ DOMAIN window = {}
  BY <1>1, MemIsClean DEF Sound, Hole, Types
<1> DEFINE p == Parent
           s == Slot(p)
           f == W[p + 1][s]
<1>3. /\ p \in 0 .. Last /\ p # Last /\ p \in Int /\ s \in Touched(p) /\ s \in EntriesAt(p)
      /\ s \in Int /\ f \in Table
  BY <1>1, <1>2, SlotTouched, StepTables
<1>4. \E q \in Index : c[f][q] # Zero
  <2>1. PICK x \in Below(s) : Read(p + 1, x) # Zero
    BY <1>1 DEF AllZero
  <2> HIDE DEF s, p
  <2>2. x \div Fan = s /\ x % Fan \in Index /\ s \in TablesAt(p + 1) /\ p + 1 \in 0 .. Last
    BY <2>1, <1>3, BelowEntries
  <2>3. Reach(p + 1, s) = f
    BY <2>2, <1>2, <1>3, ReachTable
  <2>4. Read(p + 1, x) = c[f][x % Fan]
    BY <2>2, <2>3, <1>2 DEF Read
  <2> QED
    BY <2>1, <2>2, <2>4
<1>5. \A v \in Page : Pointee(c, W, Last, v) = Want(v)
  BY <1>1, <1>2 DEF Contents
<1>6. ASSUME NEW l \in 1 .. Last, NEW x \in Touched(l - 1),
             l <= Parent \/ (l = Parent + 1 /\ x > Slot(Parent))
      PROVE  W[l][x] \in Table
  <2>1. x \in Int
    <3>1. l - 1 \in 0 .. Last
      BY Levels
    <3>2. x \in EntriesAt(l - 1)
      BY <3>1, <1>1, <1>2, TouchedEntries
    <3> QED
      BY <3>1, <3>2, EntryOfTable
  <2>2. Required(l, x)
    BY <2>1, <1>1, <1>3, <1>6 DEF Required
  <2> QED
    BY <2>2, <1>2 DEF Standing
<1>7. ASSUME NEW l \in 1 .. Last, NEW t \in TablesAt(l), W[l][t] \in Table,
             \A q \in Index : c[W[l][t]][q] = Zero
      PROVE  t \in Touched(l - 1) /\ (l <= Parent \/ (l = Parent + 1 /\ t > Slot(Parent)))
  <2>1. t \in Touched(l - 1) /\ Required(l, t)
    BY <1>1, <1>2, <1>7 DEF NonEmpty, Mapping
  <2>2. ~ (l = p + 1 /\ t = s)
    BY <1>4, <1>7
  <2>3. t \in Int
    <3>1. l - 1 \in 0 .. Last
      BY Levels
    <3>2. t \in EntriesAt(l - 1)
      BY <2>1, <3>1, <1>1, <1>2, TouchedEntries
    <3> QED
      BY <3>1, <3>2, EntryOfTable
  <2>4. l <= p \/ (l = p + 1 /\ t >= s)
    BY <2>1, <1>1 DEF Required
  <2>5. l <= p \/ (l = p + 1 /\ t > s)
    <3> HIDE DEF s, p
    <3> QED
      BY <2>2, <2>3, <2>4, <1>3
  <2> QED
    BY <2>1, <2>5
<1>8. /\ Contents(c, W)' /\ Standing(W)' /\ NonEmpty(c, W)' /\ Loops' /\ Call'
      /\ pc' \in {"prune", "idle"} /\ ~ Hole'
  <2>1. UNCHANGED <<space, args>> /\ pc \in {"prune", "unlink"}
    BY <1>1
  <2> QED
    BY <2>1, <1>1, <1>2, <1>5, <1>6, <1>7, AdvancedDown
<1>9. Linked(c, W)'
  BY <1>1, <1>2, <1>8 DEF Linked
<1>10. Accounts(c, W)'
  <2>1. /\ DataFrames' = DataFrames /\ InFlight(c, W)' = {} /\ InFlight(c, W) = {}
        /\ Fresh(W)' = {} /\ Fresh(W) = {} /\ TreeFrames(W)' = TreeFrames(W)
        /\ free' = free /\ kept' = kept /\ space' = space
    BY <1>1, <1>8 DEF DataFrames, InFlight, Fresh, TreeFrames
  <2> QED
    BY <2>1, <1>2 DEF Accounts
<1>11. Types'
  BY <1>1, <1>8 DEF Types, args
<1> QED
  BY <1>2, <1>8, <1>9, <1>10, <1>11 DEF Sound

\* The entry of the table given back is cleared: mem is the tree again.
LEMMA UnlinkTableSound ==
  ASSUME WindowTlb = FALSE, NEW c, NEW W, Sound(c, W), Types, UnlinkTable
  PROVE  Types' /\ Sound(c, W)'
<1> DEFINE p == Parent
           s == Slot(p)
           g == W[p][s \div Fan]
           k == s % Fan
<1>1. /\ pc = "unlink" /\ Access /\ mem' = Written(p, {s}, Zero)
      /\ Advance(Parent, "prune", "idle")
      /\ UNCHANGED <<free, kept, space, tlb, args>> /\ window' = window
  BY AccessWindow DEF UnlinkTable
<1>2. /\ Tree(c, W) /\ Linked(c, W) /\ Accounts(c, W) /\ Contents(c, W) /\ Standing(W)
      /\ NonEmpty(c, W) /\ Loops /\ Call /\ DOMAIN window = {}
      /\ mem \in [Table -> [Index -> Entries]] /\ c \in [Table -> [Index -> Entries]]
  BY DEF Sound, Types, Tree
<1>3. /\ p \in 0 .. Last /\ p # Last /\ p \in Int /\ s \in Touched(p) /\ s \in EntriesAt(p)
      /\ s \in Int /\ g \in Table /\ k \in Index /\ s \div Fan \in TablesAt(p)
  BY <1>1, <1>2, SlotTouched, StepTables, EntryOfTable DEF Hole, HoleFrame, HoleLevel
<1>4. /\ c[g][k] = Zero
      /\ \A h \in Table, q \in Index : ~ (h = g /\ q = k) => mem[h][q] = c[h][q]
  <2>1. Hole /\ HoleFrame(W) = g /\ HoleIndex = k
    BY <1>1 DEF HoleFrame, HoleIndex, HoleLevel, Hole
  <2> HIDE DEF g, k
  <2> QED
    BY <2>1, <1>2 DEF Linked
<1>5. mem' = c
  <2>1. Reach(p, s \div Fan) = g
    BY <1>2, <1>3, ReachTable
  <2>2. \A x \in {s} : Reach(p, x \div Fan) = g /\ x % Fan = k
    BY <2>1
  <2> HIDE DEF p, s, g, k
  <2>3. /\ mem' \in [Table -> [Index -> Entries]]
        /\ \A h \in Table, q \in Index : mem'[h][q] = IF h = g /\ q = k THEN Zero ELSE mem[h][q]
    <3>1. Zero \in Entries
      BY EntryFields
    <3> QED
      BY <2>2, <3>1, <1>1, <1>2, WrittenValue
  <2>4. \A h \in Table : \A q \in Index : mem'[h][q] = c[h][q]
    BY <2>3, <1>4
  <2>5. \A h \in Table : mem'[h] = c[h]
    <3> TAKE h \in Table
    <3>1. mem'[h] \in [Index -> Entries] /\ c[h] \in [Index -> Entries]
      BY <2>3, <1>2
    <3> QED
      BY <3>1, <2>4
  <2> QED
    BY <2>3, <2>5, <1>2
<1>6. \A v \in Page : Pointee(c, W, Last, v) = Want(v)
  BY <1>1, <1>2 DEF Contents
<1>7. ASSUME NEW l \in 1 .. Last, NEW x \in Touched(l - 1),
             l <= Parent \/ (l = Parent + 1 /\ x > Slot(Parent))
      PROVE  W[l][x] \in Table
  <2>1. Required(l, x)
    BY <1>1, <1>7 DEF Required
  <2> QED
    BY <2>1, <1>2 DEF Standing
<1>8. ASSUME NEW l \in 1 .. Last, NEW t \in TablesAt(l), W[l][t] \in Table,
             \A q \in Index : c[W[l][t]][q] = Zero
      PROVE  t \in Touched(l - 1) /\ (l <= Parent \/ (l = Parent + 1 /\ t > Slot(Parent)))
  <2>1. t \in Touched(l - 1) /\ Required(l, t)
    BY <1>1, <1>2, <1>8 DEF NonEmpty, Mapping
  <2> QED
    BY <2>1, <1>1 DEF Required
<1>9. /\ Contents(c, W)' /\ Standing(W)' /\ NonEmpty(c, W)' /\ Loops' /\ Call'
      /\ pc' \in {"prune", "idle"} /\ ~ Hole'
  <2>1. UNCHANGED <<space, args>> /\ pc \in {"prune", "unlink"}
    BY <1>1
  <2> QED
    BY <2>1, <1>1, <1>2, <1>6, <1>7, <1>8, AdvancedDown
<1>10. Linked(c, W)'
  BY <1>2, <1>5, <1>9 DEF Linked
<1>11. Accounts(c, W)'
  <2>1. /\ DataFrames' = DataFrames /\ InFlight(c, W)' = {} /\ InFlight(c, W) = {}
        /\ Fresh(W)' = {} /\ Fresh(W) = {} /\ TreeFrames(W)' = TreeFrames(W)
        /\ free' = free /\ kept' = kept /\ space' = space
    BY <1>1, <1>9 DEF DataFrames, InFlight, Fresh, TreeFrames
  <2> QED
    BY <2>1, <1>2 DEF Accounts
<1>12. Types'
  BY <1>1, <1>2, <1>5, <1>9 DEF Types, args
<1> QED
  BY <1>2, <1>9, <1>10, <1>11, <1>12 DEF Sound

\* An empty table goes back to the allocator while its entry still points to
\* it: the tree is without it already.
LEMMA FreeTableSound ==
  ASSUME WindowTlb = FALSE, NEW c, NEW W, Sound(c, W), Types, FreeTable
  PROVE  Types' /\ \E d, V : Sound(d, V)'
<1> DEFINE p == Parent
           s == Slot(p)
           g == W[p][s \div Fan]
           k == s % Fan
           f == W[p + 1][s]
<1>1. /\ pc = "prune" /\ Access /\ AllZero /\ free' = Freed(Read(p, s), 1) /\ pc' = "unlink"
      /\ UNCHANGED <<mem, kept, space, tlb, args, i, j>> /\ window' = window
  BY AccessWindow DEF FreeTable
<1>2. /\ Tree(c, W) /\ Linked(c, W) /\ Accounts(c, W) /\ Contents(c, W) /\ Standing(W)
      /\ NonEmpty(c, W) /\ Loops /\ Call /\ mem = c /\ DOMAIN window = {}
      /\ mem \in [Table -> [Index -> Entries]] /\ free \subseteq Frame
  BY <1>1, MemIsClean DEF Sound, Hole, Types
<1>3. /\ p \in 0 .. Last /\ p # Last /\ p \in Int /\ s \in Touched(p) /\ s \in EntriesAt(p)
      /\ s \in Int /\ g \in Table /\ k \in Index /\ s \div Fan \in TablesAt(p) /\ f \in Table
  BY <1>1, <1>2, SlotTouched, StepTables, EntryOfTable
<1>4. /\ p + 1 \in 1 .. Last /\ p + 1 \in 0 .. Last /\ (p + 1) - 1 = p /\ s \in TablesAt(p + 1)
      /\ \A y \in Below(s) : y \div Fan = s /\ y % Fan \in Index
      /\ \A q \in Index : \E y \in Below(s) : y \div Fan = s /\ y % Fan = q
  <2> HIDE DEF p, s
  <2>1. (p + 1) - 1 = p
    BY <1>3
  <2> QED
    BY <2>1, <1>3, BelowEntries
<1>5. f = c[g][k].frame /\ c[g][k] \in Proper(p)
  <2>1. f = Pointee(c, W, p, s)
    <3> HIDE DEF p, s
    <3> QED
      BY <1>2, <1>4 DEF Tree, Walks
  <2>2. Pointee(c, W, p, s) = c[g][k].frame
    BY <1>3 DEF Pointee
  <2>3. c[g][k] \in Proper(p)
    <3> HIDE DEF p, s, k
    <3> QED
      BY <1>2, <1>3 DEF Tree
  <2> QED
    BY <2>1, <2>2, <2>3
<1> HIDE DEF p, s, g, k, f
<1>6. Reach(p, s \div Fan) = g /\ Reach(p + 1, s) = f
  <2>1. Reach(p, s \div Fan) = W[p][s \div Fan]
    BY <1>2, <1>3, ReachTable DEF g
  <2>2. Reach(p + 1, s) = W[p + 1][s]
    BY <1>2, <1>3, <1>4, ReachTable DEF f
  <2> QED
    BY <2>1, <2>2 DEF g, f
<1>7. f \in Frame /\ c[g][k].nx = FALSE
  <2>1. c[g][k] # Zero
    BY <1>3, <1>5, EntryFields, PlacesApart
  <2> QED
    BY <2>1, <1>3, <1>5, ProperFields
<1>8. \A q \in Index : c[f][q] = Zero
  <2> TAKE q \in Index
  <2>1. PICK y \in Below(s) : y \div Fan = s /\ y % Fan = q
    BY <1>4
  <2>2. Read(p + 1, y) = Zero
    BY <2>1, <1>1 DEF AllZero, p, s
  <2> QED
    BY <2>1, <2>2, <1>2, <1>6 DEF Read
<1>9. \A m \in 0 .. Last : \A u \in TablesAt(m) : W[m][u] = f <=> m = p + 1 /\ u = s
  <2> TAKE m \in 0 .. Last
  <2> TAKE u \in TablesAt(m)
  <2>1. W[m][u] = f => m = p + 1 /\ u = s
    <3>1. W[m][u] = f => W[m][u] \in Table /\ W[m][u] = W[p + 1][s]
      BY <1>3 DEF f
    <3> QED
      BY <3>1, <1>2, <1>4 DEF Tree
  <2>2. m = p + 1 /\ u = s => W[m][u] = f
    BY DEF f
  <2> QED
    BY <2>1, <2>2
<1>10. free' = free \cup {f} /\ f \notin free
  <2>1. f \notin free
    <3>1. \A m \in 0 .. Last : \A u \in TablesAt(m) : W[m][u] \notin free
      BY <1>2, TreeNotFree
    <3> QED
      BY <3>1, <1>4 DEF f
  <2> DEFINE e == Read(p, s)
  <2>2. e.frame = f /\ e.nx = FALSE
    BY <1>2, <1>5, <1>6, <1>7 DEF Read, k
  <2>3. Freed(e, 1) = (free \ Run(f, 1)) \cup (Run(f, 1) \ free)
    <3>1. ~ (f + 1 > Frames)
      BY <1>7 DEF Frame
    <3> HIDE DEF e
    <3> QED
      BY <2>2, <3>1 DEF Freed
  <2>4. Run(f, 1) = {f}
    BY <1>7 DEF Run, Frame
  <2> QED
    BY <2>1, <2>3, <2>4, <1>1
<1>11. PICK d : d = [h \in Table |-> [q \in Index |-> IF h = g /\ q = k THEN Zero ELSE c[h][q]]]
  OBVIOUS
<1>12. PICK V : V = With(W, p + 1, s, None)
  OBVIOUS
<1>13. /\ d \in [Table -> [Index -> Entries]]
       /\ \A h \in Table, q \in Index : d[h][q] = IF h = g /\ q = k THEN Zero ELSE c[h][q]
  BY <1>2, <1>11, EntryFields
<1>14. \A m \in 0 .. Last : \A u \in TablesAt(m) :
         V[m][u] = IF m = p + 1 /\ u = s THEN None ELSE W[m][u]
  BY <1>12, WithValue
<1>15. /\ Tree(d, V)
       /\ \A v \in Page : Pointee(d, V, Last, v) = Pointee(c, W, Last, v)
  <2>1. Bare(c, W, p, s)
    BY <1>8 DEF Bare, f
  <2>2. Zero \in Proper(p) /\ Zero.frame = None /\ None \notin Frame
    BY <1>3, ProperFields, EntryFields, PlacesApart
  <2>3. d[W[p][s \div Fan]][s % Fan] = Zero /\ W[p][s \div Fan] \in Table
    BY <1>3, <1>13 DEF g, k
  <2>4. \A h \in Table, q \in Index :
          h # Zero.frame /\ ~ (h = W[p][s \div Fan] /\ q = s % Fan) => d[h][q] = c[h][q]
    BY <1>13 DEF g, k
  <2>5. p \in 0 .. Last /\ p # Last /\ s \in EntriesAt(p) /\ Tree(c, W)
    BY <1>2, <1>3
  <2>6. d \in [Table -> [Index -> Entries]]
    BY <1>13
  <2>7. /\ Tree(d, With(W, p + 1, s, Zero.frame))
        /\ \A v \in Page :
             Pointee(d, With(W, p + 1, s, Zero.frame), Last, v) = Pointee(c, W, Last, v)
    BY <2>1, <2>2, <2>3, <2>4, <2>5, <2>6, Graft
  <2> QED
    BY <2>2, <2>7, <1>12
<1>16. /\ Hole' /\ HoleFrame(V)' = g /\ HoleIndex' = k /\ pc' # "clear"
       /\ CallRange' = CallRange /\ (\A l : Touched(l)' = Touched(l)) /\ Parent' = Parent
       /\ \A l : Slot(l)' = Slot(l)
  <2>1. V[p][s \div Fan] = g
    <3>1. p # p + 1
      BY <1>3
    <3> QED
      BY <3>1, <1>3, <1>14 DEF g
  <2>2. Parent' = Parent /\ \A l : Slot(l)' = Slot(l)
    BY <1>1 DEF args, Parent, Slot
  <2>3. HoleLevel' = p
    BY <2>2, <1>1 DEF HoleLevel, p
  <2>4. Slot(HoleLevel)' = s
    BY <2>2, <2>3 DEF s, Slot
  <2>5. HoleFrame(V)' = g
    BY <2>1, <2>3, <2>4 DEF HoleFrame
  <2>6. HoleIndex' = k
    BY <2>4 DEF HoleIndex, k
  <2>7. Hole' /\ CallRange' = CallRange /\ \A l : Touched(l)' = Touched(l)
    BY <1>1 DEF args, Hole, CallRange, Touched, Span, On
  <2> QED
    BY <2>2, <2>5, <2>6, <2>7, <1>1
<1>17. Linked(d, V)'
  BY <1>1, <1>2, <1>3, <1>13, <1>16 DEF Linked
<1>18. Accounts(d, V)'
  <2> DEFINE D == DataFrames
             T == TreeFrames(W)
             F == {f}
  <2>1. /\ DataFrames' = D /\ InFlight(d, V)' = {} /\ InFlight(c, W) = {}
        /\ Fresh(V)' = {} /\ Fresh(W) = {} /\ kept' = kept /\ space' = space
    BY <1>1 DEF DataFrames, InFlight, Fresh
  <2>2. TreeFrames(V) = T \ F /\ TreeFrames(V)' = TreeFrames(V) /\ F \subseteq T
    <3>1. TreeFrames(V) = T \ F
      BY <1>4, <1>7, <1>9, <1>12, WithFrames
    <3>2. f \in T
      BY <1>4, <1>7, <1>9 DEF TreeFrames
    <3> QED
      BY <3>1, <3>2 DEF TreeFrames
  <2>3. Apart(free, kept, D, {}, T \cup {})
    BY <2>1, <1>2 DEF Accounts
  <2>4. Nx \subseteq {FALSE} => Frame \subseteq free \cup kept \cup D \cup {} \cup T \cup {}
    BY <2>1, <1>2 DEF Accounts, D, T
  <2>5. \A u, v \in Page : space[u] \in Frame /\ space[u] = space[v] => u = v
    BY <1>2 DEF Accounts
  <2>6. free' = free \cup F
    BY <1>10
  <2> HIDE DEF D, T, F
  <2>7. Apart(free', kept, D, {}, (T \ F) \cup {})
    BY <2>2, <2>3, <2>6, ApartElements
  <2>8. Nx \subseteq {FALSE} => Frame \subseteq free' \cup kept \cup D \cup {} \cup (T \ F) \cup {}
    BY <2>4, <2>6
  <2> QED
    BY <2>1, <2>2, <2>5, <2>7, <2>8 DEF Accounts
<1>19. Contents(d, V)'
  <2>1. \A v : Want(v)' = Want(v)
    BY <1>1, <1>16 DEF Want, Mapping, args
  <2> QED
    BY <2>1, <1>1, <1>2, <1>15 DEF Contents
<1>20. /\ \A l, x : Required(l, x)' <=> l <= p \/ (l = p + 1 /\ x > s)
       /\ \A l, x : Required(l, x) <=> l <= p \/ (l = p + 1 /\ x >= s)
  <2>1. Slot(Parent)' = s
    BY <1>16 DEF p, s, Slot
  <2> QED
    BY <2>1, <1>1, <1>16 DEF Required, p, s
<1>21. \A l \in 1 .. Last : /\ l \in 0 .. Last /\ l \in Int
                            /\ \A x \in Touched(l - 1) : x \in Int /\ x \in TablesAt(l)
  <2> TAKE l \in 1 .. Last
  <2>1. l \in 0 .. Last /\ l \in Int /\ l - 1 \in 0 .. Last /\ l - 1 # Last /\ (l - 1) + 1 = l
    BY Levels
  <2>2. \A x \in Touched(l - 1) : x \in EntriesAt(l - 1)
    BY <2>1, <1>1, <1>2, TouchedEntries
  <2> QED
    BY <2>1, <2>2, EntryOfTable, EntriesOfLevels
<1>22. Standing(V)'
  <2> SUFFICES ASSUME NEW l \in 1 .. Last, NEW x \in Touched(l - 1), Required(l, x)'
               PROVE  V[l][x] \in Table
    BY <1>16 DEF Standing
  <2>1. l \in 0 .. Last /\ x \in Int /\ x \in TablesAt(l)
    BY <1>21
  <2>2. Required(l, x) /\ ~ (l = p + 1 /\ x = s)
    BY <2>1, <1>3, <1>20
  <2>3. W[l][x] \in Table
    BY <2>2, <1>2 DEF Standing
  <2> QED
    BY <2>1, <2>2, <2>3, <1>14
<1>23. NonEmpty(d, V)'
  <2> SUFFICES ASSUME NEW l \in 1 .. Last, NEW t \in TablesAt(l), V[l][t] \in Table,
                      \A q \in Index : d[V[l][t]][q] = Zero
               PROVE  t \in Touched(l - 1) /\ Required(l, t)'
    BY <1>1, <1>16 DEF NonEmpty
  <2>1. l \in 0 .. Last
    BY <1>21
  <2>2. ~ (l = p + 1 /\ t = s) /\ W[l][t] = V[l][t] /\ W[l][t] \in Table
    BY <2>1, <1>14, PlacesApart
  <2>3. CASE W[l][t] = g
    <3>1. l = p /\ t = s \div Fan
      BY <2>1, <2>2, <2>3, <1>2, <1>3 DEF Tree, g
    <3>2. t \in Touched(l - 1)
      <4>1. va \in Page /\ n \in Nat \ {0} /\ va .. va + n - 1 \subseteq Page
        BY <1>1, <1>2, RangeTouched DEF Call, CallRange
      <4>2. s \in Span(l, va, n)
        BY <3>1, <1>3 DEF Touched
      <4> QED
        BY <3>1, <4>1, <4>2, SpanLevels DEF Touched
    <3>3. Required(l, t)'
      BY <3>1, <1>3, <1>20
    <3> QED
      BY <3>2, <3>3
  <2>4. CASE W[l][t] # g
    <3>1. \A q \in Index : c[W[l][t]][q] = Zero
      BY <2>2, <2>4, <1>13
    <3>2. t \in Touched(l - 1) /\ Required(l, t)
      BY <2>2, <3>1, <1>1, <1>2 DEF NonEmpty, Mapping
    <3>3. t \in Int /\ (l <= p \/ (l = p + 1 /\ t >= s))
      BY <3>2, <1>20, <1>21
    <3>4. l <= p \/ (l = p + 1 /\ t > s)
      BY <3>3, <2>2, <1>3
    <3> QED
      BY <3>2, <3>4, <1>20
  <2> QED
    BY <2>3, <2>4
<1>24. Loops' /\ Call'
  <2>1. \A l : Nums(l)' = Nums(l)
    BY <1>1 DEF Nums, args
  <2>2. Loops'
    BY <2>1, <1>1, <1>2, <1>16 DEF Loops
  <2> QED
    BY <2>2, <1>1, <1>2, <1>16 DEF Call, Mapping, args
<1>25. Types'
  <2>1. free' \subseteq Frame
    BY <1>2, <1>7, <1>10
  <2> QED
    BY <2>1, <1>1 DEF Types, args
<1> QED
  BY <1>15, <1>17, <1>18, <1>19, <1>22, <1>23, <1>24, <1>25 DEF Sound

------------------------------------------------------------------------------
(* Page faults.                                                            *)

LEMMA FaultStops ==
  ASSUME pc = "fault"
  PROVE  AccessedTables = {} /\ ~ Next
<1>1. AccessedTables = {}
  <2>1. Accessed.entries = {}
    BY DEF Accessed
  <2> QED
    BY <2>1 DEF AccessedTables
<1>2. ~ PageFault
  BY <1>1 DEF PageFault
<1>3. ~ (CallMapMemory \/ CallMapDevice \/ CallUnmap)
  BY DEF CallMapMemory, CallMapDevice, CallUnmap, Map
<1>4. ~ (KeepTable \/ LinkTable \/ ClearTable \/ FillEntry)
  BY DEF KeepTable, LinkTable, ClearTable, FillEntry
<1>5. ~ (FreeData \/ ClearEntries \/ FlushPage \/ KeepFull \/ FreeTable \/ UnlinkTable)
  BY DEF FreeData, ClearEntries, FlushPage, KeepFull, FreeTable, UnlinkTable
<1>6. ~ (Take \/ Give \/ Touch \/ TouchTable \/ Forget)
  BY DEF Take, Give, Touch, TouchTable, Forget
<1> QED
  BY <1>1, <1>2, <1>3, <1>4, <1>5, <1>6 DEF Next, Mapper

\* Only a failed allocation leads to a page fault, and the pages that were
\* mapped stay so.
LEMMA PageFaultBroken ==
  ASSUME NEW c, NEW W, Sound(c, W), Types, PageFault, pc # "fault"
  PROVE  Types' /\ Broken(c, W)'
<1>1. /\ pc' = "fault" /\ UNCHANGED <<mem, free, kept, space, tlb, window, args, i, j>>
  BY DEF PageFault
<1>2. pc = "clear" /\ HoleEntry(W) = Failed
  <2>1. PICK p \in AccessedTables : Reach(p[1], p[2]) \notin Table
    BY DEF PageFault
  <2>2. DOMAIN window = {}
    BY DEF Types
  <2> QED
    BY <2>1, <2>2, FaultIsFailure
<1>3. /\ Tree(c, W) /\ Linked(c, W) /\ Contents(c, W) /\ Loops /\ Call
  BY DEF Sound
<1> DEFINE g == HoleFrame(W)
           k == HoleIndex
<1>4. /\ Hole /\ g \in Table /\ k \in Index /\ HoleLevel \in 0 .. Last /\ HoleLevel # Last
      /\ Slot(HoleLevel) \in EntriesAt(HoleLevel)
  BY <1>2, StepTables DEF Hole
<1>5. /\ c[g][k] = Zero /\ mem[g][k] = Failed
      /\ \A f \in Table, q \in Index : ~ (f = g /\ q = k) => mem[f][q] = c[f][q]
  <2>1. mem[g][k] = Failed
    BY <1>2 DEF HoleEntry
  <2> HIDE DEF g, k
  <2> QED
    BY <2>1, <1>3, <1>4 DEF Linked, g, k
<1>6. \A f \in Table, q \in Index : c[f][q].frame \in Table => mem[f][q].frame = c[f][q].frame
  <2>1. Zero.frame \notin Table
    BY EntryFields, PlacesApart
  <2> HIDE DEF g, k
  <2> QED
    BY <2>1, <1>5
<1>7. ASSUME NEW v \in Page, v \notin CallRange, space[v] # None
      PROVE  /\ Pointee(c, W, Last, v) = space[v]
             /\ c[W[Last][v \div Fan]][v % Fan] = mem[W[Last][v \div Fan]][v % Fan]
  <2>1. Pointee(c, W, Last, v) = space[v]
    BY <1>2, <1>3, <1>7 DEF Contents, Want
  <2> DEFINE t == v \div Fan
             h == W[Last][t]
             x == Slot(HoleLevel)
             m == HoleLevel
  <2>2. h \in Table
    BY <2>1, <1>7 DEF Pointee
  <2>3. t \in TablesAt(Last) /\ v % Fan \in Index /\ Last \in 0 .. Last
    BY EntryOfTable, EntriesOfLevels, Levels
  <2>4. x \div Fan \in TablesAt(m)
    BY <1>4, EntryOfTable
  <2>5. g = W[m][x \div Fan]
    BY DEF HoleFrame
  <2> HIDE DEF t, h, x, m, g, k
  <2>6. h # g
    BY <2>2, <2>3, <2>4, <2>5, <1>3, <1>4 DEF Tree, h, m
  <2>7. mem[h][v % Fan] = c[h][v % Fan]
    BY <2>2, <2>3, <2>6, <1>5
  <2> QED
    BY <2>1, <2>7 DEF h, t
<1>8. i \in 0 .. Depth + MaxPages /\ j \in 0 .. MaxPages
  <2>1. i \in 0 .. Depth - 2 /\ j \in 0 .. Nums(i) - 1
    BY <1>2, <1>3 DEF Loops
  <2>2. Nums(i) \in Nat /\ Nums(i) <= MaxPages
    <3>1. i \in 0 .. Last
      BY <2>1 DEF Last
    <3>2. Nums(i) \in Nat \ {0} /\ Nums(i) <= n /\ n <= MaxPages /\ n \in Nat \ {0}
      BY <3>1, <1>2, <1>3, TouchedEntries
    <3> QED
      BY <3>2
  <2> QED
    BY <2>1, <2>2
<1>9. Broken(c, W)
  <2>1. \E f \in Table, q \in Index : mem[f][q] = Failed
    BY <1>4, <1>5
  <2> QED
    BY <2>1, <1>3, <1>6, <1>7, <1>8 DEF Broken, Tree
<1>10. Broken(c, W)'
  <2>1. CallRange' = CallRange
    BY <1>1 DEF CallRange, args
  <2> QED
    BY <2>1, <1>1, <1>9 DEF Broken
<1>11. Types'
  BY <1>1 DEF Types, args
<1> QED
  BY <1>10, <1>11

------------------------------------------------------------------------------
(* The invariant holds in the beginning and is kept.                       *)

\* The tree of the beginning is the root alone, and empty.
LEMMA InitVInv == Init => VInv
<1> SUFFICES ASSUME Init PROVE VInv
  OBVIOUS
<1>1. /\ mem = [f \in Table |-> [k \in Index |-> IF f = Root THEN Zero ELSE Junk]]
      /\ free = Frame /\ kept = {} /\ space = [v \in Page |-> None]
      /\ tlb = <<>> /\ upper = <<>> /\ window = <<>> /\ pc = "idle"
      /\ pa = 0 /\ va = 0 /\ n = 0 /\ nx = FALSE /\ i = 0 /\ j = 0
  BY DEF Init
<1>2. PICK c : c = [f \in Table |-> [k \in Index |-> IF f = Root THEN Zero ELSE Junk]]
  OBVIOUS
<1>3. PICK W : W = [l \in 0 .. Last |-> [t \in TablesAt(l) |-> IF l = 0 THEN Root ELSE None]]
  OBVIOUS
<1>4. /\ c \in [Table -> [Index -> Entries]] /\ mem = c
      /\ \A k \in Index : c[Root][k] = Zero
  BY <1>1, <1>2, EntryFields, PlacesApart
<1>5. \A l \in 0 .. Last : \A t \in TablesAt(l) : W[l][t] = IF l = 0 THEN Root ELSE None
  BY <1>3
<1>6. /\ TablesAt(0) = {0} /\ 0 \in 0 .. Last /\ W[0][0] = Root
      /\ \A l \in 1 .. Last : l \in 0 .. Last /\ l # 0 /\ l - 1 \in 0 .. Last /\ l - 1 # Last
      /\ Root \in Table /\ Root # None /\ None \notin Table /\ None \notin Frame
  <2>1. /\ TablesAt(0) = {0} /\ 0 \in TablesAt(0) /\ 0 \in 0 .. Last
        /\ \A l \in 1 .. Last : l \in 0 .. Last /\ l # 0 /\ l - 1 \in 0 .. Last /\ l - 1 # Last
    BY EntriesOfLevels, Levels
  <2> QED
    BY <2>1, <1>5, PlacesApart
<1>7. ASSUME NEW l \in 0 .. Last, NEW x \in EntriesAt(l)
      PROVE  Pointee(c, W, l, x) = None
  <2>1. x \div Fan \in TablesAt(l) /\ x % Fan \in Index
    BY EntryOfTable
  <2>2. W[l][x \div Fan] = IF l = 0 THEN Root ELSE None
    BY <2>1, <1>5
  <2> QED
    BY <2>1, <2>2, <1>4, <1>6, EntryFields DEF Pointee
<1>8. Tree(c, W)
  <2>1. Walks(c, W)
    <3>1. ASSUME NEW l \in 1 .. Last, NEW t \in TablesAt(l)
          PROVE  W[l][t] = Pointee(c, W, l - 1, t)
      <4>1. t \in EntriesAt(l - 1)
        <5>1. l - 1 \in 0 .. Last /\ l - 1 # Last /\ (l - 1) + 1 = l
          BY Levels
        <5> QED
          BY <5>1, EntriesOfLevels
      <4> QED
        BY <4>1, <1>5, <1>6, <1>7
    <3> QED
      BY <3>1, <1>6 DEF Walks
  <2>2. ASSUME NEW l \in 0 .. Last, NEW t \in TablesAt(l), W[l][t] \in Table
        PROVE  l = 0 /\ t = 0 /\ W[l][t] = Root
    BY <2>2, <1>5, <1>6
  <2>3. \A l \in 0 .. Last : Zero \in Proper(l)
    BY ProperFields
  <2> QED
    BY <2>1, <2>2, <2>3, <1>4 DEF Tree
<1>9. Linked(c, W)
  BY <1>1, <1>4 DEF Linked, Hole
<1>10. Accounts(c, W)
  <2>1. DataFrames = {} /\ \A u \in Page : space[u] \notin Frame
    BY <1>1, <1>6 DEF DataFrames
  <2>2. InFlight(c, W) = {} /\ Fresh(W) = {}
    BY <1>1 DEF InFlight, Fresh
  <2>3. TreeFrames(W) = {}
    BY <1>5, <1>6 DEF TreeFrames
  <2>4. Apart(Frame, {}, {}, {}, {} \cup {})
    BY DEF Apart
  <2> QED
    BY <2>1, <2>2, <2>3, <2>4, <1>1 DEF Accounts
<1>11. Contents(c, W)
  <2>1. \A v \in Page : Pointee(c, W, Last, v) = None
    BY <1>7, EntriesOfLevels, Levels
  <2> QED
    BY <2>1, <1>1 DEF Contents, Want, Mapping
<1>12. Standing(W) /\ NonEmpty(c, W) /\ Loops /\ Call
  <2>1. \A l, x : ~ Required(l, x)
    BY <1>1 DEF Required
  <2>2. \A l \in 1 .. Last : \A t \in TablesAt(l) : W[l][t] \notin Table
    BY <1>5, <1>6
  <2> QED
    BY <2>1, <2>2, <1>1 DEF Standing, NonEmpty, Loops, Call
<1>13. Types
  <2>1. 0 \in Frame /\ 0 \in Page
    <3>1. 0 \in Frame
      BY DEF Frame
    <3>2. 0 \in Page
      <4>1. Fan * Count(Last) \in Nat \ {0}
        <5>1. Count(Last) \in Nat \ {0}
          BY CountEquation, Levels
        <5> QED
          BY <5>1
      <4>2. EntriesAt(Last) = Page
        BY EntriesOfLevels
      <4> QED
        BY <4>1, <4>2 DEF EntriesAt
    <3> QED
      BY <3>1, <3>2
  <2>2. DOMAIN tlb = {} /\ DOMAIN window = {}
    BY <1>1
  <2>3. mem \in [Table -> [Index -> Entries]] /\ \A v \in DOMAIN tlb : tlb[v] \in Present
    BY <2>2, <1>4
  <2>4. /\ free \subseteq Frame /\ kept \subseteq Frame
        /\ space \in [Page -> Frame \cup Device \cup {None}]
    BY <1>1
  <2>5. pc = "idle" /\ pa = 0 /\ va = 0 /\ n = 0 /\ nx = FALSE /\ 0 \in 0 .. MaxPages
    BY <1>1, BoundsAssumption
  <2> QED
    BY <2>1, <2>2, <2>3, <2>4, <2>5 DEF Types
<1>14. UpperTypes
  BY <1>1 DEF UpperTypes
<1> QED
  BY <1>1, <1>8, <1>9, <1>10, <1>11, <1>12, <1>13, <1>14 DEF VInv, Sound

LEMMA StutterVInv ==
  ASSUME VInv, UNCHANGED vars
  PROVE  VInv'
<1>1. UNCHANGED <<mem, free, kept, space, tlb, upper, window, pc, args, i, j>>
  BY DEF vars
<1>2. Types'
  BY <1>1 DEF VInv, Types, args
<1>6. UpperTypes'
  BY <1>1 DEF VInv, UpperTypes
<1>3. ASSUME NEW c, NEW W, Sound(c, W) PROVE Sound(c, W)'
  <2>1. /\ Linked(c, W)' /\ Contents(c, W)' /\ Standing(W)' /\ NonEmpty(c, W)' /\ Loops' /\ Call'
        /\ DataFrames' = DataFrames /\ InFlight(c, W)' = InFlight(c, W)
        /\ TreeFrames(W)' = TreeFrames(W) /\ Fresh(W)' = Fresh(W)
    BY <1>1, <1>3, Untouched
  <2>2. Accounts(c, W)'
    BY <2>1, <1>1, <1>3 DEF Sound, Accounts
  <2> QED
    BY <2>1, <2>2, <1>3 DEF Sound
<1>4. ASSUME NEW c, NEW W, Broken(c, W) PROVE Broken(c, W)'
  <2>1. CallRange' = CallRange
    BY <1>1 DEF CallRange, args
  <2> QED
    BY <2>1, <1>1, <1>4 DEF Broken
<1>5. pc' = pc
  BY <1>1
<1> QED
  BY <1>2, <1>3, <1>4, <1>5, <1>6 DEF VInv

\* Only TouchTable fills the paging-structure caches.
LEMMA NextUpper ==
  ASSUME Next, UpperTypes
  PROVE  UpperTypes'
<1>1. CASE upper' = upper \/ upper' = <<>>
  BY <1>1 DEF UpperTypes
<1>2. CASE TouchTable
  <2>1. PICK l \in 1 .. Depth - 1 : \E t \in TablesAt(l) : \E f \in Found[l][t] \cap Present :
          upper' = [p \in DOMAIN upper \cup {<<l, t>>} |-> IF p = <<l, t>> THEN f ELSE upper[p]]
    BY <1>2 DEF TouchTable
  <2>2. PICK t \in TablesAt(l) : \E f \in Found[l][t] \cap Present :
          upper' = [p \in DOMAIN upper \cup {<<l, t>>} |-> IF p = <<l, t>> THEN f ELSE upper[p]]
    BY <2>1
  <2>3. PICK f \in Found[l][t] \cap Present :
          upper' = [p \in DOMAIN upper \cup {<<l, t>>} |-> IF p = <<l, t>> THEN f ELSE upper[p]]
    BY <2>2
  <2>4. <<l, t>> \in UNION {{k} \X TablesAt(k) : k \in 1 .. Depth - 1}
    OBVIOUS
  <2> QED
    BY <2>3, <2>4 DEF UpperTypes
<1>3. CASE Forget
  <2>1. \E P \in SUBSET DOMAIN upper : upper' = [p \in DOMAIN upper \ P |-> upper[p]]
    BY <1>3 DEF Forget
  <2> QED
    BY <2>1 DEF UpperTypes
<1>4. CASE CallMapMemory \/ CallMapDevice \/ CallUnmap
  BY <1>1, <1>4 DEF CallMapMemory, CallMapDevice, CallUnmap, Map
<1>5. CASE Mapper
  BY <1>1, <1>5 DEF Mapper, KeepTable, LinkTable, ClearTable, FillEntry, FreeData, ClearEntries,
       FlushPage, KeepFull, FreeTable, UnlinkTable, PageFault, Invlpg
<1>6. CASE Take \/ Give \/ Touch
  BY <1>1, <1>6 DEF Take, Give, Touch
<1> QED
  BY <1>2, <1>3, <1>4, <1>5, <1>6 DEF Next

\* Only a page fault stops the CPU.
LEMMA NextRuns ==
  ASSUME Next, pc # "fault"
  PROVE  PageFault \/ pc' # "fault"
<1>1. CASE CallMapMemory \/ CallMapDevice \/ CallUnmap
  BY <1>1 DEF CallMapMemory, CallMapDevice, CallUnmap, Map
<1>2. CASE KeepTable \/ LinkTable \/ ClearTable \/ FillEntry
  BY <1>2 DEF KeepTable, LinkTable, ClearTable, FillEntry, Advance
<1>3. CASE FreeData \/ ClearEntries \/ FlushPage
  BY <1>3 DEF FreeData, ClearEntries, FlushPage
<1>4. CASE KeepFull \/ FreeTable \/ UnlinkTable
  BY <1>4 DEF KeepFull, FreeTable, UnlinkTable, Advance
<1>5. CASE Take \/ Give \/ Touch \/ TouchTable \/ Forget
  BY <1>5 DEF Take, Give, Touch, TouchTable, Forget
<1> QED
  BY <1>1, <1>2, <1>3, <1>4, <1>5 DEF Next, Mapper

LEMMA NextVInv ==
  ASSUME WindowTlb = FALSE, VInv, [Next]_vars
  PROVE  VInv'
<1>1. CASE UNCHANGED vars
  BY <1>1, StutterVInv
<1>2. CASE pc = "fault"
  BY <1>2, FaultStops, StutterVInv
<1>3. CASE Next /\ pc # "fault"
  <2>1. Types /\ UpperTypes'
    BY <1>3, NextUpper DEF VInv
  <2>2. PICK c, W : Sound(c, W)
    BY <1>3 DEF VInv
  <2>3. ASSUME pc' # "fault", Types' /\ \E d, V : Sound(d, V)'
        PROVE  VInv'
    BY <2>1, <2>3 DEF VInv
  <2>4. CASE PageFault
    <3>1. Types' /\ Broken(c, W)'
      BY <2>1, <2>2, <2>4, <1>3, PageFaultBroken
    <3>2. pc' = "fault"
      BY <2>4 DEF PageFault
    <3> QED
      BY <2>1, <3>1, <3>2 DEF VInv
  <2>5. CASE ~ PageFault
    <3>1. pc' # "fault"
      BY <2>5, <1>3, NextRuns
    <3>2. CASE CallMapMemory
      BY <2>1, <2>2, <2>3, <3>1, <3>2, CallMapMemorySound
    <3>3. CASE CallMapDevice
      BY <2>1, <2>2, <2>3, <3>1, <3>3, CallMapDeviceSound
    <3>4. CASE CallUnmap
      BY <2>1, <2>2, <2>3, <3>1, <3>4, CallUnmapSound
    <3>5. CASE KeepTable
      BY <2>1, <2>2, <2>3, <3>1, <3>5, KeepTableSound
    <3>6. CASE LinkTable
      BY <2>1, <2>2, <2>3, <3>1, <3>6, LinkTableSound
    <3>7. CASE ClearTable
      BY <2>1, <2>2, <2>3, <3>1, <3>7, ClearTableSound
    <3>8. CASE FillEntry
      BY <2>1, <2>2, <2>3, <3>1, <3>8, FillEntrySound
    <3>9. CASE FreeData
      BY <2>1, <2>2, <2>3, <3>1, <3>9, FreeDataSound
    <3>10. CASE ClearEntries
      BY <2>1, <2>2, <2>3, <3>1, <3>10, ClearEntriesSound
    <3>11. CASE FlushPage
      BY <2>1, <2>2, <2>3, <3>1, <3>11, FlushPageSound
    <3>12. CASE KeepFull
      BY <2>1, <2>2, <2>3, <3>1, <3>12, KeepFullSound
    <3>13. CASE FreeTable
      BY <2>1, <2>2, <2>3, <3>1, <3>13, FreeTableSound
    <3>14. CASE UnlinkTable
      BY <2>1, <2>2, <2>3, <3>1, <3>14, UnlinkTableSound
    <3>15. CASE Take
      BY <2>1, <2>2, <2>3, <3>1, <3>15, TakeSound
    <3>16. CASE Give
      BY <2>1, <2>2, <2>3, <3>1, <3>16, GiveSound
    <3>17. CASE Touch \/ TouchTable \/ Forget
      BY <2>1, <2>2, <2>3, <3>1, <3>17, HardwareSound
    <3> QED
      BY <2>5, <3>2, <3>3, <3>4, <3>5, <3>6, <3>7, <3>8, <3>9, <3>10, <3>11, <3>12, <3>13, <3>14,
         <3>15, <3>16, <3>17, <1>3 DEF Next, Mapper
  <2> QED
    BY <2>4, <2>5
<1> QED
  BY <1>1, <1>2, <1>3

------------------------------------------------------------------------------
(* What the invariant says.                                                *)

LEMMA VInvTypeOK == VInv => TypeOK
<1> SUFFICES ASSUME VInv PROVE TypeOK
  OBVIOUS
<1>1. Types /\ UpperTypes
  BY DEF VInv
<1>2. i \in 0 .. Depth + MaxPages /\ j \in 0 .. MaxPages
  <2>1. CASE pc = "fault"
    BY <2>1 DEF VInv, Broken
  <2>2. CASE pc = "idle"
    BY <2>2 DEF VInv, Sound, Loops
  <2>3. CASE pc \notin {"idle", "fault"}
    <3>1. Loops /\ Call
      BY <2>3 DEF VInv, Sound
    <3>2. n \in Nat /\ n <= MaxPages /\ \A l \in 0 .. Last : Nums(l) \in Nat /\ Nums(l) <= MaxPages
      <4>1. \A l \in 0 .. Last : /\ Nums(l) \in Nat /\ Nums(l) <= n /\ n \in Nat \ {0}
                                 /\ n <= MaxPages
        BY <2>3, <3>1, TouchedEntries
      <4>2. n \in Nat /\ n <= MaxPages
        BY <4>1, Levels
      <4> QED
        BY <4>1, <4>2
    <3>3. CASE pc \in {"tables", "clear"}
      <4>1. i \in 0 .. Depth - 2 /\ j \in 0 .. Nums(i) - 1 /\ i \in 0 .. Last
        BY <3>1, <3>3 DEF Loops, Last
      <4> QED
        BY <4>1, <3>2
    <3>4. CASE pc \in {"prune", "unlink"}
      <4>1. i \in 0 .. Depth - 2 /\ j \in 0 .. Nums(Parent) - 1 /\ Parent \in 0 .. Last
        BY <3>1, <3>4 DEF Loops, Last, Parent
      <4> QED
        BY <4>1, <3>2
    <3>5. CASE pc \in {"fill", "flush", "free", "zero"}
      BY <3>1, <3>2, <3>5 DEF Loops
    <3> QED
      BY <1>1, <2>3, <3>3, <3>4, <3>5 DEF Types
  <2> QED
    BY <2>1, <2>2, <2>3
<1> QED
  BY <1>1, <1>2 DEF Types, UpperTypes, TypeOK

LEMMA VInvMaps == VInv => MapsWhatWasAsked
<1> SUFFICES ASSUME VInv, NEW v \in Settled, Idle \/ space[v] # None
             PROVE  Translate(v) = space[v]
  BY DEF MapsWhatWasAsked
<1>1. v \in Page /\ DOMAIN window = {} /\ (Idle \/ v \notin CallRange)
  BY DEF Settled, VInv, Types
<1>2. CASE pc # "fault"
  <2>1. PICK c, W : Sound(c, W)
    BY <1>2 DEF VInv
  <2>2. Tree(c, W) /\ Linked(c, W) /\ Contents(c, W)
    BY <2>1 DEF Sound
  <2>3. Pointee(c, W, Last, v) = space[v]
    BY <1>1, <2>2 DEF Contents, Want, Mapping, Idle
  <2>4. Idle => ~ Hole
    BY DEF Idle, Hole
  <2> QED
    BY <1>1, <2>2, <2>3, <2>4, TranslatePage
<1>3. CASE pc = "fault"
  <2>1. PICK c, W : Broken(c, W)
    BY <1>3 DEF VInv
  <2> DEFINE t == v \div Fan
             k == v % Fan
             h == W[Last][t]
  <2>2. ~ Idle /\ v \in Page \ CallRange /\ space[v] # None
    BY <1>1, <1>3 DEF Idle
  <2>3. Pointee(c, W, Last, v) = space[v] /\ c[h][k] = mem[h][k]
    BY <2>1, <2>2 DEF Broken
  <2>4. h \in Table /\ c[h][k].frame = space[v]
    BY <2>2, <2>3 DEF Pointee
  <2>5. t \in TablesAt(Last) /\ Last \in 0 .. Last
    BY <1>1, EntryOfTable, EntriesOfLevels, Levels
  <2> HIDE DEF t, k
  <2>6. TableFrame[Last][t] = h
    <3>1. Climbs(c, W) /\ Climbs(mem, TableFrame)
      BY <2>1, WalkOfMem, WalksClimb DEF Broken
    <3>2. \A f \in Table, q \in Index : c[f][q].frame \in Table => mem[f][q].frame = c[f][q].frame
      BY <2>1 DEF Broken
    <3>3. \A l \in 0 .. Last : \A u \in TablesAt(l) : W[l][u] \in Table => TableFrame[l][u] = W[l][u]
      BY <3>1, <3>2, WalkExtends
    <3> QED
      BY <3>3, <2>4, <2>5
  <2>7. Translate(v) = Goal(mem, TableFrame, Last, v)
    BY <1>1, WalkOfMem
  <2>8. Goal(mem, TableFrame, Last, v) = mem[h][k].frame
    BY <2>4, <2>6 DEF Goal, t, k
  <2> QED
    BY <2>3, <2>4, <2>7, <2>8
<1> QED
  BY <1>2, <1>3

\* Between calls the tree is what a walk of mem finds.
LEMMA IdleTree ==
  ASSUME VInv, Idle, NEW c, NEW W, Sound(c, W)
  PROVE  /\ \A l \in 0 .. Last : \A t \in TablesAt(l) :
              /\ W[l][t] \in Table => TableFrame[l][t] = W[l][t]
              /\ TableFrame[l][t] \in Table => W[l][t] = TableFrame[l][t]
         /\ \A p \in Tables : /\ p = <<p[1], p[2]>> /\ p[1] \in 1 .. Last /\ p[1] \in 0 .. Last
                              /\ p[2] \in TablesAt(p[1])
                              /\ TableFrame[p[1]][p[2]] \in Frame
                              /\ W[p[1]][p[2]] = TableFrame[p[1]][p[2]]
<1>1. Tree(c, W) /\ Linked(c, W) /\ DOMAIN window = {} /\ ~ Hole
  BY DEF Sound, VInv, Types, Idle, Hole
<1>2. \A l \in 0 .. Last : \A t \in TablesAt(l) :
        /\ W[l][t] \in Table => TableFrame[l][t] = W[l][t]
        /\ TableFrame[l][t] \in Table => W[l][t] = TableFrame[l][t]
  BY <1>1, ReachTable
<1>3. ASSUME NEW p \in Tables
      PROVE  /\ p = <<p[1], p[2]>> /\ p[1] \in 1 .. Last /\ p[1] \in 0 .. Last
             /\ p[2] \in TablesAt(p[1])
             /\ TableFrame[p[1]][p[2]] \in Frame
             /\ W[p[1]][p[2]] = TableFrame[p[1]][p[2]]
  <2>1. PICK l \in 1 .. Last : p \in {<<l, t>> : t \in {u \in TablesAt(l) : TableFrame[l][u] \in Frame}}
    BY DEF Tables, Last
  <2>2. PICK t \in TablesAt(l) : p = <<l, t>> /\ TableFrame[l][t] \in Frame
    BY <2>1
  <2>3. l \in 0 .. Last /\ TableFrame[l][t] \in Table
    BY <2>2, Levels, PlacesApart
  <2>4. W[l][t] = TableFrame[l][t]
    BY <2>3, <1>2
  <2>5. p[1] = l /\ p[2] = t
    BY <2>2
  <2> QED
    BY <2>2, <2>3, <2>4, <2>5
<1> QED
  BY <1>2, <1>3

LEMMA VInvFrames ==
  ASSUME Nx \subseteq {FALSE}, VInv
  PROVE  FramesAccounted
<1> SUFFICES ASSUME Idle PROVE FramesAccounted
  BY DEF FramesAccounted
<1>1. PICK c, W : Sound(c, W)
  BY DEF VInv, Idle
<1>2. Tree(c, W) /\ Accounts(c, W) /\ free \subseteq Frame /\ kept \subseteq Frame
  BY <1>1 DEF Sound, VInv, Types
<1>3. /\ \A l \in 0 .. Last : \A t \in TablesAt(l) :
           W[l][t] \in Table => TableFrame[l][t] = W[l][t]
      /\ \A p \in Tables : /\ p = <<p[1], p[2]>> /\ p[1] \in 1 .. Last /\ p[1] \in 0 .. Last
                           /\ p[2] \in TablesAt(p[1])
                           /\ TableFrame[p[1]][p[2]] \in Frame
                           /\ W[p[1]][p[2]] = TableFrame[p[1]][p[2]]
  BY <1>1, IdleTree
<1>4. TableFrames = TreeFrames(W)
  <2>1. ASSUME NEW f \in TableFrames PROVE f \in TreeFrames(W)
    <3>1. PICK p \in Tables : f = TableFrame[p[1]][p[2]]
      BY DEF TableFrames
    <3> QED
      BY <3>1, <1>3 DEF TreeFrames
  <2>2. ASSUME NEW f \in TreeFrames(W) PROVE f \in TableFrames
    <3>1. PICK l \in 1 .. Last : \E t \in TablesAt(l) : W[l][t] = f /\ f \in Frame
      BY DEF TreeFrames
    <3>2. PICK t \in TablesAt(l) : W[l][t] = f /\ f \in Frame
      BY <3>1
    <3>3. TableFrame[l][t] = f
      <4>1. l \in 0 .. Last /\ f \in Table
        BY <3>2, Levels, PlacesApart
      <4> QED
        BY <4>1, <3>2, <1>3
    <3>4. <<l, t>> \in Tables
      BY <3>2, <3>3 DEF Tables, Last
    <3> QED
      BY <3>3, <3>4 DEF TableFrames
  <2> QED
    BY <2>1, <2>2
<1>5. \A p, q \in Tables : TableFrame[p[1]][p[2]] = TableFrame[q[1]][q[2]] => p = q
  <2> TAKE p, q \in Tables
  <2> HAVE TableFrame[p[1]][p[2]] = TableFrame[q[1]][q[2]]
  <2>1. /\ p[1] \in 0 .. Last /\ p[2] \in TablesAt(p[1]) /\ q[1] \in 0 .. Last
        /\ q[2] \in TablesAt(q[1])
        /\ W[p[1]][p[2]] \in Table /\ W[p[1]][p[2]] = W[q[1]][q[2]]
    BY <1>3, PlacesApart
  <2>2. p[1] = q[1] /\ p[2] = q[2]
    BY <2>1, <1>2 DEF Tree
  <2> QED
    BY <2>2, <1>3
<1>6. InFlight(c, W) = {} /\ Fresh(W) = {}
  BY DEF InFlight, Fresh, Idle
<1> DEFINE D == DataFrames
           T == TableFrames
<1>7. Apart(free, kept, D, {}, T \cup {}) /\ Frame \subseteq free \cup kept \cup D \cup {} \cup T \cup {}
  BY <1>2, <1>4, <1>6 DEF Accounts
<1>8. D \subseteq Frame /\ T \subseteq Frame
  BY <1>4 DEF DataFrames, TreeFrames
<1> HIDE DEF D, T
<1>9. free \cup kept \cup D \cup T = Frame
  BY <1>2, <1>7, <1>8
<1>10. free \cap (kept \cup D \cup T) = {} /\ kept \cap (D \cup T) = {} /\ D \cap T = {}
  BY <1>7 DEF Apart
<1> QED
  BY <1>5, <1>9, <1>10 DEF FramesAccounted, D, T

LEMMA VInvNoEmptyTable == VInv => NoEmptyTable
<1> SUFFICES ASSUME VInv, Idle, NEW p \in Tables
             PROVE  \E x \in Index : mem[TableFrame[p[1]][p[2]]][x] # Zero
  BY DEF NoEmptyTable
<1>1. PICK c, W : Sound(c, W)
  BY DEF VInv, Idle
<1>2. mem = c /\ NonEmpty(c, W)
  BY <1>1, MemIsClean DEF Sound, Idle, Hole
<1>3. /\ p[1] \in 1 .. Last /\ p[2] \in TablesAt(p[1]) /\ TableFrame[p[1]][p[2]] \in Frame
      /\ W[p[1]][p[2]] = TableFrame[p[1]][p[2]]
  BY <1>1, IdleTree
<1>4. W[p[1]][p[2]] \in Table
  BY <1>3, PlacesApart
<1>5. ~ \A k \in Index : c[W[p[1]][p[2]]][k] = Zero
  BY <1>2, <1>3, <1>4 DEF NonEmpty, Idle
<1> QED
  BY <1>2, <1>3, <1>5

LEMMA VInvFault == VInv => FaultOnlyAfterFailure
BY DEF VInv, Broken, FaultOnlyAfterFailure

------------------------------------------------------------------------------
(* The theorems.  They leave out a TLB that keeps translations of the      *)
(* window, and the one about frames the attribute PAGE_NX: with either,    *)
(* TLC finds behaviours in which the code does not do this.                *)

\* map_pages and unmap_pages keep every variable in its type: their loops'
\* counters stay within the call's pages, and no entry holds anything but a
\* frame, a device's page, an old page's contents, nothing or (void *)-1.
THEOREM VirtualMemoryTypeCorrect ==
  ASSUME WindowTlb = FALSE
  PROVE  Spec => []TypeOK
<1>1. VInv /\ [Next]_vars => VInv'
  BY NextVInv
<1> QED
  BY InitVInv, VInvTypeOK, <1>1, PTL DEF Spec

\* Between calls every page translates to the page it was mapped to and no
\* other page translates; while map_pages or unmap_pages links, frees or
\* unlinks tables, and after a page fault, the pages outside its range still
\* do.
THEOREM CallsMapWhatWasAsked ==
  ASSUME WindowTlb = FALSE
  PROVE  Spec => []MapsWhatWasAsked
<1>1. VInv /\ [Next]_vars => VInv'
  BY NextVInv
<1> QED
  BY InitVInv, VInvMaps, <1>1, PTL DEF Spec

\* No call of map_pages or unmap_pages loses a page of memory or uses it
\* twice: between calls each is free, another CPU's, mapped, or one table.
THEOREM CallsAccountForFrames ==
  ASSUME WindowTlb = FALSE, Nx \subseteq {FALSE}
  PROVE  Spec => []FramesAccounted
<1>1. VInv /\ [Next]_vars => VInv'
  BY NextVInv
<1>2. VInv => FramesAccounted
  BY VInvFrames
<1> QED
  BY InitVInv, <1>1, <1>2, PTL DEF Spec

\* unmap_pages leaves no empty table behind, and map_pages makes none that
\* it does not use, at any level and wherever the range starts.
THEOREM CallsLeaveNoEmptyTable ==
  ASSUME WindowTlb = FALSE
  PROVE  Spec => []NoEmptyTable
<1>1. VInv /\ [Next]_vars => VInv'
  BY NextVInv
<1> QED
  BY InitVInv, VInvNoEmptyTable, <1>1, PTL DEF Spec

\* The accesses of both functions to the recursive window meet a table, but
\* for the one that clears a table whose allocation has failed.
THEOREM CallsFaultOnlyAfterFailure ==
  ASSUME WindowTlb = FALSE
  PROVE  Spec => []FaultOnlyAfterFailure
<1>1. VInv /\ [Next]_vars => VInv'
  BY NextVInv
<1> QED
  BY InitVInv, VInvFault, <1>1, PTL DEF Spec


------------------------------------------------------------------------------
(* The refinement of AddressSpace.                                         *)
(*                                                                         *)
(* Walks may leave the tree and end anywhere, and what they find may be    *)
(* cached.  A page that is mapped, or being unmapped, is reached through   *)
(* tables of the tree alone, and no cache knows anything else of it.       *)

\* Table of level l that page v is below.
Up(l, v) == On(l, v) \div Fan

LEMMA UpLevels ==
  ASSUME NEW v \in Page
  PROVE  /\ \A l \in 0 .. Last : Up(l, v) \in TablesAt(l) /\ On(l, v) % Fan \in Index
         /\ \A l \in 1 .. Last : /\ Up(l, v) \div Fan = Up(l - 1, v)
                                 /\ Up(l, v) % Fan = On(l - 1, v) % Fan
                                 /\ Up(l, v) = On(l - 1, v)
         /\ Up(Last, v) = v \div Fan /\ On(Last, v) = v /\ Up(0, v) = 0
<1>1. ASSUME NEW l \in 0 .. Last PROVE Up(l, v) \in TablesAt(l) /\ On(l, v) % Fan \in Index
  <2>1. On(l, v) \in EntriesAt(l)
    BY OnLevels
  <2> QED
    BY <2>1, EntryOfTable DEF Up
<1>2. \A l \in 1 .. Last : Up(l, v) = On(l - 1, v)
  BY OnLevels DEF Up
<1>3. ASSUME NEW l \in 1 .. Last
      PROVE  /\ Up(l, v) \div Fan = Up(l - 1, v)
             /\ Up(l, v) % Fan = On(l - 1, v) % Fan
  <2>1. Up(l, v) = On(l - 1, v)
    BY <1>2
  <2> QED
    BY <2>1 DEF Up
<1>4. Up(Last, v) = v \div Fan /\ On(Last, v) = v
  BY OnLevels DEF Up
<1>5. Up(0, v) = 0
  BY <1>1, EntriesOfLevels, Levels
<1> QED
  BY <1>1, <1>2, <1>3, <1>4, <1>5

\* What the processor's walks find, level by level.
LEMMA FoundOfLevels ==
  \A l \in 0 .. Last : \A t \in TablesAt(l) :
    Found[l][t] = {upper[p] : p \in {<<l, t>>} \cap DOMAIN upper}
                    \cup IF l = 0 THEN {Root} ELSE {Onward(f, t % Fan) : f \in Found[l - 1][t \div Fan]}
<1> DEFINE D == 0 .. Depth - 1
           Row(f, l) == [t \in TablesAt(l) |->
                           {upper[p] : p \in {<<l, t>>} \cap DOMAIN upper}
                             \cup IF l = 0 THEN {Root}
                                  ELSE {Onward(g, t % Fan) : g \in f[l - 1][t \div Fan]}]
           F(f) == [l \in D |-> Row(f, l)]
           h == CHOOSE f : f = F(f)
           Good(k, f) == f = [l \in D |-> f[l]] /\ \A l \in D : l <= k => f[l] = Row(f, l)
           Bad == {k \in Nat : ~ \E f : Good(k, f)}
<1>0. ASSUME NEW f, NEW g, NEW l, l = 0 \/ f[l - 1] = g[l - 1]
      PROVE  Row(f, l) = Row(g, l)
  BY <1>0
<1> HIDE DEF Row
<1>1. \E f : Good(Depth, f)
  <2> SUFFICES ASSUME Bad # {} PROVE FALSE
    OBVIOUS
  <2>1. PICK k \in Bad : \A m \in Bad : k <= m
    <3>1. Bad \in SUBSET Nat
      OBVIOUS
    <3> HIDE DEF Bad
    <3> QED
      BY <3>1, SmallestNat
  <2>2. k \in Nat /\ ~ \E f : Good(k, f)
    OBVIOUS
  <2>3. CASE k = 0
    <3> DEFINE f == [l \in D |-> Row(<<>>, 0)]
    <3>1. f = [l \in D |-> f[l]]
      OBVIOUS
    <3>2. \A l \in D : l <= 0 => l = 0 /\ f[l] = Row(<<>>, 0)
      OBVIOUS
    <3> HIDE DEF f
    <3>3. Row(<<>>, 0) = Row(f, 0)
      BY <1>0
    <3>4. Good(0, f)
      BY <3>1, <3>2, <3>3
    <3> QED
      BY <3>4, <2>2, <2>3
  <2>4. CASE k # 0
    <3>1. k - 1 \in Nat /\ ~ (k <= k - 1)
      BY <2>2, <2>4
    <3>2. k - 1 \notin Bad
      <4> HIDE DEF Bad
      <4> QED
        BY <3>1, <2>1
    <3>3. PICK f : Good(k - 1, f)
      BY <3>1, <3>2
    <3> DEFINE g == [l \in D |-> IF l = k THEN Row(f, k) ELSE f[l]]
    <3>4. g = [l \in D |-> g[l]]
      OBVIOUS
    <3>5. \A l \in D : g[l] = IF l = k THEN Row(f, k) ELSE f[l]
      OBVIOUS
    <3> HIDE DEF g
    <3>6. ASSUME NEW l \in D, l <= k
          PROVE  g[l] = Row(g, l)
      <4>1. g[l] = Row(f, l)
        <5>1. l # k => l <= k - 1
          BY <3>6, <2>2
        <5>2. l # k => f[l] = Row(f, l)
          BY <5>1, <3>3
        <5>3. g[l] = IF l = k THEN Row(f, k) ELSE f[l]
          BY <3>5
        <5> QED
          BY <5>2, <5>3
      <4>2. l = 0 \/ (l - 1 \in D /\ l - 1 # k)
        BY <3>6, <2>2
      <4>3. Row(f, l) = Row(g, l)
        <5>1. l = 0 \/ f[l - 1] = g[l - 1]
          BY <4>2, <3>5
        <5> QED
          BY <5>1, <1>0
      <4> QED
        BY <4>1, <4>3
    <3>7. Good(k, g)
      BY <3>4, <3>6
    <3> QED
      BY <3>7, <2>2
  <2> QED
    BY <2>3, <2>4
<1>2. PICK f : Good(Depth, f)
  BY <1>1
<1>3. f = F(f)
  <2>1. \A l \in D : l <= Depth
    OBVIOUS
  <2>2. \A l \in D : f[l] = Row(f, l)
    BY <1>2, <2>1
  <2>3. f = [l \in D |-> f[l]]
    BY <1>2
  <2> QED
    BY <2>2, <2>3
<1>4. h = F(h)
  <2> HIDE DEF F
  <2> QED
    BY <1>3
<1>5. Found = h
  BY DEF Found, Row
<1>6. \A l \in D : Found[l] = Row(Found, l)
  <2>1. Found = F(Found)
    <3> HIDE DEF h, F
    <3> QED
      BY <1>4, <1>5
  <2>2. \A l \in D : F(Found)[l] = Row(Found, l)
    OBVIOUS
  <2> QED
    BY <2>1, <2>2
<1> HIDE DEF h, F
<1> TAKE l \in 0 .. Last
<1> TAKE t \in TablesAt(l)
<1>7. Found[l] = Row(Found, l)
  BY <1>6, Levels
<1> QED
  BY <1>7 DEF Row

\* Where the paging-structure caches know the tables above a page as they
\* are, a walk for it finds what the tables say.
Upright(v) ==
  \A l \in 0 .. Last : <<l, Up(l, v)>> \in DOMAIN upper =>
                         upper[<<l, Up(l, v)>>] = TableFrame[l][Up(l, v)]

Direct ==
  \A v \in Page : Upright(v) =>
    /\ \A l \in 0 .. Last : Found[l][Up(l, v)] = {TableFrame[l][Up(l, v)]}
    /\ Walked(v) = {Translate(v)}

LEMMA WalksAreDirect == Direct
<1> SUFFICES ASSUME NEW v \in Page, Upright(v)
             PROVE  /\ \A l \in 0 .. Last : Found[l][Up(l, v)] = {TableFrame[l][Up(l, v)]}
                    /\ Walked(v) = {Translate(v)}
  BY DEF Direct
<1> DEFINE Same(l) == Found[l][Up(l, v)] = {TableFrame[l][Up(l, v)]}
           Bad == {l \in 0 .. Last : ~ Same(l)}
<1>1. Bad = {}
  <2> SUFFICES ASSUME Bad # {} PROVE FALSE
    OBVIOUS
  <2>1. PICK l \in Bad : \A m \in Bad : l <= m
    <3>1. Bad \in SUBSET Nat
      BY Levels
    <3> HIDE DEF Bad
    <3> QED
      BY <3>1, SmallestNat
  <2>2. l \in 0 .. Last /\ ~ Same(l)
    OBVIOUS
  <2> DEFINE t == Up(l, v)
             K == {upper[p] : p \in {<<l, t>>} \cap DOMAIN upper}
  <2>3. t \in TablesAt(l)
    BY <2>2, UpLevels
  <2>4. Found[l][t] = K \cup IF l = 0 THEN {Root}
                              ELSE {Onward(f, t % Fan) : f \in Found[l - 1][t \div Fan]}
    BY <2>2, <2>3, FoundOfLevels
  <2>5. K \subseteq {TableFrame[l][t]}
    BY <2>2 DEF Upright
  <2>6. Follows(mem, TableFrame)
    BY WalkOfMem
  <2>7. CASE l = 0
    <3>1. t = 0
      BY <2>7, UpLevels
    <3>2. TableFrame[l][t] = Root
      BY <3>1, <2>6, <2>7 DEF Follows
    <3> HIDE DEF t, K
    <3>3. Found[l][t] = {TableFrame[l][t]}
      BY <3>2, <2>4, <2>5, <2>7
    <3> QED
      BY <3>3, <2>2 DEF t
  <2>8. CASE l # 0
    <3>1. l \in 1 .. Last /\ l - 1 \in 0 .. Last /\ ~ (l <= l - 1)
      BY <2>2, <2>8, Levels
    <3>2. Same(l - 1)
      <4>1. l - 1 \notin Bad
        <5> HIDE DEF Bad
        <5> QED
          BY <3>1, <2>1
      <4> QED
        BY <4>1, <3>1
    <3>3. t \div Fan = Up(l - 1, v)
      BY <3>1, UpLevels
    <3> DEFINE g == TableFrame[l - 1][t \div Fan]
    <3>4. Found[l - 1][t \div Fan] = {g}
      BY <3>2, <3>3
    <3>5. TableFrame[l][t] = Onward(g, t % Fan)
      BY <3>1, <2>3, <2>6 DEF Follows, Goal, Onward
    <3> HIDE DEF t, K, g
    <3>6. {Onward(f, t % Fan) : f \in {g}} = {Onward(g, t % Fan)}
      OBVIOUS
    <3>7. Found[l][t] = {TableFrame[l][t]}
      BY <3>4, <3>5, <3>6, <2>4, <2>5, <2>8
    <3> QED
      BY <3>7, <2>2 DEF t
  <2> QED
    BY <2>7, <2>8
<1>2. \A l \in 0 .. Last : Same(l)
  BY <1>1
<1>3. Found[Last][v \div Fan] = {TableFrame[Last][v \div Fan]}
  BY <1>2, Levels, UpLevels
<1>4. Walked(v) = {Translate(v)}
  BY <1>3 DEF Walked, Translate, Last
<1> QED
  BY <1>2, <1>4


\* Pages that are mapped, and those that are being unmapped as long as their
\* tables are there.
Going == pc \in {"free", "zero", "flush"}
Bound(v) == Want(v) # None \/ (Going /\ v \in CallRange)

\* Of these pages the tables say what the calls have done so far.
Seen ==
  pc # "fault" =>
    /\ Types /\ Loops /\ Call
    /\ \A v \in Page : Bound(v) =>
         /\ \A l \in 0 .. Last : TableFrame[l][Up(l, v)] \in Table
         /\ IF pc = "flush" /\ v \in CallRange THEN Translate(v) = None
                                               ELSE Translate(v) \in Frame \cup Device
         /\ Want(v) # None => Translate(v) = Want(v)

\* A page that leads somewhere is below tables only.
LEMMA TablesAbove ==
  ASSUME NEW c, NEW W, Tree(c, W), NEW v \in Page, W[Last][Up(Last, v)] \in Table
  PROVE  \A l \in 0 .. Last : W[l][Up(l, v)] \in Table
<1> DEFINE Bad == {k \in Nat : k <= Last /\ W[Last - k][Up(Last - k, v)] \notin Table}
<1>1. Bad = {}
  <2> SUFFICES ASSUME Bad # {} PROVE FALSE
    OBVIOUS
  <2>1. PICK k \in Bad : \A m \in Bad : k <= m
    <3>1. Bad \in SUBSET Nat
      OBVIOUS
    <3> HIDE DEF Bad
    <3> QED
      BY <3>1, SmallestNat
  <2>2. k \in Nat /\ k <= Last /\ W[Last - k][Up(Last - k, v)] \notin Table
    OBVIOUS
  <2>3. k # 0
    <3>1. k = 0 => Last - k = Last
      BY Levels
    <3> QED
      BY <3>1, <2>2
  <2>4. k - 1 \notin Bad /\ k - 1 \in Nat /\ k - 1 <= Last
    <3>1. k - 1 \in Nat /\ ~ (k <= k - 1) /\ k - 1 <= Last
      BY <2>2, <2>3, Levels
    <3> HIDE DEF Bad
    <3> QED
      BY <3>1, <2>1
  <2>5. PICK l \in Int : l = Last - (k - 1)
    BY <2>2, Levels
  <2>6. l \in 1 .. Last /\ Last - k = l - 1
    BY <2>2, <2>3, <2>5, Levels
  <2>7. W[l][Up(l, v)] \in Table
    BY <2>4, <2>5
  <2>8. Up(l, v) \in TablesAt(l) /\ Up(l, v) \div Fan = Up(l - 1, v)
    BY <2>6, UpLevels, Levels
  <2>9. Climbs(c, W)
    BY WalksClimb DEF Tree
  <2> DEFINE t == Up(l, v)
  <2> HIDE DEF t, Bad
  <2>10. W[l - 1][t \div Fan] \in Table
    BY <2>6, <2>7, <2>8, <2>9, WalkUp DEF t
  <2> QED
    BY <2>10, <2>2, <2>6, <2>8 DEF t
<1> TAKE l \in 0 .. Last
<1>2. Last - l \in Nat /\ Last - l <= Last /\ Last - (Last - l) = l
  BY Levels
<1>3. Last - l \notin Bad
  BY <1>1
<1> QED
  BY <1>2, <1>3

LEMMA BoundTables ==
  ASSUME NEW c, NEW W, Sound(c, W), pc # "fault", NEW v \in Page, Bound(v)
  PROVE  \A l \in 0 .. Last : W[l][Up(l, v)] \in Table
<1>1. Tree(c, W) /\ Call /\ Standing(W) /\ Contents(c, W)
  BY DEF Sound
<1>2. CASE pc = "flush" /\ v \in CallRange
  <2> TAKE l \in 0 .. Last
  <2>1. /\ va \in Page /\ n \in Nat \ {0} /\ CallRange \subseteq Page
        /\ va \in Int /\ n \in Int /\ v \in Int /\ CallRange = va .. va + n - 1
    BY <1>1, <1>2, RangeTouched DEF Call, CallRange
  <2>2. Unit[l] \in Nat \ {0} /\ va <= v /\ v <= va + n - 1 /\ va + n - 1 \in Int
    BY <2>1, <1>2, UnitNat
  <2> DEFINE a == On(l, va)
             b == On(l, va + n - 1)
             x == On(l, v)
  <2>3. a <= x /\ x <= b
    BY <2>1, <2>2, DivMonotone DEF On
  <2>4. x \in Int
    <3>1. x \in EntriesAt(l)
      BY OnLevels
    <3> QED
      BY <3>1, EntryOfTable
  <2>5. a \in Int /\ b \in Int
    BY <2>1, SpanEnds DEF CallRange
  <2>6. x \in Touched(l)
    <3> HIDE DEF a, b, x
    <3>1. x \in a .. b
      BY <2>3, <2>4, <2>5
    <3> QED
      BY <3>1 DEF Touched, Span, a, b
  <2>7. l # 0 => Required(l, x \div Fan)
    BY <1>2 DEF Required
  <2> HIDE DEF x
  <2>8. W[l][x \div Fan] \in Table
    BY <2>6, <2>7, <1>1, <1>2, TableAbove
  <2> QED
    BY <2>8 DEF Up, x
<1>3. CASE ~ (pc = "flush" /\ v \in CallRange)
  <2>1. Pointee(c, W, Last, v) # None
    <3>1. CASE pc \in {"free", "zero"} /\ v \in CallRange
      BY <3>1, <1>1, PlacesApart DEF Contents
    <3>2. CASE ~ (pc \in {"free", "zero"} /\ v \in CallRange)
      BY <3>2, <1>1, <1>3 DEF Contents, Bound, Going
    <3> QED
      BY <3>1, <3>2
  <2>2. W[Last][v \div Fan] \in Table
    BY <2>1 DEF Pointee
  <2>3. W[Last][Up(Last, v)] \in Table
    BY <2>2, UpLevels
  <2> QED
    BY <2>3, <1>1, TablesAbove
<1> QED
  BY <1>2, <1>3

LEMMA WantValues ==
  ASSUME Types, NEW v \in Page
  PROVE  Want(v) \in Frame \cup Device \cup {None}
BY DEF Want, Types

LEMMA VInvSeen == VInv => Seen
<1> SUFFICES ASSUME VInv, pc # "fault"
             PROVE  /\ Types /\ Loops /\ Call
                    /\ \A v \in Page : Bound(v) =>
                         /\ \A l \in 0 .. Last : TableFrame[l][Up(l, v)] \in Table
                         /\ IF pc = "flush" /\ v \in CallRange
                              THEN Translate(v) = None
                              ELSE Translate(v) \in Frame \cup Device
                         /\ Want(v) # None => Translate(v) = Want(v)
  BY DEF Seen
<1>1. Types /\ DOMAIN window = {} /\ \E c, W : Sound(c, W)
  BY DEF VInv, Types
<1>2. PICK c, W : Sound(c, W)
  BY <1>1
<1>3. Loops /\ Call /\ Contents(c, W) /\ Tree(c, W) /\ Linked(c, W)
  BY <1>2 DEF Sound
<1>4. ASSUME NEW v \in Page, Bound(v)
      PROVE  /\ \A l \in 0 .. Last : TableFrame[l][Up(l, v)] \in Table
             /\ IF pc = "flush" /\ v \in CallRange
                  THEN Translate(v) = None ELSE Translate(v) \in Frame \cup Device
             /\ Want(v) # None => Translate(v) = Want(v)
  <2>1. ASSUME NEW l \in 0 .. Last PROVE TableFrame[l][Up(l, v)] \in Table
    <3>1. W[l][Up(l, v)] \in Table
      BY <1>2, <1>4, BoundTables
    <3>2. Up(l, v) \in TablesAt(l)
      BY UpLevels
    <3> DEFINE t == Up(l, v)
    <3> HIDE DEF t
    <3>3. TableFrame[l][t] = W[l][t]
      BY <3>1, <3>2, <1>1, <1>3, ReachTable DEF t
    <3> QED
      BY <3>1, <3>3 DEF t
  <2> DEFINE p == Pointee(c, W, Last, v)
  <2>2. (p # None => Translate(v) = p) /\ (~ Hole => Translate(v) = p)
    BY <1>1, <1>3, TranslatePage
  <2>3. IF pc \in {"free", "zero"} /\ v \in CallRange THEN p \in Frame \cup Device
                                                      ELSE p = Want(v)
    BY <1>3 DEF Contents
  <2> HIDE DEF p
  <2>4. Want(v) \in Frame \cup Device \cup {None}
    BY <1>1, WantValues
  <2>5. pc \in {"free", "zero", "flush"} /\ v \in CallRange => Want(v) = None
    BY <1>3 DEF Call, Want, Mapping
  <2>6. CASE Going /\ v \in CallRange
    BY <2>1, <2>2, <2>3, <2>5, <2>6, PlacesApart DEF Hole, Going
  <2>7. CASE ~ (Going /\ v \in CallRange)
    <3>1. Want(v) # None
      BY <2>7, <1>4 DEF Bound
    <3> QED
      BY <3>1, <2>1, <2>2, <2>3, <2>4, <2>7 DEF Going
  <2> QED
    BY <2>6, <2>7
<1> QED
  BY <1>1, <1>3, <1>4


------------------------------------------------------------------------------
(* What the steps do to these pages.  An entry that a step changes leads   *)
(* nowhere before or after it, except for FillEntry; so the tables above a *)
(* page that is bound before and after are the same.                       *)

WalksMem ==
  /\ Follows(mem, TableFrame)
  /\ \A v \in Page : Translate(v) = Goal(mem, TableFrame, Last, v)

LEMMA WalksOfMem == WalksMem
BY WalkOfMem DEF WalksMem

LEMMA WalksOfMemNext == WalksMem'
BY WalksOfMem, PTL

LEMMA DirectNext == Direct'
BY WalksAreDirect, PTL

Ends == Table \cup Device

Related(m, d) ==
  \A f \in Table, k \in Index :
    d[f][k] = m[f][k] \/ d[f][k].frame \notin Ends \/ m[f][k].frame \notin Ends

LEMMA PathKept ==
  ASSUME NEW m, NEW V, NEW d, NEW U, Follows(m, V), Follows(d, U), Related(m, d), NEW v \in Page,
         \A l \in 0 .. Last : V[l][Up(l, v)] \in Table /\ U[l][Up(l, v)] \in Table
  PROVE  /\ \A l \in 0 .. Last : U[l][Up(l, v)] = V[l][Up(l, v)]
         /\ Goal(m, V, Last, v) \in Ends /\ Goal(d, U, Last, v) \in Ends =>
              Goal(d, U, Last, v) = Goal(m, V, Last, v)
<1> DEFINE Same(l) == U[l][Up(l, v)] = V[l][Up(l, v)]
           Bad == {l \in 0 .. Last : ~ Same(l)}
<1>1. Bad = {}
  <2> SUFFICES ASSUME Bad # {} PROVE FALSE
    OBVIOUS
  <2>1. PICK l \in Bad : \A q \in Bad : l <= q
    <3>1. Bad \in SUBSET Nat
      BY Levels
    <3> HIDE DEF Bad
    <3> QED
      BY <3>1, SmallestNat
  <2>2. l \in 0 .. Last /\ ~ Same(l)
    OBVIOUS
  <2>3. l # 0
    <3>1. Up(0, v) = 0
      BY UpLevels
    <3> QED
      BY <3>1, <2>2 DEF Follows
  <2>4. l \in 1 .. Last /\ l - 1 \in 0 .. Last /\ ~ (l <= l - 1)
    BY <2>2, <2>3, Levels
  <2>5. Same(l - 1)
    <3>1. l - 1 \notin Bad
      <4> HIDE DEF Bad
      <4> QED
        BY <2>4, <2>1
    <3> QED
      BY <3>1, <2>4
  <2> DEFINE t == Up(l, v)
             u == Up(l - 1, v)
             k == On(l - 1, v) % Fan
             f == V[l - 1][u]
  <2>6. /\ t \in TablesAt(l) /\ t \div Fan = u /\ t % Fan = k /\ k \in Index
    BY <2>2, <2>4, UpLevels
  <2>7. f \in Table /\ U[l - 1][u] = f /\ V[l][t] \in Table /\ U[l][t] \in Table
    BY <2>2, <2>4, <2>5
  <2>8. V[l][t] # U[l][t]
    BY <2>2
  <2>9. V[l][t] = Goal(m, V, l - 1, t) /\ U[l][t] = Goal(d, U, l - 1, t)
    BY <2>4, <2>6 DEF Follows
  <2> HIDE DEF t, u, k, f, Bad
  <2>10. Goal(m, V, l - 1, t) = m[f][k].frame /\ Goal(d, U, l - 1, t) = d[f][k].frame
    BY <2>6, <2>7 DEF Goal, f
  <2>11. d[f][k] = m[f][k] \/ d[f][k].frame \notin Ends \/ m[f][k].frame \notin Ends
    BY <2>6, <2>7 DEF Related
  <2> QED
    BY <2>7, <2>8, <2>9, <2>10, <2>11 DEF Ends
<1>2. \A l \in 0 .. Last : Same(l)
  BY <1>1
<1>3. ASSUME Goal(m, V, Last, v) \in Ends, Goal(d, U, Last, v) \in Ends
      PROVE  Goal(d, U, Last, v) = Goal(m, V, Last, v)
  <2> DEFINE u == v \div Fan
             k == v % Fan
             f == V[Last][u]
  <2>1. Up(Last, v) = u /\ k \in Index
    BY UpLevels, Levels
  <2>2. f \in Table /\ U[Last][u] = f
    BY <2>1, <1>2, Levels
  <2> HIDE DEF f
  <2>3. Goal(m, V, Last, v) = m[f][k].frame /\ Goal(d, U, Last, v) = d[f][k].frame
    BY <2>2 DEF Goal, f
  <2> HIDE DEF u, k
  <2> QED
    BY <1>3, <2>1, <2>2, <2>3 DEF Related
<1> QED
  BY <1>2, <1>3

LEMMA MemoryChanges ==
  ASSUME mem \in [Table -> [Index -> Entries]], Next, ~ FillEntry
  PROVE  Related(mem, mem')
<1> SUFFICES ASSUME NEW f \in Table, NEW k \in Index
             PROVE  \/ mem'[f][k] = mem[f][k]
                    \/ mem'[f][k].frame \notin Ends \/ mem[f][k].frame \notin Ends
  BY DEF Related
<1>1. Zero \in Entries /\ Zero.frame \notin Ends /\ Junk.frame \notin Ends
  BY EntryFields, PlacesApart DEF Ends, Junk, Entry, Anywhere, Table, Frame, Root, Bar, Device
<1>2. \A S : Scribbled(S)[f][k] = IF f \in S THEN Junk ELSE mem[f][k]
  BY ScribbledValue
<1>3. \A l, X : Written(l, X, Zero)[f][k] \in {Zero, mem[f][k]}
  BY <1>1, WrittenValue
<1>4. CASE Take \/ CallMapMemory
  <2>1. \E S : mem' = Scribbled(S)
    <3>1. CASE Take
      BY <3>1 DEF Take
    <3>2. CASE CallMapMemory
      BY <3>2 DEF CallMapMemory
    <3> QED
      BY <3>1, <3>2, <1>4
  <2>2. PICK S : mem' = Scribbled(S)
    BY <2>1
  <2> QED
    BY <2>2, <1>1, <1>2
<1>5. CASE ClearTable \/ ClearEntries \/ UnlinkTable
  <2>1. \E l, X : mem' = Written(l, X, Zero)
    <3>1. CASE ClearTable
      BY <3>1 DEF ClearTable
    <3>2. CASE ClearEntries
      BY <3>2 DEF ClearEntries
    <3>3. CASE UnlinkTable
      BY <3>3 DEF UnlinkTable
    <3> QED
      BY <3>1, <3>2, <3>3, <1>5
  <2>2. PICK l, X : mem' = Written(l, X, Zero)
    BY <2>1
  <2>3. mem'[f][k] \in {Zero, mem[f][k]}
    BY <2>2, <1>3
  <2> QED
    BY <2>3, <1>1
<1>6. CASE LinkTable
  <2>1. /\ Read(i, Slot(i)) = Zero
        /\ \E e \in Entries : mem' = Written(i, {Slot(i)}, e)
    <3>1. CASE CanTake(1)
      <4>1. Entry(Lowest(1), FALSE) \in Entries
        BY <3>1, OneIsFree, EntryFields, LowestFree
      <4> QED
        BY <4>1, <3>1, <1>6 DEF LinkTable
    <3>2. CASE ~ CanTake(1)
      BY <3>2, <1>6, EntryFields DEF LinkTable
    <3> QED
      BY <3>1, <3>2
  <2>2. PICK e \in Entries : mem' = Written(i, {Slot(i)}, e)
    BY <2>1
  <2> DEFINE x == Slot(i)
  <2>3. mem'[f][k] = IF \E y \in {x} : Reach(i, y \div Fan) = f /\ y % Fan = k THEN e ELSE mem[f][k]
    BY <2>2, WrittenValue
  <2>4. Read(i, x) = mem[Reach(i, x \div Fan)][x % Fan]
    BY DEF Read
  <2> HIDE DEF x
  <2>5. CASE Reach(i, x \div Fan) = f /\ x % Fan = k
    <3>1. mem[f][k] = Zero
      BY <2>5, <2>1, <2>4 DEF x
    <3> QED
      BY <3>1, <1>1
  <2>6. CASE ~ (Reach(i, x \div Fan) = f /\ x % Fan = k)
    BY <2>6, <2>3
  <2> QED
    BY <2>5, <2>6
<1>7. CASE CallMapDevice \/ CallUnmap \/ KeepTable \/ FreeData \/ FlushPage \/ KeepFull
           \/ FreeTable \/ PageFault \/ Give \/ Touch \/ TouchTable \/ Forget
  BY <1>7
  DEF CallMapDevice, CallUnmap, KeepTable, FreeData, FlushPage, KeepFull, FreeTable, PageFault,
      Give, Touch, TouchTable, Forget
<1> QED
  BY <1>4, <1>5, <1>6, <1>7 DEF Next, Mapper

LEMMA Steady ==
  ASSUME Seen, Seen', Next, ~ FillEntry, pc' # "fault", NEW v \in Page, Bound(v), Bound(v)'
  PROVE  /\ \A l \in 0 .. Last : TableFrame'[l][Up(l, v)] = TableFrame[l][Up(l, v)]
         /\ Translate(v) \in Frame \cup Device /\ Translate(v)' \in Frame \cup Device =>
              Translate(v)' = Translate(v)
<1>1. pc # "fault"
  BY FaultStops
<1>2. mem \in [Table -> [Index -> Entries]]
  BY <1>1 DEF Seen, Types
<1>3. /\ \A l \in 0 .. Last : TableFrame[l][Up(l, v)] \in Table
      /\ \A l \in 0 .. Last : TableFrame'[l][Up(l, v)] \in Table
  BY <1>1 DEF Seen
<1>4. /\ Follows(mem, TableFrame) /\ Translate(v) = Goal(mem, TableFrame, Last, v)
      /\ Follows(mem', TableFrame') /\ Translate(v)' = Goal(mem', TableFrame', Last, v)
  BY WalksOfMem, WalksOfMemNext DEF WalksMem, Follows, Goal
<1>5. PICK V, U : V = TableFrame /\ U = TableFrame'
  OBVIOUS
<1>6. PICK m, d : m = mem /\ d = mem'
  OBVIOUS
<1>7. Related(m, d)
  BY <1>2, <1>6, MemoryChanges
<1>8. /\ \A l \in 0 .. Last : U[l][Up(l, v)] = V[l][Up(l, v)]
      /\ Goal(m, V, Last, v) \in Ends /\ Goal(d, U, Last, v) \in Ends =>
           Goal(d, U, Last, v) = Goal(m, V, Last, v)
  <2>1. Follows(m, V) /\ Follows(d, U)
    BY <1>4, <1>5, <1>6
  <2>2. \A l \in 0 .. Last : V[l][Up(l, v)] \in Table /\ U[l][Up(l, v)] \in Table
    BY <1>3, <1>5
  <2> QED
    BY <2>1, <2>2, <1>7, PathKept
<1>9. Frame \cup Device \subseteq Ends
  BY PlacesApart DEF Ends
<1> QED
  BY <1>4, <1>5, <1>6, <1>8, <1>9


\* A call's arguments stay while it runs.
LEMMA CallKept ==
  ASSUME Next, ~ (CallMapMemory \/ CallMapDevice \/ CallUnmap)
  PROVE  UNCHANGED <<space, pa, va, n>> /\ CallRange' = CallRange
<1>1. UNCHANGED <<space, args>>
  BY DEF Next, Mapper, KeepTable, LinkTable, ClearTable, FillEntry, FreeData, ClearEntries,
       FlushPage, KeepFull, FreeTable, UnlinkTable, PageFault, Take, Give, Touch, TouchTable, Forget
<1> QED
  BY <1>1 DEF args, CallRange

\* The order in which it goes on.
LEMMA NextStage ==
  ASSUME Next, ~ (CallMapMemory \/ CallMapDevice \/ CallUnmap), ~ FillEntry, pc' # "fault"
  PROVE  \/ pc' = pc /\ i' = i /\ ~ FlushPage
         \/ {pc, pc'} \subseteq {"tables", "clear"}
         \/ pc \in {"tables", "clear"} /\ pc' = "fill" /\ i' = 0
         \/ pc = "free" /\ pc' = "zero"
         \/ ClearEntries /\ pc = "zero" /\ pc' = "flush"
         \/ FlushPage /\ pc = "flush" /\ pc' \in {"flush", "prune"}
         \/ {pc, pc'} \subseteq {"prune", "unlink"}
         \/ pc \in {"prune", "unlink"} /\ pc' = "idle"
<1>1. CASE KeepTable \/ LinkTable \/ ClearTable
  BY <1>1 DEF KeepTable, LinkTable, ClearTable, Advance
<1>2. CASE FreeData \/ ClearEntries \/ FlushPage
  BY <1>2 DEF FreeData, ClearEntries, FlushPage
<1>3. CASE KeepFull \/ FreeTable \/ UnlinkTable
  BY <1>3 DEF KeepFull, FreeTable, UnlinkTable, Advance
<1>4. CASE Take \/ Give \/ Touch \/ TouchTable \/ Forget
  <2>1. CASE ~ FlushPage
    BY <2>1, <1>4 DEF Take, Give, Touch, TouchTable, Forget
  <2>2. CASE FlushPage
    BY <2>2 DEF FlushPage
  <2> QED
    BY <2>1, <2>2
<1>5. CASE PageFault
  BY <1>5 DEF PageFault
<1> QED
  BY <1>1, <1>2, <1>3, <1>4, <1>5 DEF Next, Mapper

\* map_pages is called for pages that are not mapped.
LEMMA CallMapArguments ==
  ASSUME CallMapMemory \/ CallMapDevice
  PROVE  /\ pc = "idle" /\ pc' = "tables" /\ UNCHANGED <<kept, tlb, upper, window>>
         /\ n' \in 1 .. MaxPages
         /\ \A v \in CallRange' : space[v] = None
         /\ \A v \in Page \ CallRange' : space'[v] = space[v]
<1>1. \E p : \E u \in Places, m \in 1 .. MaxPages, x \in Nx : Map(p, u, m, x)
  <2>1. CASE CallMapMemory
    <3>1. PICK u \in Places, m \in 1 .. MaxPages, x \in Nx : Map(Lowest(m), u, m, x)
      BY <2>1 DEF CallMapMemory
    <3> QED
      BY <3>1
  <2>2. CASE CallMapDevice
    <3>1. PICK u \in Places, m \in 1 .. MaxPages, x \in Nx : Map(Bar, u, m, x)
      BY <2>2 DEF CallMapDevice
    <3> QED
      BY <3>1
  <2> QED
    BY <2>1, <2>2
<1>2. PICK p : \E u \in Places, m \in 1 .. MaxPages, x \in Nx : Map(p, u, m, x)
  BY <1>1
<1>3. PICK u \in Places, m \in 1 .. MaxPages, x \in Nx : Map(p, u, m, x)
  BY <1>2
<1>4. /\ pc = "idle" /\ pc' = "tables" /\ va' = u /\ n' = m
      /\ \A v \in Run(u, m) : space[v] = None
      /\ space' = [v \in Page |-> IF v \in Run(u, m) THEN p + v - u ELSE space[v]]
      /\ UNCHANGED <<kept, tlb, upper, window>>
  BY <1>3 DEF Map
<1>5. CallRange' = Run(u, m)
  BY <1>4 DEF CallRange, Run
<1> QED
  BY <1>4, <1>5

\* unmap_pages is called for pages that are.
LEMMA CallUnmapArguments ==
  ASSUME CallUnmap, Types
  PROVE  /\ pc = "idle" /\ pc' = "free" /\ UNCHANGED <<mem, kept, tlb, upper, window>>
         /\ n' \in 1 .. MaxPages /\ CallRange' \subseteq Page
         /\ \A v \in CallRange' : space[v] # None
         /\ space' = [v \in Page |-> IF v \in CallRange' THEN None ELSE space[v]]
<1>1. PICK u \in Places, m \in 1 .. MaxPages :
        /\ Run(u, m) \subseteq Places /\ space[u] # None
        /\ \A w \in Run(u, m) : space[w] = space[u] + w - u
        /\ va' = u /\ n' = m
        /\ space' = [w \in Page |-> IF w \in Run(u, m) THEN None ELSE space[w]]
  BY DEF CallUnmap
<1>2. CallRange' = Run(u, m)
  BY <1>1 DEF CallRange, Run
<1>3. u \in Page /\ Run(u, m) \subseteq Page /\ space[u] \in Frame \cup Device
  BY <1>1, PagesAreInts DEF Types
<1>4. ASSUME NEW w \in Run(u, m) PROVE space[w] # None
  <2>1. w \in Int /\ u \in Int /\ w >= u /\ space[u] \in Int /\ space[u] >= 0
    <3>1. w \in Int /\ u \in Int /\ space[u] \in Int
      BY <1>3, PagesAreInts, PlacesApart
    <3>2. w >= u
      BY <3>1 DEF Run
    <3>3. space[u] >= 0
      BY <1>3 DEF Frame, Device, Bar
    <3> QED
      BY <3>1, <3>2, <3>3
  <2>2. space[w] = space[u] + w - u
    BY <1>1
  <2> QED
    BY <2>1, <2>2 DEF None
<1> QED
  BY <1>1, <1>2, <1>3, <1>4 DEF CallUnmap

LEMMA WantKept ==
  ASSUME Seen, Next, ~ FillEntry, ~ CallUnmap, pc' # "fault", NEW v \in Page
  PROVE  Want(v)' = Want(v)
<1>1. CASE CallMapMemory \/ CallMapDevice
  <2>1. Want(v) = space[v] /\ Want(v)' = IF v \in CallRange' THEN None ELSE space'[v]
    BY <1>1, CallMapArguments DEF Want, Mapping
  <2> QED
    BY <2>1, <1>1, CallMapArguments
<1>2. CASE ~ (CallMapMemory \/ CallMapDevice)
  <2>1. /\ UNCHANGED <<space, pa, va, n>> /\ CallRange' = CallRange
        /\ \/ pc' = pc /\ i' = i
           \/ {pc, pc'} \subseteq {"tables", "clear"}
           \/ pc \in {"tables", "clear"} /\ pc' = "fill" /\ i' = 0
           \/ {pc, pc'} \cap {"tables", "clear", "fill"} = {}
    BY <1>2, CallKept, NextStage
  <2>2. CASE pc' = pc /\ i' = i
    BY <2>1, <2>2 DEF Want, Mapping
  <2>3. CASE {pc, pc'} \subseteq {"tables", "clear"} \/ {pc, pc'} \cap {"tables", "clear", "fill"} = {}
    BY <2>1, <2>3 DEF Want, Mapping
  <2>4. CASE pc \in {"tables", "clear"} /\ pc' = "fill" /\ i' = 0
    <3>1. Types /\ va \in Int /\ n \in Int
      <4>1. Types
        BY <2>4 DEF Seen
      <4> QED
        BY <4>1, PagesAreInts DEF Types
    <3>2. v \in CallRange => ~ (v < va + 0)
      BY <3>1 DEF CallRange
    <3> QED
      BY <3>2, <2>1, <2>4 DEF Want, Mapping
  <2> QED
    BY <2>1, <2>2, <2>3, <2>4
<1> QED
  BY <1>1, <1>2

LEMMA UnmapWant ==
  ASSUME Seen, CallUnmap, NEW v \in Page
  PROVE  /\ Want(v)' = IF v \in CallRange' THEN None ELSE Want(v)
         /\ v \in CallRange' => Want(v) # None
<1>1. Types /\ pc = "idle"
  BY DEF Seen, CallUnmap
<1>2. /\ pc' = "free" /\ \A u \in CallRange' : space[u] # None
      /\ space' = [u \in Page |-> IF u \in CallRange' THEN None ELSE space[u]]
  BY <1>1, CallUnmapArguments
<1>3. Want(v) = space[v] /\ Want(v)' = space'[v]
  BY <1>1, <1>2 DEF Want, Mapping
<1> QED
  BY <1>2, <1>3

\* FillEntry adds the next page.
LEMMA FillWant ==
  ASSUME Seen, FillEntry
  PROVE  /\ va + i \in Page /\ va + i \in CallRange /\ pa + i \in Frame \cup Device
         /\ \A v \in Page : Want(v)' = IF v = va + i THEN pa + i ELSE Want(v)
         /\ Want(va + i) = None
<1>1. /\ pc = "fill" /\ UNCHANGED <<space, args>>
      /\ \/ i + 1 < n /\ i' = i + 1 /\ pc' = "fill"
         \/ ~ (i + 1 < n) /\ i' = 0 /\ pc' = "idle"
  BY DEF FillEntry
<1>2. /\ Types /\ Loops /\ Call /\ va' = va /\ pa' = pa /\ n' = n /\ CallRange' = CallRange
  BY <1>1 DEF Seen, CallRange, args
<1>3. /\ va \in Int /\ n \in Nat /\ i \in 0 .. n - 1 /\ i \in Int /\ pa \in Int
  BY <1>1, <1>2, PagesAreInts, PlacesApart DEF Call, Types, Loops, Mapping
<1>4. /\ CallRange \subseteq Page /\ CallRange = va .. va + n - 1
      /\ \A u \in CallRange : space[u] = pa + u - va /\ space[u] \in Frame \cup Device
  BY <1>1, <1>2 DEF Call, Mapping, CallRange
<1>5. va + i \in CallRange /\ va + i \in Page
  BY <1>3, <1>4
<1>6. space[va + i] = pa + i /\ pa + i \in Frame \cup Device
  <2>1. PICK u \in CallRange : u = va + i
    BY <1>5
  <2>2. pa + u - va = pa + i
    BY <2>1, <1>3
  <2> QED
    BY <2>1, <2>2, <1>4
<1>7. ASSUME NEW v \in Page
      PROVE  Want(v)' = IF v = va + i THEN pa + i ELSE Want(v)
  <2>1. v \in Int
    BY PagesAreInts
  <2>2. Want(v) = IF v \in CallRange /\ ~ (v < va + i) THEN None ELSE space[v]
    BY <1>1 DEF Want, Mapping
  <2>3. Want(v)' = IF v \in CallRange /\ ~ (v < va + i + 1) THEN None ELSE space[v]
    <3>1. CASE pc' = "fill"
      <4>1. i' = i + 1 /\ va + i' = va + i + 1
        BY <3>1, <1>1, <1>3
      <4> QED
        BY <4>1, <3>1, <1>1, <1>2 DEF Want, Mapping
    <3>2. CASE pc' = "idle"
      <4>1. Want(v)' = space[v]
        BY <3>2, <1>1 DEF Want, Mapping
      <4>2. v \in CallRange => v < va + i + 1
        BY <3>2, <1>1, <1>3, <1>4, <2>1
      <4> QED
        BY <4>1, <4>2
    <3> QED
      BY <3>1, <3>2, <1>1
  <2>4. CASE v = va + i
    <3>1. v < va + i + 1
      BY <2>4, <1>3
    <3> QED
      BY <3>1, <1>6, <2>3, <2>4
  <2>5. CASE v # va + i
    <3>1. v < va + i + 1 <=> v < va + i
      BY <2>1, <2>5, <1>3
    <3> QED
      BY <3>1, <2>2, <2>3, <2>5
  <2> QED
    BY <2>4, <2>5
<1>8. Want(va + i) = None
  <2>1. ~ (va + i < va + i)
    BY <1>3
  <2> QED
    BY <2>1, <1>1, <1>5 DEF Want, Mapping
<1> QED
  BY <1>5, <1>6, <1>7, <1>8


LEMMA BoundBefore ==
  ASSUME Seen, Next, ~ FillEntry, pc' # "fault", NEW v \in Page, Bound(v)'
  PROVE  Bound(v)
<1>1. CASE CallUnmap
  BY <1>1, UnmapWant DEF Bound
<1>2. CASE CallMapMemory \/ CallMapDevice
  <2>1. ~ CallUnmap
    BY <1>2, CallMapArguments DEF CallUnmap
  <2>2. Want(v)' = Want(v) /\ pc' = "tables"
    BY <2>1, <1>2, WantKept, CallMapArguments
  <2> QED
    BY <2>2 DEF Bound, Going
<1>3. CASE ~ (CallMapMemory \/ CallMapDevice \/ CallUnmap)
  <2>1. Want(v)' = Want(v) /\ CallRange' = CallRange
    BY <1>3, WantKept, CallKept
  <2>2. Going' => Going
    BY <1>3, NextStage DEF Going
  <2> QED
    BY <2>1, <2>2 DEF Bound
<1> QED
  BY <1>1, <1>2, <1>3

\* Where a page that stays bound leads changes only when its entry is
\* cleared.
LEMMA TranslateKept ==
  ASSUME Seen, Seen', Next, ~ FillEntry, pc' # "fault", NEW v \in Page, Bound(v)',
         ~ (ClearEntries /\ v \in CallRange)
  PROVE  Translate(v)' = Translate(v)
<1>1. Bound(v) /\ pc # "fault"
  BY BoundBefore, FaultStops
<1>2. CASE pc' = "flush" /\ v \in CallRange'
  <2>1. ~ (CallMapMemory \/ CallMapDevice \/ CallUnmap)
    <3>1. CallMapMemory \/ CallMapDevice => pc' = "tables"
      BY CallMapArguments
    <3> QED
      BY <3>1, <1>2 DEF CallUnmap
  <2>2. CallRange' = CallRange
    BY <2>1, CallKept
  <2>3. pc = "flush"
    BY <2>1, <2>2, <1>2, NextStage
  <2>4. Translate(v)' = None /\ Translate(v) = None
    BY <2>2, <2>3, <1>1, <1>2 DEF Seen
  <2> QED
    BY <2>4
<1>3. CASE ~ (pc' = "flush" /\ v \in CallRange')
  <2>1. Translate(v)' \in Frame \cup Device
    BY <1>3 DEF Seen
  <2>2. Translate(v) \in Frame \cup Device
    <3>1. CASE pc = "flush" /\ v \in CallRange
      <4>1. ~ (CallMapMemory \/ CallMapDevice \/ CallUnmap)
        <5>1. CallMapMemory \/ CallMapDevice => pc = "idle"
          BY CallMapArguments
        <5> QED
          BY <5>1, <3>1 DEF CallUnmap
      <4>2. CallRange' = CallRange /\ pc' \in {"flush", "prune"}
        BY <4>1, <3>1, CallKept, NextStage
      <4>3. pc' = "prune" /\ Want(v)' = Want(v)
        BY <4>1, <4>2, <3>1, <1>3, WantKept
      <4>4. Want(v) = None
        BY <3>1 DEF Seen, Call, Want, Mapping
      <4> QED
        BY <4>3, <4>4 DEF Bound, Going
    <3>2. CASE ~ (pc = "flush" /\ v \in CallRange)
      BY <3>2, <1>1 DEF Seen
    <3> QED
      BY <3>1, <3>2
  <2> QED
    BY <2>1, <2>2, <1>1, Steady
<1> QED
  BY <1>2, <1>3

\* FillEntry leaves the pages that are mapped where they are.
LEMMA FillKept ==
  ASSUME Seen, Seen', FillEntry, NEW v \in Page, v # va + i, Bound(v)'
  PROVE  Want(v) # None /\ Want(v)' = Want(v) /\ Translate(v)' = Translate(v)
<1>1. pc = "fill" /\ pc' \in {"fill", "idle"}
  BY DEF FillEntry
<1>2. Want(v)' = Want(v)
  BY FillWant
<1>3. Want(v) # None
  BY <1>1, <1>2 DEF Bound, Going
<1>4. Bound(v)
  BY <1>3 DEF Bound
<1>5. Translate(v) = Want(v) /\ Translate(v)' = Want(v)'
  BY <1>1, <1>2, <1>3, <1>4 DEF Seen
<1> QED
  BY <1>2, <1>3, <1>5


------------------------------------------------------------------------------
(* What the caches know of these pages is what the tables say, but for the *)
(* pages that unmap_pages has cleared and has yet to flush.                *)

Stale(v) == pc = "flush" /\ v \in CallRange /\ v >= va + i

Cached ==
  pc # "fault" =>
    \A v \in Page : Bound(v) =>
      Upright(v) /\ (v \in DOMAIN tlb => tlb[v] = Translate(v) \/ Stale(v))

\* The caches hold what they held and what a walk has found.
LEMMA CachesFill ==
  ASSUME Next, ~ FillEntry
  PROVE  /\ \A p \in DOMAIN upper' :
              \/ p \in DOMAIN upper /\ upper'[p] = upper[p]
              \/ \E l \in 1 .. Last : \E t \in TablesAt(l) : p = <<l, t>> /\ upper'[p] \in Found[l][t]
         /\ \A v \in DOMAIN tlb' :
              \/ v \in DOMAIN tlb /\ tlb'[v] = tlb[v]
              \/ Touch /\ v \in Page \ DOMAIN tlb /\ tlb'[v] \in Walked(v) \cap Present
<1>1. CASE Touch
  <2>1. PICK u \in Places \ DOMAIN tlb : \E f \in Walked(u) \cap Present :
          tlb' = [w \in DOMAIN tlb \cup {u} |-> IF w = u THEN f ELSE tlb[w]]
    BY <1>1 DEF Touch
  <2>2. PICK f \in Walked(u) \cap Present :
          tlb' = [w \in DOMAIN tlb \cup {u} |-> IF w = u THEN f ELSE tlb[w]]
    BY <2>1
  <2>3. upper' = upper
    BY <1>1 DEF Touch
  <2> QED
    BY <1>1, <2>2, <2>3, PagesAreInts
<1>2. CASE TouchTable
  <2>1. PICK l \in 1 .. Last : \E t \in TablesAt(l) : \E f \in Found[l][t] \cap Present :
          upper' = [p \in DOMAIN upper \cup {<<l, t>>} |-> IF p = <<l, t>> THEN f ELSE upper[p]]
    BY <1>2 DEF TouchTable, Last
  <2>2. PICK t \in TablesAt(l) : \E f \in Found[l][t] \cap Present :
          upper' = [p \in DOMAIN upper \cup {<<l, t>>} |-> IF p = <<l, t>> THEN f ELSE upper[p]]
    BY <2>1
  <2>3. PICK f \in Found[l][t] \cap Present :
          upper' = [p \in DOMAIN upper \cup {<<l, t>>} |-> IF p = <<l, t>> THEN f ELSE upper[p]]
    BY <2>2
  <2>4. tlb' = tlb
    BY <1>2 DEF TouchTable
  <2>5. ASSUME NEW p \in DOMAIN upper'
        PROVE  \/ p \in DOMAIN upper /\ upper'[p] = upper[p]
               \/ p = <<l, t>> /\ upper'[p] \in Found[l][t]
    BY <2>3
  <2> QED
    BY <2>4, <2>5
<1>3. CASE Forget
  <2>1. PICK X \in SUBSET DOMAIN tlb : tlb' = [w \in DOMAIN tlb \ X |-> tlb[w]]
    BY <1>3 DEF Forget
  <2>2. PICK P \in SUBSET DOMAIN upper : upper' = [p \in DOMAIN upper \ P |-> upper[p]]
    BY <1>3 DEF Forget
  <2> QED
    BY <2>1, <2>2
<1>4. CASE FlushPage
  <2>1. tlb' = [u \in DOMAIN tlb \ {va + i} |-> tlb[u]] /\ upper' = <<>>
    BY <1>4 DEF FlushPage, Invlpg
  <2>2. DOMAIN upper' = {}
    BY <2>1
  <2> QED
    BY <2>1, <2>2
<1>5. CASE CallMapMemory \/ CallMapDevice
  BY <1>5, CallMapArguments
<1>6. CASE ~ (Touch \/ TouchTable \/ Forget \/ FlushPage \/ CallMapMemory \/ CallMapDevice)
  <2>1. UNCHANGED <<tlb, upper>>
    BY <1>6 DEF Next, Mapper, CallUnmap, KeepTable, LinkTable, ClearTable, FreeData, ClearEntries,
         KeepFull, FreeTable, UnlinkTable, PageFault, Take, Give
  <2> QED
    BY <2>1
<1> QED
  BY <1>1, <1>2, <1>3, <1>4, <1>5, <1>6

LEMMA NextStale ==
  ASSUME Seen, Next, pc' # "fault", NEW v \in Page, Stale(v), v \in DOMAIN tlb'
  PROVE  Stale(v)'
<1>1. pc = "flush" /\ v \in CallRange /\ v >= va + i
  BY DEF Stale
<1>2. ~ (CallMapMemory \/ CallMapDevice \/ CallUnmap) /\ ~ FillEntry
  <2>1. CallMapMemory \/ CallMapDevice => pc = "idle"
    BY CallMapArguments
  <2> QED
    BY <2>1, <1>1 DEF CallUnmap, FillEntry
<1>3. /\ va' = va /\ CallRange' = CallRange
      /\ (pc' = pc /\ i' = i) \/ FlushPage
  BY <1>1, <1>2, CallKept, NextStage
<1>4. CASE pc' = pc /\ i' = i
  BY <1>1, <1>3, <1>4 DEF Stale
<1>5. CASE FlushPage
  <2>1. Types /\ Loops
    BY <1>1 DEF Seen
  <2>2. va \in Int /\ n \in Int /\ i \in Int /\ v \in Int /\ CallRange = va .. va + n - 1
    BY <1>1, <2>1, PagesAreInts DEF Types, Loops, CallRange
  <2>3. v # va + i
    <3>1. DOMAIN tlb' = DOMAIN tlb \ {va + i}
      BY <1>5 DEF FlushPage, Invlpg
    <3> QED
      BY <3>1
  <2>4. v >= va + (i + 1)
    BY <2>2, <2>3, <1>1
  <2>5. i + 1 < n
    BY <2>2, <2>4, <1>1
  <2>6. pc' = "flush" /\ i' = i + 1
    BY <2>5, <1>5 DEF FlushPage
  <2> QED
    BY <2>4, <2>6, <1>1, <1>3 DEF Stale
<1> QED
  BY <1>3, <1>4, <1>5

LEMMA NextCached ==
  ASSUME Seen, Seen', Cached, Next
  PROVE  Cached'
<1> SUFFICES ASSUME pc' # "fault", NEW v \in Page, Bound(v)'
             PROVE  Upright(v)' /\ (v \in DOMAIN tlb' => tlb'[v] = Translate(v)' \/ Stale(v)')
  BY DEF Cached
<1>1. pc # "fault"
  BY FaultStops
<1>2. CASE FillEntry
  <2>1. tlb' = [u \in DOMAIN tlb \ {va + i} |-> tlb[u]] /\ upper' = <<>> /\ pc = "fill"
    BY <1>2 DEF FillEntry, Invlpg
  <2>2. DOMAIN upper' = {}
    BY <2>1
  <2>3. Upright(v)'
    BY <2>2 DEF Upright
  <2>4. ASSUME v \in DOMAIN tlb' PROVE tlb'[v] = Translate(v)'
    <3>1. v \in DOMAIN tlb /\ v # va + i /\ tlb'[v] = tlb[v]
      BY <2>1, <2>4
    <3>2. Want(v) # None /\ Translate(v)' = Translate(v)
      BY <3>1, <1>2, FillKept
    <3>3. Bound(v) /\ ~ Stale(v)
      BY <3>2, <2>1 DEF Bound, Stale
    <3> QED
      BY <3>1, <3>2, <3>3, <1>1 DEF Cached
  <2> QED
    BY <2>3, <2>4
<1>3. CASE ~ FillEntry
  <2>1. Bound(v)
    BY <1>3, BoundBefore
  <2>2. Upright(v) /\ (v \in DOMAIN tlb => tlb[v] = Translate(v) \/ Stale(v))
    BY <2>1, <1>1 DEF Cached
  <2>3. /\ \A l \in 0 .. Last : Found[l][Up(l, v)] = {TableFrame[l][Up(l, v)]}
        /\ Walked(v) = {Translate(v)}
    BY <2>2, WalksAreDirect DEF Direct
  <2>4. Upright(v)'
    <3> SUFFICES ASSUME NEW l \in 0 .. Last, <<l, Up(l, v)>> \in DOMAIN upper'
                 PROVE  upper'[<<l, Up(l, v)>>] = TableFrame'[l][Up(l, v)]
      BY DEF Upright
    <3>1. TableFrame'[l][Up(l, v)] = TableFrame[l][Up(l, v)]
      BY <2>1, <1>3, Steady
    <3> DEFINE t == Up(l, v)
    <3>2. Found[l][t] = {TableFrame[l][t]}
      BY <2>3
    <3>3. <<l, t>> \in DOMAIN upper => upper[<<l, t>>] = TableFrame[l][t]
      BY <2>2 DEF Upright
    <3> HIDE DEF t
    <3>4. \/ <<l, t>> \in DOMAIN upper /\ upper'[<<l, t>>] = upper[<<l, t>>]
          \/ upper'[<<l, t>>] \in Found[l][t]
      <4>1. <<l, t>> \in DOMAIN upper'
        BY DEF t
      <4> QED
        BY <4>1, <1>3, CachesFill
    <3>5. upper'[<<l, t>>] = TableFrame[l][t]
      BY <3>2, <3>3, <3>4
    <3> QED
      BY <3>1, <3>5 DEF t
  <2>5. ASSUME v \in DOMAIN tlb' PROVE tlb'[v] = Translate(v)' \/ Stale(v)'
    <3>1. CASE ClearEntries /\ v \in CallRange
      <4>1. pc = "zero" /\ pc' = "flush" /\ UNCHANGED <<args, i>>
        BY <3>1 DEF ClearEntries
      <4>2. Types /\ Loops
        BY <4>1 DEF Seen
      <4>3. i = 0 /\ va \in Int /\ n \in Int /\ v \in Int /\ CallRange = va .. va + n - 1
        BY <4>1, <4>2, PagesAreInts DEF Types, Loops, CallRange
      <4>4. v >= va + i
        BY <4>3, <3>1
      <4>5. Stale(v)'
        BY <4>1, <4>4, <3>1 DEF Stale, CallRange, args
      <4> QED
        BY <4>5
    <3>2. CASE ~ (ClearEntries /\ v \in CallRange)
      <4>1. Translate(v)' = Translate(v)
        BY <3>2, <1>3, TranslateKept
      <4>2. \/ v \in DOMAIN tlb /\ tlb'[v] = tlb[v]
            \/ tlb'[v] \in Walked(v)
        BY <2>5, <1>3, CachesFill
      <4>3. tlb'[v] = Translate(v) \/ Stale(v)
        BY <4>2, <2>2, <2>3
      <4>4. Stale(v) => Stale(v)'
        BY <2>5, NextStale
      <4> QED
        BY <4>1, <4>3, <4>4
    <3> QED
      BY <3>1, <3>2
  <2> QED
    BY <2>4, <2>5
<1> QED
  BY <1>2, <1>3


------------------------------------------------------------------------------
(* Where accesses may end.                                                 *)

\* It depends on the memory and the caches alone.
LEMMA WalkSame ==
  ASSUME mem' = mem
  PROVE  TableFrame' = TableFrame /\ \A v \in Page : Translate(v)' = Translate(v)
<1> DEFINE O(m, f, k) ==
             IF f \in Table THEN m[f][k].frame ELSE IF f \in Present THEN Anywhere ELSE None
           TF(m) == CHOOSE f : f = [l \in 0 .. Depth - 1 |->
                      [t \in TablesAt(l) |->
                         IF l = 0 THEN Root ELSE O(m, f[l - 1][t \div Fan], t % Fan)]]
<1>1. TableFrame = TF(mem)
  BY DEF TableFrame, Onward
<1>2. TableFrame' = TF(mem')
  BY DEF TableFrame, Onward
<1>3. TF(mem') = TF(mem)
  <2> HIDE DEF TF
  <2> QED
    OBVIOUS
<1>4. TableFrame' = TableFrame
  BY <1>1, <1>2, <1>3
<1> HIDE DEF TF
<1>5. ASSUME NEW v \in Page PROVE Translate(v)' = Translate(v)
  BY <1>4 DEF Translate, Onward
<1> QED
  BY <1>4, <1>5

LEMMA LeadsSame ==
  ASSUME mem' = mem, upper' = upper, tlb' = tlb
  PROVE  \A v \in Page : Leads(v)' = Leads(v)
<1> DEFINE O(m, f, k) ==
             IF f \in Table THEN m[f][k].frame ELSE IF f \in Present THEN Anywhere ELSE None
           F(m, u) == CHOOSE f : f = [l \in 0 .. Depth - 1 |->
                      [t \in TablesAt(l) |->
                         {u[p] : p \in {<<l, t>>} \cap DOMAIN u}
                           \cup IF l = 0 THEN {Root}
                                ELSE {O(m, g, t % Fan) : g \in f[l - 1][t \div Fan]}]]
<1>1. Found = F(mem, upper)
  BY DEF Found, Onward
<1>2. Found' = F(mem', upper')
  BY DEF Found, Onward
<1>3. F(mem', upper') = F(mem, upper)
  <2> HIDE DEF F
  <2> QED
    OBVIOUS
<1>4. Found' = Found
  BY <1>1, <1>2, <1>3
<1> HIDE DEF F
<1>5. ASSUME NEW v \in Page PROVE Leads(v)' = Leads(v)
  BY <1>4 DEF Leads, Walked, Onward
<1> QED
  BY <1>5

Surely ==
  pc # "fault" /\ Cached => \A v \in Page : Bound(v) /\ ~ Stale(v) => Leads(v) = {Translate(v)}

LEMMA LeadsSurely == Surely
<1> SUFFICES ASSUME pc # "fault", Cached, NEW v \in Page, Bound(v), ~ Stale(v)
             PROVE  Leads(v) = {Translate(v)}
  BY DEF Surely
<1>1. Upright(v) /\ (v \in DOMAIN tlb => tlb[v] = Translate(v))
  BY DEF Cached
<1>2. Walked(v) = {Translate(v)}
  BY <1>1, WalksAreDirect DEF Direct
<1> QED
  BY <1>1, <1>2 DEF Leads

LEMMA LeadsSurelyNext == Surely'
BY LeadsSurely, PTL

\* No step changes it for a page that is mapped.
LEMMA MappedFirm ==
  ASSUME Seen, Seen', Cached, Cached', Next, pc' # "fault", NEW v \in Page, Want(v) # None
  PROVE  /\ Leads(v)' = Leads(v)
         /\ ~ CallUnmap => Want(v)' = Want(v)
<1>1. pc # "fault" /\ Call
  BY FaultStops DEF Seen
<1>2. Bound(v) /\ ~ Stale(v)
  BY <1>1 DEF Bound, Stale, Call, Want, Mapping
<1>3. CASE FillEntry
  <2>1. v # va + i /\ Want(v)' = Want(v)
    BY <1>3, FillWant
  <2>2. Bound(v)' /\ pc' # "flush"
    BY <2>1, <1>3 DEF Bound, FillEntry
  <2>3. Translate(v)' = Translate(v)
    BY <2>1, <2>2, <1>3, FillKept
  <2>4. ~ Stale(v)'
    BY <2>2 DEF Stale
  <2> QED
    BY <2>1, <2>2, <2>3, <2>4, <1>1, <1>2, <1>3, LeadsSurely, LeadsSurelyNext DEF Surely
<1>4. CASE ~ FillEntry
  <2>1. ~ CallUnmap => Want(v)' = Want(v)
    BY <1>4, WantKept
  <2>2. Bound(v)' /\ ~ Stale(v)'
    <3>1. CASE CallUnmap
      <4>1. pc' = "free" /\ Want(v)' = IF v \in CallRange' THEN None ELSE Want(v)
        BY <3>1, UnmapWant DEF CallUnmap
      <4> QED
        BY <4>1 DEF Bound, Going, Stale
    <3>2. CASE ~ CallUnmap
      <4>1. Want(v)' # None
        BY <3>2, <2>1
      <4>2. pc' = "flush" => v \notin CallRange'
        BY <4>1 DEF Seen, Call, Want, Mapping
      <4> QED
        BY <4>1, <4>2 DEF Bound, Stale
    <3> QED
      BY <3>1, <3>2
  <2>3. ~ (ClearEntries /\ v \in CallRange)
    BY <1>1 DEF ClearEntries, Call, Want, Mapping
  <2>4. Translate(v)' = Translate(v)
    BY <2>2, <2>3, <1>4, TranslateKept
  <2> QED
    BY <2>1, <2>2, <2>4, <1>1, <1>2, LeadsSurely, LeadsSurelyNext DEF Surely
<1> QED
  BY <1>3, <1>4

\* A page that unmap_pages is unmapping leads where it led, or nowhere.
LEMMA GoingVanishes ==
  ASSUME Seen, Seen', Cached, Cached', Next, Going, Going', NEW v \in Page, v \in CallRange,
         CallRange' = CallRange
  PROVE  Leads(v)' \in {Leads(v), {None}}
<1>1. /\ pc # "fault" /\ pc' # "fault" /\ ~ FillEntry
      /\ Bound(v) /\ Bound(v)'
  BY DEF Going, FillEntry, Bound
<1>2. Walked(v) = {Translate(v)} /\ Walked(v)' = {Translate(v)'}
  <2>1. Upright(v) /\ Upright(v)'
    BY <1>1 DEF Cached
  <2> QED
    BY <2>1, WalksAreDirect, DirectNext DEF Direct
<1>3. CASE v \in DOMAIN tlb'
  <2>1. Leads(v)' = {tlb'[v]}
    BY <1>3 DEF Leads
  <2>2. CASE v \in DOMAIN tlb /\ tlb'[v] = tlb[v]
    BY <2>1, <2>2 DEF Leads
  <2>3. CASE Touch /\ v \notin DOMAIN tlb /\ tlb'[v] \in Walked(v)
    <3>1. Leads(v) = {Translate(v)}
      BY <2>3, <1>2 DEF Leads
    <3> QED
      BY <3>1, <2>1, <2>3, <1>2
  <2> QED
    BY <2>2, <2>3, <1>1, <1>3, CachesFill
<1>4. CASE v \notin DOMAIN tlb'
  <2>1. Leads(v)' = {Translate(v)'}
    BY <1>4, <1>2 DEF Leads
  <2>2. CASE pc' = "flush"
    <3>1. Translate(v)' = None
      BY <2>2, <1>1 DEF Seen
    <3> QED
      BY <2>1, <3>1
  <2>3. CASE pc' # "flush"
    <3>1. ~ ClearEntries /\ pc # "flush"
      <4>1. ~ (CallMapMemory \/ CallMapDevice \/ CallUnmap)
        <5>1. CallMapMemory \/ CallMapDevice => pc = "idle"
          BY CallMapArguments
        <5> QED
          BY <5>1 DEF CallUnmap, Going
      <4>2. pc = "flush" => pc' \in {"flush", "prune"}
        BY <4>1, <1>1, NextStage
      <4> QED
        BY <4>2, <2>3 DEF ClearEntries, Going
    <3>2. Translate(v)' = Translate(v)
      BY <3>1, <1>1, TranslateKept
    <3>3. Leads(v) = {Translate(v)}
      BY <3>1, <1>1, LeadsSurely DEF Surely, Stale
    <3> QED
      BY <2>1, <3>2, <3>3
  <2> QED
    BY <2>2, <2>3
<1> QED
  BY <1>3, <1>4

\* When the last one is flushed they all lead nowhere.
LEMMA FlushedVanish ==
  ASSUME Seen, Cached, Next, FlushPage, pc' = "prune", NEW v \in Page, v \in CallRange
  PROVE  Leads(v)' = {None}
<1>1. pc = "flush" /\ mem' = mem /\ upper' = <<>>
  BY DEF FlushPage, Invlpg
<1>2. Bound(v)
  BY <1>1 DEF Bound, Going
<1>3. Translate(v) = None /\ Types
  BY <1>1, <1>2 DEF Seen
<1>4. v \notin DOMAIN tlb'
  <2> SUFFICES ASSUME v \in DOMAIN tlb' PROVE FALSE
    OBVIOUS
  <2>1. v \in DOMAIN tlb
    BY DEF FlushPage, Invlpg
  <2>2. tlb[v] # None
    <3>1. tlb[v] \in Present
      BY <2>1, <1>3 DEF Types
    <3>2. None # Anywhere
      BY DEF None, Anywhere
    <3> QED
      BY <3>1, <3>2, PlacesApart DEF Present
  <2>3. Stale(v)
    BY <2>1, <2>2, <1>1, <1>2, <1>3 DEF Cached
  <2>4. Stale(v)'
    BY <2>3, NextStale
  <2> QED
    BY <2>4 DEF Stale
<1>5. Upright(v)'
  <2>1. DOMAIN upper' = {}
    BY <1>1
  <2> QED
    BY <2>1 DEF Upright
<1>6. Walked(v)' = {Translate(v)'}
  BY <1>5, DirectNext DEF Direct
<1>7. Translate(v)' = None
  BY <1>1, <1>3, WalkSame
<1> QED
  BY <1>4, <1>6, <1>7 DEF Leads


------------------------------------------------------------------------------
(* Each step is a step of AddressSpace or a stutter.                       *)

SpaceStep == [Promise!Next]_(Promise!vars)

Targets == [v \in Page |-> Promised(v)]
Ways    == [v \in Page |-> Leads(v)]

\* The stage of a call.
LEMMA CallStages ==
  /\ pc = "idle" => AbstractCall = Promise!Idle
  /\ pc \in {"tables", "clear"} => AbstractCall = Promise!Call("map", va, n, pa, 0)
  /\ pc = "fill" => AbstractCall = Promise!Call("map", va, n, pa, i)
  /\ pc \in {"free", "zero", "flush"} => AbstractCall = Promise!Call("unmap", va, n, 0, 0)
  /\ pc \in {"prune", "unlink"} => AbstractCall = Promise!Call("prune", va, n, 0, 0)
BY DEF AbstractCall, Asked, Promise!Idle, Promise!Call

LEMMA CallStagesNext ==
  /\ pc' = "idle" => AbstractCall' = Promise!Idle
  /\ pc' = "fault" => AbstractCall' = Promise!Dead
  /\ pc' \in {"tables", "clear"} => AbstractCall' = Promise!Call("map", va', n', pa', 0)
  /\ pc' = "fill" => AbstractCall' = Promise!Call("map", va', n', pa', i')
  /\ pc' \in {"free", "zero", "flush"} => AbstractCall' = Promise!Call("unmap", va', n', 0, 0)
  /\ pc' \in {"prune", "unlink"} => AbstractCall' = Promise!Call("prune", va', n', 0, 0)
BY DEF AbstractCall, Asked, Promise!Idle, Promise!Dead, Promise!Call

LEMMA TargetValues ==
  /\ pc # "fault" => \A v \in Page : Targets[v] = Want(v)
  /\ pc' # "fault" => \A v \in Page : Targets'[v] = Want(v)'
  /\ \A v \in Page : Ways[v] = Leads(v) /\ Ways'[v] = Leads(v)'
BY DEF Targets, Ways, Promised, Leads, Want, Walked, CallRange, Mapping

LEMMA MappedIsFirm ==
  ASSUME Seen, Seen', Cached, Cached', Next, pc' # "fault"
  PROVE  Promise!Firm(Promise!Mapped)
<1>1. pc # "fault"
  BY FaultStops
<1>2. ASSUME NEW v \in Page, Targets[v] # None PROVE Ways'[v] = Ways[v]
  <2>1. Want(v) # None
    BY <1>1, <1>2, TargetValues
  <2>2. Leads(v)' = Leads(v)
    BY <2>1, MappedFirm
  <2> QED
    BY <2>2, TargetValues
<1> QED
  BY <1>2 DEF Promise!Firm, Promise!Mapped, Targets, Ways

LEMMA TargetsKept ==
  ASSUME Seen, Next, ~ FillEntry, ~ CallUnmap, pc' # "fault"
  PROVE  Targets' = Targets
<1>1. pc # "fault"
  BY FaultStops
<1>2. ASSUME NEW v \in Page PROVE Promised(v)' = Promised(v)
  <2>1. Want(v)' = Want(v)
    BY WantKept
  <2> QED
    BY <2>1, <1>1 DEF Promised
<1> QED
  BY <1>2 DEF Targets

\* map_pages is called for pages that are not mapped.
LEMMA CallMapRefines ==
  ASSUME Seen, Seen', Cached, Cached', Next, CallMapMemory \/ CallMapDevice
  PROVE  Promise!AskMap
<1>1. /\ pc = "idle" /\ pc' = "tables" /\ n' \in 1 .. MaxPages
      /\ \A v \in CallRange' : space[v] = None
  BY CallMapArguments
<1>2. /\ va' \in Page /\ pa' \in Frame \cup Device /\ CallRange' \subseteq Page
  BY <1>1 DEF Seen, Call, Mapping
<1>3. AbstractCall = Promise!Idle /\ AbstractCall' = Promise!Call("map", va', n', pa', 0)
  BY <1>1, CallStages, CallStagesNext
<1>4. Targets' = Targets
  BY <1>1, TargetsKept DEF FillEntry, CallUnmap
<1>5. Promise!Range(va', n') = CallRange'
  BY DEF Promise!Range, CallRange
<1>6. ASSUME NEW u \in CallRange' PROVE u \in Page \ Promise!Mapped
  <2>1. u \in Page /\ Want(u) = None
    BY <1>1, <1>2 DEF Want, Mapping
  <2>2. Targets[u] = None
    BY <2>1, <1>1, TargetValues
  <2> QED
    BY <2>1, <2>2 DEF Promise!Mapped, Targets
<1>7. Promise!Firm(Promise!Mapped)
  BY <1>1, MappedIsFirm
<1> QED
  BY <1>1, <1>2, <1>3, <1>4, <1>5, <1>6, <1>7 DEF Promise!AskMap, Targets

\* unmap_pages is called for pages that are.
LEMMA CallUnmapRefines ==
  ASSUME Seen, Seen', Cached, Cached', Next, CallUnmap
  PROVE  Promise!AskUnmap
<1>1. Types
  BY DEF Seen, CallUnmap
<1>2. /\ pc = "idle" /\ pc' = "free" /\ n' \in 1 .. MaxPages /\ CallRange' \subseteq Page
  BY <1>1, CallUnmapArguments
<1>3. va' \in Page
  BY <1>2 DEF Seen, Call
<1>4. AbstractCall = Promise!Idle /\ AbstractCall' = Promise!Call("unmap", va', n', 0, 0)
  BY <1>2, CallStages, CallStagesNext
<1>5. Promise!Range(va', n') = CallRange'
  BY DEF Promise!Range, CallRange
<1>6. \A u \in CallRange' : u \in Promise!Mapped
  <2> TAKE u \in CallRange'
  <2>1. u \in Page /\ Want(u) # None
    BY <1>2, UnmapWant
  <2>2. Targets[u] # None
    BY <2>1, <1>2, TargetValues
  <2> QED
    BY <2>1, <2>2 DEF Promise!Mapped, Targets
<1>7. Targets' = [u \in Page |-> IF u \in CallRange' THEN None ELSE Targets[u]]
  <2>1. ASSUME NEW u \in Page
        PROVE  Targets'[u] = IF u \in CallRange' THEN None ELSE Targets[u]
    <3>1. Targets'[u] = Want(u)' /\ Targets[u] = Want(u)
      BY <1>2, TargetValues
    <3> QED
      BY <3>1, UnmapWant
  <2>2. Targets' = [u \in Page |-> Targets'[u]]
    BY DEF Targets
  <2> QED
    BY <2>1, <2>2
<1>8. Promise!Firm(Promise!Mapped)
  BY <1>2, MappedIsFirm
<1> QED
  BY <1>2, <1>3, <1>4, <1>5, <1>6, <1>7, <1>8 DEF Promise!AskUnmap, Targets

\* Filling an entry is the moment a page appears.
LEMMA FillEntryRefines ==
  ASSUME Seen, Seen', Cached, Cached', Next, FillEntry
  PROVE  Promise!Appear
<1>1. /\ pc = "fill" /\ UNCHANGED args
      /\ \/ i + 1 < n /\ i' = i + 1 /\ pc' = "fill"
         \/ ~ (i + 1 < n) /\ i' = 0 /\ pc' = "idle"
  BY DEF FillEntry
<1>2. i \in 0 .. n - 1 /\ n \in Nat /\ va' = va /\ n' = n /\ pa' = pa
  BY <1>1 DEF Seen, Loops, Types, args
<1>3. /\ AbstractCall = Promise!Call("map", va, n, pa, i)
      /\ pc' = "idle" => AbstractCall' = Promise!Idle
      /\ pc' = "fill" => AbstractCall' = Promise!Call("map", va, n, pa, i + 1)
  BY <1>1, <1>2, CallStages, CallStagesNext
<1>4. /\ AbstractCall.op = "map" /\ AbstractCall.done = i /\ AbstractCall.n = n
      /\ AbstractCall.page = va /\ AbstractCall.target = pa
      /\ [AbstractCall EXCEPT !.done = @ + 1] = Promise!Call("map", va, n, pa, i + 1)
  BY <1>3 DEF Promise!Call
<1>5. i < n
  BY <1>2
<1>6. AbstractCall' = IF i + 1 < n THEN [AbstractCall EXCEPT !.done = @ + 1] ELSE Promise!Idle
  BY <1>1, <1>3, <1>4
<1>7. va + i \in Page /\ pa + i \in Frame \cup Device
  BY FillWant
<1>8. Targets' = [Targets EXCEPT ![va + i] = pa + i]
  <2>1. ASSUME NEW v \in Page
        PROVE  Targets'[v] = IF v = va + i THEN pa + i ELSE Targets[v]
    <3>1. Targets'[v] = Want(v)' /\ Targets[v] = Want(v)
      BY <1>1, TargetValues
    <3> QED
      BY <3>1, FillWant
  <2>2. Targets = [v \in Page |-> Targets[v]] /\ Targets' = [v \in Page |-> Targets'[v]]
    BY DEF Targets
  <2> DEFINE w == va + i
  <2> HIDE DEF w
  <2>3. Targets' = [v \in Page |-> IF v = w THEN pa + i ELSE Targets[v]]
    BY <2>1, <2>2 DEF w
  <2>4. Targets' = [Targets EXCEPT ![w] = pa + i]
    BY <2>2, <2>3
  <2> QED
    BY <2>4 DEF w
<1>9. Ways'[va + i] = {Targets'[va + i]}
  <2>1. PICK v \in Page : v = va + i
    BY <1>7
  <2>2. Want(v)' = pa + i /\ Targets'[v] = Want(v)' /\ Ways'[v] = Leads(v)'
    BY <2>1, <1>1, FillWant, TargetValues
  <2>3. Want(v)' # None
    BY <2>2, <1>7, PlacesApart
  <2>4. Bound(v)' /\ ~ Stale(v)' /\ pc' # "fault"
    BY <2>3, <1>1 DEF Bound, Stale
  <2>5. Translate(v)' = Want(v)'
    BY <2>3, <2>4 DEF Seen
  <2>6. Leads(v)' = {Translate(v)'}
    BY <2>4, LeadsSurelyNext DEF Surely
  <2> QED
    BY <2>1, <2>2, <2>5, <2>6
<1>10. Promise!Firm(Promise!Mapped)
  BY <1>1, MappedIsFirm
<1> QED
  BY <1>4, <1>5, <1>6, <1>8, <1>9, <1>10 DEF Promise!Appear, Targets, Ways


\* Until the tables are looked at, pages of the range may vanish.
LEMMA VanishRefines ==
  ASSUME Seen, Seen', Cached, Cached', Next, Going, Going'
  PROVE  Promise!Vanish
<1>1. /\ pc # "idle" /\ pc' # "fault" /\ ~ FillEntry /\ ~ CallUnmap
      /\ ~ (CallMapMemory \/ CallMapDevice)
  <2>1. CallMapMemory \/ CallMapDevice => pc = "idle"
    BY CallMapArguments
  <2> QED
    BY <2>1 DEF Going, FillEntry, CallUnmap
<1>2. /\ UNCHANGED <<pa, va, n>> /\ CallRange' = CallRange
  BY <1>1, CallKept
<1>3. AbstractCall = Promise!Call("unmap", va, n, 0, 0) /\ AbstractCall' = AbstractCall
  BY <1>2, CallStages, CallStagesNext DEF Going
<1>4. AbstractCall.op = "unmap" /\ Promise!Range(AbstractCall.page, AbstractCall.n) = CallRange
  BY <1>3 DEF Promise!Call, Promise!Range, CallRange
<1>5. Targets' = Targets
  BY <1>1, TargetsKept
<1>6. Promise!Firm(Promise!Mapped)
  BY <1>1, MappedIsFirm
<1>7. CallRange \subseteq Page
  BY <1>1 DEF Seen, Call, Going
<1>8. \A v \in CallRange : Ways'[v] \in {Ways[v], {None}}
  BY <1>2, <1>7, GoingVanishes, TargetValues
<1> QED
  BY <1>3, <1>4, <1>5, <1>6, <1>8 DEF Promise!Vanish, Promise!Going, Targets, Ways

LEMMA StartPruningRefines ==
  ASSUME Seen, Seen', Cached, Cached', Next, FlushPage, pc' = "prune"
  PROVE  Promise!StartPruning
<1>1. pc = "flush" /\ ~ FillEntry /\ ~ CallUnmap /\ ~ (CallMapMemory \/ CallMapDevice)
  <2>1. CallMapMemory \/ CallMapDevice => pc = "idle"
    BY CallMapArguments
  <2> QED
    BY <2>1 DEF FlushPage, FillEntry, CallUnmap
<1>2. UNCHANGED <<pa, va, n>>
  BY <1>1, CallKept
<1>3. /\ AbstractCall = Promise!Call("unmap", va, n, 0, 0)
      /\ AbstractCall' = Promise!Call("prune", va, n, 0, 0)
  BY <1>1, <1>2, CallStages, CallStagesNext
<1>4. /\ AbstractCall.op = "unmap" /\ Promise!Range(AbstractCall.page, AbstractCall.n) = CallRange
      /\ AbstractCall' = [AbstractCall EXCEPT !.op = "prune"]
  BY <1>3 DEF Promise!Call, Promise!Range, CallRange
<1>5. Targets' = Targets
  BY <1>1, TargetsKept
<1>6. Promise!Firm(Promise!Mapped)
  BY MappedIsFirm
<1>7. CallRange \subseteq Page
  BY <1>1 DEF Seen, Call
<1>8. \A v \in CallRange : Ways'[v] = {None}
  BY <1>7, FlushedVanish, TargetValues
<1> QED
  BY <1>4, <1>5, <1>6, <1>8 DEF Promise!StartPruning, Promise!Going, Targets, Ways

LEMMA AnswerRefines ==
  ASSUME Seen, Seen', Cached, Cached', Next, pc \in {"prune", "unlink"}, pc' = "idle"
  PROVE  Promise!AnswerUnmap
<1>1. AbstractCall = Promise!Call("prune", va, n, 0, 0) /\ AbstractCall' = Promise!Idle
  BY CallStages, CallStagesNext
<1>2. AbstractCall.op = "prune"
  BY <1>1 DEF Promise!Call
<1>3. Targets' = Targets
  BY TargetsKept DEF FillEntry, CallUnmap
<1>4. Promise!Firm(Promise!Mapped)
  BY MappedIsFirm
<1> QED
  BY <1>1, <1>2, <1>3, <1>4 DEF Promise!AnswerUnmap, Targets

\* A page fault leaves every page where it leads.
LEMMA DieRefines ==
  ASSUME Seen, PageFault, pc # "fault"
  PROVE  Promise!Die
<1>1. /\ pc' = "fault" /\ mem' = mem /\ upper' = upper /\ tlb' = tlb
      /\ UNCHANGED <<space, va, n>>
  BY DEF PageFault, args
<1>2. pc # "idle"
  <2>1. pc = "idle" => Accessed.entries = {}
    BY DEF Accessed
  <2>2. AccessedTables # {}
    BY DEF PageFault
  <2> QED
    BY <2>1, <2>2 DEF AccessedTables
<1>3. /\ AbstractCall.op \in {"map", "unmap", "prune"}
      /\ AbstractCall.page = va /\ AbstractCall.n = n
  <2>1. pc \in {"tables", "clear", "fill", "free", "zero", "flush", "prune", "unlink"}
    BY <1>2 DEF Seen, Types
  <2> QED
    BY <2>1, CallStages DEF Promise!Call
<1>4. AbstractCall' = Promise!Dead
  BY <1>1, CallStagesNext
<1>5. Targets' = [v \in Page |-> IF v \in CallRange THEN None ELSE Targets[v]]
  <2>1. ASSUME NEW v \in Page
        PROVE  Promised(v)' = IF v \in CallRange THEN None ELSE Promised(v)
    <3>1. CallRange' = CallRange
      BY <1>1 DEF CallRange
    <3>2. Promised(v)' = IF v \in CallRange THEN None ELSE space[v]
      BY <1>1, <3>1 DEF Promised, Want, Mapping
    <3>3. v \notin CallRange => Promised(v) = space[v]
      BY DEF Promised, Want
    <3> QED
      BY <3>2, <3>3
  <2> QED
    BY <2>1 DEF Targets
<1>6. Promise!Range(va, n) = CallRange
  BY DEF Promise!Range, CallRange
<1>7. Promise!Firm(Promise!Mapped)
  <2>1. \A v \in Page : Ways'[v] = Ways[v]
    BY <1>1, LeadsSame, TargetValues
  <2> QED
    BY <2>1 DEF Promise!Firm, Promise!Mapped, Ways
<1> QED
  BY <1>3, <1>4, <1>5, <1>6, <1>7 DEF Promise!Die, Targets

\* Other steps only change where pages lead that nobody may access.
LEMMA WanderRefines ==
  ASSUME Seen, Seen', Cached, Cached', Next, ~ (CallMapMemory \/ CallMapDevice \/ CallUnmap),
         ~ FillEntry, pc' # "fault", ~ Going,
         \/ pc' = pc /\ i' = i
         \/ {pc, pc'} \subseteq {"tables", "clear"}
         \/ pc \in {"tables", "clear"} /\ pc' = "fill" /\ i' = 0
         \/ {pc, pc'} \subseteq {"prune", "unlink"}
  PROVE  Promise!Wander
<1>1. UNCHANGED <<pa, va, n>>
  BY CallKept
<1>2. AbstractCall' = AbstractCall
  BY <1>1 DEF AbstractCall, Asked
<1>3. AbstractCall.op # "unmap"
  BY DEF Going, AbstractCall, Asked
<1>4. Targets' = Targets
  BY TargetsKept
<1>5. Promise!Firm(Promise!Mapped)
  BY MappedIsFirm
<1>6. Promise!Mapped \cup Promise!Going = Promise!Mapped
  BY <1>3 DEF Promise!Going
<1> QED
  BY <1>2, <1>4, <1>5, <1>6 DEF Promise!Wander, Targets

LEMMA NextRefines ==
  ASSUME Seen, Seen', Cached, Cached', Next
  PROVE  SpaceStep
<1>1. pc # "fault"
  BY FaultStops
<1>2. CASE pc' = "fault"
  <2>1. PageFault
    BY <1>1, <1>2
    DEF Next, Mapper, CallMapMemory, CallMapDevice, Map, CallUnmap, KeepTable, LinkTable, ClearTable,
        FillEntry, FreeData, ClearEntries, FlushPage, KeepFull, FreeTable, UnlinkTable, Advance,
        Take, Give, Touch, TouchTable, Forget
  <2> QED
    BY <2>1, <1>1, DieRefines DEF SpaceStep, Promise!Next
<1>3. CASE CallMapMemory \/ CallMapDevice \/ CallUnmap
  BY <1>3, CallMapRefines, CallUnmapRefines DEF SpaceStep, Promise!Next
<1>4. CASE FillEntry
  BY <1>4, FillEntryRefines DEF SpaceStep, Promise!Next
<1>5. CASE Going /\ Going'
  BY <1>5, VanishRefines DEF SpaceStep, Promise!Next
<1>6. CASE /\ pc' # "fault" /\ ~ (CallMapMemory \/ CallMapDevice \/ CallUnmap) /\ ~ FillEntry
           /\ ~ (Going /\ Going')
  <2>1. CASE FlushPage /\ pc' = "prune"
    BY <2>1, StartPruningRefines DEF SpaceStep, Promise!Next
  <2>2. CASE pc \in {"prune", "unlink"} /\ pc' = "idle"
    BY <2>2, AnswerRefines DEF SpaceStep, Promise!Next
  <2>3. CASE ~ (FlushPage /\ pc' = "prune") /\ ~ (pc \in {"prune", "unlink"} /\ pc' = "idle")
    <3>1. /\ ~ Going
          /\ \/ pc' = pc /\ i' = i
             \/ {pc, pc'} \subseteq {"tables", "clear"}
             \/ pc \in {"tables", "clear"} /\ pc' = "fill" /\ i' = 0
             \/ {pc, pc'} \subseteq {"prune", "unlink"}
      BY <1>6, <2>3, NextStage DEF Going
    <3> QED
      BY <3>1, <1>6, WanderRefines DEF SpaceStep, Promise!Next
  <2> QED
    BY <2>1, <2>2, <2>3
<1> QED
  BY <1>2, <1>3, <1>4, <1>5, <1>6

LEMMA StutterRefines ==
  ASSUME UNCHANGED vars
  PROVE  (Cached => Cached') /\ SpaceStep
<1>1. UNCHANGED <<mem, tlb, upper, space, pc, va, n, pa, i>>
  BY DEF vars, args
<1>2. TableFrame' = TableFrame /\ \A v \in Page : Translate(v)' = Translate(v)
  BY <1>1, WalkSame
<1>3. ASSUME NEW v \in Page
      PROVE  /\ Want(v)' = Want(v) /\ Promised(v)' = Promised(v)
             /\ Bound(v)' = Bound(v) /\ Upright(v)' = Upright(v) /\ Stale(v)' = Stale(v)
  BY <1>1, <1>2 DEF Promised, Want, Bound, Going, Upright, Stale, CallRange, Mapping
<1>4. Cached => Cached'
  BY <1>1, <1>2, <1>3 DEF Cached
<1>5. Targets' = Targets
  BY <1>3 DEF Targets
<1>6. Ways' = Ways
  <2>1. \A v \in Page : Leads(v)' = Leads(v)
    BY <1>1, LeadsSame
  <2> QED
    BY <2>1 DEF Ways
<1>7. AbstractCall' = AbstractCall
  BY <1>1 DEF AbstractCall, Asked
<1> QED
  BY <1>4, <1>5, <1>6, <1>7 DEF SpaceStep, Promise!vars, Targets, Ways

\* In the beginning the root table is empty and nothing is cached.
LEMMA InitRefines ==
  ASSUME Init
  PROVE  Cached /\ Promise!Init
<1>1. /\ pc = "idle" /\ tlb = <<>> /\ upper = <<>> /\ \A v \in Page : space[v] = None
  BY DEF Init
<1>2. DOMAIN tlb = {} /\ DOMAIN upper = {}
  BY <1>1
<1>3. \A v \in Page : Upright(v)
  BY <1>2 DEF Upright
<1>4. Cached
  BY <1>2, <1>3 DEF Cached
<1>5. \A v \in Page : Want(v) = None
  BY <1>1 DEF Want, Mapping
<1>6. ASSUME NEW v \in Page PROVE Translate(v) = None
  <2>1. VInv
    BY InitVInv
  <2>2. PICK c, W : Sound(c, W)
    BY <2>1, <1>1 DEF VInv
  <2>3. Tree(c, W) /\ Linked(c, W) /\ Contents(c, W) /\ DOMAIN window = {}
    BY <2>1, <2>2 DEF Sound, VInv, Types
  <2>4. Pointee(c, W, Last, v) = None
    BY <2>3, <1>1, <1>5 DEF Contents
  <2> QED
    BY <2>3, <2>4, <1>1, TranslatePage DEF Hole
<1>7. ASSUME NEW v \in Page PROVE Leads(v) = {None}
  <2>1. Walked(v) = {Translate(v)}
    BY <1>3, WalksAreDirect DEF Direct
  <2> QED
    BY <2>1, <1>2, <1>6 DEF Leads
<1>8. Targets = [v \in Page |-> None]
  BY <1>1, <1>5 DEF Targets, Promised
<1>9. Ways = [v \in Page |-> {None}]
  BY <1>7 DEF Ways
<1>10. AbstractCall = Promise!Idle
  BY <1>1, CallStages
<1> QED
  BY <1>4, <1>8, <1>9, <1>10 DEF Promise!Init, Targets, Ways

\* Old contents of a new table and what other CPUs write to one that has been
\* given back may lead walks anywhere, and translations and tables found that
\* way may be cached; still map_pages and unmap_pages are changes of an
\* address space.  A page leads to its target and nowhere else from the
\* moment its entry is filled until unmap_pages is called for it; from then
\* on it leads there or nowhere and, once gone, stays gone until the loops
\* over the tables start, and then all pages of the range are gone.
THEOREM MappingIsAddressSpace ==
  ASSUME WindowTlb = FALSE
  PROVE  Spec => ImplementsAddressSpace
<1>1. Init => VInv /\ Cached /\ Promise!Init
  BY InitVInv, InitRefines
<1>2. VInv /\ [Next]_vars => VInv'
  BY NextVInv
<1>3. (VInv => Seen) /\ (VInv' => Seen')
  BY VInvSeen, PTL
<1>4. VInv /\ Cached /\ [Next]_vars => Cached' /\ [Promise!Next]_(Promise!vars)
  <2> SUFFICES ASSUME VInv, Cached, [Next]_vars
               PROVE  Cached' /\ SpaceStep
    BY DEF SpaceStep
  <2>1. CASE Next
    BY <2>1, <1>2, <1>3, NextCached, NextRefines
  <2>2. CASE UNCHANGED vars
    BY <2>2, StutterRefines
  <2> QED
    BY <2>1, <2>2
<1> QED
  BY <1>1, <1>2, <1>4, PTL DEF Spec, ImplementsAddressSpace, Promise!Spec

==============================================================================
