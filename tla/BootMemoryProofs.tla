--------------------------- MODULE BootMemoryProofs ---------------------------
(***************************************************************************)
(* Proofs about MemoryInit and BootMemory, for every granularity of pages, *)
(* bitmap bytes and words, every size of the kernel and of memory, and any *)
(* number of cores.                                                        *)
(***************************************************************************)
EXTENDS BootMemory, FiniteSetTheorems, SequenceTheorems, WellFoundedInduction, TLAPS

------------------------------------------------------------------------------
(* Division with a divisor that is a parameter.                            *)

LEMMA DivMod ==
  ASSUME NEW a \in Int, NEW d \in Nat \ {0}
  PROVE  a \div d \in Int /\ a % d \in 0 .. d - 1 /\ a = d * (a \div d) + (a % d)
OBVIOUS

LEMMA DivUnique ==
  ASSUME NEW a \in Int, NEW d \in Nat \ {0}, NEW q \in Int, d * q <= a, a < d * q + d
  PROVE  a \div d = q /\ a % d = a - d * q
OBVIOUS

LEMMA TimesMonotone ==
  ASSUME NEW a \in Int, NEW b \in Int, NEW d \in Nat \ {0}
  PROVE  (a <= b <=> d * a <= d * b) /\ (a < b <=> d * a < d * b)
OBVIOUS

LEMMA DivMonotone ==
  ASSUME NEW a \in Int, NEW b \in Int, NEW d \in Nat \ {0}, a <= b
  PROVE  a \div d <= b \div d
OBVIOUS

LEMMA DivOfMultiple ==
  ASSUME NEW a \in Int, NEW b \in Int, NEW d \in Nat \ {0}
  PROVE  (d * a + b) \div d = a + (b \div d) /\ (d * a + b) % d = b % d
<1>1. b = d * (b \div d) + (b % d) /\ b \div d \in Int /\ b % d \in 0 .. d - 1
  BY DivMod
<1>2. d * (a + (b \div d)) = d * a + d * (b \div d)
  BY <1>1
<1> DEFINE x == d * a + b
           q == a + (b \div d)
<1>3. x \in Int /\ q \in Int /\ d * q <= x /\ x < d * q + d
  BY <1>1, <1>2
<1>4. x \div d = q /\ x % d = x - d * q
  <2> HIDE DEF x, q
  <2> QED
    BY <1>3, DivUnique
<1>5. x - d * q = b % d
  BY <1>1, <1>2
<1> QED
  BY <1>4, <1>5

\* The quotient and whether a number below or above a multiple.
LEMMA DivBounds ==
  ASSUME NEW a \in Int, NEW k \in Int, NEW d \in Nat \ {0}
  PROVE  /\ k <= a \div d <=> d * k <= a
         /\ (a + d - 1) \div d <= k <=> a <= d * k
<1>1. a = d * (a \div d) + (a % d) /\ a \div d \in Int /\ a % d \in 0 .. d - 1
  BY DivMod
<1>2. k <= a \div d <=> d * k <= d * (a \div d)
  BY <1>1, TimesMonotone
<1>3. k >= a \div d + 1 <=> d * k >= d * (a \div d + 1)
  BY <1>1, TimesMonotone
<1>4. d * (a \div d + 1) = d * (a \div d) + d
  BY <1>1
<1>5. k <= a \div d <=> d * k <= a
  BY <1>1, <1>2, <1>3, <1>4
<1> DEFINE c == a + d - 1
<1>6. c \in Int
  OBVIOUS
<1>7. c = d * (c \div d) + (c % d) /\ c \div d \in Int /\ c % d \in 0 .. d - 1
  BY <1>6, DivMod
<1>8. k >= c \div d <=> d * k >= d * (c \div d)
  BY <1>7, TimesMonotone
<1>9. k <= c \div d - 1 <=> d * k <= d * (c \div d - 1)
  BY <1>7, TimesMonotone
<1>10. d * (c \div d - 1) = d * (c \div d) - d
  BY <1>7
<1>11. c \div d <= k <=> a <= d * k
  BY <1>7, <1>8, <1>9, <1>10
<1> QED
  BY <1>5, <1>11

USE OneMAssumption, SizeAssumption

LEMMA Parameters ==
  /\ PageSize \in Nat \ {0} /\ ByteBits \in Nat \ {0}
  /\ WordBits \in Nat \ {0} /\ StartAlign \in Nat \ {0}
  /\ MaxCores \in Nat \ {0} /\ StackPages \in Nat \ {0} /\ TssStart \in Nat \ {0}
  /\ GdtPageEntries \in Nat \ {0} /\ TssPerPage \in Nat \ {0} /\ Fan \in Nat \ {0}
BY GranularityAssumption, BootAssumption

USE Parameters

\* A word is a whole number of bytes.
BytesOfWord == WordBits \div ByteBits

LEMMA WordIsBytes == BytesOfWord \in Nat \ {0} /\ WordBits = ByteBits * BytesOfWord
<1>1. WordBits = ByteBits * BytesOfWord + (WordBits % ByteBits) /\ BytesOfWord \in Int
  BY DivMod DEF BytesOfWord
<1>2. WordBits = ByteBits * BytesOfWord
  BY <1>1, GranularityAssumption
<1>3. BytesOfWord > 0
  <2> SUFFICES ASSUME BytesOfWord <= 0 PROVE FALSE
    BY <1>1
  <2>1. ByteBits * BytesOfWord <= ByteBits * 0
    BY <1>1, TimesMonotone
  <2> QED
    BY <2>1, <1>2
<1> QED
  BY <1>1, <1>2, <1>3

------------------------------------------------------------------------------
(* The BIOS map in pages.                                                  *)

Two == Len(bios) = 4          \* there is a second region above 1M
LowPages   == bios[1].length \div PageSize
MainPages  == bios[2].length \div PageSize
MainEnd    == OneM + MainPages
HighStart  == bios[4].address \div PageSize
HighPages  == bios[4].length \div PageSize
HighEnd    == HighStart + HighPages
MemoryEnd  == IF Two THEN HighEnd ELSE MainEnd

\* What Collect makes of a region.
Cut(r) == [address |-> PageFloor(r.address), length |-> PageFloor(r.length)]

PageRegion(a, n) == [address |-> PageSize * a, length |-> PageSize * n]

LEMMA BiosShape ==
  ASSUME bios \in BiosMaps
  PROVE  /\ DOMAIN bios = 1 .. Len(bios)
         /\ \E b \in Bytes(OneM - 1, OneM) : bios[1] = Region(0, b, 1)
         /\ \E m \in Bytes(OneM + 1, MaxPages) :
              /\ bios[2] = Region(OneM * PageSize, m, 1)
              /\ \/ Len(bios) = 2 /\ KernelFits(m, m)
                 \/ \E h1, h2 \in Bytes(OneM + 1, MaxPages) :
                      /\ Len(bios) = 4
                      /\ bios[3] = Region(m, h1, 2) /\ bios[4] = Region(h1, h2, 1)
                      /\ m <= h1 /\ h1 < h2 /\ h1 % StartAlign = 0
                      /\ KernelFits(m, h2)
<1> DEFINE Low  == {Region(0, b, 1) : b \in Bytes(OneM - 1, OneM)}
           Main == Bytes(OneM + 1, MaxPages)
           High == {r \in Main \X Main : r[1] < r[2] /\ r[1] % StartAlign = 0}
           Ones == {<<l, Region(OneM * PageSize, m, 1)>> :
                      l \in Low, m \in {b \in Main : KernelFits(b, b)}}
           Twos == {<<l, Region(OneM * PageSize, m, 1), Region(m, h[1], 2), Region(h[1], h[2], 1)>> :
                      l \in Low, m \in Main, h \in High}
<1>1. CASE bios \in Ones
  <2>1. PICK l \in Low, m \in {b \in Main : KernelFits(b, b)} :
          bios = <<l, Region(OneM * PageSize, m, 1)>>
    BY <1>1
  <2>2. /\ bios[1] = l /\ bios[2] = Region(OneM * PageSize, m, 1) /\ Len(bios) = 2
        /\ DOMAIN bios = 1 .. Len(bios)
    <3> HIDE DEF Low, Main
    <3> QED
      BY <2>1
  <2>3. PICK b \in Bytes(OneM - 1, OneM) : l = Region(0, b, 1)
    OBVIOUS
  <2>4. m \in Bytes(OneM + 1, MaxPages) /\ KernelFits(m, m)
    OBVIOUS
  <2> QED
    BY <2>2, <2>3, <2>4, Zenon
<1>2. CASE bios \in Twos /\ bios[3].length >= 0
                         /\ KernelFits(bios[3].address, bios[4].address + bios[4].length)
  <2>1. PICK l \in Low, m \in Main, h \in High :
          bios = <<l, Region(OneM * PageSize, m, 1), Region(m, h[1], 2), Region(h[1], h[2], 1)>>
    BY <1>2
  <2>2. /\ bios[1] = l /\ bios[2] = Region(OneM * PageSize, m, 1) /\ Len(bios) = 4
        /\ bios[3] = Region(m, h[1], 2) /\ bios[4] = Region(h[1], h[2], 1)
        /\ DOMAIN bios = 1 .. Len(bios)
    <3> HIDE DEF Low, Main, High
    <3> QED
      BY <2>1
  <2>3. h[1] \in Main /\ h[2] \in Main /\ h[1] < h[2] /\ h[1] % StartAlign = 0
    OBVIOUS
  <2>4. m \in Int /\ h[1] \in Int /\ h[2] \in Int
    BY <2>3 DEF Bytes
  <2>5. m <= h[1] /\ KernelFits(m, h[2])
    BY <1>2, <2>2, <2>4 DEF Region
  <2> QED
    BY <2>2, <2>3, <2>5
<1> QED
  BY <1>1, <1>2 DEF BiosMaps

\* Rounding down to a page.
LEMMA FloorIsPages ==
  ASSUME NEW b \in Nat
  PROVE  b \div PageSize \in Nat /\ PageFloor(b) = PageSize * (b \div PageSize)
<1>1. b \div PageSize \in Int /\ b % PageSize \in 0 .. PageSize - 1
      /\ b = PageSize * (b \div PageSize) + (b % PageSize)
  BY DivMod
<1>2. 0 <= b \div PageSize
  BY <1>1, DivBounds
<1> QED
  BY <1>1, <1>2 DEF PageFloor

\* The regions that Collect keeps, in pages.
LEMMA LowRegion ==
  ASSUME bios \in BiosMaps
  PROVE  /\ LowPages \in Nat /\ OneM - 1 <= LowPages /\ LowPages <= OneM
         /\ bios[1].type = 1 /\ Cut(bios[1]) = PageRegion(0, LowPages)
         /\ bios[1].address = 0 /\ bios[1].length \in Nat /\ bios[1].length <= PageSize * OneM
<1>1. PICK b \in Bytes(OneM - 1, OneM) : bios[1] = Region(0, b, 1)
  BY BiosShape
<1>2. bios[1].address = 0 /\ bios[1].length = b /\ bios[1].type = 1
  BY <1>1 DEF Region, Bytes
<1>3. PageSize * (OneM - 1) <= b /\ b <= PageSize * OneM /\ b \in Nat
  <2>1. b \in Int /\ (OneM - 1) * PageSize <= b /\ b <= OneM * PageSize
    BY DEF Bytes
  <2>2. 0 <= (OneM - 1) * PageSize
    OBVIOUS
  <2> QED
    BY <2>1, <2>2
<1>x. b \in Int /\ OneM - 1 \in Int /\ OneM + 1 \in Int
  BY <1>3
<1>4. OneM - 1 <= b \div PageSize
  BY <1>3, <1>x, DivBounds
<1>5. OneM + 1 <= b \div PageSize <=> PageSize * (OneM + 1) <= b
  BY <1>x, DivBounds
<1>6. b \div PageSize \in Nat /\ PageFloor(b) = PageSize * (b \div PageSize)
  BY <1>3, FloorIsPages
<1>7. PageFloor(0) = PageSize * 0
  <2>1. 0 \div PageSize = 0
    BY DivUnique
  <2> QED
    BY <2>1, FloorIsPages
<1>8. PageSize * (OneM + 1) = PageSize * OneM + PageSize
  OBVIOUS
<1> QED
  BY <1>2, <1>3, <1>4, <1>5, <1>6, <1>7, <1>8 DEF LowPages, Cut, PageRegion

LEMMA MainRegion ==
  ASSUME bios \in BiosMaps
  PROVE  /\ MainPages \in Nat \ {0} /\ MainEnd \in Nat /\ MainEnd <= MaxPages
         /\ bios[2].type = 1 /\ Cut(bios[2]) = PageRegion(OneM, MainPages)
         /\ bios[2].address = PageSize * OneM /\ bios[2].length \in Nat
         /\ bios[2].address + bios[2].length \in Nat
         /\ MainEnd = (bios[2].address + bios[2].length) \div PageSize
<1>1. PICK m \in Bytes(OneM + 1, MaxPages) : bios[2] = Region(OneM * PageSize, m, 1)
  BY BiosShape
<1>2. PageSize * (OneM + 1) <= m /\ m <= PageSize * MaxPages /\ m \in Nat
  <2>1. m \in Int /\ (OneM + 1) * PageSize <= m /\ m <= MaxPages * PageSize
    BY DEF Bytes
  <2>2. 0 <= (OneM + 1) * PageSize
    OBVIOUS
  <2> QED
    BY <2>1, <2>2
<1> DEFINE k == m - PageSize * OneM
<1>3. PageSize * OneM \in Nat /\ PageSize * (OneM + 1) = PageSize * OneM + PageSize
  OBVIOUS
<1>4. k \in Nat /\ k >= PageSize /\ m = PageSize * OneM + k
  BY <1>2, <1>3
<1>5. /\ bios[2].address = PageSize * OneM /\ bios[2].length = k /\ bios[2].type = 1
      /\ bios[2].address + bios[2].length = m
  BY <1>1, <1>3, <1>4 DEF Region
<1>6. m \div PageSize = OneM + (k \div PageSize)
  <2>1. k \in Int /\ OneM \in Int /\ m = PageSize * OneM + k
    BY <1>4
  <2> HIDE DEF k
  <2>2. (PageSize * OneM + k) \div PageSize = OneM + (k \div PageSize)
    BY <2>1, Parameters, DivOfMultiple, ZenonT(30)
  <2> QED
    BY <2>1, <2>2
<1>7. 1 <= k \div PageSize
  <2> HIDE DEF k
  <2>1. PageSize * 1 <= k /\ k \in Int /\ 1 \in Int
    BY <1>4
  <2>2. 1 <= k \div PageSize <=> PageSize * 1 <= k
    BY <2>1, Parameters, DivBounds, ZenonT(30)
  <2> QED
    BY <2>1, <2>2
<1>8. m \div PageSize <= MaxPages
  <2>1. MaxPages + 1 <= m \div PageSize <=> PageSize * (MaxPages + 1) <= m
    <3>1. MaxPages + 1 \in Int /\ m \in Int
      BY <1>2
    <3> QED
      BY <3>1, Parameters, DivBounds, ZenonT(30)
  <2>2. PageSize * (MaxPages + 1) = PageSize * MaxPages + PageSize
    OBVIOUS
  <2>3. m \div PageSize \in Int
    BY <1>2, DivMod
  <2> QED
    BY <2>1, <2>2, <2>3, <1>2
<1>9. k \div PageSize \in Nat /\ PageFloor(k) = PageSize * (k \div PageSize)
  BY <1>4, FloorIsPages
<1>10. PageFloor(PageSize * OneM) = PageSize * OneM
  <2>1. (PageSize * OneM) \div PageSize = OneM
    BY <1>3, DivUnique
  <2> QED
    BY <2>1, <1>3, FloorIsPages
<1> HIDE DEF k
<1>11. MainPages = k \div PageSize /\ MainEnd = m \div PageSize
  BY <1>5, <1>6 DEF MainPages, MainEnd
<1>12. Cut(bios[2]) = PageRegion(OneM, MainPages)
  BY <1>5, <1>9, <1>10, <1>11, Zenon DEF Cut, PageRegion
<1>13. MainPages \in Nat \ {0} /\ MainEnd \in Nat
  BY <1>7, <1>9, <1>11 DEF MainEnd
<1> QED
  BY <1>2, <1>4, <1>5, <1>8, <1>11, <1>12, <1>13

LEMMA HighRegion ==
  ASSUME bios \in BiosMaps
  PROVE  /\ Len(bios) \in {2, 4} /\ MemoryEnd \in Nat /\ MainEnd <= MemoryEnd
         /\ MemoryEnd <= MaxPages
         /\ Two => /\ bios[3].type = 2 /\ bios[4].type = 1
                   /\ HighStart \in Nat /\ HighPages \in Nat /\ HighEnd \in Nat
                   /\ MainEnd <= HighStart /\ HighEnd <= MaxPages
                   /\ bios[4].address \in Nat /\ bios[4].length \in Nat
                   /\ bios[4].address % StartAlign = 0
                   /\ Cut(bios[4]) = PageRegion(HighStart, HighPages)
                   /\ HighEnd <= (bios[4].address + bios[4].length) \div PageSize
<1>1. CASE Len(bios) = 2
  BY <1>1, MainRegion DEF Two, MemoryEnd
<1>2. CASE Len(bios) # 2
  <2>1. PICK m, h1, h2 \in Bytes(OneM + 1, MaxPages) :
          /\ bios[2] = Region(OneM * PageSize, m, 1)
          /\ Len(bios) = 4
          /\ bios[3] = Region(m, h1, 2) /\ bios[4] = Region(h1, h2, 1)
          /\ m <= h1 /\ h1 < h2 /\ h1 % StartAlign = 0
    BY <1>2, BiosShape
  <2>2. /\ m \in Int /\ h1 \in Int /\ h2 \in Int
        /\ PageSize * OneM + PageSize <= m /\ m <= PageSize * MaxPages
        /\ h2 <= PageSize * MaxPages
    <3>1. /\ m \in Int /\ h1 \in Int /\ h2 \in Int
          /\ (OneM + 1) * PageSize <= m /\ m <= MaxPages * PageSize
          /\ h2 <= MaxPages * PageSize
      BY DEF Bytes
    <3> QED
      BY <3>1
  <2>3. PageSize * OneM \in Nat
    OBVIOUS
  <2> DEFINE k == h2 - h1
  <2>4. m \in Nat /\ h1 \in Nat /\ h2 \in Nat /\ k \in Nat
    BY <2>1, <2>2, <2>3
  <2>5. /\ bios[2].address + bios[2].length = m
        /\ bios[3].type = 2 /\ bios[4].type = 1
        /\ bios[4].address = h1 /\ bios[4].length = k
        /\ bios[4].address + bios[4].length = h2
    BY <2>1, <2>2, <2>3, <2>4 DEF Region
  <2>6. /\ h1 \div PageSize \in Nat /\ PageFloor(h1) = PageSize * (h1 \div PageSize)
        /\ k \div PageSize \in Nat /\ PageFloor(k) = PageSize * (k \div PageSize)
        /\ h2 \div PageSize \in Nat /\ m \div PageSize \in Nat
    <3> HIDE DEF k
    <3> QED
      BY <2>4, FloorIsPages
  <2>7. m \div PageSize <= h1 \div PageSize
    <3>1. m \in Int /\ h1 \in Int
      BY <2>4
    <3> QED
      BY <2>1, <3>1, DivMonotone
  <2>8. h1 \div PageSize + (k \div PageSize) <= h2 \div PageSize
    <3>1. /\ h1 >= PageSize * (h1 \div PageSize)
          /\ k >= PageSize * (k \div PageSize)
      <4>1. k \in Int /\ h1 \in Int
        BY <2>4
      <4> HIDE DEF k
      <4> QED
        BY <4>1, DivMod
    <3> DEFINE a == h1 \div PageSize
               b == k \div PageSize
    <3>2. PageSize * (a + b) = PageSize * a + PageSize * b
      <4>1. a \in Nat /\ b \in Nat
        BY <2>6
      <4> HIDE DEF a, b
      <4> QED
        BY <4>1
    <3>3. PageSize * (a + b) <= h2
      <4>1. a \in Nat /\ b \in Nat /\ h2 = h1 + k
        BY <2>6, <2>4
      <4>2. PageSize * a \in Int /\ PageSize * b \in Int
        BY <4>1
      <4> HIDE DEF a, b, k
      <4> QED
        BY <4>1, <4>2, <3>1, <3>2, <2>4 DEF a, b
    <3>4. a + b \in Int /\ h2 \in Int
      BY <2>4, <2>6
    <3>5. a + b <= h2 \div PageSize
      <4> HIDE DEF a, b
      <4> QED
        BY <3>3, <3>4, DivBounds
    <3> QED
      BY <3>5
  <2>9. h2 \div PageSize <= MaxPages
    <3>x. h2 \in Int /\ MaxPages + 1 \in Int
      BY <2>4
    <3>1. MaxPages + 1 <= h2 \div PageSize <=> PageSize * (MaxPages + 1) <= h2
      BY <3>x, DivBounds
    <3>2. PageSize * (MaxPages + 1) = PageSize * MaxPages + PageSize
      OBVIOUS
    <3> QED
      BY <3>1, <3>2, <2>2, <2>6
  <2> HIDE DEF k
  <2>10. MainEnd = m \div PageSize
    BY <2>5, MainRegion
  <2>11. /\ HighStart = h1 \div PageSize /\ HighPages = k \div PageSize
         /\ HighEnd = HighStart + HighPages /\ MemoryEnd = HighEnd
    BY <2>1, <2>5 DEF Two, MemoryEnd, HighStart, HighPages, HighEnd
  <2>12. Cut(bios[4]) = PageRegion(HighStart, HighPages)
    BY <2>5, <2>6, <2>11, Zenon DEF Cut, PageRegion
  <2>13. MainEnd \in Nat
    BY MainRegion
  <2>14. /\ HighStart \in Nat /\ HighPages \in Nat /\ HighEnd \in Nat
         /\ MainEnd <= HighStart /\ HighEnd <= MaxPages
         /\ MainEnd <= HighEnd /\ HighEnd <= h2 \div PageSize
    <3> DEFINE a == h1 \div PageSize
               b == k \div PageSize
               c == h2 \div PageSize
    <3>1. a \in Nat /\ b \in Nat /\ c \in Nat /\ a + b <= c /\ c <= MaxPages /\ MainEnd <= a
      BY <2>6, <2>7, <2>8, <2>9, <2>10
    <3>2. HighStart = a /\ HighPages = b /\ HighEnd = a + b
      BY <2>11
    <3> HIDE DEF a, b, c
    <3>3. HighEnd <= c
      BY <3>1, <3>2
    <3> QED
      BY <3>1, <3>2, <3>3, <2>13 DEF c
  <2> QED
    BY <2>1, <2>4, <2>5, <2>11, <2>12, <2>14 DEF Two
<1> QED
  BY <1>1, <1>2

\* Dividing twice.
LEMMA DivTwice ==
  ASSUME NEW a \in Nat, NEW b \in Nat \ {0}, NEW c \in Nat \ {0}
  PROVE  (a \div b) \div c = a \div (b * c)
<1> DEFINE x == a \div b
           q == x \div c
<1>1. x \in Int /\ b * x <= a /\ a < b * x + b
  BY DivMod
<1>2. q \in Int /\ c * q <= x /\ x <= c * q + c - 1
  <2> HIDE DEF x
  <2> QED
    BY <1>1, DivMod
<1> HIDE DEF x, q
<1> DEFINE y == c * q
<1>3. y \in Int /\ y + c - 1 \in Int
  BY <1>2
<1>4. b * y <= b * x /\ b * x <= b * (y + c - 1)
  <2> HIDE DEF y
  <2> QED
    BY <1>1, <1>2, <1>3, TimesMonotone DEF y
<1>5. b * y = (b * c) * q /\ b * (y + c - 1) = (b * c) * q + b * c - b
  BY <1>2
<1>6. b * c \in Nat \ {0}
  OBVIOUS
<1> DEFINE d == b * c
<1>7. d * q <= a /\ a < d * q + d
  <2>1. b * x \in Int /\ d * q \in Int /\ d \in Int
    BY <1>1, <1>2
  <2> QED
    BY <1>1, <1>4, <1>5, <2>1
<1>8. a \div d = q
  <2>1. d \in Nat \ {0} /\ a \in Int
    BY <1>6
  <2> HIDE DEF d
  <2> QED
    BY <2>1, <1>2, <1>7, DivUnique
<1> QED
  BY <1>8 DEF x, q

------------------------------------------------------------------------------
(* The size of the bitmap and where the kernel ends.                       *)

WordsFor(n) == (n + WordBits - 1) \div WordBits

BitmapLength == BytesOfWord * WordsFor(MemoryEnd)

KernelTop == (StackTop + BitmapLength + PageSize - 1) \div PageSize

LEMMA WordsForPages ==
  ASSUME NEW n \in Nat
  PROVE  /\ WordsFor(n) \in Nat /\ n <= WordBits * WordsFor(n)
         /\ ByteBits * (BytesOfWord * WordsFor(n)) = WordBits * WordsFor(n)
<1> DEFINE a == n + WordBits - 1
<1>1. a \in Int /\ 0 \in Int /\ WordBits * 0 <= a
  OBVIOUS
<1>2. WordsFor(n) \in Int
  BY <1>1, DivMod DEF WordsFor
<1>3. 0 <= WordsFor(n)
  <2> HIDE DEF a
  <2>1. 0 <= a \div WordBits
    BY <1>1, DivBounds
  <2> QED
    BY <2>1 DEF a, WordsFor
<1>4. n <= WordBits * WordsFor(n)
  BY <1>2, DivBounds DEF WordsFor
<1>5. ByteBits * (BytesOfWord * WordsFor(n)) = (ByteBits * BytesOfWord) * WordsFor(n)
  BY <1>2, WordIsBytes
<1> QED
  BY <1>2, <1>3, <1>4, <1>5, WordIsBytes

LEMMA WordsForMonotone ==
  ASSUME NEW m \in Nat, NEW n \in Nat, m <= n
  PROVE  BytesOfWord * WordsFor(m) <= BytesOfWord * WordsFor(n)
<1>1. m + WordBits - 1 \in Int /\ n + WordBits - 1 \in Int /\ m + WordBits - 1 <= n + WordBits - 1
  OBVIOUS
<1>2. WordsFor(m) <= WordsFor(n)
  BY <1>1, DivMonotone DEF WordsFor
<1>3. WordsFor(m) \in Int /\ WordsFor(n) \in Int
  BY WordsForPages
<1> QED
  BY <1>2, <1>3, WordIsBytes, TimesMonotone

\* The kernel, its stacks and the bitmap end inside the region they start in.
LEMMA KernelInMain ==
  ASSUME bios \in BiosMaps
  PROVE  /\ BitmapLength \in Nat /\ BitmapLength <= MaxPages * PageSize
         /\ KernelTop \in Nat /\ OneM < KernelTop /\ KernelTop <= MainEnd
         /\ PageCeil(StackTop + BitmapLength) = PageSize * KernelTop
<1>0. MemoryEnd \in Nat /\ MemoryEnd <= MaxPages
  BY HighRegion
<1>1. BitmapLength \in Nat
  BY <1>0, WordsForPages, WordIsBytes DEF BitmapLength
<1>2. PICK m \in Nat, e \in Nat :
        /\ MainEnd = m \div PageSize /\ m <= MaxPages * PageSize
        /\ MemoryEnd <= e \div PageSize
        /\ KernelFits(m, e)
  <2>1. PICK m \in Bytes(OneM + 1, MaxPages) :
          /\ bios[2] = Region(OneM * PageSize, m, 1)
          /\ \/ Len(bios) = 2 /\ KernelFits(m, m)
             \/ \E h1, h2 \in Bytes(OneM + 1, MaxPages) :
                  Len(bios) = 4 /\ bios[4] = Region(h1, h2, 1) /\ h1 < h2 /\ KernelFits(m, h2)
    BY BiosShape, Zenon
  <2>2. PageSize * OneM \in Nat /\ OneM * PageSize \in Nat
    OBVIOUS
  <2>3. \A x \in Bytes(OneM + 1, MaxPages) : x \in Nat /\ x <= MaxPages * PageSize
    <3>1. OneM * PageSize + PageSize = (OneM + 1) * PageSize
      OBVIOUS
    <3> QED
      BY <2>2, <3>1 DEF Bytes
  <2>4. MainEnd = m \div PageSize
    <3>1. bios[2].address + bios[2].length = m
      BY <2>1, <2>2, <2>3 DEF Region
    <3> QED
      BY <3>1, MainRegion
  <2>5. CASE Len(bios) = 2 /\ KernelFits(m, m)
    <3>1. MemoryEnd <= m \div PageSize
      BY <2>4, <2>5, MainRegion DEF MemoryEnd, Two
    <3> QED
      BY <2>3, <2>4, <2>5, <3>1
  <2>6. CASE \E h1, h2 \in Bytes(OneM + 1, MaxPages) :
               Len(bios) = 4 /\ bios[4] = Region(h1, h2, 1) /\ h1 < h2 /\ KernelFits(m, h2)
    <3>1. PICK h1, h2 \in Bytes(OneM + 1, MaxPages) :
            Len(bios) = 4 /\ bios[4] = Region(h1, h2, 1) /\ h1 < h2 /\ KernelFits(m, h2)
      BY <2>6
    <3>2. bios[4].address + bios[4].length = h2
      BY <2>3, <3>1 DEF Region
    <3>3. MemoryEnd <= h2 \div PageSize
      BY <3>1, <3>2, HighRegion DEF MemoryEnd, Two
    <3> QED
      BY <2>3, <2>4, <3>1, <3>3
  <2> QED
    BY <2>1, <2>5, <2>6
<1> DEFINE top == StackTop + BitmapLength
           end == StackTop + BitmapBytes(e)
<1>3. top \in Nat /\ end \in Nat /\ top <= end
  <2>1. e \div PageSize \in Nat
    BY FloorIsPages
  <2>2. BitmapLength <= BytesOfWord * WordsFor(e \div PageSize)
    BY <1>0, <1>2, <2>1, WordsForMonotone DEF BitmapLength
  <2>3. BitmapBytes(e) = BytesOfWord * WordsFor(e \div PageSize)
    BY DEF BitmapBytes, BytesOfWord, WordsFor
  <2>4. BitmapBytes(e) \in Nat
    BY <2>1, <2>3, WordsForPages, WordIsBytes
  <2> QED
    BY <1>1, <2>2, <2>3, <2>4
<1> DEFINE K == (top + PageSize - 1) \div PageSize
           E == (end + PageSize - 1) \div PageSize
<1>4. K = KernelTop
  BY DEF KernelTop
<1>5. K \in Int /\ E \in Int /\ K <= E
  <2> DEFINE a == top + PageSize - 1
             b == end + PageSize - 1
  <2>1. a \in Int /\ b \in Int /\ a <= b
    BY <1>3
  <2>2. a \div PageSize \in Int /\ b \div PageSize \in Int /\ a \div PageSize <= b \div PageSize
    <3> HIDE DEF a, b
    <3> QED
      BY <2>1, DivMod, DivMonotone
  <2> QED
    BY <2>2
<1>6. E * PageSize <= m
  BY <1>2 DEF KernelFits, PageCeil
<1> HIDE DEF K, E
<1>7. E <= m \div PageSize
  <2>1. PageSize * E <= m /\ m \in Int
    BY <1>5, <1>6
  <2> QED
    BY <1>5, <2>1, DivBounds
<1>8. K <= MainEnd
  <2>1. m \div PageSize \in Int
    BY DivMod
  <2> QED
    BY <1>2, <1>5, <1>7, <2>1
<1>9. OneM < K
  <2>1. top \in Int /\ OneM \in Int /\ top > PageSize * OneM
    BY <1>1, <1>3
  <2>2. K <= OneM <=> top <= PageSize * OneM
    <3> HIDE DEF top
    <3> QED
      BY <2>1, DivBounds DEF K
  <2> QED
    BY <1>5, <2>1, <2>2
<1>10. BitmapLength <= MaxPages * PageSize
  <2>1. top <= PageSize * K
    <3>1. K <= K /\ top \in Int
      BY <1>3, <1>5
    <3> HIDE DEF top
    <3> QED
      BY <3>1, <1>5, DivBounds DEF K
  <2>2. PageSize * K <= PageSize * E
    BY <1>5, TimesMonotone
  <2>3. PageSize * E = E * PageSize /\ PageSize * E \in Int /\ PageSize * K \in Int /\ MaxPages * PageSize \in Int
    BY <1>5
  <2>4. BitmapLength <= top
    BY <1>1
  <2> HIDE DEF top
  <2> QED
    BY <1>1, <1>2, <1>3, <1>6, <2>1, <2>2, <2>3, <2>4
<1>11. PageCeil(StackTop + BitmapLength) = PageSize * KernelTop
  <2>1. PageCeil(StackTop + BitmapLength) = K * PageSize
    BY DEF PageCeil, K
  <2> QED
    BY <1>4, <1>5, <2>1
<1> QED
  BY <1>1, <1>4, <1>5, <1>8, <1>9, <1>10, <1>11

------------------------------------------------------------------------------
(* The bits that a memset and a tail loop reach, in pages.                 *)

LEMMA PageOfMultiple ==
  ASSUME NEW a \in Int
  PROVE  (PageSize * a) \div PageSize = a /\ (PageSize * a + PageSize - 1) \div PageSize = a
<1>1. PageSize * a \in Int
  OBVIOUS
<1> DEFINE x == PageSize * a
           y == x + PageSize - 1
<1>2. x \div PageSize = a
  BY <1>1, DivUnique
<1>3. y \in Int /\ PageSize * a <= y /\ y < PageSize * a + PageSize
  BY <1>1
<1>4. y \div PageSize = a
  <2> HIDE DEF y
  <2> QED
    BY <1>3, DivUnique
<1> QED
  BY <1>2, <1>4

LEMMA TailOfPages ==
  ASSUME NEW e \in Nat
  PROVE  /\ TailPages(PageSize * e) = ByteBits * (e \div ByteBits) .. e - 1
         /\ ByteBits * (e \div ByteBits) \in Nat /\ ByteBits * (e \div ByteBits) <= e
<1> DEFINE q == e \div ByteBits
           r == e % ByteBits
           f == ByteBits * q
<1>1. q \in Int /\ r \in 0 .. ByteBits - 1 /\ e = ByteBits * q + r
  BY DivMod
<1>2. q >= 0
  <2>1. e \in Int /\ 0 \in Int /\ ByteBits * 0 <= e
    OBVIOUS
  <2> QED
    BY <2>1, DivBounds
<1>3. f \in Nat /\ f <= e
  <2> HIDE DEF q, r
  <2> QED
    BY <1>1, <1>2
<1> DEFINE d == ByteBits * PageSize
           x == PageSize * e
<1>4. d \in Nat \ {0} /\ x \in Int
  OBVIOUS
<1>5. x = d * q + PageSize * r /\ 0 <= PageSize * r /\ PageSize * r < d
  <2> HIDE DEF q, r
  <2>1. x = PageSize * (ByteBits * q) + PageSize * r
    BY <1>1
  <2>2. PageSize * (ByteBits * q) = d * q
    BY <1>1
  <2>3. PageSize * 0 <= PageSize * r /\ PageSize * r < PageSize * ByteBits
    BY <1>1, TimesMonotone
  <2> QED
    BY <2>1, <2>2, <2>3
<1>6. x % d = x - d * q
  <2> HIDE DEF q, r, d, x
  <2>1. d * q \in Int /\ PageSize * r \in Int
    BY <1>1, <1>4
  <2>2. d * q <= x /\ x < d * q + d
    BY <1>4, <1>5, <2>1
  <2> QED
    BY <1>1, <1>4, <2>2, DivUnique
<1>7. ByteFloor(x) = PageSize * f
  <2>1. ByteFloor(x) = d * q
    <3>1. d * q \in Int
      BY <1>1
    <3> QED
      BY <1>4, <1>6, <3>1 DEF ByteFloor
  <2>2. d * q = PageSize * (ByteBits * q)
    <3> HIDE DEF q
    <3> QED
      BY <1>1
  <2> QED
    BY <2>1, <2>2
<1>8. (PageSize * f) \div PageSize = f /\ (x + PageSize - 1) \div PageSize = e
  <2>1. f \in Int /\ e \in Int
    BY <1>3
  <2> HIDE DEF f
  <2> QED
    BY <2>1, PageOfMultiple
<1>9. TailPages(x) = f .. e - 1
  BY <1>7, <1>8 DEF TailPages, PagesOf
<1> QED
  BY <1>3, <1>9

\* A memset from the word of page a on, for n pages.
LEMMA MemsetOfPages ==
  ASSUME NEW a \in Nat, a % WordBits = 0, NEW n \in Nat
  PROVE  /\ MemsetBits(a \div WordBits, n \div ByteBits) = a .. a + ByteBits * (n \div ByteBits) - 1
         /\ ByteBits * ((a + n) \div ByteBits) = a + ByteBits * (n \div ByteBits)
         /\ ByteBits * (n \div ByteBits) \in Nat /\ ByteBits * (n \div ByteBits) <= n
<1> DEFINE w == a \div WordBits
           k == n \div ByteBits
           v == BytesOfWord * w
<1>1. w \in Int /\ a = WordBits * w
  <2>1. a \in Int
    OBVIOUS
  <2> QED
    BY <2>1, DivMod
<1>2. k \in Int
  <2>1. n \in Int
    OBVIOUS
  <2> QED
    BY <2>1, DivMod
<1>3. v \in Int /\ a = ByteBits * v
  <2> HIDE DEF w
  <2>1. ByteBits * (BytesOfWord * w) = (ByteBits * BytesOfWord) * w
    BY <1>1, WordIsBytes
  <2> QED
    BY <2>1, <1>1, WordIsBytes
<1>4. (a + n) \div ByteBits = v + k
  <2>1. n \in Int
    OBVIOUS
  <2>2. (ByteBits * v + n) \div ByteBits = v + k
    <3> HIDE DEF v
    <3> QED
      BY <2>1, <1>3, Parameters, DivOfMultiple, Zenon
  <2>3. a + n = ByteBits * v + n
    BY <1>3
  <2> HIDE DEF v, k
  <2> QED
    BY <2>2, <2>3
<1>5. ByteBits * (v + k) = ByteBits * v + ByteBits * k
  <2> HIDE DEF v, k
  <2> QED
    BY <1>2, <1>3
<1>6. w * WordBits = a /\ k * ByteBits = ByteBits * k
  <2> HIDE DEF k, w
  <2> QED
    BY <1>1, <1>2
<1>7. MemsetBits(w, k) = a .. a + ByteBits * k - 1
  <2> HIDE DEF k, w
  <2> QED
    BY <1>6 DEF MemsetBits
<1>8. ByteBits * k \in Nat /\ ByteBits * k <= n
  BY TailOfPages
<1>9. ByteBits * ((a + n) \div ByteBits) = a + ByteBits * k
  <2>1. ByteBits * ((a + n) \div ByteBits) = ByteBits * (v + k)
    BY <1>4
  <2> HIDE DEF k, v
  <2> QED
    BY <2>1, <1>3, <1>5
<1> QED
  BY <1>7, <1>8, <1>9

\* memset and tail loop together reach the pages of a region that starts at
\* a word, each of them once.
LEMMA RegionBits ==
  ASSUME NEW a \in Nat, a % WordBits = 0, NEW n \in Nat
  PROVE  \E x \in a .. a + n :
           /\ MemsetBits(a \div WordBits, n \div ByteBits) = a .. x - 1
           /\ TailPages(PageSize * (a + n)) = x .. a + n - 1
<1> DEFINE x == a + ByteBits * (n \div ByteBits)
<1>1. /\ MemsetBits(a \div WordBits, n \div ByteBits) = a .. x - 1
      /\ ByteBits * ((a + n) \div ByteBits) = x
      /\ x \in a .. a + n
  <2> DEFINE k == ByteBits * (n \div ByteBits)
  <2>1. /\ MemsetBits(a \div WordBits, n \div ByteBits) = a .. a + k - 1
        /\ ByteBits * ((a + n) \div ByteBits) = a + k
        /\ k \in Nat /\ k <= n
    BY MemsetOfPages
  <2>3. x = a + k
    OBVIOUS
  <2> HIDE DEF k, x
  <2>2. a + k \in a .. a + n
    BY <2>1
  <2> QED
    BY <2>1, <2>2, <2>3
<1>3. TailPages(PageSize * (a + n)) = ByteBits * ((a + n) \div ByteBits) .. a + n - 1
  <2> DEFINE e == a + n
  <2>1. e \in Nat
    OBVIOUS
  <2>2. TailPages(PageSize * e) = ByteBits * (e \div ByteBits) .. e - 1
    <3> HIDE DEF e
    <3> QED
      BY <2>1, TailOfPages
  <2> QED
    BY <2>2
<1> HIDE DEF x
<1>4. TailPages(PageSize * (a + n)) = x .. a + n - 1
  BY <1>1, <1>3
<1> QED
  BY <1>1, <1>4

\* Clearing a region that was all ones, and setting one that was all zeros.
LEMMA ClearRun ==
  ASSUME NEW a \in Nat, a % WordBits = 0, NEW n \in Nat, NEW bits,
         a .. a + n - 1 \subseteq bits
  PROVE  Flip(bits \ MemsetBits(a \div WordBits, n \div ByteBits), TailPages(PageSize * (a + n)))
           = bits \ (a .. a + n - 1)
<1>1. PICK x \in a .. a + n :
        /\ MemsetBits(a \div WordBits, n \div ByteBits) = a .. x - 1
        /\ TailPages(PageSize * (a + n)) = x .. a + n - 1
  BY RegionBits
<1>2. a .. a + n - 1 = (a .. x - 1) \cup (x .. a + n - 1) /\ (a .. x - 1) \cap (x .. a + n - 1) = {}
  OBVIOUS
<1> QED
  BY <1>1, <1>2, Zenon DEF Flip

LEMMA SetRun ==
  ASSUME NEW a \in Nat, a % WordBits = 0, NEW n \in Nat, NEW bits,
         (a .. a + n - 1) \cap bits = {}
  PROVE  Flip(bits \cup MemsetBits(a \div WordBits, n \div ByteBits), TailPages(PageSize * (a + n)))
           = bits \cup (a .. a + n - 1)
<1>1. PICK x \in a .. a + n :
        /\ MemsetBits(a \div WordBits, n \div ByteBits) = a .. x - 1
        /\ TailPages(PageSize * (a + n)) = x .. a + n - 1
  BY RegionBits
<1>2. a .. a + n - 1 = (a .. x - 1) \cup (x .. a + n - 1) /\ (a .. x - 1) \cap (x .. a + n - 1) = {}
  OBVIOUS
<1> QED
  BY <1>1, <1>2, Zenon DEF Flip

\* The smallest element of a set of natural numbers.
LEMMA SmallestNat ==
  ASSUME NEW T \in SUBSET Nat, T # {}
  PROVE  \E x \in T : \A y \in T : x <= y
<1> DEFINE Finite == FiniteSubsetsOf(Nat)
           Upto(n) == 1 .. n
           U == {Upto(n) : n \in T}
<1>1. IsWellFoundedOn(StrictSubsetOrdering(Nat), Finite)
  BY FS_StrictSubsetOrderingWellFounded
<1>2. U \subseteq Finite
  BY FS_Interval DEF FiniteSubsetsOf
<1>3. U # {}
  OBVIOUS
<1> HIDE DEF Finite
<1>4. PICK X \in U : \A Y \in U : ~ (<<Y, X>> \in StrictSubsetOrdering(Nat))
  BY <1>1, <1>2, <1>3, WFMin, Zenon
<1>5. PICK x \in T : X = Upto(x)
  OBVIOUS
<1>6. ASSUME NEW y \in T, y < x
      PROVE  FALSE
  <2>1. x \in Upto(x) /\ x \notin Upto(y) /\ Upto(y) \subseteq Upto(x)
    BY <1>6
  <2>2. Upto(x) \in SUBSET Nat /\ Upto(y) \in SUBSET Nat /\ Upto(y) # Upto(x)
    BY <2>1
  <2>3. <<Upto(y), Upto(x)>> \in StrictSubsetOrdering(Nat)
    <3> HIDE DEF Upto
    <3> QED
      BY <2>1, <2>2, Zenon DEF StrictSubsetOrdering
  <2>4. Upto(y) \in U
    OBVIOUS
  <2> QED
    BY <1>4, <1>5, <2>3, <2>4, Zenon
<1> QED
  BY <1>6

LEMMA MinOf ==
  ASSUME NEW T \in SUBSET Nat, T # {}
  PROVE  Min(T) \in T /\ \A y \in T : Min(T) <= y
BY SmallestNat DEF Min

------------------------------------------------------------------------------
(* memory_init: the inductive invariant.  What every step has established  *)
(* about the region table, the counters and the size of the bitmap.        *)

Regions ==
  IF Two THEN <<PageRegion(0, LowPages), PageRegion(OneM, MainPages),
                PageRegion(HighStart, HighPages)>>
         ELSE <<PageRegion(0, LowPages), PageRegion(OneM, MainPages)>>

TotalPages == LowPages + MainPages + (IF Two THEN HighPages ELSE 0)

AllBits == 0 .. WordBits * WordsFor(MemoryEnd) - 1

\* After p - 1 entries of the BIOS map; the third is the hole.
Collected ==
  \/ p = 1 /\ e820 = <<>> /\ total_pages = 0
  \/ p = 2 /\ e820 = <<PageRegion(0, LowPages)>> /\ total_pages = LowPages
  \/ /\ p = 3 \/ (p = 4 /\ Two)
     /\ e820 = <<PageRegion(0, LowPages), PageRegion(OneM, MainPages)>>
     /\ total_pages = LowPages + MainPages
  \/ p = 5 /\ Two /\ e820 = Regions /\ total_pages = TotalPages

NothingCounted == alloc_pages = 0 /\ free_pages = 0

Collecting ==
  /\ pc = "collect" /\ NothingCounted /\ Collected
  /\ bits_map = {} /\ bits_size = 0 /\ bits_length = 0 /\ kernel_end = 0

Sized ==
  /\ e820 = Regions /\ total_pages = TotalPages
  /\ bits_size = MemoryEnd /\ bits_length = BitmapLength
  /\ bits_map \subseteq AllBits

Clearing ==
  /\ pc = "clear" /\ NothingCounted /\ Sized /\ kernel_end = 0
  /\ p = 2 \/ p = 3 \/ (p = 4 /\ Two)

Counting == pc = "count" /\ NothingCounted /\ Sized /\ kernel_end = PageSize * KernelTop

BootPcs == {"done", "gdt", "tss", "acpi", "paging", "running", "lost"}

Ready ==
  /\ pc \in BootPcs /\ Sized
  /\ alloc_pages \in Nat /\ free_pages \in Nat /\ alloc_pages + free_pages = total_pages
  /\ kernel_end \in Nat /\ kernel_end <= MaxPages * PageSize
  /\ pc = "done" => /\ alloc_pages = LowPages + (KernelTop - OneM)
                    /\ kernel_end = PageSize * KernelTop

MInv == bios \in BiosMaps /\ (Collecting \/ Clearing \/ Counting \/ Ready)

\* Every quantity above is a function of the BIOS map.
LEMMA SameBios ==
  ASSUME bios' = bios
  PROVE  /\ Two' = Two /\ LowPages' = LowPages /\ MainPages' = MainPages
         /\ HighPages' = HighPages /\ HighStart' = HighStart /\ HighEnd' = HighEnd
         /\ MainEnd' = MainEnd /\ MemoryEnd' = MemoryEnd /\ BitmapLength' = BitmapLength
         /\ KernelTop' = KernelTop /\ Regions' = Regions /\ TotalPages' = TotalPages
         /\ AllBits' = AllBits
<1>1. /\ Two' = Two /\ LowPages' = LowPages /\ MainPages' = MainPages
      /\ HighPages' = HighPages /\ HighStart' = HighStart
  BY DEF Two, LowPages, MainPages, HighPages, HighStart
<1>2. HighEnd' = HighEnd /\ MainEnd' = MainEnd
  BY <1>1 DEF HighEnd, MainEnd
<1>3. MemoryEnd' = MemoryEnd
  BY <1>1, <1>2 DEF MemoryEnd
<1>4. BitmapLength' = BitmapLength /\ AllBits' = AllBits
  BY <1>3 DEF BitmapLength, AllBits
<1> QED
  BY <1>1, <1>2, <1>3, <1>4 DEF KernelTop, Regions, TotalPages

LEMMA AppendLiteral ==
  ASSUME NEW a, NEW b, NEW c
  PROVE  /\ Append(<<>>, a) = <<a>> /\ Append(<<a>>, b) = <<a, b>>
         /\ Append(<<a, b>>, c) = <<a, b, c>>
<1> DEFINE S == {a, b, c}
<1>1. <<>> \in Seq(S) /\ <<a>> \in Seq(S) /\ <<a, b>> \in Seq(S) /\ <<a, b, c>> \in Seq(S)
  OBVIOUS
<1>2. Append(<<>>, a) = <<a>>
  OBVIOUS
<1>3. Append(<<a>>, b) = <<a, b>>
  <2> DEFINE s == Append(<<a>>, b)
             t == <<a, b>>
  <2>1. s \in Seq(S) /\ t \in Seq(S) /\ Len(s) = 2 /\ Len(t) = 2
    BY <1>1
  <2>2. s[1] = a /\ s[2] = b /\ t[1] = a /\ t[2] = b
    BY <1>1
  <2> HIDE DEF s, t, S
  <2>3. \A i \in 1 .. Len(s) : s[i] = t[i]
    BY <2>1, <2>2
  <2> QED
    BY <2>1, <2>3, SeqEqual DEF s, t
<1>4. Append(<<a, b>>, c) = <<a, b, c>>
  <2> DEFINE s == Append(<<a, b>>, c)
             t == <<a, b, c>>
  <2>1. s \in Seq(S) /\ t \in Seq(S) /\ Len(s) = 3 /\ Len(t) = 3
    BY <1>1
  <2>2. s[1] = a /\ s[2] = b /\ s[3] = c /\ t[1] = a /\ t[2] = b /\ t[3] = c
    BY <1>1
  <2> HIDE DEF s, t, S
  <2>3. \A i \in 1 .. Len(s) : s[i] = t[i]
    BY <2>1, <2>2
  <2> QED
    BY <2>1, <2>3, SeqEqual DEF s, t
<1> QED
  BY <1>2, <1>3, <1>4

LEMMA CollectStep ==
  ASSUME MInv, Collect
  PROVE  MInv'
<1>1. bios' = bios /\ bios \in BiosMaps /\ Collecting
  BY DEF MInv, Collect, Clearing, Counting, Ready, BootPcs
<1>2. /\ LowPages \in Nat /\ bios[1].type = 1 /\ Cut(bios[1]) = PageRegion(0, LowPages)
      /\ MainPages \in Nat /\ bios[2].type = 1 /\ Cut(bios[2]) = PageRegion(OneM, MainPages)
  BY <1>1, LowRegion, MainRegion
<1>3. Two => /\ HighPages \in Nat /\ bios[3].type = 2 /\ bios[4].type = 1
             /\ Cut(bios[4]) = PageRegion(HighStart, HighPages)
  BY <1>1, HighRegion
<1>4. Len(bios) = IF Two THEN 4 ELSE 2
  BY <1>1, HighRegion DEF Two
<1>5. \A a, n \in Nat : PageRegion(a, n).length \div PageSize = n
  BY PageOfMultiple DEF PageRegion
<1>6. /\ p \in Int /\ p' = p + 1
      /\ bios[p].type = 1 => /\ e820' = Append(e820, Cut(bios[p]))
                             /\ total_pages' = total_pages + Cut(bios[p]).length \div PageSize
      /\ bios[p].type # 1 => e820' = e820 /\ total_pages' = total_pages
  BY <1>1 DEF Collect, Cut, Collecting, Collected
<1>7. Collected'
  <2> HIDE DEF PageRegion
  <2>1. CASE p = 1
    <3>1. e820' = <<PageRegion(0, LowPages)>> /\ total_pages' = LowPages
      BY <2>1, <1>1, <1>2, <1>5, <1>6 DEF Collecting, Collected
    <3> QED
      BY <2>1, <3>1, <1>1, <1>6, SameBios DEF Collected
  <2>2. CASE p = 2
    <3>1. e820 = <<PageRegion(0, LowPages)>> /\ total_pages = LowPages
      BY <2>2, <1>1 DEF Collecting, Collected
    <3>2. e820' = Append(e820, PageRegion(OneM, MainPages))
          /\ total_pages' = total_pages + PageRegion(OneM, MainPages).length \div PageSize
      BY <2>2, <1>2, <1>6
    <3>3. PageRegion(OneM, MainPages).length \div PageSize = MainPages
      BY <1>2, PageOfMultiple DEF PageRegion
    <3>4. /\ e820' = <<PageRegion(0, LowPages), PageRegion(OneM, MainPages)>>
          /\ total_pages' = LowPages + MainPages
      BY <3>1, <3>2, <3>3, AppendLiteral, Zenon
    <3>5. p' = 3
      BY <2>2, <1>6
    <3> QED
      BY <3>4, <3>5, SameBios, <1>1 DEF Collected
  <2>3. CASE p = 3
    <3>1. Two
      BY <2>3, <1>4 DEF Collect
    <3> QED
      BY <2>3, <3>1, <1>1, <1>3, <1>6, SameBios DEF Collecting, Collected
  <2>4. CASE p = 4 /\ Two
    <3>1. e820' = Append(e820, PageRegion(HighStart, HighPages))
          /\ total_pages' = total_pages + PageRegion(HighStart, HighPages).length \div PageSize
      BY <2>4, <1>3, <1>6
    <3>2. PageRegion(HighStart, HighPages).length \div PageSize = HighPages
      BY <2>4, <1>3, PageOfMultiple DEF PageRegion
    <3>3. /\ e820 = <<PageRegion(0, LowPages), PageRegion(OneM, MainPages)>>
          /\ total_pages = LowPages + MainPages
      BY <2>4, <1>1 DEF Collecting, Collected
    <3>4. e820' = Regions /\ total_pages' = TotalPages
      BY <2>4, <3>1, <3>2, <3>3, AppendLiteral, Zenon DEF Regions, TotalPages
    <3> QED
      BY <2>4, <3>4, <1>1, <1>6, SameBios DEF Collected
  <2>5. p \in {1, 2, 3} \/ (p = 4 /\ Two)
    <3>1. p <= Len(bios)
      BY DEF Collect
    <3>2. p = 1 \/ p = 2 \/ p = 3 \/ (p = 4 /\ Two) \/ p = 5
      BY <1>1, Zenon DEF Collecting, Collected
    <3> QED
      BY <3>1, <3>2, <1>4
  <2> QED
    BY <2>1, <2>2, <2>3, <2>4, <2>5
<1> QED
  BY <1>1, <1>7 DEF MInv, Collecting, Collect, NothingCounted

LEMMA BitsCoverMemory ==
  ASSUME bios \in BiosMaps
  PROVE  /\ 0 .. MemoryEnd - 1 \subseteq AllBits
         /\ MemsetBits(0, BitmapLength) = AllBits
<1>1. MemoryEnd \in Nat
  BY HighRegion
<1>2. /\ WordsFor(MemoryEnd) \in Nat /\ MemoryEnd <= WordBits * WordsFor(MemoryEnd)
      /\ ByteBits * BitmapLength = WordBits * WordsFor(MemoryEnd)
  BY <1>1, WordsForPages DEF BitmapLength
<1>3. BitmapLength \in Nat
  BY KernelInMain
<1>4. BitmapLength * ByteBits = WordBits * WordsFor(MemoryEnd)
  BY <1>2, <1>3
<1>5. WordBits * WordsFor(MemoryEnd) \in Int
  BY <1>2
<1>6. MemsetBits(0, BitmapLength) = 0 .. BitmapLength * ByteBits - 1
  BY <1>3 DEF MemsetBits
<1> QED
  BY <1>1, <1>2, <1>4, <1>5, <1>6 DEF AllBits

LEMMA SizeBitmapStep ==
  ASSUME MInv, SizeBitmap
  PROVE  MInv' /\ bits_map' = AllBits
<1>1. bios' = bios /\ bios \in BiosMaps /\ Collecting
  BY DEF MInv, SizeBitmap, Clearing, Counting, Ready, BootPcs
<1>2. e820 = Regions /\ total_pages = TotalPages
  <2>1. p > Len(bios) /\ Len(bios) = IF Two THEN 4 ELSE 2
    BY <1>1, HighRegion DEF SizeBitmap, Two
  <2>2. p = 5 \/ (p = 3 /\ ~ Two)
    BY <1>1, <2>1 DEF Collecting, Collected
  <2>3. CASE p = 5
    BY <1>1, <2>3 DEF Collecting, Collected
  <2>4. CASE p = 3 /\ ~ Two
    <3>1. /\ e820 = <<PageRegion(0, LowPages), PageRegion(OneM, MainPages)>>
          /\ total_pages = LowPages + MainPages
      BY <1>1, <2>4 DEF Collecting, Collected
    <3>2. Regions = <<PageRegion(0, LowPages), PageRegion(OneM, MainPages)>>
      BY <2>4 DEF Regions
    <3>3. LowPages \in Nat /\ MainPages \in Nat
      BY <1>1, LowRegion, MainRegion
    <3> QED
      BY <2>4, <3>1, <3>2, <3>3 DEF TotalPages
  <2> QED
    BY <2>2, <2>3, <2>4
<1>3. MemoryEnd \in Nat
  BY <1>1, HighRegion
<1>4. bits_size' = MemoryEnd
  <2>1. EndOf(e820[Len(e820)]) = PageSize * MemoryEnd
    <3>1. CASE Two
      <4>1. e820[Len(e820)] = PageRegion(HighStart, HighPages)
        BY <1>2, <3>1 DEF Regions
      <4>2. HighStart \in Nat /\ HighPages \in Nat
        BY <1>1, <3>1, HighRegion
      <4> QED
        BY <3>1, <4>1, <4>2 DEF EndOf, PageRegion, MemoryEnd, HighEnd
    <3>2. CASE ~ Two
      <4>1. e820[Len(e820)] = PageRegion(OneM, MainPages)
        BY <1>2, <3>2 DEF Regions
      <4>2. MainPages \in Nat
        BY <1>1, MainRegion
      <4> QED
        BY <3>2, <4>1, <4>2 DEF EndOf, PageRegion, MemoryEnd, MainEnd
    <3> QED
      BY <3>1, <3>2
  <2> QED
    BY <1>3, <2>1, PageOfMultiple DEF SizeBitmap
<1>5. bits_length' = BitmapLength
  <2> DEFINE a == MemoryEnd + WordBits - 1
             bytes == a \div ByteBits
  <2>1. bits_length' = bytes - (bytes % BytesOfWord)
    BY <1>4 DEF SizeBitmap, BytesOfWord
  <2>2. a \in Nat
    BY <1>3
  <2>3. bytes \in Int /\ bytes \div BytesOfWord = WordsFor(MemoryEnd)
    <3> HIDE DEF a
    <3>1. bytes \div BytesOfWord = a \div (ByteBits * BytesOfWord) /\ a \in Int
      BY <2>2, WordIsBytes, DivTwice
    <3> QED
      BY <3>1, DivMod, WordIsBytes DEF a, WordsFor
  <2> HIDE DEF bytes
  <2>4. bytes = BytesOfWord * (bytes \div BytesOfWord) + (bytes % BytesOfWord)
        /\ bytes \div BytesOfWord \in Int /\ bytes % BytesOfWord \in Int
    BY <2>3, WordIsBytes, DivMod
  <2> QED
    BY <2>1, <2>3, <2>4, WordIsBytes DEF BitmapLength
<1>6. bits_map' = AllBits
  BY <1>1, <1>5, BitsCoverMemory DEF SizeBitmap
<1>7. Clearing'
  <2>1. pc' = "clear" /\ p' = 2 /\ NothingCounted' /\ kernel_end' = 0
    BY <1>1 DEF SizeBitmap, NothingCounted, Collecting
  <2>2. Sized'
    BY <1>1, <1>2, <1>4, <1>5, <1>6, SameBios DEF Sized, SizeBitmap
  <2> QED
    BY <2>1, <2>2 DEF Clearing
<1> QED
  BY <1>1, <1>6, <1>7 DEF MInv

\* The second and the third region that was kept, as ClearRegion reads them.
LEMMA RegionOfLoop ==
  ASSUME bios \in BiosMaps, Sized, p = 2 \/ (p = 3 /\ Two)
  PROVE  \E a, n \in Nat :
           /\ e820[p].address \div PageSize = a /\ e820[p].length \div PageSize = n
           /\ EndOf(e820[p]) = PageSize * (a + n) /\ a + n <= MemoryEnd
           /\ p = 2 => a = OneM /\ n = MainPages
           /\ p = 3 => a = HighStart /\ n = HighPages
<1>1. MainPages \in Nat /\ MainEnd <= MemoryEnd
  BY MainRegion, HighRegion
<1>2. Two => /\ HighStart \in Nat /\ HighPages \in Nat /\ HighEnd = MemoryEnd
  BY HighRegion DEF MemoryEnd
<1>3. \A a, n \in Nat :
        /\ PageRegion(a, n).address \div PageSize = a /\ PageRegion(a, n).length \div PageSize = n
        /\ EndOf(PageRegion(a, n)) = PageSize * (a + n)
  BY PageOfMultiple DEF PageRegion, EndOf
<1>4. CASE p = 2
  <2>1. e820[p] = PageRegion(OneM, MainPages)
    BY <1>4 DEF Sized, Regions
  <2>2. OneM \in Nat /\ OneM + MainPages <= MemoryEnd /\ p # 3
    BY <1>1, <1>4 DEF MainEnd
  <2> QED
    BY <1>1, <1>3, <2>1, <2>2, Zenon
<1>5. CASE p = 3 /\ Two
  <2>1. e820[p] = PageRegion(HighStart, HighPages)
    BY <1>5 DEF Sized, Regions
  <2>2. HighStart + HighPages = MemoryEnd
    BY <1>2, <1>5 DEF HighEnd
  <2>3. MemoryEnd \in Nat /\ p # 2
    BY <1>5, HighRegion
  <2>4. HighStart + HighPages <= MemoryEnd
    BY <2>2, <2>3
  <2>5. HighStart \in Nat /\ HighPages \in Nat
    BY <1>2, <1>5
  <2>6. /\ e820[p].address \div PageSize = HighStart /\ e820[p].length \div PageSize = HighPages
        /\ EndOf(e820[p]) = PageSize * (HighStart + HighPages)
    <3>1. /\ PageRegion(HighStart, HighPages).address \div PageSize = HighStart
          /\ PageRegion(HighStart, HighPages).length \div PageSize = HighPages
          /\ EndOf(PageRegion(HighStart, HighPages)) = PageSize * (HighStart + HighPages)
      BY <1>3, <2>5, ZenonT(30)
    <3> QED
      BY <2>1, <3>1, ZenonT(30)
  <2> QED
    BY <2>3, <2>4, <2>5, <2>6
<1> QED
  BY <1>4, <1>5

LEMMA ClearRegionStep ==
  ASSUME MInv, ClearRegion
  PROVE  MInv'
<1>1. bios' = bios /\ bios \in BiosMaps /\ Clearing
  BY DEF MInv, ClearRegion, Collecting, Counting, Ready, BootPcs
<1>2. p = 2 \/ (p = 3 /\ Two)
  <2>1. Len(e820) = IF Two THEN 3 ELSE 2
    BY <1>1 DEF Clearing, Sized, Regions
  <2> QED
    BY <1>1, <2>1 DEF Clearing, ClearRegion
<1>3. PICK a \in Nat, n \in Nat : EndOf(e820[p]) = PageSize * (a + n) /\ a + n <= MemoryEnd
  BY <1>1, <1>2, RegionOfLoop DEF Clearing
<1>4. TailPages(EndOf(e820[p])) \subseteq AllBits
  <2> DEFINE e == a + n
             f == ByteBits * (e \div ByteBits)
  <2>1. e \in Nat /\ MemoryEnd \in Nat /\ e <= MemoryEnd
    BY <1>1, <1>3, HighRegion
  <2> HIDE DEF e
  <2>2. TailPages(PageSize * e) = f .. e - 1 /\ f \in Nat
    BY <2>1, TailOfPages
  <2> HIDE DEF f
  <2>3. TailPages(PageSize * e) \subseteq 0 .. MemoryEnd - 1
    BY <2>1, <2>2
  <2> QED
    BY <1>1, <1>3, <2>3, BitsCoverMemory DEF e
<1>5. bits_map' \subseteq AllBits
  <2>1. bits_map \subseteq AllBits
    BY <1>1 DEF Clearing, Sized
  <2>2. \E body : bits_map' = Flip(bits_map \ body, TailPages(EndOf(e820[p])))
    BY Zenon DEF ClearRegion
  <2> QED
    BY <1>4, <2>1, <2>2 DEF Flip
<1>6. Sized'
  BY <1>1, <1>5, SameBios DEF Clearing, Sized, ClearRegion
<1>7. Clearing'
  <2>1. pc' = "clear" /\ NothingCounted' /\ kernel_end' = 0 /\ p' = p + 1
    BY <1>1 DEF ClearRegion, NothingCounted, Clearing
  <2> QED
    BY <1>1, <1>2, <1>6, <2>1, SameBios DEF Clearing
<1> QED
  BY <1>1, <1>7 DEF MInv

\* The kernel is marked from 1M to KernelTop.
LEMMA MarkKernelBits ==
  ASSUME bios \in BiosMaps, Sized, MarkKernel
  PROVE  /\ kernel_end' = PageSize * KernelTop
         /\ bits_map' = Flip(bits_map \cup MemsetBits(OneM \div WordBits, (KernelTop - OneM) \div ByteBits),
                             TailPages(PageSize * KernelTop))
<1>1. kernel_end' = PageSize * KernelTop /\ KernelTop \in Int
  BY KernelInMain DEF MarkKernel, Sized
<1>2. kernel_end' \div PageSize = KernelTop
  BY <1>1, PageOfMultiple
<1> QED
  BY <1>1, <1>2, Zenon DEF MarkKernel

LEMMA MarkKernelStep ==
  ASSUME MInv, MarkKernel
  PROVE  MInv'
<1>1. bios' = bios /\ bios \in BiosMaps /\ Clearing
  BY DEF MInv, MarkKernel, Collecting, Counting, Ready, BootPcs
<1>2. Sized /\ bits_map \subseteq AllBits
  BY <1>1 DEF Clearing, Sized
<1>3. /\ kernel_end' = PageSize * KernelTop
      /\ bits_map' = Flip(bits_map \cup MemsetBits(OneM \div WordBits, (KernelTop - OneM) \div ByteBits),
                          TailPages(PageSize * KernelTop))
  BY <1>1, <1>2, MarkKernelBits
<1>4. KernelTop \in Nat /\ OneM < KernelTop /\ KernelTop <= MemoryEnd /\ MemoryEnd \in Nat
  <2>1. MainEnd \in Nat /\ MainEnd <= MemoryEnd /\ MemoryEnd \in Nat
    BY <1>1, MainRegion, HighRegion
  <2> QED
    BY <1>1, <2>1, KernelInMain
<1> DEFINE n == KernelTop - OneM
<1>5. n \in Nat /\ OneM + n = KernelTop /\ OneM \in Nat /\ OneM % WordBits = 0
  BY <1>4
<1> HIDE DEF n
<1>6. PICK x \in OneM .. OneM + n :
        /\ MemsetBits(OneM \div WordBits, n \div ByteBits) = OneM .. x - 1
        /\ TailPages(PageSize * (OneM + n)) = x .. OneM + n - 1
  BY <1>5, RegionBits
<1>7. OneM .. x - 1 \subseteq AllBits /\ x .. KernelTop - 1 \subseteq AllBits
  <2>1. OneM .. x - 1 \subseteq 0 .. MemoryEnd - 1 /\ x .. KernelTop - 1 \subseteq 0 .. MemoryEnd - 1
    BY <1>4, <1>5
  <2> QED
    BY <1>1, <2>1, BitsCoverMemory
<1>8. bits_map' = Flip(bits_map \cup (OneM .. x - 1), x .. KernelTop - 1)
  <2>1. (KernelTop - OneM) \div ByteBits = n \div ByteBits
    BY DEF n
  <2>2. TailPages(PageSize * KernelTop) = x .. KernelTop - 1
    BY <1>5, <1>6
  <2> QED
    BY <1>3, <1>6, <2>1, <2>2
<1>9. bits_map' \subseteq AllBits
  BY <1>2, <1>7, <1>8 DEF Flip
<1>10. Sized'
  BY <1>1, <1>2, <1>9, SameBios DEF Sized, MarkKernel
<1>11. Counting'
  <2>1. pc' = "count" /\ NothingCounted'
    BY <1>1 DEF MarkKernel, NothingCounted, Clearing
  <2> QED
    BY <1>1, <1>3, <1>10, <2>1, SameBios DEF Counting
<1> QED
  BY <1>1, <1>11 DEF MInv

LEMMA CountStep ==
  ASSUME MInv, Count
  PROVE  MInv'
<1>1. bios' = bios /\ bios \in BiosMaps /\ Counting
  BY DEF MInv, Count, Collecting, Clearing, Ready, BootPcs
<1>2. /\ KernelTop \in Nat /\ OneM < KernelTop /\ KernelTop <= MainEnd
      /\ LowPages \in Nat /\ MainPages \in Nat /\ MainEnd \in Nat /\ MainEnd <= MaxPages
      /\ Two => HighPages \in Nat
  BY <1>1, KernelInMain, LowRegion, MainRegion, HighRegion
<1>3. kernel_end \div PageSize = KernelTop
  BY <1>1, <1>2, PageOfMultiple DEF Counting
<1>4. e820[1].length \div PageSize = LowPages
  <2>1. e820[1] = PageRegion(0, LowPages)
    BY <1>1 DEF Counting, Sized, Regions
  <2> QED
    BY <1>2, <2>1, PageOfMultiple DEF PageRegion
<1>5. alloc_pages' = LowPages + (KernelTop - OneM)
  BY <1>1, <1>2, <1>3, <1>4 DEF Count, Counting, NothingCounted
<1>6. free_pages' = TotalPages - alloc_pages' /\ total_pages' = TotalPages
  BY <1>1 DEF Count, Counting, Sized
<1>7. alloc_pages' \in Nat /\ free_pages' \in Nat /\ alloc_pages' + free_pages' = total_pages'
  BY <1>2, <1>5, <1>6 DEF TotalPages, MainEnd
<1>8. kernel_end' = PageSize * KernelTop /\ kernel_end' \in Nat /\ kernel_end' <= MaxPages * PageSize
  <2>1. kernel_end' = PageSize * KernelTop
    BY <1>1 DEF Count, Counting
  <2>2. KernelTop \in Int /\ MaxPages \in Int /\ KernelTop <= MaxPages /\ 0 <= KernelTop
    BY <1>2
  <2>3. PageSize * KernelTop <= PageSize * MaxPages /\ PageSize * 0 <= PageSize * KernelTop
    BY <2>2, TimesMonotone
  <2>4. PageSize * KernelTop \in Int
    BY <2>2
  <2> QED
    BY <2>1, <2>3, <2>4
<1>9. Sized' /\ pc' = "done"
  BY <1>1, SameBios DEF Counting, Sized, Count
<1>10. Ready'
  BY <1>1, <1>5, <1>7, <1>8, <1>9, SameBios DEF Ready, BootPcs
<1> QED
  BY <1>1, <1>10 DEF MInv

LEMMA MemoryStep ==
  ASSUME MInv, Next
  PROVE  MInv'
<1>1. CASE Collect
  BY <1>1, CollectStep
<1>2. CASE SizeBitmap
  BY <1>2, SizeBitmapStep
<1>3. CASE ClearRegion
  BY <1>3, ClearRegionStep
<1>4. CASE MarkKernel
  BY <1>4, MarkKernelStep
<1>5. CASE Count
  BY <1>5, CountStep
<1> QED
  BY <1>1, <1>2, <1>3, <1>4, <1>5 DEF Next

------------------------------------------------------------------------------
(* Runs of clear bits, and what an allocation does to the invariant.       *)

BootTypes == cores_num \in 1 .. MaxCores /\ madt \in Madts /\ IsFiniteSet(mapped)

LEMMA RunInMemory ==
  ASSUME bios \in BiosMaps, Sized, NEW n \in Nat \ {0}, NEW a \in FreeRuns(n)
  PROVE  /\ a \in Nat /\ a + n <= MemoryEnd
         /\ Pages(a, n) \subseteq 0 .. MemoryEnd - 1 /\ Pages(a, n) \cap bits_map = {}
<1> DEFINE q == MemoryEnd \div WordBits
<1>1. MemoryEnd \in Nat
  BY HighRegion
<1>2. q \in Int /\ WordBits * q <= MemoryEnd /\ q * WordBits = WordBits * q
  <2>1. MemoryEnd \in Int
    BY <1>1
  <2>2. q \in Int /\ MemoryEnd = WordBits * q + (MemoryEnd % WordBits)
        /\ MemoryEnd % WordBits \in 0 .. WordBits - 1
    BY <2>1, DivMod
  <2> HIDE DEF q
  <2> QED
    BY <2>1, <2>2
<1>3. a \in 0 .. q * WordBits - n /\ Pages(a, n) \cap bits_map = {}
  BY DEF FreeRuns, Sized
<1> HIDE DEF q
<1>4. q * WordBits \in Int
  BY <1>2
<1>5. a \in Nat /\ a + n <= MemoryEnd
  BY <1>1, <1>2, <1>3, <1>4
<1> QED
  BY <1>1, <1>3, <1>5 DEF Pages

LEMMA LowestRun ==
  ASSUME bios \in BiosMaps, Sized, NEW n \in Nat \ {0}, FreeRuns(n) # {}
  PROVE  Lowest(n) \in FreeRuns(n) /\ \A a \in FreeRuns(n) : Lowest(n) <= a
<1>1. FreeRuns(n) \subseteq Nat
  BY RunInMemory
<1> QED
  BY <1>1, MinOf DEF Lowest

LEMMA SecondRun ==
  ASSUME bios \in BiosMaps, Sized, SecondRuns # {}
  PROVE  /\ FreeRuns(StackPages) # {}
         /\ Min(SecondRuns) \in FreeRuns(StackPages)
         /\ Min(SecondRuns) >= Lowest(StackPages) + StackPages
         /\ \A b \in FreeRuns(StackPages) :
              b >= Lowest(StackPages) + StackPages => Min(SecondRuns) <= b
<1>1. SecondRuns \subseteq FreeRuns(StackPages)
  BY DEF SecondRuns
<1>2. SecondRuns \subseteq Nat
  BY <1>1, RunInMemory
<1>3. Min(SecondRuns) \in SecondRuns /\ \A b \in SecondRuns : Min(SecondRuns) <= b
  BY <1>2, MinOf
<1> QED
  BY <1>1, <1>3 DEF SecondRuns, StackEnd

LEMMA PagesCard ==
  ASSUME NEW a \in Nat, NEW n \in Nat
  PROVE  IsFiniteSet(Pages(a, n)) /\ Cardinality(Pages(a, n)) = n
<1>1. a \in Int /\ a + n - 1 \in Int
  OBVIOUS
<1>2. /\ IsFiniteSet(a .. a + n - 1)
      /\ Cardinality(a .. a + n - 1) = IF a > a + n - 1 THEN 0 ELSE (a + n - 1) - a + 1
  BY <1>1, FS_Interval
<1> QED
  BY <1>2 DEF Pages

\* Allocated pages come from memory and from the free counter.
LEMMA TakeKeeps ==
  ASSUME bios \in BiosMaps, Sized, alloc_pages \in Nat, free_pages \in Nat,
         alloc_pages + free_pages = total_pages,
         NEW S \in SUBSET (0 .. MemoryEnd - 1), Cardinality(S) <= free_pages, Take(S)
  PROVE  /\ bios' = bios /\ Sized' /\ bits_map' = bits_map \cup S
         /\ alloc_pages' \in Nat /\ free_pages' \in Nat /\ alloc_pages' + free_pages' = total_pages'
         /\ cores_num' = cores_num /\ madt' = madt
<1>1. Cardinality(S) \in Nat
  <2>1. MemoryEnd - 1 \in Int
    BY HighRegion
  <2>2. IsFiniteSet(0 .. MemoryEnd - 1)
    BY <2>1, FS_Interval
  <2> QED
    BY <2>2, FS_Subset, FS_CardinalityType
<1>2. bits_map' \subseteq AllBits
  BY BitsCoverMemory DEF Take, Sized
<1>3. bios' = bios
  BY DEF Take
<1> QED
  BY <1>1, <1>2, <1>3, SameBios DEF Take, Sized

\* A page number and the byte address kernel_end.
LEMMA PageBelowEnd ==
  ASSUME bios \in BiosMaps, NEW k \in Nat, k <= MemoryEnd
  PROVE  /\ k * PageSize \in Nat /\ k * PageSize <= MaxPages * PageSize
         /\ (k * PageSize) \div PageSize = k
<1>1. k \in Int /\ MaxPages \in Int /\ k <= MaxPages /\ 0 <= k
  BY HighRegion
<1>2. PageSize * k <= PageSize * MaxPages /\ PageSize * 0 <= PageSize * k
  BY <1>1, TimesMonotone
<1>3. PageSize * k = k * PageSize /\ PageSize * MaxPages = MaxPages * PageSize
      /\ k * PageSize \in Int
  BY <1>1
<1>4. (PageSize * k) \div PageSize = k
  BY <1>1, PageOfMultiple
<1> QED
  BY <1>2, <1>3, <1>4

\* At most n pages have fewer than n free pages below them.
LEMMA LowestPagesCard ==
  ASSUME bios \in BiosMaps, Sized, NEW n \in Nat
  PROVE  /\ LowestPages(n) \subseteq 0 .. MemoryEnd - 1 /\ LowestPages(n) \cap bits_map = {}
         /\ Cardinality(LowestPages(n)) <= n
<1> DEFINE T == FreeRuns(1)
           Below(g) == {k \in T : k < g}
           L == {g \in T : Cardinality(Below(g)) < n}
<1>1. LowestPages(n) = L
  BY DEF LowestPages
<1>2. MemoryEnd \in Nat
  BY HighRegion
<1>3. T \subseteq 0 .. MemoryEnd - 1 /\ T \cap bits_map = {}
  <2>1. \A g \in T : g \in Nat /\ g \in Pages(g, 1) /\ Pages(g, 1) \subseteq 0 .. MemoryEnd - 1
                     /\ Pages(g, 1) \cap bits_map = {}
    <3>1. \A g \in T : /\ g \in Nat /\ Pages(g, 1) \subseteq 0 .. MemoryEnd - 1
                       /\ Pages(g, 1) \cap bits_map = {}
      BY RunInMemory
    <3>2. \A g \in Nat : g \in Pages(g, 1)
      BY DEF Pages
    <3> QED
      BY <3>1, <3>2
  <2> HIDE DEF T
  <2> QED
    BY <2>1
<1>4. IsFiniteSet(T)
  <2>1. MemoryEnd - 1 \in Int
    BY <1>2
  <2>2. IsFiniteSet(0 .. MemoryEnd - 1)
    BY <2>1, FS_Interval
  <2> HIDE DEF T
  <2> QED
    BY <2>2, <1>3, FS_Subset
<1> HIDE DEF T
<1>5. L \subseteq T
  OBVIOUS
<1>6. Cardinality(L) <= n
  <2>1. CASE L = {}
    <3>1. Cardinality(L) = 0
      <4> HIDE DEF L
      <4> QED
        BY <2>1, FS_EmptySet
    <3> QED
      BY <3>1
  <2>2. CASE L # {}
    <3> HIDE DEF L
    <3> DEFINE D == {MemoryEnd - g : g \in L}
    <3>1. D \in SUBSET Nat /\ D # {}
      <4>1. \A g \in L : g \in 0 .. MemoryEnd - 1
        BY <1>3, <1>5
      <4>2. \A g \in L : MemoryEnd - g \in Nat
        BY <1>2, <4>1
      <4> QED
        BY <2>2, <4>2
    <3>2. PICK x \in D : \A y \in D : x <= y
      BY <3>1, SmallestNat
    <3>3. PICK m \in L : x = MemoryEnd - m
      OBVIOUS
    <3>4. \A g \in L : g <= m
      <4>1. TAKE g \in L
      <4>2. MemoryEnd - g \in D /\ g \in Int /\ m \in Int
        BY <1>3, <1>5
      <4>3. x <= MemoryEnd - g
        BY <4>2, <3>2
      <4> QED
        BY <4>2, <4>3, <3>3, <1>2
    <3>5. L \subseteq Below(m) \cup {m}
      <4>1. \A g \in L : g \in Int /\ g \in T
        BY <1>3, <1>5
      <4> QED
        BY <3>4, <4>1
    <3>6. IsFiniteSet(Below(m)) /\ Cardinality(Below(m)) \in Nat
      BY <1>4, FS_Subset, FS_CardinalityType
    <3>7. Cardinality(Below(m)) < n
      BY DEF L
    <3> HIDE DEF Below
    <3>8. /\ IsFiniteSet(Below(m) \cup {m})
          /\ Cardinality(Below(m) \cup {m}) <= Cardinality(Below(m)) + 1
      BY <3>6, FS_AddElement
    <3>9. /\ Cardinality(L) <= Cardinality(Below(m) \cup {m}) /\ IsFiniteSet(L)
      BY <3>5, <3>8, FS_Subset
    <3>10. Cardinality(L) \in Nat /\ Cardinality(Below(m) \cup {m}) \in Nat
      BY <3>8, <3>9, FS_CardinalityType
    <3> QED
      BY <3>6, <3>7, <3>8, <3>9, <3>10
  <2> QED
    BY <2>1, <2>2
<1> HIDE DEF L
<1> QED
  BY <1>1, <1>3, <1>5, <1>6

LEMMA TablesFinite ==
  ASSUME NEW S, IsFiniteSet(S)
  PROVE  IsFiniteSet(Tables(S))
<1> DEFINE P == (1 .. 3) \X S
           Table(level, g) == <<level, g \div Fan^level>>
           f == [x \in P |-> Table(x[1], x[2])]
<1>1. IsFiniteSet(P)
  <2>1. IsFiniteSet(1 .. 3)
    <3>1. 1 \in Int /\ 3 \in Int
      OBVIOUS
    <3> QED
      BY <3>1, FS_Interval
  <2> QED
    BY <2>1, FS_Product
<1>2. Tables(S) = {Table(level, g) : level \in 1 .. 3, g \in S}
  BY DEF Tables
<1> HIDE DEF Table
<1>3. \A t \in Tables(S) : \E x \in P : f[x] = t
  <2>1. SUFFICES ASSUME NEW level \in 1 .. 3, NEW g \in S
                 PROVE  \E x \in P : f[x] = Table(level, g)
    <3> HIDE DEF P, f
    <3> QED
      BY <1>2
  <2>2. <<level, g>> \in P
    OBVIOUS
  <2>3. f[<<level, g>>] = Table(level, g)
    BY <2>2
  <2> QED
    BY <2>2, <2>3, Zenon
<1>4. \A x \in P : f[x] \in Tables(S)
  <2>1. TAKE x \in P
  <2>2. x[1] \in 1 .. 3 /\ x[2] \in S
    OBVIOUS
  <2>3. f[x] = Table(x[1], x[2])
    OBVIOUS
  <2> HIDE DEF f, P
  <2> QED
    BY <1>2, <2>2, <2>3
<1>5. DOMAIN f = P /\ f = [x \in P |-> f[x]]
  OBVIOUS
<1> HIDE DEF f, P
<1>6. f \in Surjection(P, Tables(S))
  BY <1>3, <1>4, <1>5, Zenon DEF Surjection
<1> QED
  BY <1>1, <1>6, FS_Surjection

LEMMA MapPagesKeeps ==
  ASSUME bios \in BiosMaps, Sized, BootTypes, alloc_pages \in Nat, free_pages \in Nat,
         alloc_pages + free_pages = total_pages,
         NEW S, IsFiniteSet(S), MapPages(S)
  PROVE  /\ bios' = bios /\ Sized' /\ BootTypes' /\ kernel_end' = kernel_end /\ p' = p
         /\ alloc_pages' \in Nat /\ free_pages' \in Nat /\ alloc_pages' + free_pages' = total_pages'
         /\ mapped' = mapped \cup S /\ UNCHANGED <<tssVars, acpiVars>>
         /\ \E X : X \cap bits_map = {} /\ bits_map' = bits_map \cup X
<1> DEFINE n == NewTables(S)
<1>1. n \in Nat
  <2>1. IsFiniteSet(mapped \cup S)
    BY FS_Union DEF BootTypes
  <2>2. IsFiniteSet(Tables(mapped \cup S))
    BY <2>1, TablesFinite
  <2>3. IsFiniteSet(Tables(mapped \cup S) \ Tables(mapped))
    BY <2>2, FS_Difference
  <2> QED
    BY <2>3, FS_CardinalityType DEF NewTables
<1>2. free_pages >= n /\ Take(LowestPages(n)) /\ mapped' = mapped \cup S
      /\ kernel_end' = kernel_end /\ p' = p /\ UNCHANGED <<tssVars, acpiVars>>
  BY DEF MapPages, CanMap
<1> HIDE DEF n
<1> DEFINE X == LowestPages(n)
<1>3. X \in SUBSET (0 .. MemoryEnd - 1) /\ X \cap bits_map = {} /\ Cardinality(X) <= n
  BY <1>1, LowestPagesCard
<1>4. Cardinality(X) \in Int
  <2>1. MemoryEnd - 1 \in Int
    BY HighRegion
  <2>2. IsFiniteSet(0 .. MemoryEnd - 1)
    BY <2>1, FS_Interval
  <2> HIDE DEF X
  <2>3. IsFiniteSet(X)
    BY <1>3, <2>2, FS_Subset
  <2>4. Cardinality(X) \in Nat
    BY <2>3, FS_CardinalityType
  <2> QED
    BY <2>4
<1> HIDE DEF X
<1>5. Cardinality(X) <= free_pages
  BY <1>1, <1>2, <1>3, <1>4
<1>6. Take(X)
  BY <1>2 DEF X
<1>7. /\ bios' = bios /\ Sized' /\ bits_map' = bits_map \cup X
      /\ alloc_pages' \in Nat /\ free_pages' \in Nat /\ alloc_pages' + free_pages' = total_pages'
      /\ cores_num' = cores_num /\ madt' = madt
  BY <1>3, <1>5, <1>6, TakeKeeps
<1>8. BootTypes'
  <2>1. IsFiniteSet(mapped')
    BY <1>2, FS_Union DEF BootTypes
  <2> QED
    BY <1>7, <2>1 DEF BootTypes, Madts
<1> QED
  BY <1>2, <1>3, <1>7, <1>8

------------------------------------------------------------------------------
(* The allocations of the boot CPU keep that invariant.                    *)

BInv == MInv /\ BootTypes

LEMMA WhileBooting ==
  ASSUME BInv, pc \in BootPcs
  PROVE  /\ bios \in BiosMaps /\ Ready /\ Sized /\ BootTypes
         /\ alloc_pages \in Nat /\ free_pages \in Nat /\ alloc_pages + free_pages = total_pages
BY DEF BInv, MInv, Collecting, Clearing, Counting, Ready, BootPcs

LEMMA StillBooting ==
  ASSUME bios \in BiosMaps, bios' = bios, Sized', BootTypes', pc' \in BootPcs \ {"done"},
         alloc_pages' \in Nat, free_pages' \in Nat, alloc_pages' + free_pages' = total_pages',
         kernel_end' \in Nat, kernel_end' <= MaxPages * PageSize
  PROVE  BInv'
BY DEF BInv, MInv, Ready

LEMMA UnitsType ==
  ASSUME NEW n \in Nat \ {0}, NEW d \in Nat \ {0}
  PROVE  Units(n, d) \in Nat \ {0} /\ n <= d * Units(n, d)
<1> DEFINE u == (n + d - 1) \div d
<1>1. u \in Int /\ n \in Int /\ 0 \in Int
  BY DivMod
<1>2. (u <= 0 <=> n <= d * 0) /\ (u <= u <=> n <= d * u)
  BY <1>1, DivBounds
<1> QED
  BY <1>1, <1>2 DEF Units

LEMMA TableSizes ==
  ASSUME BootTypes
  PROVE  /\ GdtPages \in Nat \ {0} /\ TssStart + 2 * cores_num <= GdtPageEntries * GdtPages
         /\ TssPages \in Nat \ {0}
<1>1. cores_num \in Nat \ {0} /\ TssStart + 2 * cores_num \in Nat \ {0}
  BY DEF BootTypes
<1> QED
  BY <1>1, UnitsType DEF GdtPages, TssPages

\* One run allocated.
LEMMA TakeRunKeeps ==
  ASSUME BInv, pc \in BootPcs, NEW n \in Nat \ {0}, NEW a \in FreeRuns(n), n <= free_pages,
         Take(Pages(a, n))
  PROVE  /\ bios' = bios /\ Sized' /\ bits_map' = bits_map \cup Pages(a, n)
         /\ alloc_pages' \in Nat /\ free_pages' \in Nat /\ alloc_pages' + free_pages' = total_pages'
         /\ cores_num' = cores_num /\ madt' = madt
<1>1. a \in Nat /\ Pages(a, n) \in SUBSET (0 .. MemoryEnd - 1)
  BY WhileBooting, RunInMemory
<1>2. Cardinality(Pages(a, n)) <= free_pages
  BY <1>1, PagesCard
<1> QED
  BY <1>1, <1>2, WhileBooting, TakeKeeps

LEMMA GdtInitKeeps ==
  ASSUME BInv, GdtInit
  PROVE  /\ BInv' /\ gdt_base' \in FreeRuns(GdtPages) /\ bits_map' = bits_map \cup Pages(gdt_base', GdtPages)
         /\ \A a \in FreeRuns(GdtPages) : gdt_base' <= a
<1>1. pc \in BootPcs /\ pc' \in BootPcs \ {"done"}
  BY DEF GdtInit, BootPcs
<1>2. bios \in BiosMaps /\ Sized /\ BootTypes /\ GdtPages \in Nat \ {0}
  BY <1>1, WhileBooting, TableSizes
<1>3. /\ FreeRuns(GdtPages) # {} /\ GdtPages <= free_pages /\ gdt_base' = Lowest(GdtPages)
      /\ Take(Pages(gdt_base', GdtPages)) /\ kernel_end' = gdt_base' * PageSize
      /\ mapped' = mapped
  BY <1>1, WhileBooting DEF GdtInit, CanTake
<1> DEFINE a == gdt_base'
<1>4. a \in FreeRuns(GdtPages) /\ \A b \in FreeRuns(GdtPages) : a <= b
  BY <1>2, <1>3, LowestRun
<1>5. a \in Nat /\ a <= MemoryEnd /\ MemoryEnd \in Nat
  BY <1>2, <1>4, RunInMemory, HighRegion
<1>6. kernel_end' \in Nat /\ kernel_end' <= MaxPages * PageSize
  BY <1>2, <1>3, <1>5, PageBelowEnd
<1> HIDE DEF a
<1>7. Take(Pages(a, GdtPages))
  BY <1>3 DEF a
<1>8. /\ bios' = bios /\ Sized' /\ bits_map' = bits_map \cup Pages(a, GdtPages)
      /\ alloc_pages' \in Nat /\ free_pages' \in Nat /\ alloc_pages' + free_pages' = total_pages'
      /\ cores_num' = cores_num /\ madt' = madt
  BY <1>1, <1>2, <1>3, <1>4, <1>7, TakeRunKeeps
<1>9. BootTypes'
  BY <1>2, <1>3, <1>8 DEF BootTypes, Madts
<1>10. BInv'
  BY <1>1, <1>2, <1>6, <1>8, <1>9, StillBooting
<1> QED
  BY <1>4, <1>8, <1>10 DEF a

LEMMA TssArrayKeeps ==
  ASSUME BInv, TssArray
  PROVE  /\ BInv' /\ tss_base' \in FreeRuns(TssPages) /\ bits_map' = bits_map \cup Pages(tss_base', TssPages)
         /\ \A a \in FreeRuns(TssPages) : tss_base' <= a
<1>1. pc \in BootPcs /\ pc' \in BootPcs \ {"done"}
  BY DEF TssArray, BootPcs
<1>2. bios \in BiosMaps /\ Sized /\ BootTypes /\ TssPages \in Nat \ {0} /\ Ready
  BY <1>1, WhileBooting, TableSizes
<1>3. /\ FreeRuns(TssPages) # {} /\ TssPages <= free_pages /\ tss_base' = Lowest(TssPages)
      /\ Take(Pages(tss_base', TssPages)) /\ kernel_end' = kernel_end
      /\ mapped' = mapped
  BY <1>1, WhileBooting DEF TssArray, CanTake
<1> DEFINE a == tss_base'
<1>4. a \in FreeRuns(TssPages) /\ \A b \in FreeRuns(TssPages) : a <= b
  BY <1>2, <1>3, LowestRun
<1>6. kernel_end' \in Nat /\ kernel_end' <= MaxPages * PageSize
  BY <1>2, <1>3 DEF Ready
<1> HIDE DEF a
<1>7. Take(Pages(a, TssPages))
  BY <1>3 DEF a
<1>8. /\ bios' = bios /\ Sized' /\ bits_map' = bits_map \cup Pages(a, TssPages)
      /\ alloc_pages' \in Nat /\ free_pages' \in Nat /\ alloc_pages' + free_pages' = total_pages'
      /\ cores_num' = cores_num /\ madt' = madt
  BY <1>1, <1>2, <1>3, <1>4, <1>7, TakeRunKeeps
<1>9. BootTypes'
  BY <1>2, <1>3, <1>8 DEF BootTypes, Madts
<1>10. BInv'
  BY <1>1, <1>2, <1>6, <1>8, <1>9, StillBooting
<1> QED
  BY <1>4, <1>8, <1>10 DEF a

\* The two stacks of a core, as pages of memory.
LEMMA StackRuns ==
  ASSUME BInv, pc \in BootPcs, CanTakeStacks,
         NEW a, a = Lowest(StackPages), NEW b, b = Min(SecondRuns)
  PROVE  /\ a \in FreeRuns(StackPages) /\ \A r \in FreeRuns(StackPages) : a <= r
         /\ b \in FreeRuns(StackPages) /\ b >= a + StackPages
         /\ \A r \in FreeRuns(StackPages) : r >= a + StackPages => b <= r
         /\ Pages(a, StackPages) \cup Pages(b, StackPages) \in SUBSET (0 .. MemoryEnd - 1)
         /\ Cardinality(Pages(a, StackPages) \cup Pages(b, StackPages)) = 2 * StackPages
         /\ a \in Nat /\ b \in Nat /\ b + StackPages <= MemoryEnd
<1>1. bios \in BiosMaps /\ Sized
  BY WhileBooting
<1>2. /\ FreeRuns(StackPages) # {} /\ b \in FreeRuns(StackPages) /\ b >= a + StackPages
      /\ \A r \in FreeRuns(StackPages) : r >= a + StackPages => b <= r
  BY <1>1, SecondRun DEF CanTakeStacks
<1>3. a \in FreeRuns(StackPages) /\ \A r \in FreeRuns(StackPages) : a <= r
  BY <1>1, <1>2, LowestRun
<1>4. /\ a \in Nat /\ b \in Nat /\ b + StackPages <= MemoryEnd
      /\ Pages(a, StackPages) \subseteq 0 .. MemoryEnd - 1
      /\ Pages(b, StackPages) \subseteq 0 .. MemoryEnd - 1
  BY <1>1, <1>2, <1>3, RunInMemory
<1>5. Pages(a, StackPages) \cap Pages(b, StackPages) = {}
  BY <1>2, <1>4 DEF Pages
<1>6. StackPages \in Nat
  OBVIOUS
<1>7. Cardinality(Pages(a, StackPages) \cup Pages(b, StackPages)) = 2 * StackPages
  <2>1. /\ IsFiniteSet(Pages(a, StackPages)) /\ Cardinality(Pages(a, StackPages)) = StackPages
        /\ IsFiniteSet(Pages(b, StackPages)) /\ Cardinality(Pages(b, StackPages)) = StackPages
    BY <1>4, <1>6, PagesCard
  <2>2. Cardinality(Pages(a, StackPages) \cap Pages(b, StackPages)) = 0
    BY <1>5, FS_EmptySet
  <2>3. Cardinality(Pages(a, StackPages) \cup Pages(b, StackPages)) = StackPages + StackPages - 0
    BY <2>1, <2>2, FS_Union
  <2> QED
    BY <2>3
<1> QED
  BY <1>2, <1>3, <1>4, <1>7

LEMMA TssCoreKeeps ==
  ASSUME BInv, TssCore
  PROVE  /\ BInv'
         /\ \E a, b : /\ a = Lowest(StackPages) /\ b = Min(SecondRuns) /\ CanTakeStacks
                      /\ bits_map' = bits_map \cup (Pages(a, StackPages) \cup Pages(b, StackPages))
                      /\ rsp0' = Append(rsp0, StackEnd(a)) /\ ist1' = Append(ist1, StackEnd(b))
                      /\ kernel_end' = StackEnd(b) * PageSize
<1>1. pc \in BootPcs /\ pc' \in BootPcs \ {"done"}
  BY DEF TssCore, BootPcs
<1>2. bios \in BiosMaps /\ Sized /\ BootTypes /\ alloc_pages \in Nat /\ free_pages \in Nat
      /\ alloc_pages + free_pages = total_pages
  BY <1>1, WhileBooting
<1>3. PICK a, b :
        /\ a = Lowest(StackPages) /\ b = Min(SecondRuns) /\ CanTakeStacks
        /\ Take(Pages(a, StackPages) \cup Pages(b, StackPages))
        /\ rsp0' = Append(rsp0, StackEnd(a)) /\ ist1' = Append(ist1, StackEnd(b))
        /\ kernel_end' = StackEnd(b) * PageSize /\ mapped' = mapped
  BY DEF TssCore
<1> DEFINE S == Pages(a, StackPages) \cup Pages(b, StackPages)
<1>4. /\ S \in SUBSET (0 .. MemoryEnd - 1) /\ Cardinality(S) = 2 * StackPages
      /\ b \in Nat /\ b + StackPages <= MemoryEnd
  BY <1>1, <1>3, StackRuns
<1>5. Cardinality(S) <= free_pages
  BY <1>2, <1>3, <1>4 DEF CanTakeStacks
<1>6. kernel_end' \in Nat /\ kernel_end' <= MaxPages * PageSize
  <2>1. StackEnd(b) \in Nat /\ StackEnd(b) <= MemoryEnd
    BY <1>4 DEF StackEnd
  <2> QED
    BY <1>2, <1>3, <2>1, PageBelowEnd
<1>7. Take(S)
  BY <1>3
<1> HIDE DEF S
<1>8. /\ bios' = bios /\ Sized' /\ bits_map' = bits_map \cup S
      /\ alloc_pages' \in Nat /\ free_pages' \in Nat /\ alloc_pages' + free_pages' = total_pages'
      /\ cores_num' = cores_num /\ madt' = madt
  BY <1>2, <1>4, <1>5, <1>7, TakeKeeps
<1>9. BootTypes'
  BY <1>2, <1>3, <1>8 DEF BootTypes, Madts
<1>10. BInv'
  BY <1>1, <1>2, <1>6, <1>8, <1>9, StillBooting
<1> QED
  BY <1>3, <1>8, <1>10 DEF S

LEMMA AcpiInitKeeps ==
  ASSUME BInv, AcpiInit
  PROVE  BInv'
<1>1. pc \in BootPcs /\ pc' \in BootPcs \ {"done"}
  BY DEF AcpiInit, BootPcs
<1>2. bios \in BiosMaps /\ Ready /\ Sized /\ BootTypes /\ bios' = bios
  BY <1>1, WhileBooting DEF AcpiInit
<1>3. Sized' /\ BootTypes'
  <2>1. UNCHANGED <<e820, total_pages, bits_map, bits_size, bits_length, cores_num, madt, mapped>>
    BY DEF AcpiInit
  <2> QED
    BY <1>2, <2>1, SameBios DEF Sized, BootTypes, Madts
<1>4. /\ alloc_pages' \in Nat /\ free_pages' \in Nat /\ alloc_pages' + free_pages' = total_pages'
      /\ kernel_end' \in Nat /\ kernel_end' <= MaxPages * PageSize
  BY <1>2 DEF AcpiInit, Ready
<1> QED
  BY <1>1, <1>2, <1>3, <1>4, StillBooting

LEMMA KernelPagesFinite ==
  ASSUME BInv, pc \in BootPcs
  PROVE  kernel_end \div PageSize \in Nat /\ IsFiniteSet(Pages(0, kernel_end \div PageSize))
<1>1. kernel_end \div PageSize \in Nat
  BY WhileBooting, FloorIsPages DEF Ready
<1> QED
  BY <1>1, PagesCard

LEMMA MapStepKeeps ==
  ASSUME BInv, pc \in BootPcs, pc' \in BootPcs \ {"done"}, NEW S, IsFiniteSet(S), MapPages(S)
  PROVE  BInv'
<1>1. bios \in BiosMaps /\ Ready /\ Sized /\ BootTypes
      /\ alloc_pages \in Nat /\ free_pages \in Nat /\ alloc_pages + free_pages = total_pages
  BY WhileBooting
<1>2. /\ bios' = bios /\ Sized' /\ BootTypes' /\ kernel_end' = kernel_end
      /\ alloc_pages' \in Nat /\ free_pages' \in Nat /\ alloc_pages' + free_pages' = total_pages'
  BY <1>1, MapPagesKeeps
<1> QED
  BY <1>1, <1>2, StillBooting DEF Ready

LEMMA BInvStep ==
  ASSUME BInv, [BootNext]_<<vars, bootVars>>
  PROVE  BInv'
<1>1. CASE MemorySteps
  BY <1>1, MemoryStep DEF BInv, MemorySteps, bootVars, BootTypes, Madts
<1>2. CASE GdtInit
  BY <1>2, GdtInitKeeps
<1>3. CASE TssArray
  BY <1>3, TssArrayKeeps
<1>4. CASE TssCore
  BY <1>4, TssCoreKeeps
<1>5. CASE AcpiInit
  BY <1>5, AcpiInitKeeps
<1>6. CASE PageInit
  <2>1. pc \in BootPcs /\ pc' \in BootPcs \ {"done"}
    BY <1>6 DEF PageInit, BootPcs
  <2> QED
    BY <1>6, <2>1, KernelPagesFinite, MapStepKeeps DEF PageInit
<1>7. CASE MapDevices
  <2>1. pc \in BootPcs /\ pc' \in BootPcs \ {"done"}
    BY <1>7 DEF MapDevices, BootPcs
  <2>2. IsFiniteSet(Devices)
    <3>1. IsFiniteSet({ioapic_baseaddr}) /\ IsFiniteSet({ioapic_baseaddr} \cup {hpet_baseaddr})
      BY FS_Singleton, FS_AddElement
    <3>2. Devices = FrameBuffer \cup ({ioapic_baseaddr} \cup {hpet_baseaddr})
      BY DEF Devices
    <3> QED
      BY <3>1, <3>2, FS_Union, BootAssumption
  <2> QED
    BY <1>7, <2>1, <2>2, MapStepKeeps DEF MapDevices
<1>8. CASE AllocFails
  <2>1. pc \in BootPcs /\ pc' = "lost"
    BY <1>8 DEF AllocFails, BootPcs
  <2>2. bios \in BiosMaps /\ Ready /\ Sized /\ BootTypes /\ bios' = bios
    BY <1>8, <2>1, WhileBooting DEF AllocFails
  <2>3. Sized' /\ BootTypes'
    BY <1>8, <2>2, SameBios DEF AllocFails, Sized, BootTypes, Madts, bootVars
  <2>4. /\ alloc_pages' \in Nat /\ free_pages' \in Nat /\ alloc_pages' + free_pages' = total_pages'
        /\ kernel_end' \in Nat /\ kernel_end' <= MaxPages * PageSize
    BY <1>8, <2>2 DEF AllocFails, Ready
  <2>5. pc' \in BootPcs \ {"done"}
    BY <2>1 DEF BootPcs
  <2> QED
    BY <2>2, <2>3, <2>4, <2>5, StillBooting
<1>9. CASE UNCHANGED <<vars, bootVars>>
  <2>1. bios' = bios
    BY <1>9 DEF vars
  <2> QED
    BY <1>9, <2>1, SameBios DEF BInv, MInv, BootTypes, Madts, Collecting, Collected, Clearing,
       Counting, Ready, Sized, NothingCounted, vars, bootVars
<1> QED
  BY <1>1, <1>2, <1>3, <1>4, <1>5, <1>6, <1>7, <1>8, <1>9 DEF BootNext

LEMMA BInvInit ==
  ASSUME BootInit
  PROVE  BInv
<1>1. BootTypes
  BY FS_EmptySet DEF BootInit, BootTypes
<1>2. bios \in BiosMaps /\ Collecting
  BY DEF BootInit, Init, Collecting, Collected, NothingCounted
<1> QED
  BY <1>1, <1>2 DEF BInv, MInv

\* The counters and addresses of the allocator keep their ranges, and no bit
\* outside the bitmap is ever set: by memory_init, by the initialisation
\* routines behind it, in any memory, aligned or not.
THEOREM BootTypeCorrect == BootSpec => []TypeOK
<1>1. BInv => TypeOK
  <2> SUFFICES ASSUME BInv PROVE TypeOK
    OBVIOUS
  <2>1. bios \in BiosMaps
    BY DEF BInv, MInv
  <2>2. /\ Len(bios) = (IF Two THEN 4 ELSE 2) /\ MemoryEnd \in Nat /\ MainEnd \in Nat
        /\ MainEnd <= MemoryEnd /\ MemoryEnd <= MaxPages
        /\ LowPages \in Nat /\ LowPages <= OneM /\ MainPages \in Nat /\ MainEnd = OneM + MainPages
        /\ Two => /\ HighPages \in Nat /\ HighStart \in Nat /\ MainEnd <= HighStart
                  /\ MemoryEnd = HighStart + HighPages
    BY <2>1, LowRegion, MainRegion, HighRegion DEF Two, MainEnd, MemoryEnd, HighEnd
  <2>3. BitmapLength \in Nat /\ BitmapLength <= MaxPages * PageSize
    BY <2>1, KernelInMain
  <2>4. 0 \in Nat /\ 0 <= MaxPages * PageSize
        /\ \A k \in Nat : k <= MaxPages => k <= MaxPages * PageSize
    <3>1. MaxPages <= MaxPages * PageSize
      <4>1. MaxPages * 1 <= MaxPages * PageSize
        <5>1. CASE MaxPages = 0
          BY <5>1
        <5>2. CASE MaxPages # 0
          <6>1. MaxPages \in Nat \ {0} /\ 1 \in Int /\ PageSize \in Int /\ 1 <= PageSize
            BY <5>2
          <6> QED
            BY <6>1, TimesMonotone
        <5> QED
          BY <5>1, <5>2
      <4> QED
        BY <4>1
    <3>2. MaxPages * PageSize \in Int
      OBVIOUS
    <3> QED
      BY <3>1, <3>2
  <2>5. TotalPages \in Nat /\ TotalPages <= MemoryEnd /\ LowPages + MainPages <= MemoryEnd
    BY <2>2 DEF TotalPages
  <2> DEFINE M == MaxPages * PageSize
  <2>6. M \in Nat /\ TotalPages <= M /\ LowPages + MainPages <= M /\ LowPages <= M /\ MemoryEnd <= M
    BY <2>2, <2>4, <2>5
  <2> HIDE DEF M
  <2>7. Sized => /\ Len(e820) <= Len(bios) /\ total_pages \in 0 .. M
                 /\ bits_size \in 0 .. M /\ bits_length \in 0 .. M
                 /\ bits_map \subseteq MemsetBits(0, bits_length)
    <3> SUFFICES ASSUME Sized PROVE /\ Len(e820) <= Len(bios) /\ total_pages \in 0 .. M
                 /\ bits_size \in 0 .. M /\ bits_length \in 0 .. M
                 /\ bits_map \subseteq MemsetBits(0, bits_length)
      OBVIOUS
    <3>1. Len(e820) <= Len(bios)
      BY <2>2 DEF Sized, Regions
    <3>2. bits_length \in 0 .. M
      BY <2>3 DEF Sized, M
    <3>3. bits_map \subseteq MemsetBits(0, bits_length)
      BY <2>1, BitsCoverMemory DEF Sized
    <3> QED
      BY <2>2, <2>5, <2>6, <3>1, <3>2, <3>3 DEF Sized
  <2>8. CASE Collecting
    <3>1. /\ bits_map = {} /\ bits_size = 0 /\ bits_length = 0 /\ kernel_end = 0
          /\ alloc_pages = 0 /\ free_pages = 0
      BY <2>8 DEF Collecting, NothingCounted
    <3>2. Len(e820) <= Len(bios) /\ total_pages \in 0 .. M
      <4>1. p = 1 \/ p = 2 \/ p = 3 \/ (p = 4 /\ Two) \/ p = 5
        BY <2>8 DEF Collecting, Collected
      <4>2. CASE p = 5
        <5>1. Two /\ e820 = Regions /\ total_pages = TotalPages
          BY <2>8, <4>2 DEF Collecting, Collected
        <5> QED
          BY <2>2, <2>5, <2>6, <5>1 DEF Regions
      <4>3. CASE p # 5
        <5>1. \/ e820 = <<>> /\ total_pages = 0
              \/ e820 = <<PageRegion(0, LowPages)>> /\ total_pages = LowPages
              \/ /\ e820 = <<PageRegion(0, LowPages), PageRegion(OneM, MainPages)>>
                 /\ total_pages = LowPages + MainPages
          BY <2>8, <4>3, Zenon DEF Collecting, Collected
        <5>2. Len(e820) \in {0, 1, 2}
          <6>1. \A a, b : Len(<<>>) = 0 /\ Len(<<a>>) = 1 /\ Len(<<a, b>>) = 2
            OBVIOUS
          <6> QED
            BY <5>1, <6>1
        <5>3. total_pages = 0 \/ total_pages = LowPages \/ total_pages = LowPages + MainPages
          BY <5>1
        <5>4. total_pages \in Nat /\ total_pages <= M
          BY <2>2, <2>6, <5>3
        <5>5. Len(bios) \in {2, 4}
          BY <2>2
        <5>6. Len(e820) <= Len(bios)
          <6>1. \A x \in {0, 1, 2}, y \in {2, 4} : x <= y
            OBVIOUS
          <6> QED
            BY <5>2, <5>5, <6>1, Zenon
        <5>7. total_pages \in 0 .. M
          BY <2>6, <5>4
        <5> QED
          BY <5>6, <5>7
      <4> QED
        BY <4>2, <4>3
    <3> QED
      BY <2>1, <2>6, <3>1, <3>2 DEF TypeOK, M
  <2>9. CASE Clearing
    BY <2>1, <2>6, <2>7, <2>9 DEF TypeOK, M, Clearing, NothingCounted
  <2>10. CASE Counting
    <3>1. KernelTop \in Nat /\ KernelTop <= MemoryEnd
      BY <2>1, <2>2, KernelInMain
    <3>2. kernel_end \in 0 .. M
      <4>1. PageSize * KernelTop = KernelTop * PageSize
        BY <3>1
      <4> QED
        BY <2>1, <2>10, <3>1, <4>1, PageBelowEnd DEF Counting, M
    <3> QED
      BY <2>1, <2>6, <2>7, <2>10, <3>2 DEF TypeOK, M, Counting, NothingCounted
  <2>11. CASE Ready
    <3>1. /\ Sized /\ kernel_end \in 0 .. M /\ alloc_pages \in Nat /\ free_pages \in Nat
          /\ alloc_pages + free_pages = total_pages
      BY <2>11 DEF Ready, M
    <3>2. alloc_pages \in 0 .. M /\ free_pages \in 0 .. M
      BY <2>6, <2>7, <3>1
    <3> QED
      BY <2>1, <2>7, <3>1, <3>2 DEF TypeOK, M
  <2> QED
    BY <2>8, <2>9, <2>10, <2>11 DEF BInv, MInv
<1> QED
  BY <1>1, BInvInit, BInvStep, PTL DEF BootSpec

------------------------------------------------------------------------------
(* What the bitmap holds, when the regions above 1M start at a bitmap word *)
(* (the run memory_init_unaligned shows what happens when they do not).    *)

Aligned == StartAlign % (WordBits * PageSize) = 0

MainBits == OneM .. MainEnd - 1
HighBits == IF Two THEN HighStart .. HighEnd - 1 ELSE {}
FreeBits == (KernelTop .. MainEnd - 1) \cup HighBits

Content ==
  /\ pc = "clear" =>
       bits_map = AllBits \ (IF p = 2 THEN {} ELSE IF p = 3 THEN MainBits ELSE MainBits \cup HighBits)
  /\ pc \in {"count", "done"} => bits_map = AllBits \ FreeBits

LEMMA AlignedStart ==
  ASSUME Aligned, bios \in BiosMaps, Two
  PROVE  /\ HighStart % WordBits = 0 /\ bios[4].address = PageSize * HighStart
         /\ HighEnd = (bios[4].address + bios[4].length) \div PageSize
<1> DEFINE b == bios[4].address
           n == bios[4].length
           k == b \div StartAlign
           WP == WordBits * PageSize
           j == StartAlign \div WP
           t == j * k
<1>1. b \in Int /\ n \in Int /\ b % StartAlign = 0 /\ HighStart = b \div PageSize
      /\ HighPages = n \div PageSize /\ HighEnd = HighStart + HighPages
  BY HighRegion DEF HighStart, HighPages, HighEnd
<1>2. WP \in Nat \ {0} /\ StartAlign \in Int
  OBVIOUS
<1>3. k \in Int /\ b = StartAlign * k
  <2> HIDE DEF b
  <2> QED
    BY <1>1, DivMod
<1>4. j \in Int /\ StartAlign = WP * j
  <2>1. StartAlign % WP = 0
    BY DEF Aligned
  <2> HIDE DEF WP
  <2> QED
    BY <1>2, <2>1, DivMod
<1>5. t \in Int /\ WordBits * t \in Int
  <2> HIDE DEF j, k
  <2> QED
    BY <1>3, <1>4
<1>6. b = PageSize * (WordBits * t)
  <2>1. b = (WP * j) * k
    <3> HIDE DEF b, j, k, WP
    <3> QED
      BY <1>3, <1>4
  <2> HIDE DEF b, j, k
  <2> QED
    BY <1>3, <1>4, <2>1
<1> HIDE DEF t, b, n, k, j
<1> DEFINE h == WordBits * t
<1>7. b \div PageSize = h
  <2>1. h \in Int /\ b = PageSize * h
    BY <1>5, <1>6
  <2> HIDE DEF h
  <2> QED
    BY <2>1, PageOfMultiple
<1>8. h % WordBits = 0
  <2>1. WordBits * t <= h /\ h < WordBits * t + WordBits /\ h - WordBits * t = 0
    BY <1>5
  <2>2. h \in Int
    BY <1>5
  <2> HIDE DEF h
  <2> QED
    BY <1>5, <2>1, <2>2, DivUnique
<1>9. (b + n) \div PageSize = h + (n \div PageSize)
  <2>1. h \in Int /\ b = PageSize * h
    BY <1>5, <1>6
  <2> HIDE DEF h
  <2>2. (PageSize * h + n) \div PageSize = h + (n \div PageSize)
    BY <1>1, <2>1, Parameters, DivOfMultiple
  <2> QED
    BY <2>1, <2>2
<1> HIDE DEF h
<1> QED
  BY <1>1, <1>6, <1>7, <1>8, <1>9 DEF h, b, n

LEMMA ContentOfClear ==
  ASSUME Aligned, BInv, Content, ClearRegion
  PROVE  Content'
<1>1. bios' = bios /\ bios \in BiosMaps /\ Clearing /\ pc = "clear" /\ Sized
  BY DEF BInv, MInv, ClearRegion, Collecting, Clearing, Counting, Ready, BootPcs
<1>2. p = 2 \/ (p = 3 /\ Two)
  <2>1. Len(e820) = IF Two THEN 3 ELSE 2
    BY <1>1 DEF Sized, Regions
  <2> QED
    BY <1>1, <2>1 DEF Clearing, ClearRegion
<1>3. PICK a \in Nat, n \in Nat :
        /\ e820[p].address \div PageSize = a /\ e820[p].length \div PageSize = n
        /\ EndOf(e820[p]) = PageSize * (a + n) /\ a + n <= MemoryEnd
        /\ p = 2 => a = OneM /\ n = MainPages
        /\ p = 3 => a = HighStart /\ n = HighPages
  BY <1>1, <1>2, RegionOfLoop
<1>4. a % WordBits = 0
  BY <1>1, <1>2, <1>3, AlignedStart
<1>5. bits_map' = Flip(bits_map \ MemsetBits(a \div WordBits, n \div ByteBits),
                       TailPages(PageSize * (a + n)))
  BY <1>3 DEF ClearRegion
<1>6. MemoryEnd \in Nat /\ MainEnd \in Nat /\ (Two => MainEnd <= HighStart /\ HighStart \in Nat)
  BY <1>1, MainRegion, HighRegion
<1>7. a .. a + n - 1 \subseteq AllBits
  <2>1. a .. a + n - 1 \subseteq 0 .. MemoryEnd - 1
    BY <1>3, <1>6
  <2> QED
    BY <1>1, <2>1, BitsCoverMemory
<1>8. CASE p = 2
  <2>1. bits_map = AllBits /\ a .. a + n - 1 = MainBits
    BY <1>1, <1>3, <1>8 DEF Content, MainBits, MainEnd
  <2>2. bits_map' = bits_map \ (a .. a + n - 1)
    BY <1>4, <1>5, <1>7, <2>1, ClearRun
  <2>3. pc' = "clear" /\ p' = 3
    BY <1>1, <1>8 DEF ClearRegion
  <2>4. AllBits' = AllBits /\ MainBits' = MainBits
    BY <1>1, SameBios DEF MainBits
  <2> QED
    BY <2>1, <2>2, <2>3, <2>4 DEF Content
<1>9. CASE p = 3 /\ Two
  <2>1. bits_map = AllBits \ MainBits /\ a .. a + n - 1 = HighBits
    BY <1>1, <1>3, <1>9 DEF Content, HighBits, HighEnd
  <2>2. MainBits \cap HighBits = {}
    BY <1>6, <1>9 DEF MainBits, HighBits
  <2>3. a .. a + n - 1 \subseteq bits_map
    BY <1>7, <2>1, <2>2
  <2>4. bits_map' = bits_map \ (a .. a + n - 1)
    BY <1>4, <1>5, <2>3, ClearRun
  <2>5. pc' = "clear" /\ p' = 4
    BY <1>1, <1>9 DEF ClearRegion
  <2>6. AllBits' = AllBits /\ MainBits' = MainBits /\ HighBits' = HighBits
    BY <1>1, SameBios DEF MainBits, HighBits
  <2>7. bits_map' = AllBits \ (MainBits \cup HighBits)
    BY <2>1, <2>4
  <2> QED
    BY <2>5, <2>6, <2>7 DEF Content
<1> QED
  BY <1>2, <1>8, <1>9

LEMMA ContentOfMark ==
  ASSUME Aligned, BInv, Content, MarkKernel
  PROVE  Content'
<1>1. bios' = bios /\ bios \in BiosMaps /\ Clearing /\ pc = "clear" /\ Sized
  BY DEF BInv, MInv, MarkKernel, Collecting, Clearing, Counting, Ready, BootPcs
<1>2. bits_map = AllBits \ (MainBits \cup HighBits)
  <2>1. Len(e820) = IF Two THEN 3 ELSE 2
    BY <1>1 DEF Sized, Regions
  <2>2. (p = 4 /\ Two) \/ (p = 3 /\ ~ Two)
    BY <1>1, <2>1 DEF Clearing, MarkKernel
  <2>3. CASE p = 4
    BY <1>1, <2>3 DEF Content
  <2>4. CASE p = 3 /\ ~ Two
    BY <1>1, <2>4 DEF Content, HighBits
  <2> QED
    BY <2>2, <2>3, <2>4
<1>3. /\ KernelTop \in Nat /\ OneM < KernelTop /\ KernelTop <= MainEnd /\ MainEnd \in Nat
      /\ MainEnd <= MemoryEnd /\ MemoryEnd \in Nat
      /\ Two => HighStart \in Nat /\ HighEnd \in Nat /\ MainEnd <= HighStart
  BY <1>1, KernelInMain, MainRegion, HighRegion
<1> DEFINE n == KernelTop - OneM
           run == OneM .. KernelTop - 1
<1>4. n \in Nat /\ OneM + n = KernelTop /\ OneM \in Nat /\ OneM % WordBits = 0
  BY <1>3
<1>5. /\ bits_map' = Flip(bits_map \cup MemsetBits(OneM \div WordBits, n \div ByteBits),
                          TailPages(PageSize * KernelTop))
  BY <1>1, MarkKernelBits DEF MarkKernel
<1> HIDE DEF n
<1>6. run \subseteq AllBits
  <2>1. run \subseteq 0 .. MemoryEnd - 1
    BY <1>3
  <2> QED
    BY <1>1, <2>1, BitsCoverMemory
<1>7. run \subseteq MainBits /\ run \cap bits_map = {}
  <2>1. run \subseteq MainBits
    BY <1>3 DEF MainBits
  <2> HIDE DEF run
  <2> QED
    BY <1>2, <2>1
<1>8. bits_map' = bits_map \cup run
  <2>1. OneM .. OneM + n - 1 = run
    BY <1>4
  <2>2. (OneM .. OneM + n - 1) \cap bits_map = {}
    BY <1>7, <2>1
  <2>3. Flip(bits_map \cup MemsetBits(OneM \div WordBits, n \div ByteBits), TailPages(PageSize * (OneM + n)))
          = bits_map \cup (OneM .. OneM + n - 1)
    BY <1>4, <2>2, SetRun
  <2> HIDE DEF run
  <2> QED
    BY <1>4, <1>5, <2>1, <2>3
<1>9. MainBits = run \cup (KernelTop .. MainEnd - 1) /\ run \cap (KernelTop .. MainEnd - 1) = {}
  BY <1>3 DEF MainBits
<1>10. run \cap HighBits = {}
  BY <1>3 DEF HighBits
<1>11. bits_map' = AllBits \ FreeBits
  <2> HIDE DEF run
  <2> QED
    BY <1>2, <1>6, <1>8, <1>9, <1>10 DEF FreeBits
<1>12. pc' = "count"
  BY DEF MarkKernel
<1>13. AllBits' = AllBits /\ FreeBits' = FreeBits
  BY <1>1, SameBios DEF FreeBits, HighBits
<1> QED
  BY <1>11, <1>12, <1>13 DEF Content

LEMMA ContentStep ==
  ASSUME Aligned, BInv, Content, [BootNext]_<<vars, bootVars>>
  PROVE  Content'
<1>1. CASE Collect
  BY <1>1 DEF Collect, Content
<1>2. CASE SizeBitmap
  <2>1. bios' = bios /\ bits_map' = AllBits /\ p' = 2 /\ pc' = "clear"
    BY <1>2, SizeBitmapStep DEF BInv, SizeBitmap
  <2> QED
    BY <2>1, SameBios DEF Content
<1>3. CASE ClearRegion
  BY <1>3, ContentOfClear
<1>4. CASE MarkKernel
  BY <1>4, ContentOfMark
<1>5. CASE Count
  <2>1. bios' = bios /\ bits_map' = bits_map /\ pc = "count" /\ pc' = "done"
    BY <1>5 DEF Count
  <2> QED
    BY <2>1, SameBios DEF Content, FreeBits, HighBits
<1>6. CASE UNCHANGED <<vars, bootVars>>
  <2>1. bios' = bios /\ bits_map' = bits_map /\ pc' = pc /\ p' = p
    BY <1>6 DEF vars
  <2> QED
    BY <2>1, SameBios DEF Content, FreeBits, HighBits, MainBits
<1>7. CASE GdtInit \/ TssArray \/ TssCore \/ AcpiInit \/ PageInit \/ MapDevices \/ AllocFails
  <2>1. pc' \in {"gdt", "tss", "acpi", "paging", "running", "lost"}
    BY <1>7, Zenon DEF GdtInit, TssArray, TssCore, AcpiInit, PageInit, MapDevices, AllocFails
  <2> QED
    BY <2>1 DEF Content
<1> QED
  BY <1>1, <1>2, <1>3, <1>4, <1>5, <1>6, <1>7 DEF BootNext, MemorySteps, Next

LEMMA ContentInit == BootInit => Content
BY DEF BootInit, Init, Content

LEMMA FreeBitsFacts ==
  ASSUME bios \in BiosMaps
  PROVE  /\ FreeBits \subseteq 0 .. MemoryEnd - 1 /\ FreeBits \subseteq AllBits
         /\ \A g \in FreeBits : g \in Nat /\ g >= KernelTop
         /\ Cardinality(FreeBits) = (MainEnd - KernelTop) + (IF Two THEN HighPages ELSE 0)
<1>1. /\ KernelTop \in Nat /\ OneM < KernelTop /\ KernelTop <= MainEnd /\ MainEnd \in Nat
      /\ MainEnd <= MemoryEnd /\ MemoryEnd \in Nat
      /\ Two => /\ HighStart \in Nat /\ HighPages \in Nat /\ HighEnd \in Nat
                /\ MainEnd <= HighStart /\ HighEnd = HighStart + HighPages /\ MemoryEnd = HighEnd
  BY KernelInMain, MainRegion, HighRegion DEF HighEnd, MemoryEnd
<1> DEFINE M == KernelTop .. MainEnd - 1
<1>2. M \subseteq 0 .. MemoryEnd - 1 /\ HighBits \subseteq 0 .. MemoryEnd - 1 /\ M \cap HighBits = {}
      /\ (\A g \in M : g \in Nat /\ g >= KernelTop) /\ (\A g \in HighBits : g \in Nat /\ g >= KernelTop)
  <2>1. M \subseteq 0 .. MemoryEnd - 1 /\ \A g \in M : g \in Nat /\ g >= KernelTop
    BY <1>1
  <2>2. CASE Two
    BY <1>1, <2>1, <2>2 DEF HighBits
  <2>3. CASE ~ Two
    BY <2>1, <2>3 DEF HighBits
  <2> QED
    BY <2>2, <2>3
<1>3. IsFiniteSet(M) /\ Cardinality(M) = MainEnd - KernelTop
  <2>1. KernelTop \in Int /\ MainEnd - 1 \in Int
    BY <1>1
  <2>2. Cardinality(M) = IF KernelTop > MainEnd - 1 THEN 0 ELSE (MainEnd - 1) - KernelTop + 1
    BY <2>1, FS_Interval
  <2> QED
    BY <1>1, <2>1, <2>2, FS_Interval
<1>4. IsFiniteSet(HighBits) /\ Cardinality(HighBits) = IF Two THEN HighPages ELSE 0
  <2>1. CASE Two
    <3> DEFINE e == HighEnd - 1
    <3>1. HighStart \in Int /\ e \in Int
      BY <1>1, <2>1
    <3>2. HighBits = HighStart .. e
      BY <2>1 DEF HighBits
    <3>3. IsFiniteSet(HighStart .. e)
          /\ Cardinality(HighStart .. e) = IF HighStart > e THEN 0 ELSE e - HighStart + 1
      <4> HIDE DEF e
      <4> QED
        BY <3>1, FS_Interval
    <3> QED
      BY <1>1, <2>1, <3>2, <3>3
  <2>2. CASE ~ Two
    BY <2>2, FS_EmptySet DEF HighBits
  <2> QED
    BY <2>1, <2>2
<1> HIDE DEF M
<1>5. Cardinality(M \cap HighBits) = 0
  BY <1>2, FS_EmptySet
<1>6. Cardinality(M \cup HighBits) = Cardinality(M) + Cardinality(HighBits) - Cardinality(M \cap HighBits)
  BY <1>3, <1>4, FS_Union
<1>7. FreeBits = M \cup HighBits
  BY DEF FreeBits, M
<1>8. FreeBits \subseteq 0 .. MemoryEnd - 1
  BY <1>2, <1>7
<1>9. Cardinality(FreeBits) = (MainEnd - KernelTop) + (IF Two THEN HighPages ELSE 0)
  <2> DEFINE h == IF Two THEN HighPages ELSE 0
  <2>1. Cardinality(FreeBits) = (MainEnd - KernelTop) + h - 0
    BY <1>3, <1>4, <1>5, <1>6, <1>7
  <2>2. h \in Nat
    BY <1>1
  <2> HIDE DEF h
  <2>3. Cardinality(FreeBits) = (MainEnd - KernelTop) + h
    BY <1>1, <2>1, <2>2
  <2> QED
    BY <2>3 DEF h
<1> QED
  BY <1>2, <1>7, <1>8, <1>9, BitsCoverMemory

\* A page every byte of which lies in a region, in page numbers.
LEMMA PageInRegion ==
  ASSUME NEW g \in Nat, NEW a \in Nat, NEW n \in Nat
  PROVE  /\ PageSize * a <= g * PageSize <=> a <= g
         /\ g * PageSize + PageSize <= PageSize * a + n <=> g + 1 <= a + (n \div PageSize)
<1>1. g \in Int /\ a \in Int /\ n \in Int /\ g + 1 \in Int /\ PageSize * g = g * PageSize
      /\ PageSize * (g + 1) = g * PageSize + PageSize /\ PageSize * a + n \in Int
  OBVIOUS
<1>2. PageSize * a <= PageSize * g <=> a <= g
  BY <1>1, TimesMonotone
<1>3. (PageSize * a + n) \div PageSize = a + (n \div PageSize)
  <2>1. a \in Int /\ n \in Int
    OBVIOUS
  <2> QED
    BY <2>1, Parameters, DivOfMultiple, ZenonT(30)
<1>4. g + 1 <= (PageSize * a + n) \div PageSize <=> PageSize * (g + 1) <= PageSize * a + n
  <2> DEFINE x == PageSize * a + n
             k == g + 1
  <2>1. x \in Int /\ k \in Int
    BY <1>1
  <2> HIDE DEF x, k
  <2>2. k <= x \div PageSize <=> PageSize * k <= x
    BY <2>1, DivBounds
  <2> QED
    BY <2>2 DEF x, k
<1> QED
  BY <1>1, <1>2, <1>3, <1>4

\* What the BIOS calls usable above 1M, in page numbers.
LEMMA UsableIsRegions ==
  ASSUME Aligned, bios \in BiosMaps
  PROVE  UsableAboveOneM = MainBits \cup HighBits
<1>0. DOMAIN bios = IF Two THEN 1 .. 4 ELSE 1 .. 2
  <2>1. Len(bios) = IF Two THEN 4 ELSE 2
    BY HighRegion DEF Two
  <2>2. DOMAIN bios = 1 .. Len(bios)
    BY BiosShape
  <2> QED
    BY <2>1, <2>2
<1>1. AboveOneM(UsablePages(1)) = {}
  <2>1. bios[1].address = 0 /\ bios[1].length \in Nat /\ bios[1].length <= PageSize * OneM
    BY LowRegion
  <2>2. ASSUME NEW g \in AboveOneM(UsablePages(1)) PROVE FALSE
    <3>1. g \in Nat /\ g * PageSize + PageSize <= 0 + bios[1].length /\ g >= OneM
      BY <2>1 DEF AboveOneM, UsablePages
    <3>2. OneM \in Int /\ g \in Int /\ PageSize * OneM <= PageSize * g
      BY <3>1, TimesMonotone
    <3>3. PageSize * g = g * PageSize /\ PageSize * OneM \in Int /\ g * PageSize \in Int
      BY <3>1
    <3> QED
      BY <2>1, <3>1, <3>2, <3>3
  <2> QED
    BY <2>2
<1>2. AboveOneM(UsablePages(2)) = MainBits
  <2>1. /\ bios[2].type = 1 /\ bios[2].address = PageSize * OneM /\ bios[2].length \in Nat
        /\ MainEnd = OneM + MainPages /\ MainEnd \in Nat /\ MainEnd <= MaxPages
        /\ MainPages = bios[2].length \div PageSize
    BY MainRegion DEF MainEnd, MainPages
  <2>2. \A g \in Nat : g * PageSize + PageSize <= bios[2].address + bios[2].length <=> g + 1 <= MainEnd
    <3> DEFINE n == bios[2].length
    <3>1. n \in Nat /\ OneM \in Nat
      BY <2>1
    <3> HIDE DEF n
    <3>2. \A g \in Nat : g * PageSize + PageSize <= PageSize * OneM + n <=> g + 1 <= OneM + (n \div PageSize)
      BY <3>1, PageInRegion, Zenon
    <3> QED
      BY <2>1, <3>2 DEF n
  <2>3. \A g \in Nat : bios[2].address <= g * PageSize <=> OneM <= g
    <3>1. 0 \in Nat /\ OneM \in Nat
      OBVIOUS
    <3>2. \A g \in Nat : PageSize * OneM <= g * PageSize <=> OneM <= g
      BY <3>1, PageInRegion, Zenon
    <3> QED
      BY <2>1, <3>2
  <2>4. UsablePages(2) = {g \in 0 .. MaxPages - 1 : OneM <= g /\ g + 1 <= MainEnd}
    <3>1. UsablePages(2) =
            {g \in 0 .. MaxPages - 1 :
               /\ bios[2].address <= g * PageSize
               /\ g * PageSize + PageSize <= bios[2].address + bios[2].length}
      BY <2>1, Zenon DEF UsablePages
    <3>2. \A g \in 0 .. MaxPages - 1 :
            /\ bios[2].address <= g * PageSize <=> OneM <= g
            /\ g * PageSize + PageSize <= bios[2].address + bios[2].length <=> g + 1 <= MainEnd
      <4>1. \A g \in 0 .. MaxPages - 1 : g \in Nat
        OBVIOUS
      <4> QED
        BY <2>2, <2>3, <4>1, Zenon
    <3> QED
      BY <3>1, <3>2, Zenon
  <2> QED
    BY <2>1, <2>4 DEF AboveOneM, MainBits
<1>3. ASSUME Two
      PROVE  AboveOneM(UsablePages(3)) = {} /\ AboveOneM(UsablePages(4)) = HighBits
  <2>1. /\ bios[3].type = 2 /\ bios[4].type = 1 /\ bios[4].length \in Nat
        /\ HighStart \in Nat /\ HighEnd \in Nat /\ HighEnd <= MaxPages
        /\ MainEnd <= HighStart /\ MainEnd \in Nat /\ OneM <= MainEnd
    BY <1>3, HighRegion, MainRegion DEF MainEnd
  <2>2. bios[4].address = PageSize * HighStart
    BY <1>3, AlignedStart
  <2>3. HighEnd = HighStart + HighPages /\ HighPages = bios[4].length \div PageSize
    BY DEF HighEnd, HighPages
  <2>4. \A g \in Nat : g * PageSize + PageSize <= bios[4].address + bios[4].length <=> g + 1 <= HighEnd
    <3> DEFINE n == bios[4].length
    <3>1. n \in Nat /\ HighStart \in Nat
      BY <2>1
    <3> HIDE DEF n
    <3>2. \A g \in Nat : g * PageSize + PageSize <= PageSize * HighStart + n
                          <=> g + 1 <= HighStart + (n \div PageSize)
      BY <3>1, PageInRegion, Zenon
    <3> QED
      BY <2>2, <2>3, <3>2 DEF n
  <2>5. \A g \in Nat : bios[4].address <= g * PageSize <=> HighStart <= g
    <3>1. 0 \in Nat /\ HighStart \in Nat
      BY <2>1
    <3>2. \A g \in Nat : PageSize * HighStart <= g * PageSize <=> HighStart <= g
      BY <3>1, PageInRegion, Zenon
    <3> QED
      BY <2>2, <3>2
  <2>6. UsablePages(4) = {g \in 0 .. MaxPages - 1 : HighStart <= g /\ g + 1 <= HighEnd}
    <3>1. UsablePages(4) = {g \in 0 .. MaxPages - 1 :
                              /\ bios[4].address <= g * PageSize
                              /\ g * PageSize + PageSize <= bios[4].address + bios[4].length}
      BY <2>1 DEF UsablePages
    <3>2. 0 .. MaxPages - 1 \subseteq Nat
      OBVIOUS
    <3> QED
      BY <2>4, <2>5, <3>1, <3>2, Zenon
  <2>7. AboveOneM(UsablePages(4)) = HighBits
    BY <1>3, <2>1, <2>6 DEF AboveOneM, HighBits
  <2>8. AboveOneM(UsablePages(3)) = {}
    BY <2>1 DEF AboveOneM, UsablePages
  <2> QED
    BY <2>7, <2>8
<1>4. AboveOneM(UNION {UsablePages(k) : k \in DOMAIN bios})
        = UNION {AboveOneM(UsablePages(k)) : k \in DOMAIN bios}
  BY DEF AboveOneM
<1>5. CASE Two
  <2>1. DOMAIN bios = {1, 2, 3, 4}
    BY <1>0, <1>5
  <2>2. UNION {AboveOneM(UsablePages(k)) : k \in {1, 2, 3, 4}}
          = AboveOneM(UsablePages(1)) \cup AboveOneM(UsablePages(2))
              \cup AboveOneM(UsablePages(3)) \cup AboveOneM(UsablePages(4))
    OBVIOUS
  <2> QED
    BY <1>1, <1>2, <1>3, <1>4, <1>5, <2>1, <2>2 DEF UsableAboveOneM
<1>6. CASE ~ Two
  <2>1. DOMAIN bios = {1, 2}
    BY <1>0, <1>6
  <2>2. UNION {AboveOneM(UsablePages(k)) : k \in {1, 2}}
          = AboveOneM(UsablePages(1)) \cup AboveOneM(UsablePages(2))
    OBVIOUS
  <2>3. HighBits = {}
    BY <1>6 DEF HighBits
  <2> QED
    BY <1>1, <1>2, <1>4, <2>1, <2>2, <2>3 DEF UsableAboveOneM
<1> QED
  BY <1>5, <1>6

LEMMA MemoryInitDone ==
  ASSUME Aligned, BInv, Content, pc \in {"count", "done"}
  PROVE  /\ bios \in BiosMaps /\ Sized /\ bits_map = AllBits \ FreeBits
         /\ kernel_end \div PageSize = KernelTop
         /\ pc = "done" => Ready
<1>1. bios \in BiosMaps /\ (Counting \/ Ready)
  BY DEF BInv, MInv, Collecting, Clearing
<1>2. kernel_end = PageSize * KernelTop
  BY <1>1 DEF Counting, Ready, BootPcs
<1>3. KernelTop \in Int
  BY <1>1, KernelInMain
<1>4. kernel_end \div PageSize = KernelTop
  BY <1>2, <1>3, PageOfMultiple
<1>5. Sized /\ bits_map = AllBits \ FreeBits
  BY <1>1 DEF Counting, Ready, Content
<1>6. pc = "done" => Ready
  BY <1>1 DEF Counting
<1> QED
  BY <1>1, <1>4, <1>5, <1>6

\* The image, the stacks below it and the bitmap, in page numbers.
LEMMA ImageIsRun ==
  ASSUME bios \in BiosMaps, Sized
  PROVE  ImagePages = OneM .. KernelTop - 1
<1>1. (OneM * PageSize) \div PageSize = OneM
  <2>1. OneM * PageSize = PageSize * OneM /\ OneM \in Int
    OBVIOUS
  <2> QED
    BY <2>1, PageOfMultiple
<1>2. (StackTop + bits_length + PageSize - 1) \div PageSize = KernelTop
  BY DEF Sized, KernelTop
<1> QED
  BY <1>1, <1>2 DEF ImagePages, PagesOf

\* When memory_init is done, the clear bits are the pages that the BIOS calls
\* usable, above 1M and outside the kernel: in every memory whose regions
\* above 1M start at a bitmap word, with any lengths.
THEOREM BootBitmapMatchesBios ==
  ASSUME Aligned
  PROVE  BootSpec => []BitmapMatchesBios
<1>1. BInv /\ Content => BitmapMatchesBios
  <2> SUFFICES ASSUME BInv, Content, pc = "done"
               PROVE  MemsetBits(0, bits_length) \ bits_map = UsableAboveOneM \ KernelPages
    BY DEF BitmapMatchesBios
  <2>1. /\ bios \in BiosMaps /\ Sized /\ bits_map = AllBits \ FreeBits
        /\ kernel_end \div PageSize = KernelTop
    BY MemoryInitDone
  <2>2. MemsetBits(0, bits_length) = AllBits /\ FreeBits \subseteq AllBits
    BY <2>1, BitsCoverMemory, FreeBitsFacts DEF Sized
  <2>3. MemsetBits(0, bits_length) \ bits_map = FreeBits
    BY <2>1, <2>2
  <2>4. KernelPages = OneM .. KernelTop - 1
    BY <2>1 DEF KernelPages
  <2>5. /\ KernelTop \in Nat /\ OneM < KernelTop /\ KernelTop <= MainEnd /\ MainEnd \in Nat
        /\ Two => HighStart \in Nat /\ HighEnd \in Nat /\ MainEnd <= HighStart
    BY <2>1, KernelInMain, MainRegion, HighRegion
  <2>6. MainBits \ (OneM .. KernelTop - 1) = KernelTop .. MainEnd - 1
    BY <2>5 DEF MainBits
  <2>7. HighBits \ (OneM .. KernelTop - 1) = HighBits
    BY <2>5 DEF HighBits
  <2>8. UsableAboveOneM = MainBits \cup HighBits
    BY <2>1, UsableIsRegions
  <2> QED
    BY <2>3, <2>4, <2>6, <2>7, <2>8 DEF FreeBits
<1> QED
  BY <1>1, BInvInit, BInvStep, ContentInit, ContentStep, PTL DEF BootSpec

\* The bitmap covers all memory, and the pages of the kernel and of the bitmap
\* itself are marked in use.
THEOREM BootBitmapOwnsItsPages ==
  ASSUME Aligned
  PROVE  BootSpec => []BitmapOwnsItsPages
<1>1. BInv /\ Content => BitmapOwnsItsPages
  <2> SUFFICES ASSUME BInv, Content, pc \in {"count", "done"}
               PROVE  /\ 0 .. bits_size - 1 \subseteq MemsetBits(0, bits_length)
                      /\ ImagePages \subseteq bits_map
    BY DEF BitmapOwnsItsPages, ImagePages
  <2>1. bios \in BiosMaps /\ Sized /\ bits_map = AllBits \ FreeBits
    BY MemoryInitDone
  <2>2. 0 .. bits_size - 1 \subseteq MemsetBits(0, bits_length)
    BY <2>1, BitsCoverMemory DEF Sized
  <2>3. ImagePages = OneM .. KernelTop - 1
    BY <2>1, ImageIsRun
  <2>4. KernelTop \in Nat /\ KernelTop <= MemoryEnd /\ MemoryEnd \in Nat
    <3>1. MainEnd \in Nat /\ MainEnd <= MemoryEnd /\ MemoryEnd \in Nat
      BY <2>1, MainRegion, HighRegion
    <3> QED
      BY <2>1, <3>1, KernelInMain
  <2>5. ImagePages \subseteq AllBits
    <3>1. ImagePages \subseteq 0 .. MemoryEnd - 1
      BY <2>3, <2>4
    <3> QED
      BY <2>1, <3>1, BitsCoverMemory
  <2>6. ImagePages \cap FreeBits = {}
    <3>1. \A g \in FreeBits : g \in Nat /\ g >= KernelTop
      BY <2>1, FreeBitsFacts
    <3> QED
      BY <2>3, <2>4, <3>1
  <2> QED
    BY <2>1, <2>2, <2>5, <2>6
<1> QED
  BY <1>1, BInvInit, BInvStep, ContentInit, ContentStep, PTL DEF BootSpec

\* The counters add up, and as many pages are counted free as have a clear bit.
THEOREM BootCountersMatchBitmap ==
  ASSUME Aligned
  PROVE  BootSpec => []CountersMatchBitmap
<1>1. BInv /\ Content => CountersMatchBitmap
  <2> SUFFICES ASSUME BInv, Content, pc = "done"
               PROVE  /\ alloc_pages + free_pages = total_pages
                      /\ free_pages = Cardinality((0 .. bits_size - 1) \ bits_map)
    BY DEF CountersMatchBitmap
  <2>1. bios \in BiosMaps /\ Sized /\ bits_map = AllBits \ FreeBits /\ Ready
    BY MemoryInitDone
  <2>2. /\ alloc_pages + free_pages = total_pages /\ total_pages = TotalPages
        /\ alloc_pages = LowPages + (KernelTop - OneM) /\ free_pages \in Nat
        /\ bits_size = MemoryEnd
    BY <2>1 DEF Ready, Sized
  <2>3. (0 .. bits_size - 1) \ bits_map = FreeBits
    BY <2>1, <2>2, FreeBitsFacts, BitsCoverMemory
  <2> DEFINE h == IF Two THEN HighPages ELSE 0
  <2>4. Cardinality(FreeBits) = (MainEnd - KernelTop) + h /\ TotalPages = LowPages + MainPages + h
        /\ MainEnd = OneM + MainPages
    BY <2>1, FreeBitsFacts DEF TotalPages, MainEnd
  <2>5. h \in Nat /\ LowPages \in Nat /\ MainPages \in Nat /\ KernelTop \in Nat
    BY <2>1, LowRegion, MainRegion, HighRegion, KernelInMain
  <2> HIDE DEF h
  <2>6. free_pages = Cardinality(FreeBits)
    BY <2>2, <2>4, <2>5
  <2> QED
    BY <2>2, <2>3, <2>6
<1> QED
  BY <1>1, BInvInit, BInvStep, ContentInit, ContentStep, PTL DEF BootSpec

------------------------------------------------------------------------------
(* The tables and the stacks of the boot CPU: nothing is allocated twice.  *)

LEMMA ImageTaken ==
  ASSUME Aligned, BInv, Content, pc = "done"
  PROVE  ImagePages \subseteq bits_map
<1>1. bios \in BiosMaps /\ Sized /\ bits_map = AllBits \ FreeBits
  BY MemoryInitDone
<1>2. ImagePages = OneM .. KernelTop - 1
  BY <1>1, ImageIsRun
<1>3. KernelTop \in Nat /\ KernelTop <= MemoryEnd /\ MemoryEnd \in Nat
  <2>1. MainEnd \in Nat /\ MainEnd <= MemoryEnd /\ MemoryEnd \in Nat
    BY <1>1, MainRegion, HighRegion
  <2> QED
    BY <1>1, <2>1, KernelInMain
<1>4. ImagePages \subseteq AllBits
  <2>1. ImagePages \subseteq 0 .. MemoryEnd - 1
    BY <1>2, <1>3
  <2> QED
    BY <1>1, <2>1, BitsCoverMemory
<1>5. \A g \in FreeBits : g \in Nat /\ g >= KernelTop
  BY <1>1, FreeBitsFacts
<1>6. ImagePages \cap FreeBits = {}
  BY <1>2, <1>3, <1>5
<1> QED
  BY <1>1, <1>4, <1>6

\* After memory_init bits are only set.
LEMMA OnlyTakes ==
  ASSUME BInv, pc \in BootPcs, [BootNext]_<<vars, bootVars>>
  PROVE  /\ bits_map \subseteq bits_map' /\ bios' = bios /\ bits_size' = bits_size
         /\ bits_length' = bits_length /\ cores_num' = cores_num /\ madt' = madt
<1>1. ~ MemorySteps
  BY DEF BootPcs, MemorySteps, Next, Collect, SizeBitmap, ClearRegion, MarkKernel, Count
<1>2. CASE \E S : Take(S)
  BY <1>2 DEF Take
<1>3. CASE AcpiInit
  BY <1>3 DEF AcpiInit
<1>4. CASE AllocFails
  BY <1>4 DEF AllocFails, bootVars
<1>5. CASE UNCHANGED <<vars, bootVars>>
  BY <1>5 DEF vars, bootVars
<1>6. ASSUME GdtInit \/ TssArray \/ TssCore \/ PageInit \/ MapDevices
      PROVE  \E S : Take(S)
  BY <1>6, Zenon DEF GdtInit, TssArray, TssCore, PageInit, MapDevices, MapPages
<1> QED
  BY <1>1, <1>2, <1>3, <1>4, <1>5, <1>6 DEF BootNext

LEMMA RunsShrink ==
  ASSUME bits_map \subseteq bits_map', bits_size' = bits_size, NEW n
  PROVE  FreeRuns(n)' \subseteq FreeRuns(n)
BY DEF FreeRuns, Pages

StackSet(i) == StackBefore(rsp0[i]) \cup StackBefore(ist1[i])

Stacks == UNION {StackSet(i) : i \in 1 .. p}

StacksInv ==
  /\ p \in 0 .. cores_num /\ (pc # "tss" => p = cores_num)
  /\ rsp0 \in Seq(Nat) /\ ist1 \in Seq(Nat) /\ Len(rsp0) = p /\ Len(ist1) = p
  /\ \A c \in 0 .. p - 1 : TrEntry(c) \in DOMAIN gdt /\ gdt[TrEntry(c)] = c
  /\ Stacks \subseteq bits_map /\ IsFiniteSet(Stacks)
  /\ Cardinality(Stacks) = p * (2 * StackPages)
  /\ Stacks \cap (ImagePages \cup TablePages) = {}

TssPcs == {"tss", "acpi", "paging", "running"}
GdtPcs == {"gdt"} \cup TssPcs

OwnInv ==
  /\ pc \in BootPcs => ImagePages \subseteq bits_map
  /\ pc \in GdtPcs => Pages(gdt_base, GdtPages) \subseteq bits_map
  /\ pc \in TssPcs => Pages(tss_base, TssPages) \subseteq bits_map /\ StacksInv
  /\ pc \notin TssPcs \cup {"lost"} => rsp0 = <<>> /\ ist1 = <<>>

LEMMA SameTables ==
  ASSUME cores_num' = cores_num, bits_length' = bits_length
  PROVE  GdtPages' = GdtPages /\ TssPages' = TssPages /\ ImagePages' = ImagePages
BY DEF GdtPages, TssPages, ImagePages

\* Steps that leave the tables and stacks alone.
LEMMA OwnFrame ==
  ASSUME OwnInv, pc \in TssPcs, pc' \in TssPcs \cup {"lost"},
         pc' \notin {"tss", "lost"} => p = cores_num, UNCHANGED <<p, tssVars>>,
         bits_map \subseteq bits_map', cores_num' = cores_num, bits_length' = bits_length
  PROVE  OwnInv'
<1>1. GdtPages' = GdtPages /\ TssPages' = TssPages /\ ImagePages' = ImagePages
  BY SameTables
<1>2. UNCHANGED <<p, gdt_base, gdt, tss_base, rsp0, ist1>>
  BY DEF tssVars
<1>3. Stacks' = Stacks /\ TablePages' = TablePages
  BY <1>1, <1>2 DEF Stacks, StackSet, TablePages
<1>4. StacksInv /\ ImagePages \subseteq bits_map /\ Pages(gdt_base, GdtPages) \subseteq bits_map
      /\ Pages(tss_base, TssPages) \subseteq bits_map
  BY DEF OwnInv, TssPcs, GdtPcs, BootPcs
<1>5. pc' # "lost" => StacksInv'
  <2>1. pc' # "lost" => p' \in 0 .. cores_num' /\ (pc' # "tss" => p' = cores_num')
    BY <1>2, <1>4 DEF StacksInv
  <2>2. /\ rsp0' \in Seq(Nat) /\ ist1' \in Seq(Nat) /\ Len(rsp0') = p' /\ Len(ist1') = p'
        /\ \A c \in 0 .. p' - 1 : TrEntry(c) \in DOMAIN gdt' /\ gdt'[TrEntry(c)] = c
    BY <1>2, <1>4 DEF StacksInv
  <2>3. /\ Stacks' \subseteq bits_map' /\ IsFiniteSet(Stacks')
        /\ Cardinality(Stacks') = p' * (2 * StackPages)
        /\ Stacks' \cap (ImagePages' \cup TablePages') = {}
    BY <1>1, <1>2, <1>3, <1>4 DEF StacksInv
  <2> QED
    BY <2>1, <2>2, <2>3 DEF StacksInv
<1> QED
  BY <1>1, <1>2, <1>4, <1>5 DEF OwnInv, TssPcs, GdtPcs, BootPcs

\* The stack that ends before page StackEnd(a).
LEMMA StackOfRun ==
  ASSUME NEW a \in Nat
  PROVE  StackBefore(StackEnd(a)) = Pages(a, StackPages) /\ StackEnd(a) \in Nat
<1>1. a + StackPages - StackPages = a
  OBVIOUS
<1> QED
  BY <1>1 DEF StackBefore, StackEnd

LEMMA OwnOfCore ==
  ASSUME BInv, OwnInv, TssCore
  PROVE  OwnInv'
<1>1. pc = "tss" /\ pc' = "tss" /\ p < cores_num /\ p' = p + 1
      /\ gdt' = WithTss(TssEntry(p), p) /\ UNCHANGED <<gdt_base, tss_base>> /\ pc \in BootPcs
  BY DEF TssCore, BootPcs
<1>2. /\ bits_map \subseteq bits_map' /\ bits_length' = bits_length /\ cores_num' = cores_num
  BY <1>1, OnlyTakes DEF BootNext
<1>3. /\ StacksInv /\ ImagePages \subseteq bits_map /\ Pages(gdt_base, GdtPages) \subseteq bits_map
      /\ Pages(tss_base, TssPages) \subseteq bits_map
  BY <1>1 DEF OwnInv, TssPcs, GdtPcs, BootPcs
<1>4. cores_num \in Nat /\ p \in Nat /\ p + 1 \in 0 .. cores_num
  <2>1. cores_num \in Nat
    BY <1>1, WhileBooting DEF BootTypes
  <2> QED
    BY <1>1, <1>3, <2>1 DEF StacksInv
<1>5. GdtPages' = GdtPages /\ TssPages' = TssPages /\ ImagePages' = ImagePages
      /\ TablePages' = TablePages
  BY <1>1, <1>2, SameTables DEF TablePages
<1>6. PICK a, b :
        /\ a = Lowest(StackPages) /\ b = Min(SecondRuns) /\ CanTakeStacks
        /\ bits_map' = bits_map \cup (Pages(a, StackPages) \cup Pages(b, StackPages))
        /\ rsp0' = Append(rsp0, StackEnd(a)) /\ ist1' = Append(ist1, StackEnd(b))
  BY TssCoreKeeps
<1> DEFINE N == Pages(a, StackPages) \cup Pages(b, StackPages)
<1>7. /\ a \in FreeRuns(StackPages) /\ b \in FreeRuns(StackPages) /\ a \in Nat /\ b \in Nat
      /\ Cardinality(N) = 2 * StackPages
  BY <1>1, <1>6, StackRuns
<1>8. N \cap bits_map = {} /\ IsFiniteSet(N)
  <2>1. bios \in BiosMaps /\ Sized
    BY <1>1, WhileBooting
  <2>2. Pages(a, StackPages) \cap bits_map = {} /\ Pages(b, StackPages) \cap bits_map = {}
    BY <1>7, <2>1, RunInMemory
  <2>3. IsFiniteSet(Pages(a, StackPages)) /\ IsFiniteSet(Pages(b, StackPages))
    BY <1>7, PagesCard
  <2> QED
    BY <2>2, <2>3, FS_Union
<1>9. /\ StackEnd(a) \in Nat /\ StackBefore(StackEnd(a)) = Pages(a, StackPages)
      /\ StackEnd(b) \in Nat /\ StackBefore(StackEnd(b)) = Pages(b, StackPages)
  BY <1>7, StackOfRun
<1>10. /\ rsp0' \in Seq(Nat) /\ ist1' \in Seq(Nat) /\ Len(rsp0') = p' /\ Len(ist1') = p'
       /\ rsp0'[p + 1] = StackEnd(a) /\ ist1'[p + 1] = StackEnd(b)
       /\ \A i \in 1 .. p : rsp0'[i] = rsp0[i] /\ ist1'[i] = ist1[i]
  BY <1>1, <1>3, <1>4, <1>6, <1>9 DEF StacksInv
<1> HIDE DEF N
<1>11. Stacks' = Stacks \cup N
  <2>1. 1 .. p' = (1 .. p) \cup {p + 1}
    BY <1>1, <1>4
  <2>2. \A i \in 1 .. p : StackSet(i)' = StackSet(i)
    BY <1>10 DEF StackSet
  <2>3. StackBefore(rsp0'[p + 1]) \cup StackBefore(ist1'[p + 1]) = N
    BY <1>9, <1>10 DEF N
  <2>4. Stacks' = UNION {StackBefore(rsp0'[i]) \cup StackBefore(ist1'[i]) : i \in 1 .. p'}
    BY DEF Stacks, StackSet
  <2>5. Stacks = UNION {StackBefore(rsp0'[i]) \cup StackBefore(ist1'[i]) : i \in 1 .. p}
    <3>1. \A i \in 1 .. p : StackSet(i) = StackBefore(rsp0'[i]) \cup StackBefore(ist1'[i])
      BY <1>10 DEF StackSet
    <3> QED
      BY <3>1 DEF Stacks
  <2> QED
    BY <2>1, <2>3, <2>4, <2>5
<1>12. /\ Stacks' \subseteq bits_map' /\ IsFiniteSet(Stacks')
       /\ Cardinality(Stacks') = p' * (2 * StackPages)
       /\ Stacks' \cap (ImagePages' \cup TablePages') = {}
  <2>1. /\ Stacks \subseteq bits_map /\ IsFiniteSet(Stacks)
        /\ Cardinality(Stacks) = p * (2 * StackPages)
        /\ Stacks \cap (ImagePages \cup TablePages) = {}
    BY <1>3 DEF StacksInv
  <2>2. Stacks \cap N = {}
    BY <1>8, <2>1
  <2>3. Cardinality(Stacks \cup N) = Cardinality(Stacks) + Cardinality(N)
    <3>1. Cardinality(Stacks \cap N) = 0
      BY <2>2, FS_EmptySet
    <3>2. Cardinality(Stacks \cup N) = Cardinality(Stacks) + Cardinality(N) - 0
      BY <1>8, <2>1, <3>1, FS_Union
    <3>3. Cardinality(Stacks) \in Nat /\ Cardinality(N) \in Nat
      BY <1>8, <2>1, FS_CardinalityType
    <3> QED
      BY <3>2, <3>3
  <2>4. IsFiniteSet(Stacks \cup N)
    BY <1>8, <2>1, FS_Union
  <2>5. Cardinality(N) = 2 * StackPages
    BY <1>7 DEF N
  <2>6. p * (2 * StackPages) + 2 * StackPages = (p + 1) * (2 * StackPages)
    BY <1>4
  <2>7. N \cap (ImagePages \cup TablePages) = {}
    BY <1>3, <1>8 DEF TablePages
  <2>8. bits_map' = bits_map \cup N
    BY <1>6 DEF N
  <2> QED
    BY <1>1, <1>5, <1>11, <2>1, <2>3, <2>4, <2>5, <2>6, <2>7, <2>8
<1>13. \A c \in 0 .. p' - 1 : TrEntry(c) \in DOMAIN gdt' /\ gdt'[TrEntry(c)] = c
  <2>1. TAKE c \in 0 .. p' - 1
  <2>2. c \in Nat /\ (c = p \/ c \in 0 .. p - 1)
    BY <1>1, <1>4
  <2>3. \A x \in DOMAIN gdt' : gdt'[x] = IF x = TssEntry(p) THEN p ELSE gdt[x]
    BY <1>1 DEF WithTss
  <2>4. DOMAIN gdt' = DOMAIN gdt \cup {TssEntry(p)}
    BY <1>1 DEF WithTss
  <2>5. CASE c = p
    <3>1. TrEntry(c) = TssEntry(p)
      BY <1>4, <2>5 DEF TrEntry, TssEntry
    <3> QED
      BY <2>3, <2>4, <2>5, <3>1
  <2>6. CASE c \in 0 .. p - 1
    <3>1. TrEntry(c) # TssEntry(p)
      BY <1>4, <2>2, <2>6 DEF TrEntry, TssEntry
    <3>2. TrEntry(c) \in DOMAIN gdt /\ gdt[TrEntry(c)] = c
      BY <1>3, <2>6 DEF StacksInv
    <3> QED
      BY <2>3, <2>4, <3>1, <3>2
  <2> QED
    BY <2>2, <2>5, <2>6
<1>14. StacksInv'
  <2>1. p' \in 0 .. cores_num' /\ (pc' # "tss" => p' = cores_num')
    BY <1>1, <1>2, <1>4
  <2> QED
    BY <1>10, <1>12, <1>13, <2>1 DEF StacksInv
<1> QED
  BY <1>1, <1>2, <1>3, <1>5, <1>14 DEF OwnInv, TssPcs, GdtPcs, BootPcs

LEMMA OwnStep ==
  ASSUME Aligned, BInv, Content, OwnInv, [BootNext]_<<vars, bootVars>>
  PROVE  OwnInv'
<1>1. CASE MemorySteps
  <2>1. pc \notin BootPcs \ {"done"} /\ pc' \notin BootPcs \ {"done"}
        /\ UNCHANGED <<rsp0, ist1>>
    BY <1>1, Zenon DEF BootPcs, MemorySteps, Next, Collect, SizeBitmap, ClearRegion, MarkKernel, Count,
       bootVars, tssVars
  <2>2. pc' = "done" => ImagePages' \subseteq bits_map'
    <3>1. BInv' /\ Content'
      BY BInvStep, ContentStep
    <3>2. (BInv /\ Content /\ pc = "done" => ImagePages \subseteq bits_map)'
      BY ImageTaken, PTL
    <3> QED
      BY <3>1, <3>2
  <2> QED
    BY <2>1, <2>2 DEF OwnInv, TssPcs, GdtPcs, BootPcs
<1>2. CASE GdtInit
  <2>1. /\ bits_map' = bits_map \cup Pages(gdt_base', GdtPages) /\ UNCHANGED <<rsp0, ist1>>
        /\ pc = "done" /\ pc' = "gdt"
    BY <1>2, GdtInitKeeps DEF GdtInit
  <2>2. cores_num' = cores_num /\ bits_length' = bits_length
    BY <2>1, OnlyTakes DEF BootPcs
  <2>3. GdtPages' = GdtPages /\ ImagePages' = ImagePages
    BY <2>2, SameTables
  <2> QED
    BY <2>1, <2>3 DEF OwnInv, TssPcs, GdtPcs, BootPcs
<1>3. CASE TssArray
  <2>1. /\ bits_map' = bits_map \cup Pages(tss_base', TssPages)
        /\ UNCHANGED <<rsp0, ist1, gdt_base>> /\ p' = 0
        /\ pc = "gdt" /\ pc' = "tss" /\ BootTypes
    BY <1>3, TssArrayKeeps DEF TssArray, BInv
  <2>2. cores_num' = cores_num /\ bits_length' = bits_length
    BY <2>1, OnlyTakes DEF BootPcs
  <2>3. GdtPages' = GdtPages /\ TssPages' = TssPages /\ ImagePages' = ImagePages
    BY <2>2, SameTables
  <2>4. rsp0' = <<>> /\ ist1' = <<>>
    BY <2>1 DEF OwnInv, TssPcs
  <2>5. Stacks' = {}
    BY <2>1 DEF Stacks
  <2>6. StacksInv'
    <3>1. p' \in 0 .. cores_num' /\ (pc' # "tss" => p' = cores_num')
      BY <2>1, <2>2 DEF BootTypes
    <3>2. /\ rsp0' \in Seq(Nat) /\ ist1' \in Seq(Nat) /\ Len(rsp0') = p' /\ Len(ist1') = p'
          /\ \A c \in 0 .. p' - 1 : TrEntry(c) \in DOMAIN gdt' /\ gdt'[TrEntry(c)] = c
      BY <2>1, <2>4
    <3>3. IsFiniteSet(Stacks') /\ Cardinality(Stacks') = p' * (2 * StackPages)
      BY <2>1, <2>5, FS_EmptySet
    <3> QED
      BY <2>5, <3>1, <3>2, <3>3 DEF StacksInv
  <2> QED
    BY <2>1, <2>3, <2>6 DEF OwnInv, TssPcs, GdtPcs, BootPcs
<1>4. CASE TssCore
  BY <1>4, OwnOfCore
<1>5. CASE AcpiInit \/ PageInit \/ MapDevices
  <2>1. /\ pc \in TssPcs /\ pc' \in TssPcs /\ pc \in BootPcs
        /\ pc = "tss" => p = cores_num
        /\ UNCHANGED <<p, tssVars>>
    BY <1>5, Zenon DEF AcpiInit, PageInit, MapDevices, MapPages, TssPcs, BootPcs
  <2>2. p = cores_num
    BY <2>1 DEF OwnInv, StacksInv
  <2> QED
    BY <2>1, <2>2, OwnFrame, OnlyTakes
<1>8. CASE AllocFails
  <2>1. pc \in BootPcs /\ pc' = "lost" /\ UNCHANGED <<bits_map, bits_length, bootVars>>
    BY <1>8 DEF AllocFails, BootPcs
  <2>2. ImagePages' = ImagePages
    BY <2>1 DEF ImagePages
  <2> QED
    BY <2>1, <2>2 DEF OwnInv, TssPcs, GdtPcs, BootPcs
<1>9. CASE UNCHANGED <<vars, bootVars>>
  <2>1. UNCHANGED <<bits_map, bits_length, pc, p, cores_num, gdt_base, gdt, tss_base, rsp0, ist1>>
    BY <1>9 DEF vars, bootVars, tssVars
  <2>2. GdtPages' = GdtPages /\ TssPages' = TssPages /\ ImagePages' = ImagePages
    BY <2>1, SameTables
  <2>3. Stacks' = Stacks /\ TablePages' = TablePages
    BY <2>1, <2>2 DEF Stacks, StackSet, TablePages
  <2>4. StacksInv' = StacksInv
    BY <2>1, <2>2, <2>3 DEF StacksInv
  <2> QED
    BY <2>1, <2>2, <2>4 DEF OwnInv
<1> QED
  BY <1>1, <1>2, <1>3, <1>4, <1>5, <1>8, <1>9 DEF BootNext

LEMMA OwnInit == BootInit => OwnInv
BY DEF BootInit, Init, OwnInv, BootPcs, TssPcs, GdtPcs

\* Every CPU's selector names a descriptor inside the GDT and a TSS of its own,
\* no page belongs to two stacks, and none to a stack and to the image, the
\* bitmap, the GDT or the TSS array.
THEOREM BootOwnStacks ==
  ASSUME Aligned
  PROVE  BootSpec => []OwnStacks
<1>1. BInv /\ OwnInv => OwnStacks
  <2> DEFINE cpus == 0 .. cores_num - 1
             own  == {gdt[TrEntry(c)] + 1 : c \in cpus}
             used == UNION {StackBefore(rsp0[i]) \cup StackBefore(ist1[i]) : i \in own}
  <2> SUFFICES ASSUME BInv, OwnInv, pc \in {"paging", "running"}
               PROVE  /\ \A c \in cpus : /\ TrEntry(c) \in DOMAIN gdt
                                         /\ TrEntry(c) + 1 < GdtPages * GdtPageEntries
                      /\ Cardinality(used) = 2 * cores_num * StackPages
                      /\ used \cap (ImagePages \cup TablePages) = {}
    BY DEF OwnStacks
  <2>1. StacksInv /\ p = cores_num
    BY DEF OwnInv, TssPcs, StacksInv
  <2>2. BootTypes /\ cores_num \in Nat
    BY WhileBooting DEF BootPcs, BootTypes
  <2>3. \A c \in cpus : TrEntry(c) \in DOMAIN gdt /\ gdt[TrEntry(c)] = c
    BY <2>1 DEF StacksInv
  <2>4. own = 1 .. cores_num
    <3>1. own = {c + 1 : c \in cpus}
      BY <2>3
    <3>2. {c + 1 : c \in cpus} = 1 .. cores_num
      <4>1. \A c \in cpus : c + 1 \in 1 .. cores_num
        BY <2>2
      <4>2. \A i \in 1 .. cores_num : i - 1 \in cpus /\ i = (i - 1) + 1
        BY <2>2
      <4> HIDE DEF cpus
      <4> QED
        BY <4>1, <4>2
    <3> QED
      BY <3>1, <3>2
  <2>5. used = Stacks
    <3> HIDE DEF own
    <3> QED
      BY <2>1, <2>4 DEF Stacks, StackSet
  <2>6. p * (2 * StackPages) = 2 * cores_num * StackPages
    BY <2>1, <2>2
  <2>7. /\ Cardinality(Stacks) = p * (2 * StackPages)
        /\ Stacks \cap (ImagePages \cup TablePages) = {}
    BY <2>1 DEF StacksInv
  <2>8. \A c \in cpus : TrEntry(c) + 1 < GdtPages * GdtPageEntries
    <3>1. /\ TssStart + 2 * cores_num <= GdtPageEntries * GdtPages /\ GdtPages \in Nat
      BY <2>2, TableSizes
    <3>2. GdtPageEntries * GdtPages = GdtPages * GdtPageEntries /\ GdtPages * GdtPageEntries \in Int
      BY <3>1
    <3>3. \A c \in cpus : TrEntry(c) + 1 < TssStart + 2 * cores_num /\ TrEntry(c) \in Int
      BY <2>2 DEF TrEntry
    <3> DEFINE g == GdtPages * GdtPageEntries
    <3>4. g \in Int /\ TssStart + 2 * cores_num <= g /\ TssStart + 2 * cores_num \in Int
      BY <2>2, <3>1, <3>2
    <3> HIDE DEF g
    <3>5. \A c \in cpus : TrEntry(c) + 1 < g
      BY <3>3, <3>4
    <3> QED
      BY <3>5 DEF g
  <2> HIDE DEF used, cpus
  <2> QED
    BY <2>3, <2>5, <2>6, <2>7, <2>8
<1> QED
  BY <1>1, BInvInit, BInvStep, ContentInit, ContentStep, OwnInit, OwnStep, PTL DEF BootSpec

------------------------------------------------------------------------------
(* What page_init maps.  The kernel's table covers memory up to the end of *)
(* the last stack, so the GDT and the TSS array, allocated before any      *)
(* stack, must lie below it.  First fit alone does not give that: with a   *)
(* hole in memory a table may be too long for the pages below the hole     *)
(* while stacks still fit there.  What saves the code is that those pages  *)
(* are then fewer than the table, and all the stacks are not.              *)

\* The stacks of one core are as large as the GDT of a machine with one core.
TablesFit == TssStart + 2 <= GdtPageEntries * (2 * StackPages)

\* Memory that is free in two runs, each of which may be empty.
TwoRuns(F) ==
  \E l1, e1, l2, e2 \in Nat :
    l1 <= e1 /\ e1 <= l2 /\ l2 <= e2 /\ F = (l1 .. e1 - 1) \cup (l2 .. e2 - 1)

Clear == AllBits \ bits_map

LEMMA InTwoRuns ==
  ASSUME NEW F, NEW l1 \in Nat, NEW e1 \in Nat, NEW l2 \in Nat, NEW e2 \in Nat,
         l1 <= e1, e1 <= l2, l2 <= e2, F = (l1 .. e1 - 1) \cup (l2 .. e2 - 1)
  PROVE  TwoRuns(F)
BY DEF TwoRuns

LEMMA FreeBitsInTwoRuns ==
  ASSUME bios \in BiosMaps
  PROVE  TwoRuns(FreeBits)
<1>1. /\ KernelTop \in Nat /\ KernelTop <= MainEnd /\ MainEnd \in Nat
      /\ Two => /\ HighStart \in Nat /\ HighEnd \in Nat
                /\ MainEnd <= HighStart /\ HighStart <= HighEnd
  BY KernelInMain, MainRegion, HighRegion DEF HighEnd
<1>2. CASE Two
  <2>1. FreeBits = (KernelTop .. MainEnd - 1) \cup (HighStart .. HighEnd - 1)
    BY <1>2 DEF FreeBits, HighBits
  <2> QED
    BY <1>1, <1>2, <2>1 DEF TwoRuns
<1>3. CASE ~ Two
  <2>1. FreeBits = (KernelTop .. MainEnd - 1) \cup (MainEnd .. MainEnd - 1)
    BY <1>1, <1>3 DEF FreeBits, HighBits
  <2> QED
    BY <1>1, <2>1 DEF TwoRuns
<1> QED
  BY <1>2, <1>3

\* A run of clear bits and a run of the set Clear.
LEMMA RunIsClear ==
  ASSUME bios \in BiosMaps, Sized, NEW n \in Nat \ {0}, NEW a \in FreeRuns(n)
  PROVE  /\ a \in Nat /\ Pages(a, n) \subseteq Clear
         /\ \A b \in Nat : b <= a /\ Pages(b, n) \subseteq Clear => b \in FreeRuns(n)
<1>1. /\ a \in Nat /\ Pages(a, n) \subseteq 0 .. MemoryEnd - 1 /\ Pages(a, n) \cap bits_map = {}
  BY RunInMemory
<1>2. Pages(a, n) \subseteq Clear
  BY <1>1, BitsCoverMemory DEF Clear
<1>3. ASSUME NEW b \in Nat, b <= a, Pages(b, n) \subseteq Clear
      PROVE  b \in FreeRuns(n)
  <2> DEFINE L == (bits_size \div WordBits) * WordBits
  <2>1. a \in 0 .. L - n /\ L \in Int
    <3>1. bits_size \in Int
      BY HighRegion DEF Sized
    <3>2. bits_size \div WordBits \in Int
      BY <3>1, DivMod
    <3>3. a \in 0 .. L - n
      BY DEF FreeRuns
    <3> QED
      BY <3>2, <3>3
  <2>2. b \in 0 .. L - n
    <3> HIDE DEF L
    <3> QED
      BY <1>1, <1>3, <2>1
  <2>3. Pages(b, n) \cap bits_map = {}
    BY <1>3 DEF Clear
  <2> QED
    BY <2>2, <2>3 DEF FreeRuns
<1> QED
  BY <1>1, <1>2, <1>3

\* First fit in two runs: fewer than n free pages lie below the lowest run of
\* n, and what remains free is again two runs.
LEMMA LowestInTwoRuns ==
  ASSUME bios \in BiosMaps, Sized, TwoRuns(Clear), NEW n \in Nat \ {0},
         NEW a \in FreeRuns(n), \A b \in FreeRuns(n) : a <= b
  PROVE  TwoRuns(Clear \ Pages(a, n)) /\ Cardinality({g \in Clear : g < a}) < n
<1>1. PICK l1, e1, l2, e2 \in Nat :
        l1 <= e1 /\ e1 <= l2 /\ l2 <= e2 /\ Clear = (l1 .. e1 - 1) \cup (l2 .. e2 - 1)
  BY DEF TwoRuns
<1>2. /\ a \in Nat /\ Pages(a, n) \subseteq Clear
      /\ \A b \in Nat : b <= a /\ Pages(b, n) \subseteq Clear => a <= b
  BY RunIsClear
<1>3. a \in Clear /\ a + n - 1 \in Clear /\ \A x \in a .. a + n - 1 : x \in Clear
  BY <1>2 DEF Pages
<1>4. CASE a < e1 \/ e1 = l2
  <2>1. a >= l1 /\ a + n - 1 < e2
    BY <1>1, <1>2, <1>3
  <2>2. \A x \in l1 .. a : x \in Clear
    BY <1>1, <1>2, <1>3, <1>4
  <2>3. Pages(l1, n) \subseteq Clear
    <3>1. \A x \in l1 .. l1 + n - 1 : x \in l1 .. a \/ x \in a .. a + n - 1
      BY <1>2, <2>1
    <3> QED
      BY <1>3, <2>2, <3>1 DEF Pages
  <2>4. a = l1
    BY <1>2, <2>1, <2>3
  <2>5. {g \in Clear : g < a} = {}
    BY <1>1, <2>4
  <2>6. Cardinality({g \in Clear : g < a}) < n
    BY <2>5, FS_EmptySet
  <2>7. CASE l1 + n <= e1
    <3>1. Clear \ Pages(a, n) = (l1 + n .. e1 - 1) \cup (l2 .. e2 - 1)
      BY <1>1, <2>4, <2>7 DEF Pages
    <3>2. l1 + n \in Nat
      OBVIOUS
    <3>3. TwoRuns(Clear \ Pages(a, n))
      BY <1>1, <2>7, <3>1, <3>2, InTwoRuns
    <3> QED
      BY <2>6, <3>3
  <2>8. CASE l1 + n > e1
    <3>1. e1 = l2
      <4>1. e1 \in Clear
        BY <1>1, <1>2, <1>3, <2>4, <2>8
      <4> QED
        BY <1>1, <4>1
    <3>2. Clear \ Pages(a, n) = (l1 .. l1 - 1) \cup (l1 + n .. e2 - 1)
      BY <1>1, <2>4, <2>8, <3>1 DEF Pages
    <3>3. l1 + n \in Nat /\ l1 <= l1 /\ l1 <= l1 + n /\ l1 + n <= e2
      BY <2>1, <2>4
    <3>4. TwoRuns(Clear \ Pages(a, n))
      BY <1>1, <3>2, <3>3, InTwoRuns
    <3> QED
      BY <2>6, <3>4
  <2> QED
    BY <2>7, <2>8
<1>5. CASE ~ (a < e1 \/ e1 = l2)
  <2>1. a >= l2 /\ a + n - 1 < e2 /\ e1 < l2
    BY <1>1, <1>2, <1>3, <1>5
  <2>2. \A x \in l2 .. a : x \in Clear
    BY <1>1, <1>2, <1>3, <2>1
  <2>3. Pages(l2, n) \subseteq Clear
    <3>1. \A x \in l2 .. l2 + n - 1 : x \in l2 .. a \/ x \in a .. a + n - 1
      BY <1>2, <2>1
    <3> QED
      BY <1>3, <2>2, <3>1 DEF Pages
  <2>4. a = l2
    BY <1>2, <2>1, <2>3
  <2>5. e1 - l1 < n
    <3>1. SUFFICES ASSUME e1 - l1 >= n PROVE FALSE
      BY <1>1
    <3>2. Pages(l1, n) \subseteq Clear
      BY <1>1, <3>1 DEF Pages
    <3>3. a <= l1
      BY <1>1, <1>2, <2>1, <3>2
    <3>4. a \in Int /\ l1 \in Int /\ l2 \in Int /\ e1 \in Int
      BY <1>1, <1>2
    <3> QED
      BY <1>1, <2>1, <3>3, <3>4
  <2>6. {g \in Clear : g < a} = l1 .. e1 - 1
    BY <1>1, <2>4
  <2>7. Cardinality(l1 .. e1 - 1) < n
    <3>1. l1 \in Int /\ e1 - 1 \in Int
      BY <1>1
    <3>2. Cardinality(l1 .. e1 - 1) = IF l1 > e1 - 1 THEN 0 ELSE (e1 - 1) - l1 + 1
      BY <3>1, FS_Interval
    <3> QED
      BY <1>1, <2>5, <3>2
  <2>8. Clear \ Pages(a, n) = (l1 .. e1 - 1) \cup (l2 + n .. e2 - 1)
    BY <1>1, <2>4 DEF Pages
  <2>9. l2 + n \in Nat /\ e1 <= l2 + n /\ l2 + n <= e2
    BY <1>1, <2>1, <2>4
  <2>10. TwoRuns(Clear \ Pages(a, n))
    BY <1>1, <2>8, <2>9, InTwoRuns
  <2> QED
    BY <2>6, <2>7, <2>10
<1> QED
  BY <1>4, <1>5

AfterGdt == FreeBits \ Pages(gdt_base, GdtPages)

\* Fewer than n pages of F lie below page a.
FewBelow(F, a, n) == a \in Nat /\ Cardinality({g \in F : g < a}) < n

KernelPagesEnd == kernel_end \div PageSize

\* The stacks are free runs after the GDT, taken from below upwards, and
\* kernel_end is the end of the last.
StacksPlaced ==
  \A i \in 1 .. p :
    /\ StackSet(i) \subseteq AfterGdt
    /\ StackPages <= rsp0[i] /\ rsp0[i] <= KernelPagesEnd
    /\ StackPages <= ist1[i] /\ ist1[i] <= KernelPagesEnd
    /\ pc = "tss" => \A r \in FreeRuns(StackPages) : rsp0[i] <= r /\ ist1[i] <= r

PlaceInv ==
  /\ pc \in GdtPcs => FewBelow(FreeBits, gdt_base, GdtPages) /\ Clear \subseteq AfterGdt
  /\ pc = "gdt" => Clear = AfterGdt /\ TwoRuns(Clear)
  /\ pc \in TssPcs => FewBelow(AfterGdt, tss_base, TssPages) /\ StacksPlaced

LEMMA ClearShrinks ==
  ASSUME BInv, pc \in BootPcs, [BootNext]_<<vars, bootVars>>
  PROVE  /\ Clear' \subseteq Clear /\ FreeBits' = FreeBits
         /\ GdtPages' = GdtPages /\ TssPages' = TssPages
         /\ FreeRuns(StackPages)' \subseteq FreeRuns(StackPages)
<1>1. /\ bits_map \subseteq bits_map' /\ bios' = bios /\ bits_size' = bits_size
      /\ bits_length' = bits_length /\ cores_num' = cores_num
  BY OnlyTakes
<1>2. AllBits' = AllBits /\ FreeBits' = FreeBits
  BY <1>1, SameBios DEF FreeBits, HighBits
<1>3. Clear' \subseteq Clear
  BY <1>1, <1>2 DEF Clear
<1>4. FreeRuns(StackPages)' \subseteq FreeRuns(StackPages)
  BY <1>1 DEF FreeRuns, Pages
<1> QED
  BY <1>1, <1>2, <1>3, <1>4, SameTables

LEMMA PlaceOfGdt ==
  ASSUME Aligned, BInv, Content, GdtInit
  PROVE  PlaceInv'
<1>1. pc = "done" /\ pc' = "gdt" /\ pc \in BootPcs
  BY DEF GdtInit, BootPcs
<1>2. bios \in BiosMaps /\ Sized /\ bits_map = AllBits \ FreeBits /\ GdtPages \in Nat \ {0}
  BY <1>1, MemoryInitDone, WhileBooting, TableSizes
<1>3. Clear = FreeBits
  BY <1>2, FreeBitsFacts DEF Clear
<1>4. TwoRuns(Clear)
  BY <1>2, <1>3, FreeBitsInTwoRuns
<1>5. /\ gdt_base' \in FreeRuns(GdtPages) /\ \A a \in FreeRuns(GdtPages) : gdt_base' <= a
      /\ bits_map' = bits_map \cup Pages(gdt_base', GdtPages)
  BY GdtInitKeeps
<1> DEFINE a == gdt_base'
           n == GdtPages
<1>6. TwoRuns(Clear \ Pages(a, n)) /\ Cardinality({g \in Clear : g < a}) < n
  <2> HIDE DEF a, n
  <2>1. n \in Nat \ {0} /\ a \in FreeRuns(n) /\ \A b \in FreeRuns(n) : a <= b
    BY <1>2, <1>5 DEF a, n
  <2> QED
    BY <1>2, <1>4, <2>1, LowestInTwoRuns
<1>7. FreeBits' = FreeBits /\ GdtPages' = GdtPages /\ AllBits' = AllBits
  <2>1. bios' = bios
    BY <1>1, OnlyTakes DEF BootNext
  <2> QED
    BY <1>1, <2>1, ClearShrinks, SameBios DEF BootNext
<1>8. Clear' = Clear \ Pages(a, n) /\ AfterGdt' = Clear \ Pages(a, n)
  BY <1>3, <1>5, <1>7 DEF Clear, AfterGdt, Pages
<1>9. TwoRuns(Clear)'
  <2> DEFINE rest == Clear \ Pages(a, n)
  <2>1. TwoRuns(rest) /\ Clear' = rest
    BY <1>6, <1>8
  <2> HIDE DEF rest
  <2>2. PICK l1, e1, l2, e2 \in Nat :
          l1 <= e1 /\ e1 <= l2 /\ l2 <= e2 /\ rest = (l1 .. e1 - 1) \cup (l2 .. e2 - 1)
    BY <2>1 DEF TwoRuns
  <2> QED
    BY <2>1, <2>2 DEF TwoRuns
<1>10. FewBelow(FreeBits, gdt_base, GdtPages)'
  <2>1. gdt_base' \in Nat
    BY <1>2, <1>5, RunInMemory
  <2> QED
    BY <1>3, <1>6, <1>7, <2>1 DEF FewBelow
<1> QED
  BY <1>1, <1>8, <1>9, <1>10 DEF PlaceInv, TssPcs, GdtPcs

LEMMA PlaceOfTssArray ==
  ASSUME BInv, PlaceInv, TssArray
  PROVE  PlaceInv'
<1>1. pc = "gdt" /\ pc' = "tss" /\ pc \in BootPcs /\ gdt_base' = gdt_base /\ p' = 0
  BY DEF TssArray, BootPcs
<1>2. bios \in BiosMaps /\ Sized /\ TssPages \in Nat \ {0}
  BY <1>1, WhileBooting, TableSizes
<1>3. TwoRuns(Clear) /\ Clear = AfterGdt /\ FewBelow(FreeBits, gdt_base, GdtPages)
  BY <1>1 DEF PlaceInv, GdtPcs
<1>4. tss_base' \in FreeRuns(TssPages) /\ \A a \in FreeRuns(TssPages) : tss_base' <= a
  BY TssArrayKeeps
<1> DEFINE a == tss_base'
           n == TssPages
<1>5. Cardinality({g \in Clear : g < a}) < n
  <2> HIDE DEF a, n
  <2>1. n \in Nat \ {0} /\ a \in FreeRuns(n) /\ \A b \in FreeRuns(n) : a <= b
    BY <1>2, <1>4 DEF a, n
  <2> QED
    BY <1>2, <1>3, <2>1, LowestInTwoRuns
<1>6. /\ Clear' \subseteq Clear /\ FreeBits' = FreeBits
      /\ GdtPages' = GdtPages /\ TssPages' = TssPages
  BY <1>1, ClearShrinks DEF BootNext
<1>7. AfterGdt' = AfterGdt
  BY <1>1, <1>6 DEF AfterGdt, Pages
<1>8. FewBelow(FreeBits, gdt_base, GdtPages)' /\ Clear' \subseteq AfterGdt'
  BY <1>1, <1>3, <1>6, <1>7 DEF FewBelow
<1>9. FewBelow(AfterGdt, tss_base, TssPages)'
  <2>1. tss_base' \in Nat
    BY <1>2, <1>4, RunInMemory
  <2> QED
    BY <1>3, <1>5, <1>6, <1>7, <2>1 DEF FewBelow
<1>10. StacksPlaced'
  BY <1>1 DEF StacksPlaced
<1> QED
  BY <1>1, <1>8, <1>9, <1>10 DEF PlaceInv

LEMMA PlaceOfCore ==
  ASSUME BInv, OwnInv, PlaceInv, TssCore
  PROVE  PlaceInv'
<1>1. /\ pc = "tss" /\ pc' = "tss" /\ p' = p + 1 /\ UNCHANGED <<gdt_base, tss_base>>
      /\ pc \in BootPcs
  BY DEF TssCore, BootPcs
<1>2. /\ Clear' \subseteq Clear /\ FreeBits' = FreeBits
      /\ GdtPages' = GdtPages /\ TssPages' = TssPages
      /\ FreeRuns(StackPages)' \subseteq FreeRuns(StackPages)
  BY <1>1, ClearShrinks DEF BootNext
<1>3. AfterGdt' = AfterGdt
  BY <1>1, <1>2 DEF AfterGdt, Pages
<1>4. /\ FewBelow(FreeBits, gdt_base, GdtPages) /\ Clear \subseteq AfterGdt
      /\ FewBelow(AfterGdt, tss_base, TssPages) /\ StacksPlaced
      /\ StacksInv /\ bios \in BiosMaps /\ Sized
  BY <1>1, WhileBooting DEF PlaceInv, OwnInv, TssPcs, GdtPcs
<1>5. p \in Nat /\ rsp0 \in Seq(Nat) /\ ist1 \in Seq(Nat) /\ Len(rsp0) = p /\ Len(ist1) = p
  <2>1. cores_num \in Nat
    BY <1>1, WhileBooting DEF BootTypes
  <2> QED
    BY <1>4, <2>1 DEF StacksInv
<1>6. PICK a, b :
        /\ a = Lowest(StackPages) /\ b = Min(SecondRuns) /\ CanTakeStacks
        /\ bits_map' = bits_map \cup (Pages(a, StackPages) \cup Pages(b, StackPages))
        /\ rsp0' = Append(rsp0, StackEnd(a)) /\ ist1' = Append(ist1, StackEnd(b))
        /\ kernel_end' = StackEnd(b) * PageSize
  BY TssCoreKeeps
<1>7. /\ a \in FreeRuns(StackPages) /\ \A r \in FreeRuns(StackPages) : a <= r
      /\ b \in FreeRuns(StackPages) /\ b >= a + StackPages
      /\ \A r \in FreeRuns(StackPages) : r >= a + StackPages => b <= r
      /\ a \in Nat /\ b \in Nat /\ b + StackPages <= MemoryEnd
  BY <1>1, <1>6, StackRuns
<1>8. /\ StackEnd(a) \in Nat /\ StackBefore(StackEnd(a)) = Pages(a, StackPages)
      /\ StackEnd(b) \in Nat /\ StackBefore(StackEnd(b)) = Pages(b, StackPages)
  BY <1>7, StackOfRun
<1>9. /\ rsp0'[p + 1] = StackEnd(a) /\ ist1'[p + 1] = StackEnd(b)
      /\ \A i \in 1 .. p : rsp0'[i] = rsp0[i] /\ ist1'[i] = ist1[i]
                           /\ rsp0[i] \in Nat /\ ist1[i] \in Nat
  <2>1. rsp0'[p + 1] = StackEnd(a) /\ \A i \in 1 .. p : rsp0'[i] = rsp0[i] /\ rsp0[i] \in Nat
    BY <1>5, <1>6, <1>8
  <2>2. ist1'[p + 1] = StackEnd(b) /\ \A i \in 1 .. p : ist1'[i] = ist1[i] /\ ist1[i] \in Nat
    BY <1>5, <1>6, <1>8
  <2> QED
    BY <2>1, <2>2
<1>10. KernelPagesEnd' = StackEnd(b)
  <2>1. StackEnd(b) \in Nat /\ StackEnd(b) <= MemoryEnd
    BY <1>7 DEF StackEnd
  <2> QED
    BY <1>4, <1>6, <2>1, PageBelowEnd DEF KernelPagesEnd
<1>11. \A r \in FreeRuns(StackPages)' : StackEnd(a) <= r /\ StackEnd(b) <= r
  <2>1. SUFFICES ASSUME NEW r \in FreeRuns(StackPages)'
                 PROVE  StackEnd(a) <= r /\ StackEnd(b) <= r
    OBVIOUS
  <2>2. r \in FreeRuns(StackPages) /\ r \in Nat
    BY <1>2, <1>4, RunInMemory
  <2>3. Pages(r, StackPages) \cap bits_map' = {}
    BY DEF FreeRuns, Pages
  <2>4. Pages(r, StackPages) \cap Pages(a, StackPages) = {} /\ Pages(r, StackPages) \cap Pages(b, StackPages) = {}
    BY <1>6, <2>3
  <2>5. r \in Pages(r, StackPages) /\ a <= r
    BY <1>7, <2>2 DEF Pages
  <2>6. r >= a + StackPages
    BY <1>7, <2>2, <2>4, <2>5 DEF Pages
  <2>7. b <= r
    BY <1>7, <2>2, <2>6
  <2>8. r >= b + StackPages
    BY <1>7, <2>2, <2>4, <2>5, <2>7 DEF Pages
  <2> QED
    BY <2>6, <2>8 DEF StackEnd
<1>12. StacksPlaced'
  <2>1. \A i \in 1 .. p : StackSet(i)' = StackSet(i)
    BY <1>9 DEF StackSet
  <2>2. ASSUME NEW i, i = p + 1
        PROVE  StackSet(i)' = Pages(a, StackPages) \cup Pages(b, StackPages)
    BY <1>8, <1>9, <2>2 DEF StackSet
  <2>3. Pages(a, StackPages) \subseteq Clear /\ Pages(b, StackPages) \subseteq Clear
    BY <1>4, <1>7, RunIsClear
  <2>4. \A i \in 1 .. p : rsp0[i] <= b /\ ist1[i] <= b
    BY <1>1, <1>4, <1>7 DEF StacksPlaced
  <2>5. SUFFICES ASSUME NEW i \in 1 .. p + 1
                 PROVE  /\ StackSet(i)' \subseteq AfterGdt'
                        /\ StackPages <= rsp0'[i] /\ rsp0'[i] <= KernelPagesEnd'
                        /\ StackPages <= ist1'[i] /\ ist1'[i] <= KernelPagesEnd'
                        /\ \A r \in FreeRuns(StackPages)' : rsp0'[i] <= r /\ ist1'[i] <= r
    BY <1>1 DEF StacksPlaced
  <2>6. CASE i \in 1 .. p
    <3>1. StackSet(i)' \subseteq AfterGdt'
      BY <1>3, <1>4, <2>1, <2>6 DEF StacksPlaced
    <3>2. /\ StackPages <= rsp0'[i] /\ StackPages <= ist1'[i]
          /\ \A r \in FreeRuns(StackPages)' : rsp0'[i] <= r /\ ist1'[i] <= r
      BY <1>1, <1>2, <1>4, <1>9, <2>6 DEF StacksPlaced
    <3>3. rsp0'[i] <= KernelPagesEnd' /\ ist1'[i] <= KernelPagesEnd'
      BY <1>7, <1>9, <1>10, <2>4, <2>6 DEF StackEnd
    <3> QED
      BY <3>1, <3>2, <3>3
  <2>7. CASE i = p + 1
    <3>1. StackSet(i)' \subseteq AfterGdt'
      BY <1>3, <1>4, <2>2, <2>3, <2>7
    <3>2. /\ StackPages <= StackEnd(a) /\ StackPages <= StackEnd(b)
          /\ StackEnd(a) <= StackEnd(b) /\ StackEnd(b) <= StackEnd(b)
      BY <1>7 DEF StackEnd
    <3> QED
      BY <1>9, <1>10, <1>11, <2>7, <3>1, <3>2
  <2> QED
    BY <1>5, <2>5, <2>6, <2>7
<1>13. FewBelow(FreeBits, gdt_base, GdtPages)' /\ FewBelow(AfterGdt, tss_base, TssPages)'
  BY <1>1, <1>2, <1>3, <1>4 DEF FewBelow
<1>14. Clear' \subseteq AfterGdt'
  BY <1>2, <1>3, <1>4
<1> QED
  BY <1>1, <1>12, <1>13, <1>14 DEF PlaceInv

LEMMA PlaceStep ==
  ASSUME Aligned, BInv, Content, OwnInv, PlaceInv, [BootNext]_<<vars, bootVars>>
  PROVE  PlaceInv'
<1>1. CASE MemorySteps
  <2>1. pc' \notin GdtPcs
    BY <1>1, Zenon DEF GdtPcs, TssPcs, MemorySteps, Next, Collect, SizeBitmap, ClearRegion, MarkKernel,
       Count
  <2> QED
    BY <2>1 DEF PlaceInv, GdtPcs
<1>2. CASE GdtInit
  BY <1>2, PlaceOfGdt
<1>3. CASE TssArray
  BY <1>3, PlaceOfTssArray
<1>4. CASE TssCore
  BY <1>4, PlaceOfCore
<1>5. CASE AllocFails
  BY <1>5 DEF AllocFails, PlaceInv, TssPcs, GdtPcs
<1>6. CASE AcpiInit \/ PageInit \/ MapDevices \/ UNCHANGED <<vars, bootVars>>
  <2>1. UNCHANGED <<p, gdt_base, tss_base, rsp0, ist1, kernel_end>>
    BY <1>6, Zenon DEF AcpiInit, PageInit, MapDevices, MapPages, vars, bootVars, tssVars
  <2>2. \/ UNCHANGED <<vars, bootVars>>
        \/ pc \in TssPcs /\ pc' \in TssPcs \ {"tss"}
    BY <1>6, Zenon DEF AcpiInit, PageInit, MapDevices, TssPcs
  <2>3. CASE pc \notin GdtPcs
    <3>1. UNCHANGED <<vars, bootVars>>
      BY <2>2, <2>3 DEF GdtPcs
    <3> QED
      BY <2>3, <3>1 DEF PlaceInv, GdtPcs, vars
  <2>4. CASE pc \in GdtPcs
    <3>1. pc \in BootPcs
      BY <2>4 DEF GdtPcs, TssPcs, BootPcs
    <3>2. /\ Clear' \subseteq Clear /\ FreeBits' = FreeBits
          /\ GdtPages' = GdtPages /\ TssPages' = TssPages
          /\ FreeRuns(StackPages)' \subseteq FreeRuns(StackPages)
      BY <3>1, ClearShrinks
    <3>3. AfterGdt' = AfterGdt /\ KernelPagesEnd' = KernelPagesEnd
      BY <2>1, <3>2 DEF AfterGdt, Pages, KernelPagesEnd
    <3>4. pc' = "gdt" => Clear' = Clear /\ TwoRuns(Clear)' = TwoRuns(Clear)
      <4>1. ASSUME pc' = "gdt"
            PROVE  bits_map' = bits_map /\ bios' = bios
        BY <2>2, <4>1 DEF TssPcs, vars
      <4>2. pc' = "gdt" => Clear' = Clear
        BY <4>1, SameBios DEF Clear
      <4> QED
        BY <4>2 DEF TwoRuns
    <3>5. StacksPlaced => StacksPlaced'
      <4>1. \A i \in 1 .. p : StackSet(i)' = StackSet(i)
        BY <2>1 DEF StackSet
      <4>2. pc' = "tss" => pc = "tss"
        BY <2>2 DEF vars
      <4> QED
        BY <2>1, <3>2, <3>3, <4>1, <4>2 DEF StacksPlaced
    <3>6. /\ FewBelow(FreeBits, gdt_base, GdtPages)' = FewBelow(FreeBits, gdt_base, GdtPages)
          /\ FewBelow(AfterGdt, tss_base, TssPages)' = FewBelow(AfterGdt, tss_base, TssPages)
      BY <2>1, <3>2, <3>3 DEF FewBelow
    <3>7. (pc' \in TssPcs => pc \in TssPcs) /\ (pc' = "gdt" => pc = "gdt")
      BY <2>2 DEF vars, TssPcs
    <3> QED
      BY <2>4, <3>2, <3>3, <3>4, <3>5, <3>6, <3>7 DEF PlaceInv
  <2> QED
    BY <2>3, <2>4
<1> QED
  BY <1>1, <1>2, <1>3, <1>4, <1>5, <1>6 DEF BootNext

LEMMA PlaceInit == BootInit => PlaceInv
BY DEF BootInit, Init, PlaceInv, TssPcs, GdtPcs

------------------------------------------------------------------------------
(* The I/O APIC in the units of the MADT.  Its header is not the first to  *)
(* match, but the last, whatever the APIC id of the second processor.      *)

\* FlattenSeq is a recursive function on the positions of its argument.
LEMMA FlattenOfFour ==
  ASSUME NEW s, Len(s) = 4
  PROVE  FlattenSeq(s) = ((s[1] \o s[2]) \o s[3]) \o s[4]
<1> DEFINE F(f) == [i \in 1 .. Len(s) |-> IF i = 1 THEN s[i] ELSE f[i - 1] \o s[i]]
           g == [i \in 1 .. 4 |-> IF i = 1 THEN s[1] ELSE IF i = 2 THEN s[1] \o s[2]
                                  ELSE IF i = 3 THEN (s[1] \o s[2]) \o s[3]
                                  ELSE ((s[1] \o s[2]) \o s[3]) \o s[4]]
           h == CHOOSE f : f = F(f)
<1>1. \A i \in 1 .. Len(s) : g[i] = F(g)[i]
  <2>1. 1 .. Len(s) = {1, 2, 3, 4}
    OBVIOUS
  <2>2. g[1] = F(g)[1]
    OBVIOUS
  <2>3. g[2] = F(g)[2]
    OBVIOUS
  <2>4. g[3] = F(g)[3]
    OBVIOUS
  <2>5. g[4] = F(g)[4]
    OBVIOUS
  <2> HIDE DEF F, g
  <2> QED
    BY <2>1, <2>2, <2>3, <2>4, <2>5
<1>2. g = F(g)
  BY <1>1
<1>3. h = F(h)
  <2> HIDE DEF F, g
  <2> QED
    BY <1>2
<1>4. FlattenSeq(s) = h[4]
  BY DEF FlattenSeq
<1>5. h[1] = s[1] /\ h[2] = h[1] \o s[2] /\ h[3] = h[2] \o s[3] /\ h[4] = h[3] \o s[4]
  <2> HIDE DEF h
  <2>1. \A i \in {1, 2, 3, 4} : h[i] = F(h)[i]
    BY <1>3
  <2> QED
    BY <2>1
<1> HIDE DEF h
<1> QED
  BY <1>4, <1>5

LEMMA LastIoApic ==
  ASSUME madt \in Madts
  PROVE  \E page \in IoApicPages :
           /\ Starts(<<1, 12>>) # {}
           /\ FlattenSeq(madt)[Max(Starts(<<1, 12>>)) + 2][1] = page
           /\ \A i \in DOMAIN madt : madt[i][1] = <<1, 12>> => madt[i][3][1] = page
<1>1. PICK id \in {1, 12}, page \in IoApicPages :
        madt = <<LocalApic(0, 0), LocalApic(1, id), IoApic(page), Override(0, 2)>>
  BY DEF Madts
<1> DEFINE T == Nat \X Nat
           A == LocalApic(0, 0)
           B == LocalApic(1, id)
           C == IoApic(page)
           D == Override(0, 2)
           u == ((A \o B) \o C) \o D
<1>2. id \in Nat /\ page \in Nat
  BY BootAssumption
<1>3. A \in Seq(T) /\ Len(A) = 4 /\ \A k \in 1 .. 4 : A[k] # <<1, 12>>
  BY DEF LocalApic
<1>4. B \in Seq(T) /\ Len(B) = 4
  BY <1>2 DEF LocalApic
<1>5. C \in Seq(T) /\ Len(C) = 6 /\ C[1] = <<1, 12>> /\ C[3] = <<page, 0>>
      /\ \A k \in 2 .. 6 : C[k] # <<1, 12>>
  BY <1>2 DEF IoApic
<1>6. D \in Seq(T) /\ Len(D) = 5 /\ \A k \in 1 .. 5 : D[k] # <<1, 12>>
  BY DEF Override
<1>7. FlattenSeq(madt) = u
  <2>1. madt = <<A, B, C, D>>
    BY <1>1
  <2> HIDE DEF A, B, C, D, u
  <2>2. Len(madt) = 4 /\ madt[1] = A /\ madt[2] = B /\ madt[3] = C /\ madt[4] = D
    BY <2>1
  <2>3. FlattenSeq(madt) = ((madt[1] \o madt[2]) \o madt[3]) \o madt[4]
    BY <2>2, FlattenOfFour, Zenon
  <2> QED
    BY <2>2, <2>3 DEF u
<1>8. A[1] # <<1, 12>> /\ B[1] # <<1, 12>> /\ D[1] # <<1, 12>>
  BY <1>6 DEF LocalApic
<1> HIDE DEF A, B, C, D, T
<1>9. A \o B \in Seq(T) /\ Len(A \o B) = 8
  <2>0. A \in Seq(T) /\ B \in Seq(T)
    BY <1>3, <1>4
  <2>1. A \o B \in Seq(T) /\ Len(A \o B) = Len(A) + Len(B)
    BY <2>0
  <2> QED
    BY <1>3, <1>4, <2>1
<1>10. /\ (A \o B) \o C \in Seq(T) /\ Len((A \o B) \o C) = 14
       /\ \A k \in 9 .. 14 : ((A \o B) \o C)[k] = C[k - 8]
  <2> DEFINE s == A \o B
  <2>1. s \in Seq(T) /\ Len(s) = 8
    BY <1>9
  <2> HIDE DEF s
  <2>2. s \o C \in Seq(T) /\ Len(s \o C) = Len(s) + Len(C)
        /\ \A k \in Len(s) + 1 .. Len(s) + Len(C) : (s \o C)[k] = C[k - Len(s)]
    <3>1. s \in Seq(T) /\ C \in Seq(T)
      BY <1>5, <2>1
    <3> QED
      BY <3>1
  <2>3. s \o C \in Seq(T) /\ Len(s \o C) = 14 /\ \A k \in 9 .. 14 : (s \o C)[k] = C[k - 8]
    BY <1>5, <2>1, <2>2
  <2> QED
    BY <2>3 DEF s
<1>11. /\ u \in Seq(T) /\ Len(u) = 19
       /\ \A k \in 9 .. 14 : u[k] = C[k - 8]
       /\ \A k \in 15 .. 19 : u[k] = D[k - 14]
  <2> DEFINE s == (A \o B) \o C
  <2>1. s \in Seq(T) /\ Len(s) = 14 /\ \A k \in 9 .. 14 : s[k] = C[k - 8]
    BY <1>10
  <2> HIDE DEF s
  <2>2. /\ s \o D \in Seq(T) /\ Len(s \o D) = Len(s) + Len(D)
        /\ \A k \in 1 .. Len(s) : (s \o D)[k] = s[k]
        /\ \A k \in Len(s) + 1 .. Len(s) + Len(D) : (s \o D)[k] = D[k - Len(s)]
    <3>1. s \in Seq(T) /\ D \in Seq(T)
      BY <1>6, <2>1
    <3> QED
      BY <3>1
  <2>3. u = s \o D
    BY DEF s, u
  <2> HIDE DEF u
  <2>4. u \in Seq(T) /\ Len(u) = 19
    BY <1>6, <2>1, <2>2, <2>3
  <2>5. \A k \in 9 .. 14 : u[k] = C[k - 8]
    <3>1. \A k \in 9 .. 14 : k \in 1 .. Len(s)
      BY <2>1
    <3> QED
      BY <2>1, <2>2, <2>3, <3>1
  <2>6. \A k \in 15 .. 19 : u[k] = D[k - 14]
    <3>1. \A k \in 15 .. 19 : k \in Len(s) + 1 .. Len(s) + Len(D)
      BY <1>6, <2>1
    <3> QED
      BY <2>1, <2>2, <2>3, <3>1
  <2> QED
    BY <2>4, <2>5, <2>6
<1> HIDE DEF u
<1>12. u[9] = <<1, 12>> /\ u[11] = <<page, 0>>
  BY <1>5, <1>11
<1>13. \A k \in 1 .. 19 : u[k] = <<1, 12>> => k <= 9
  <2>1. ASSUME NEW k \in 10 .. 14
        PROVE  u[k] # <<1, 12>>
    BY <1>5, <1>11
  <2>2. ASSUME NEW k \in 15 .. 19
        PROVE  u[k] # <<1, 12>>
    BY <1>6, <1>11
  <2> QED
    BY <2>1, <2>2
<1> DEFINE S == Starts(<<1, 12>>)
<1>14. S = {k \in 1 .. 19 : u[k] = <<1, 12>>}
  <2>1. DOMAIN u = 1 .. 19
    BY <1>11
  <2> QED
    BY <1>7, <2>1 DEF Starts
<1>15. Max(S) = 9
  <2>1. 9 \in S /\ \A k \in S : k \in Int /\ k <= 9
    BY <1>12, <1>13, <1>14
  <2> HIDE DEF S
  <2> QED
    BY <2>1 DEF Max
<1>16. \A i \in DOMAIN madt : madt[i][1] = <<1, 12>> => madt[i][3][1] = page
  <2>1. DOMAIN madt = {1, 2, 3, 4} /\ madt[1] = A /\ madt[2] = B /\ madt[3] = C /\ madt[4] = D
    BY <1>1 DEF A, B, C, D
  <2>2. C[3][1] = page
    BY <1>5
  <2> QED
    BY <1>8, <2>1, <2>2
<1>17. S # {} /\ FlattenSeq(madt)[Max(S) + 2][1] = page
  <2>1. 9 \in S
    BY <1>12, <1>14
  <2> HIDE DEF S
  <2>2. Max(S) + 2 = 11
    BY <1>15
  <2> QED
    BY <1>7, <1>12, <2>1, <2>2
<1> QED
  BY <1>16, <1>17

\* An I/O APIC of the MADT is the one acpi_init chose; memory up to kernel_end
\* is mapped at the switch, and the I/O APIC after it.
MapInv ==
  /\ pc \in {"acpi", "paging", "running"} =>
       \A i \in DOMAIN madt : madt[i][1] = <<1, 12>> => madt[i][3][1] = ioapic_baseaddr
  /\ pc \in {"paging", "running"} => Pages(0, KernelPagesEnd) \subseteq mapped
  /\ pc = "running" => ioapic_baseaddr \in mapped

LEMMA MapStep ==
  ASSUME BInv, MapInv, [BootNext]_<<vars, bootVars>>
  PROVE  MapInv'
<1>1. CASE MemorySteps \/ GdtInit \/ TssArray \/ TssCore \/ AllocFails
  <2>1. pc' \notin {"acpi", "paging", "running"}
    BY <1>1, Zenon DEF GdtInit, TssArray, TssCore, AllocFails, MemorySteps, Next, Collect, SizeBitmap,
       ClearRegion, MarkKernel, Count
  <2> QED
    BY <2>1 DEF MapInv
<1>2. CASE AcpiInit
  <2>1. madt \in Madts
    BY <1>2 DEF BInv, BootTypes
  <2>2. PICK page \in IoApicPages :
          /\ Starts(<<1, 12>>) # {}
          /\ FlattenSeq(madt)[Max(Starts(<<1, 12>>)) + 2][1] = page
          /\ \A i \in DOMAIN madt : madt[i][1] = <<1, 12>> => madt[i][3][1] = page
    BY <2>1, LastIoApic
  <2>3. ioapic_baseaddr' = (IF Starts(<<1, 12>>) = {} THEN 0
                            ELSE FlattenSeq(madt)[Max(Starts(<<1, 12>>)) + 2][1])
    BY <1>2, Zenon DEF AcpiInit
  <2>4. madt' = madt /\ pc' = "acpi"
    BY <1>2, Zenon DEF AcpiInit
  <2>5. ioapic_baseaddr' = page
    BY <2>2, <2>3
  <2> QED
    BY <2>2, <2>4, <2>5 DEF MapInv
<1>3. CASE PageInit \/ MapDevices
  <2>1. pc \in {"acpi", "paging"} /\ pc \in BootPcs
        /\ UNCHANGED <<kernel_end, ioapic_baseaddr>>
    BY <1>3, Zenon DEF PageInit, MapDevices, MapPages, acpiVars, BootPcs
  <2>2. madt' = madt
    BY <2>1, OnlyTakes
  <2>3. KernelPagesEnd' = KernelPagesEnd
    BY <2>1 DEF KernelPagesEnd
  <2>4. CASE PageInit
    <3>1. mapped' = mapped \cup Pages(0, KernelPagesEnd) /\ pc = "acpi" /\ pc' = "paging"
      BY <2>4 DEF PageInit, MapPages, KernelPagesEnd
    <3> QED
      BY <2>1, <2>2, <2>3, <3>1 DEF MapInv, Pages
  <2>5. CASE MapDevices
    <3>1. mapped' = mapped \cup Devices /\ pc = "paging" /\ pc' = "running"
      BY <2>5 DEF MapDevices, MapPages
    <3>2. ioapic_baseaddr \in Devices
      BY DEF Devices
    <3> QED
      BY <2>1, <2>2, <2>3, <3>1, <3>2 DEF MapInv, Pages
  <2> QED
    BY <1>3, <2>4, <2>5
<1>4. CASE UNCHANGED <<vars, bootVars>>
  <2>1. UNCHANGED <<pc, madt, ioapic_baseaddr, kernel_end, mapped>>
    BY <1>4 DEF vars, bootVars, acpiVars
  <2> QED
    BY <2>1 DEF MapInv, KernelPagesEnd, Pages
<1> QED
  BY <1>1, <1>2, <1>3, <1>4 DEF BootNext

LEMMA MapInit == BootInit => MapInv
BY DEF BootInit, Init, MapInv

\* All the stacks have more pages than the GDT, and than the TSS array.
LEMMA StacksOutgrowTables ==
  ASSUME TablesFit, NEW c \in Nat \ {0}
  PROVE  /\ Units(TssStart + 2 * c, GdtPageEntries) <= c * (2 * StackPages)
         /\ Units(c, TssPerPage) <= c * (2 * StackPages)
         /\ c * (2 * StackPages) \in Nat \ {0}
<1> DEFINE k == c * (2 * StackPages)
           x == GdtPageEntries * (2 * StackPages)
<1>1. x \in Int /\ k \in Int /\ TssStart + 2 \in Int /\ TssStart + 2 <= x
  BY DEF TablesFit
<1>2. c * (TssStart + 2) <= c * x
  <2> HIDE DEF x
  <2> QED
    BY <1>1, TimesMonotone
<1>3. TssStart * 1 <= TssStart * c
  <2>1. 1 \in Int /\ c \in Int /\ 1 <= c
    OBVIOUS
  <2> QED
    BY <2>1, TimesMonotone
<1>4. c * (TssStart + 2) = TssStart * c + 2 * c /\ TssStart * c \in Int
  OBVIOUS
<1>5. c * x = GdtPageEntries * k /\ GdtPageEntries * k \in Int
  OBVIOUS
<1>6. TssStart + 2 * c <= GdtPageEntries * k
  <2> HIDE DEF k, x
  <2>1. TssStart + 2 * c <= TssStart * c + 2 * c
    BY <1>3, <1>4
  <2> QED
    BY <1>2, <1>4, <1>5, <2>1
<1>7. c <= k
  <2>1. 1 \in Int /\ 2 * StackPages \in Int /\ 1 <= 2 * StackPages
    OBVIOUS
  <2>2. c * 1 <= c * (2 * StackPages)
    BY <2>1, TimesMonotone
  <2> QED
    BY <2>2
<1>8. c <= TssPerPage * k
  <2> HIDE DEF k
  <2>1. 1 \in Int /\ TssPerPage \in Int /\ 1 <= TssPerPage /\ k \in Nat \ {0}
    BY <1>1, <1>7
  <2>2. k * 1 <= k * TssPerPage
    BY <2>1, TimesMonotone
  <2>3. k * TssPerPage = TssPerPage * k /\ k * TssPerPage \in Int
    BY <1>1
  <2> QED
    BY <1>1, <1>7, <2>2, <2>3
<1>9. TssStart + 2 * c \in Int /\ c \in Int /\ k \in Nat \ {0}
  <2> HIDE DEF k
  <2> QED
    BY <1>1, <1>7
<1> HIDE DEF k
<1>10. Units(TssStart + 2 * c, GdtPageEntries) <= k
  BY <1>1, <1>6, <1>9, DivBounds DEF Units
<1>11. Units(c, TssPerPage) <= k
  BY <1>1, <1>8, <1>9, DivBounds DEF Units
<1> QED
  BY <1>9, <1>10, <1>11 DEF k

\* A table of n pages with fewer than n free pages below it ends below the
\* end of a stack.
LEMMA TableBelowStacks ==
  ASSUME BInv, OwnInv, PlaceInv, pc \in {"paging", "running"},
         NEW n \in Nat, NEW a \in Nat, NEW F, F \subseteq FreeBits, Stacks \subseteq F,
         FewBelow(F, a, n), n <= Cardinality(Stacks), Pages(a, n) \cap Stacks = {}
  PROVE  a + n <= KernelPagesEnd
<1>1. pc \in BootPcs /\ pc \in TssPcs
  BY DEF BootPcs, TssPcs
<1>2. bios \in BiosMaps /\ StacksInv /\ StacksPlaced
  BY <1>1, WhileBooting DEF OwnInv, PlaceInv
<1> DEFINE B == {g \in F : g < a}
<1>3. IsFiniteSet(B) /\ Cardinality(B) \in Nat
  <2>1. MemoryEnd - 1 \in Int /\ 0 \in Int
    BY <1>2, HighRegion
  <2>2. IsFiniteSet(0 .. MemoryEnd - 1)
    BY <2>1, FS_Interval
  <2>3. B \subseteq 0 .. MemoryEnd - 1
    BY <1>2, FreeBitsFacts
  <2> HIDE DEF B
  <2> QED
    BY <2>2, <2>3, FS_Subset, FS_CardinalityType
<1>4. PICK x \in Stacks : ~ (x < a)
  <2>1. SUFFICES ASSUME \A x \in Stacks : x < a PROVE FALSE
    OBVIOUS
  <2>2. Stacks \subseteq B
    BY <2>1
  <2>3. Cardinality(B) < n
    BY DEF FewBelow
  <2> HIDE DEF B
  <2>4. Cardinality(Stacks) <= Cardinality(B) /\ Cardinality(Stacks) \in Nat
    BY <1>3, <2>2, FS_Subset, FS_CardinalityType
  <2> QED
    BY <1>3, <2>3, <2>4
<1>5. x \in Nat /\ x < KernelPagesEnd /\ KernelPagesEnd \in Nat
  <2>1. PICK i \in 1 .. p : x \in StackSet(i)
    BY DEF Stacks
  <2>2. rsp0[i] \in Nat /\ ist1[i] \in Nat
    BY <1>2 DEF StacksInv
  <2>3. /\ StackPages <= rsp0[i] /\ rsp0[i] <= KernelPagesEnd
        /\ StackPages <= ist1[i] /\ ist1[i] <= KernelPagesEnd
    BY <1>2 DEF StacksPlaced
  <2>4. KernelPagesEnd \in Nat
    BY <1>1, KernelPagesFinite DEF KernelPagesEnd
  <2>5. x \in rsp0[i] - StackPages .. rsp0[i] - 1 \/ x \in ist1[i] - StackPages .. ist1[i] - 1
    BY <2>1, <2>2 DEF StackSet, StackBefore, Pages
  <2> QED
    BY <2>2, <2>3, <2>4, <2>5
<1>6. x >= a + n
  BY <1>4, <1>5 DEF Pages
<1> QED
  BY <1>5, <1>6

\* Whatever the memory map, the number of cores and the records of the MADT:
\* after the switch of page tables the image, the bitmap, the GDT, the TSS
\* array and every stack are mapped, and once the devices are, so is the I/O
\* APIC.
THEOREM BootStillReachable ==
  ASSUME Aligned, TablesFit
  PROVE  BootSpec => []StillReachable
<1>1. BInv /\ OwnInv /\ PlaceInv /\ MapInv => StillReachable
  <2> SUFFICES ASSUME BInv, OwnInv, PlaceInv, MapInv, pc \in {"paging", "running"}
               PROVE  StillReachable
    BY DEF StillReachable
  <2>1. pc \in BootPcs /\ pc \in TssPcs /\ pc \in GdtPcs
    BY DEF BootPcs, TssPcs, GdtPcs
  <2>2. /\ bios \in BiosMaps /\ Sized /\ BootTypes
        /\ StacksInv /\ StacksPlaced
        /\ FewBelow(FreeBits, gdt_base, GdtPages) /\ FewBelow(AfterGdt, tss_base, TssPages)
        /\ Pages(0, KernelPagesEnd) \subseteq mapped
    BY <2>1, WhileBooting DEF OwnInv, PlaceInv, MapInv
  <2>3. p = cores_num /\ p \in Nat \ {0}
    BY <2>2 DEF StacksInv, BootTypes
  <2>4. /\ GdtPages <= Cardinality(Stacks) /\ TssPages <= Cardinality(Stacks)
        /\ Cardinality(Stacks) # 0
    <3>1. /\ Units(TssStart + 2 * p, GdtPageEntries) <= p * (2 * StackPages)
          /\ Units(p, TssPerPage) <= p * (2 * StackPages)
          /\ p * (2 * StackPages) \in Nat \ {0}
      BY <2>3, StacksOutgrowTables
    <3>2. Cardinality(Stacks) = p * (2 * StackPages)
      BY <2>2 DEF StacksInv
    <3>3. GdtPages = Units(TssStart + 2 * p, GdtPageEntries) /\ TssPages = Units(p, TssPerPage)
      BY <2>3 DEF GdtPages, TssPages
    <3> QED
      BY <3>1, <3>2, <3>3
  <2>5. Stacks \subseteq AfterGdt /\ AfterGdt \subseteq FreeBits
    BY <2>2 DEF Stacks, StacksPlaced, AfterGdt
  <2>6. /\ GdtPages \in Nat /\ TssPages \in Nat /\ gdt_base \in Nat /\ tss_base \in Nat
        /\ KernelPagesEnd \in Nat
    BY <2>1, <2>2, TableSizes, KernelPagesFinite DEF FewBelow, KernelPagesEnd
  <2>7. Pages(gdt_base, GdtPages) \cap Stacks = {} /\ Pages(tss_base, TssPages) \cap Stacks = {}
    BY <2>2 DEF StacksInv, TablePages
  <2>8. gdt_base + GdtPages <= KernelPagesEnd
    <3>1. Stacks \subseteq FreeBits /\ FreeBits \subseteq FreeBits
      BY <2>5
    <3> QED
      BY <2>2, <2>4, <2>6, <2>7, <3>1, TableBelowStacks
  <2>9. tss_base + TssPages <= KernelPagesEnd
    BY <2>2, <2>4, <2>5, <2>6, <2>7, TableBelowStacks
  <2>10. TablePages \subseteq mapped
    <3>1. Pages(gdt_base, GdtPages) \subseteq Pages(0, KernelPagesEnd)
      BY <2>6, <2>8 DEF Pages
    <3>2. Pages(tss_base, TssPages) \subseteq Pages(0, KernelPagesEnd)
      BY <2>6, <2>9 DEF Pages
    <3> QED
      BY <2>2, <3>1, <3>2 DEF TablePages
  <2>11. \A i \in 1 .. p : StackSet(i) \subseteq Pages(0, KernelPagesEnd)
    <3>1. TAKE i \in 1 .. p
    <3>2. rsp0[i] \in Nat /\ ist1[i] \in Nat
      BY <2>2 DEF StacksInv
    <3>3. /\ StackPages <= rsp0[i] /\ rsp0[i] <= KernelPagesEnd
          /\ StackPages <= ist1[i] /\ ist1[i] <= KernelPagesEnd
      BY <2>2 DEF StacksPlaced
    <3>4. StackBefore(rsp0[i]) \subseteq Pages(0, KernelPagesEnd)
      BY <2>6, <3>2, <3>3 DEF StackBefore, Pages
    <3>5. StackBefore(ist1[i]) \subseteq Pages(0, KernelPagesEnd)
      BY <2>6, <3>2, <3>3 DEF StackBefore, Pages
    <3> QED
      BY <3>4, <3>5 DEF StackSet
  <2>12. ImagePages \subseteq mapped
    <3>1. PICK x \in Stacks : TRUE
      BY <2>4, FS_EmptySet
    <3>2. x \in Pages(0, KernelPagesEnd) /\ x \in FreeBits
      BY <2>5, <2>11 DEF Stacks
    <3>3. x < KernelPagesEnd /\ x \in Nat /\ x >= KernelTop
      BY <2>2, <2>6, <3>2, FreeBitsFacts DEF Pages
    <3>4. KernelTop \in Nat /\ ImagePages = OneM .. KernelTop - 1
      BY <2>2, ImageIsRun, KernelInMain
    <3>5. ImagePages \subseteq Pages(0, KernelPagesEnd)
      BY <2>6, <3>3, <3>4 DEF Pages
    <3> QED
      BY <2>2, <3>5
  <2>13. \A i \in 1 .. cores_num : StackBefore(rsp0[i]) \cup StackBefore(ist1[i]) \subseteq mapped
    BY <2>2, <2>3, <2>11 DEF StackSet
  <2>14. pc = "running" => \A i \in DOMAIN madt : madt[i][1] = <<1, 12>> => madt[i][3][1] \in mapped
    BY DEF MapInv
  <2> QED
    BY <2>10, <2>12, <2>13, <2>14 DEF StillReachable
<1> QED
  BY <1>1, BInvInit, BInvStep, ContentInit, ContentStep, OwnInit, OwnStep, PlaceInit, PlaceStep,
     MapInit, MapStep, PTL DEF BootSpec

==============================================================================
