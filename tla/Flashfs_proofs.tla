---------------------------- MODULE Flashfs_proofs ----------------------------
(***************************************************************************)
(* Facts about the circular volume of Flashfs, for every geometry: what    *)
(* addresses, pages and sectors are of one another, that what the pages    *)
(* show is enough for the boot to find the log again, and what an erase    *)
(* and a write make of it.                                                 *)
(***************************************************************************)
EXTENDS Flashfs, WellFoundedInduction, TLAPS

\* The volume and the ring have a positive size.
LEMMA GeometryNat ==
    /\ PageSize \in Nat /\ PageSize > 0
    /\ BufferSize \in Nat /\ BufferSize > 0
    /\ SectorSize \in Nat /\ SectorSize > 0
    /\ Size \in Nat /\ Size > 0
<1>1. /\ PageSize \in Nat /\ PageSize > 0 /\ BufferSize \in Nat /\ BufferSize > 0
      /\ PagesPerSector \in Nat /\ PagesPerSector > 0 /\ Sectors \in Nat /\ Sectors > 0
  BY FlashfsAssumption DEF FlashfsAssumption
<1>2. \A a, b \in Nat : a > 0 /\ b > 0 => a * b \in Nat /\ a * b > 0
  OBVIOUS
<1>3. SectorSize \in Nat /\ SectorSize > 0
  BY <1>1, <1>2 DEF SectorSize
<1> QED
  BY <1>1, <1>2, <1>3 DEF Size

\* Division with a remainder is unique.
LEMMA DivMod ==
    ASSUME NEW n \in Nat, n > 0, NEW q \in Int, NEW r \in 0 .. n - 1, NEW a \in Int, a = q * n + r
    PROVE  a % n = r /\ a \div n = q
<1>1. a = n * (a \div n) + (a % n) /\ a % n \in 0 .. n - 1 /\ a \div n \in Int
  OBVIOUS
<1> DEFINE p == a \div n
           m == a % n
<1>2. (p - q) * n = r - m
  <2>1. n * p = p * n
    OBVIOUS
  <2> QED BY <1>1, <2>1
<1> HIDE DEF p, m
<1>3. p - q = 0
  <2>1. CASE p - q >= 1
    <3>1. (p - q) * n >= n
      BY <2>1, <1>1 DEF p
    <3> QED BY <3>1, <1>1, <1>2 DEF m
  <2>2. CASE p - q <= -1
    <3>1. (p - q) * n <= -n
      BY <2>2, <1>1 DEF p
    <3> QED BY <3>1, <1>1, <1>2 DEF m
  <2> QED BY <2>1, <2>2, <1>1 DEF p
<1> QED BY <1>1, <1>2, <1>3 DEF p, m

\* From the beginning of unit j, d further around a circle of c units of u: where one
\* comes out, where in its unit and in which.
WalkEnds(u, c, j, d) ==
    /\ (j * u + d) % (c * u) = (((j + (d \div u)) % c) * u) + (d % u)
    /\ ((j * u + d) % (c * u)) % u = d % u
    /\ ((j * u + d) % (c * u)) \div u = (j + (d \div u)) % c

\* Any such walk ends there.
LEMMA Around ==
    ASSUME NEW u \in Nat, u > 0, NEW c \in Nat, c > 0, NEW j \in Int, NEW d \in Int
    PROVE  WalkEnds(u, c, j, d)
<1> DEFINE q == d \div u
           r == d % u
           p == (j + q) \div c
           m == (j + q) % c
           a == (j * u + d) % (c * u)
<1>1. q \in Int /\ r \in 0 .. u - 1 /\ d = u * q + r
  OBVIOUS
<1> HIDE DEF q, r
<1>2. p \in Int /\ m \in 0 .. c - 1 /\ j + q = c * p + m
  BY <1>1
<1> HIDE DEF p, m
<1>3. c * u \in Nat /\ c * u > 0
  OBVIOUS
<1>4. m * u + r \in 0 .. c * u - 1
  <2>1. m * u \in Int /\ m * u >= 0 /\ m * u <= (c - 1) * u
    BY <1>2
  <2>2. (c - 1) * u = c * u - u
    OBVIOUS
  <2> QED BY <1>1, <1>3, <2>1, <2>2
<1>5. j * u + d = p * (c * u) + (m * u + r)
  <2>1. (j + q) * u = (c * p + m) * u
    BY <1>2
  <2>2. (j + q) * u = j * u + q * u /\ (c * p + m) * u = p * (c * u) + m * u /\ u * q = q * u
    BY <1>1, <1>2
  <2> QED BY <1>1, <1>2, <1>3, <2>1, <2>2
<1> DEFINE n == c * u
           x == j * u + d
           b == m * u + r
<1>6. x \in Int /\ x = p * n + b /\ b \in 0 .. n - 1 /\ n \in Nat /\ n > 0
  BY <1>3, <1>4, <1>5
<1>7. x % n = b
  <2> HIDE DEF x, b, n
  <2> QED BY <1>2, <1>6, DivMod
<1>8. a = m * u + r
  BY <1>7
<1> HIDE DEF a, n, x
<1>9. a % u = r /\ a \div u = m
  <2>1. a \in Int /\ m \in Int
    BY <1>2, <1>6, <1>8
  <2> QED BY <1>1, <1>8, <2>1, DivMod
<1> QED BY <1>8, <1>9 DEF a, q, r, m, WalkEnds

\* Going on by what lies between two places of a circle leads from one to the other;
\* and what lies between is told by the places.
LEMMA Between ==
    ASSUME NEW n \in Nat, n > 0, NEW h \in Int
    PROVE  /\ \A t \in 0 .. n - 1 : (t - h) % n \in 0 .. n - 1 /\ (h + ((t - h) % n)) % n = t
           /\ \A d \in 0 .. n - 1 : (h + d) % n \in 0 .. n - 1 /\ (((h + d) % n) - h) % n = d
<1>1. ASSUME NEW t \in 0 .. n - 1
      PROVE  (t - h) % n \in 0 .. n - 1 /\ (h + ((t - h) % n)) % n = t
  <2> DEFINE q == (t - h) \div n
             d == (t - h) % n
  <2>1. q \in Int /\ d \in 0 .. n - 1 /\ t - h = n * q + d
    OBVIOUS
  <2> HIDE DEF q, d
  <2>2. n * q = q * n /\ (-q) * n = -(q * n) /\ -q \in Int /\ q * n \in Int
    BY <2>1
  <2>3. h + d = (-q) * n + t
    BY <2>1, <2>2
  <2> DEFINE x == h + d
             p == -q
  <2>4. p \in Int /\ x \in Int /\ x = p * n + t
    BY <2>1, <2>3
  <2> HIDE DEF x, p
  <2>5. x % n = t
    BY <2>4, DivMod
  <2> QED BY <2>1, <2>5 DEF d, x
<1>2. ASSUME NEW d \in 0 .. n - 1
      PROVE  (h + d) % n \in 0 .. n - 1 /\ (((h + d) % n) - h) % n = d
  <2> DEFINE q == (h + d) \div n
             t == (h + d) % n
  <2>1. q \in Int /\ t \in 0 .. n - 1 /\ h + d = n * q + t
    OBVIOUS
  <2> HIDE DEF q, t
  <2>2. n * q = q * n /\ (-q) * n = -(q * n) /\ -q \in Int /\ q * n \in Int
    BY <2>1
  <2>3. t - h = (-q) * n + d
    BY <2>1, <2>2
  <2> DEFINE x == t - h
             p == -q
  <2>4. p \in Int /\ x \in Int /\ x = p * n + d
    BY <2>1, <2>3
  <2> HIDE DEF x, p
  <2>5. x % n = d
    BY <2>4, DivMod
  <2> QED BY <2>1, <2>5 DEF t, x
<1> QED BY <1>1, <1>2

\* A remainder may be taken first.
LEMMA ModTwice ==
    ASSUME NEW n \in Nat, n > 0, NEW a \in Int, NEW b \in Int
    PROVE  (a + b) % n = ((a % n) + b) % n
<1> DEFINE p == a \div n
           m == a % n
           q == (m + b) \div n
           r == (m + b) % n
           x == a + b
           w == p + q
<1>1. p \in Int /\ m \in 0 .. n - 1 /\ a = n * p + m
  OBVIOUS
<1>2. q \in Int /\ r \in 0 .. n - 1 /\ m + b = n * q + r
  BY <1>1
<1> HIDE DEF p, m, q, r
<1>3. x \in Int /\ x = w * n + r /\ w \in Int
  <2>1. (p + q) * n = n * p + n * q /\ n * p \in Int /\ n * q \in Int
    BY <1>1, <1>2
  <2> QED BY <1>1, <1>2, <2>1
<1> HIDE DEF x, w
<1>4. x % n = r
  BY <1>2, <1>3, DivMod
<1> QED BY <1>4 DEF x, r, m

\* Beginnings of sectors.
LEMMA SectorStart ==
    ASSUME NEW k \in Int
    PROVE  /\ k * SectorSize \in Int /\ (k * SectorSize) % SectorSize = 0
           /\ SectorOf(k * SectorSize) = k
           /\ k \in Sector <=> k * SectorSize \in Address
           /\ flashfsAddressShift(k * SectorSize, SectorSize) = ((k + 1) % Sectors) * SectorSize
<1>1. SectorSize \in Nat /\ SectorSize > 0 /\ Size = Sectors * SectorSize
      /\ Sectors \in Nat /\ Sectors > 0 /\ Size \in Nat /\ Size > 0
  BY GeometryNat, FlashfsAssumption DEF Size
<1> DEFINE n == SectorSize
           c == Sectors
<1>2. k * n \in Int /\ (k * n) % n = 0 /\ (k * n) \div n = k
  <2>1. k * n \in Int /\ 0 \in 0 .. n - 1 /\ k * n = k * n + 0
    BY <1>1
  <2> HIDE DEF n
  <2> QED BY <1>1, <2>1, DivMod DEF n
<1>3. \A j \in Int : j \in 0 .. c - 1 <=> j * n \in 0 .. c * n - 1
  <2> SUFFICES ASSUME NEW j \in Int PROVE j \in 0 .. c - 1 <=> j * n \in 0 .. c * n - 1
    OBVIOUS
  <2>0. n \in Nat /\ n > 0 /\ c \in Nat
    BY <1>1
  <2> HIDE DEF n, c
  <2>1. CASE j < 0
    <3>1. j * n < 0
      BY <2>0, <2>1
    <3> QED BY <2>0, <2>1, <3>1
  <2>2. CASE j >= c
    <3>1. j * n >= c * n
      BY <2>0, <2>2
    <3> QED BY <2>0, <2>2, <3>1
  <2>3. CASE 0 <= j /\ j < c
    <3>1. 0 <= j * n /\ j * n < c * n
      BY <2>0, <2>3
    <3>2. j * n \in Int /\ c * n \in Int
      BY <2>0
    <3> QED BY <2>0, <2>3, <3>1, <3>2
  <2> QED BY <2>0, <2>1, <2>2, <2>3
<1>4. (k * n + n) % Size = ((k + 1) % c) * n
  <2> DEFINE q == (k + 1) \div c
             r == (k + 1) % c
  <2>1. q \in Int /\ r \in 0 .. c - 1 /\ k + 1 = c * q + r
    BY <1>1
  <2>2. r * n \in 0 .. Size - 1
    BY <1>1, <1>3, <2>1
  <2> HIDE DEF q, r
  <2>3. k * n + n = q * Size + r * n
    <3>1. (k + 1) * n = (c * q + r) * n
      BY <2>1
    <3>2. (c * q + r) * n = q * (c * n) + r * n
      BY <1>1, <2>1
    <3>3. (k + 1) * n = k * n + n
      BY <1>1
    <3> QED BY <1>1, <3>1, <3>2, <3>3
  <2>4. k * n + n \in Int
    BY <1>1
  <2>5. (k * n + n) % Size = r * n
    <3> DEFINE a == k * n + n
               b == r * n
    <3>1. a \in Int /\ b \in 0 .. Size - 1 /\ a = q * Size + b
      BY <2>2, <2>3, <2>4
    <3> HIDE DEF a, b
    <3>2. a % Size = b
      BY <1>1, <2>1, <3>1, DivMod
    <3> QED BY <3>2 DEF a, b
  <2> QED BY <2>5 DEF r
<1> QED BY <1>1, <1>2, <1>3, <1>4 DEF SectorOf, Sector, Address, flashfsAddressShift

SectorBegin(h) == h \in Address /\ h % SectorSize = 0

\* The head is the beginning of a sector of the volume, and so is the next one.
LEMMA HeadMoves ==
    ASSUME NEW h, SectorBegin(h)
    PROVE  /\ SectorOf(h) \in Sector
           /\ flashfsAddressShift(h, SectorSize) \in Address
           /\ flashfsAddressShift(h, SectorSize) % SectorSize = 0
<1> DEFINE k == h \div SectorSize
<1>1. SectorSize \in Nat /\ SectorSize > 0 /\ h \in Int /\ Sectors \in Nat /\ Sectors > 0
  BY GeometryNat, FlashfsAssumption DEF SectorBegin, Address
<1>2. k \in Int /\ h = SectorSize * k
  BY <1>1 DEF SectorBegin
<1> HIDE DEF k
<1>3. h = k * SectorSize
  BY <1>1, <1>2
<1>4. k \in Sector /\ SectorOf(h) = k
  <2>1. (k \in Sector <=> k * SectorSize \in Address) /\ SectorOf(k * SectorSize) = k
    BY <1>2, SectorStart
  <2> QED BY <1>3, <2>1 DEF SectorBegin
<1> DEFINE m == (k + 1) % Sectors
<1>5. m \in Int /\ m \in Sector
  BY <1>1, <1>2 DEF Sector
<1>6. flashfsAddressShift(h, SectorSize) = m * SectorSize
  BY <1>2, <1>3, SectorStart
<1> HIDE DEF m
<1>7. m * SectorSize \in Address /\ (m * SectorSize) % SectorSize = 0
  BY <1>5, SectorStart
<1> QED BY <1>4, <1>6, <1>7

\* Every address moves to an address.
LEMMA ShiftTyped ==
    ASSUME NEW a \in Int, NEW offset \in Int
    PROVE  flashfsAddressShift(a, offset) \in Address
<1>1. Size \in Nat /\ Size > 0 /\ a + offset \in Int
  BY GeometryNat
<1> QED BY <1>1 DEF flashfsAddressShift, Address

\* The page of an address is a page of the volume.
LEMMA PageOfTyped ==
    ASSUME NEW a \in Address
    PROVE  PageOf(a) \in Page
<1> DEFINE pages == Sectors * PagesPerSector
<1>1. /\ PageSize \in Nat /\ PageSize > 0 /\ pages \in Nat /\ Size = pages * PageSize
      /\ a \in Nat /\ a < Size
  BY GeometryNat, FlashfsAssumption DEF Size, SectorSize, Address
<1> DEFINE q == a \div PageSize
<1>2. q \in Int /\ a % PageSize \in 0 .. PageSize - 1 /\ a = PageSize * q + (a % PageSize)
  BY <1>1
<1>3. Page = 0 .. pages - 1 /\ PageOf(a) = q
  BY DEF Page, PageOf
<1> HIDE DEF q, pages
<1>4. q < pages
  <2> SUFFICES ASSUME q >= pages PROVE FALSE
    BY <1>1, <1>2
  <2>1. PageSize * q >= pages * PageSize
    BY <1>1, <1>2
  <2> QED BY <1>1, <1>2, <2>1
<1>5. q >= 0
  <2> SUFFICES ASSUME q <= -1 PROVE FALSE
    BY <1>2
  <2>1. PageSize * q <= -PageSize
    BY <1>1, <1>2
  <2> QED BY <1>1, <1>2, <2>1
<1> QED BY <1>1, <1>2, <1>3, <1>4, <1>5

-----------------------------------------------------------------------------
(* Bytes of the log, and pages. *)

Pages == Sectors * PagesPerSector

\* From address h on to address t.
Length(h, t) == flashfsAddressShift(t, -h)

\* The pages that so many bytes take.
PagesFor(bytes) == (bytes + PageSize - 1) \div PageSize

\* The sizes of the volume in terms of one another.
LEMMA Units ==
    /\ PageSize \in Nat /\ PageSize > 0 /\ BufferSize \in Nat /\ BufferSize > 0
    /\ PagesPerSector \in Nat /\ PagesPerSector > 1
    /\ Sectors \in Nat /\ Sectors > 1
    /\ Pages \in Nat /\ Pages > 0 /\ Pages = Sectors * PagesPerSector
    /\ Size \in Nat /\ Size > 0 /\ Size = Pages * PageSize
    /\ SectorSize \in Nat /\ SectorSize > 0 /\ SectorSize = PagesPerSector * PageSize
    /\ Size = Sectors * SectorSize /\ PageSize + BufferSize < SectorSize
    /\ PagesPerSector < Pages /\ SectorSize < Size
<1>1. /\ PageSize \in Nat /\ PageSize > 0 /\ BufferSize \in Nat /\ BufferSize > 0
      /\ PagesPerSector \in Nat /\ PagesPerSector > 0 /\ Sectors \in Nat /\ Sectors > 1
      /\ SectorSize = PagesPerSector * PageSize /\ PageSize + BufferSize < SectorSize
  BY FlashfsAssumption DEF FlashfsAssumption, SectorSize
<1>2. SectorSize \in Nat /\ SectorSize > 0 /\ Size \in Nat /\ Size > 0 /\ Size = Sectors * SectorSize
  BY GeometryNat DEF Size
<1>3. Pages \in Nat /\ Pages > 0 /\ Pages = Sectors * PagesPerSector /\ PagesPerSector < Pages
  BY <1>1 DEF Pages
<1>4. Size = Pages * PageSize /\ SectorSize < Size
  <2>1. Sectors * (PagesPerSector * PageSize) = (Sectors * PagesPerSector) * PageSize
    BY <1>1
  <2>2. Sectors * SectorSize >= 2 * SectorSize
    BY <1>1, <1>2
  <2> QED BY <1>1, <1>2, <1>3, <2>1, <2>2
<1>5. PagesPerSector > 1
  <2>1. PagesPerSector # 1
    BY <1>1
  <2> QED BY <1>1, <2>1
<1> QED BY <1>1, <1>2, <1>3, <1>4, <1>5

\* The tail is the head and the length of the log between them.
LEMMA LengthFacts ==
    ASSUME NEW h \in Address
    PROVE  /\ \A t \in Address : Length(h, t) \in 0 .. Size - 1 /\ flashfsAddressShift(h, Length(h, t)) = t
           /\ \A d \in 0 .. Size - 1 : /\ flashfsAddressShift(h, d) \in Address
                                       /\ Length(h, flashfsAddressShift(h, d)) = d
<1>1. Size \in Nat /\ Size > 0 /\ h \in Int /\ -h \in Int /\ Address = 0 .. Size - 1
  BY Units DEF Address
<1>2. \A t \in 0 .. Size - 1 : (t - h) % Size \in 0 .. Size - 1 /\ (h + ((t - h) % Size)) % Size = t
  BY <1>1, Between
<1>3. \A d \in 0 .. Size - 1 : (h + d) % Size \in 0 .. Size - 1 /\ (((h + d) % Size) - h) % Size = d
  BY <1>1, Between
<1>4. \A t \in Int : t + (-h) = t - h
  BY <1>1
<1>5. \A t \in Address : Length(h, t) = (t - h) % Size
  <2> SUFFICES ASSUME NEW t \in Address PROVE Length(h, t) = (t - h) % Size
    OBVIOUS
  <2>1. t + (-h) = t - h
    BY <1>1
  <2> QED BY <2>1 DEF Length, flashfsAddressShift
<1> QED BY <1>1, <1>2, <1>3, <1>5 DEF flashfsAddressShift

\* The head in sectors, in pages and in bytes.
LEMMA HeadPlace ==
    ASSUME NEW h, SectorBegin(h)
    PROVE  /\ SectorOf(h) \in Sector /\ SectorOf(h) \in Nat /\ SectorOf(h) < Sectors
           /\ h = SectorOf(h) * SectorSize
           /\ PageOf(h) = SectorOf(h) * PagesPerSector
           /\ PageOf(h) \in Nat /\ PageOf(h) < Pages /\ h = PageOf(h) * PageSize
<1> DEFINE k == SectorOf(h)
<1>1. h \in Int /\ SectorOf(h) \in Sector /\ h \in Address
  BY HeadMoves, Units DEF SectorBegin, Address
<1>2. k \in Nat /\ k < Sectors
  BY <1>1, Units DEF Sector
<1>3. h = k * SectorSize
  BY <1>1, Units DEF SectorBegin, SectorOf
<1> HIDE DEF k
<1>4. h = (k * PagesPerSector) * PageSize
  BY <1>2, <1>3, Units
<1>5. PageOf(h) = k * PagesPerSector
  <2> DEFINE q == k * PagesPerSector
  <2>1. q \in Int /\ h = q * PageSize + 0 /\ 0 \in 0 .. PageSize - 1
    BY <1>2, <1>4, Units
  <2> HIDE DEF q
  <2>2. h \div PageSize = q
    BY <1>1, <2>1, Units, DivMod
  <2> QED BY <2>2 DEF PageOf, q
<1>6. PageOf(h) \in Nat /\ PageOf(h) < Pages
  <2>1. PageOf(h) \in 0 .. Pages - 1
    BY <1>1, PageOfTyped DEF Page, Pages
  <2> QED BY <2>1, Units
<1> QED BY <1>1, <1>2, <1>3, <1>4, <1>5, <1>6 DEF k

\* The tail in sectors and pages, from the length of the log.
LEMMA TailPlace ==
    ASSUME NEW h, SectorBegin(h), NEW d \in Int
    PROVE  /\ flashfsAddressShift(h, d) % PageSize = d % PageSize
           /\ PageOf(flashfsAddressShift(h, d)) = (PageOf(h) + (d \div PageSize)) % Pages
           /\ SectorOf(flashfsAddressShift(h, d)) = (SectorOf(h) + (d \div SectorSize)) % Sectors
<1> DEFINE k == SectorOf(h)
           p == PageOf(h)
<1>1. k \in Int /\ p \in Int /\ h = k * SectorSize /\ h = p * PageSize
  BY HeadPlace
<1> HIDE DEF k, p
<1>2. WalkEnds(PageSize, Pages, p, d) /\ WalkEnds(SectorSize, Sectors, k, d)
  <2>1. /\ PageSize \in Nat /\ PageSize > 0 /\ Pages \in Nat /\ Pages > 0 /\ p \in Int
        /\ SectorSize \in Nat /\ SectorSize > 0 /\ Sectors \in Nat /\ Sectors > 0 /\ k \in Int
    BY <1>1, Units
  <2> HIDE DEF Pages, SectorSize
  <2> QED BY <2>1, Around
<1>3. /\ ((p * PageSize + d) % (Pages * PageSize)) % PageSize = d % PageSize
      /\ ((p * PageSize + d) % (Pages * PageSize)) \div PageSize = (p + (d \div PageSize)) % Pages
      /\ ((k * SectorSize + d) % (Sectors * SectorSize)) \div SectorSize = (k + (d \div SectorSize)) % Sectors
  BY <1>2 DEF WalkEnds
<1>4. Size = Pages * PageSize /\ Size = Sectors * SectorSize
  BY Units
<1> QED BY <1>1, <1>3, <1>4 DEF k, p, PageOf, SectorOf, flashfsAddressShift

\* What takes d bytes ends in page d \div PageSize, unless it fills the one before.
LEMMA PagesForFacts ==
    ASSUME NEW d \in Nat
    PROVE  /\ PagesFor(d) \in Nat
           /\ d % PageSize = 0 => PagesFor(d) = d \div PageSize /\ d = PagesFor(d) * PageSize
           /\ d % PageSize # 0 => PagesFor(d) = (d \div PageSize) + 1
           /\ d \div PageSize \in Nat /\ d % PageSize \in 0 .. PageSize - 1
           /\ d = (d \div PageSize) * PageSize + (d % PageSize)
           /\ d <= PagesFor(d) * PageSize /\ PagesFor(d) * PageSize < d + PageSize
<1> DEFINE q == d \div PageSize
           r == d % PageSize
           s == PageSize
<1>1. s \in Nat /\ s > 0 /\ PageSize = s
  BY Units
<1>2. q \in Nat /\ r \in 0 .. s - 1 /\ d = q * s + r
  BY <1>1
<1>3. PagesFor(d) = (d + s - 1) \div s
  BY DEF PagesFor
<1> HIDE DEF q, r, s
<1> DEFINE x == d + s - 1
<1>4. x \in Int
  BY <1>1
<1>5. CASE r = 0
  <2>1. x = q * s + (s - 1) /\ s - 1 \in 0 .. s - 1
    BY <1>1, <1>2, <1>5
  <2> HIDE DEF x
  <2>2. x \div s = q
    BY <1>1, <1>2, <1>4, <2>1, DivMod
  <2> QED BY <1>1, <1>2, <1>3, <1>5, <2>2 DEF q, r, s, x
<1>6. CASE r # 0
  <2>1. x = (q + 1) * s + (r - 1) /\ r - 1 \in 0 .. s - 1 /\ q + 1 \in Int
    BY <1>1, <1>2, <1>6
  <2> HIDE DEF x
  <2>2. x \div s = q + 1
    BY <1>1, <1>4, <2>1, DivMod
  <2>3. PagesFor(d) = q + 1
    BY <1>3, <2>2 DEF x
  <2>4. (q + 1) * s = q * s + s
    BY <1>1, <1>2
  <2>5. PagesFor(d) * s = q * s + s
    BY <2>3, <2>4
  <2>6. d <= PagesFor(d) * s /\ PagesFor(d) * s < d + s
    BY <1>1, <1>2, <1>6, <2>5
  <2> QED BY <1>1, <1>2, <1>6, <2>3, <2>6 DEF q, r, s
<1> QED BY <1>5, <1>6

\* PagesFor is the least number of pages that is enough.
LEMMA PagesForLeast ==
    ASSUME NEW d \in Nat, NEW k \in Nat
    PROVE  /\ PagesFor(d) <= k <=> d <= k * PageSize
           /\ PagesFor(k * PageSize) = k
<1> DEFINE s == PageSize
           u == PagesFor(d)
<1>1. s \in Nat /\ s > 0 /\ u \in Nat /\ d <= u * s /\ u * s < d + s
  BY Units, PagesForFacts
<1>2. PagesFor(k * PageSize) = k
  <2> DEFINE x == k * s + s - 1
  <2>1. x \in Int /\ x = k * s + (s - 1) /\ s - 1 \in 0 .. s - 1
    BY <1>1
  <2> HIDE DEF x, s
  <2>2. x \div s = k
    BY <1>1, <2>1, DivMod
  <2> QED BY <2>2 DEF x, s, PagesFor
<1> HIDE DEF s, u
<1>3. CASE u <= k
  <2>1. u * s <= k * s
    BY <1>1, <1>3
  <2> QED BY <1>1, <1>2, <1>3, <2>1 DEF s, u
<1>4. CASE u >= k + 1
  <2>1. u * s >= k * s + s
    BY <1>1, <1>4
  <2> QED BY <1>1, <1>2, <1>4, <2>1 DEF s, u
<1> QED BY <1>1, <1>3, <1>4

\* A transfer of n bytes, up to the end of its page at most: the log grows by them, and
\* its last page is the one that was written to.
LEMMA LogGrows ==
    ASSUME NEW h, SectorBegin(h), NEW t \in Address, NEW n \in 1 .. PageSize,
           (t % PageSize) + n <= PageSize, Length(h, t) < Size - PageSize - BufferSize
    PROVE  LET d == Length(h, t)
               u == PagesFor(d + n)
           IN  /\ flashfsAddressShift(t, n) \in Address
               /\ Length(h, flashfsAddressShift(t, n)) = d + n
               /\ u \in 1 .. Pages - 1 /\ PageOf(t) = (PageOf(h) + u - 1) % Pages
               /\ t % PageSize = 0 <=> PagesFor(d) = u - 1
               /\ t % PageSize # 0 <=> PagesFor(d) = u
<1> DEFINE d == Length(h, t)
           q == d \div PageSize
           r == d % PageSize
           u == PagesFor(d + n)
           s == PageSize
<1>a. h \in Address
  BY DEF SectorBegin
<1>b. d \in 0 .. Size - 1 /\ flashfsAddressShift(h, d) = t
  BY <1>a, LengthFacts
<1>c. s \in Nat /\ s > 0 /\ Size \in Nat /\ BufferSize \in Nat /\ Size > 0
  BY Units
<1>1. /\ h \in Address /\ d \in 0 .. Size - 1 /\ flashfsAddressShift(h, d) = t /\ h \in Int
      /\ s \in Nat /\ s > 0 /\ Size \in Nat /\ BufferSize \in Nat /\ Size > 0
  BY <1>a, <1>b, <1>c DEF Address
<1>2. d \in Nat /\ q \in Nat /\ r \in 0 .. s - 1 /\ d = q * s + r
  <2> HIDE DEF d
  <2>1. d \in Nat
    BY <1>1
  <2> QED BY <2>1, PagesForFacts
<1>3. t % s = r /\ PageOf(t) = (PageOf(h) + q) % Pages
  BY <1>1, <1>2, TailPlace
<1>4. /\ r = 0 => PagesFor(d) = q
      /\ r # 0 => PagesFor(d) = q + 1
  BY <1>2, PagesForFacts
<1>5. Size = Pages * s /\ Pages \in Nat
  BY Units
<1> HIDE DEF q, r, s, d
<1>6. u = q + 1
  <2> DEFINE x == d + n + s - 1
  <2>1. x \in Int /\ x = (q + 1) * s + (r + n - 1) /\ r + n - 1 \in 0 .. s - 1
    <3>1. (q + 1) * s = q * s + s /\ q * s \in Int
      BY <1>1, <1>2
    <3>2. n \in Int /\ n >= 1 /\ r + n <= s
      BY <1>3 DEF s
    <3> QED BY <1>1, <1>2, <3>1, <3>2
  <2> HIDE DEF x
  <2>2. x \div s = q + 1
    BY <1>1, <1>2, <2>1, DivMod
  <2> QED BY <2>2 DEF u, x, s, PagesFor
<1>7. q + 1 <= Pages - 1
  <2> SUFFICES ASSUME q >= Pages - 1 PROVE FALSE
    BY <1>2, <1>5
  <2>1. q * s >= (Pages - 1) * s
    BY <1>1, <1>2, <1>5
  <2>2. (Pages - 1) * s = Size - s
    BY <1>1, <1>5
  <2>3. d < Size - s - BufferSize
    BY DEF d, s
  <2> QED BY <1>1, <1>2, <2>1, <2>2, <2>3
<1>8. /\ flashfsAddressShift(t, n) \in Address
      /\ Length(h, flashfsAddressShift(t, n)) = d + n
  <2>1. n \in Nat /\ d + n \in 0 .. Size - 1
    BY <1>1, <1>2 DEF d, s
  <2>2. flashfsAddressShift(t, n) = flashfsAddressShift(h, d + n)
    <3>1. (h + (d + n)) % Size = (((h + d) % Size) + n) % Size
      <4>1. h + d \in Int /\ n \in Int
        BY <1>1, <1>2, <2>1
      <4> DEFINE e == h + d
      <4>2. h + (d + n) = e + n
        BY <1>1, <1>2, <2>1
      <4> HIDE DEF e
      <4> QED BY <1>1, <4>1, <4>2, ModTwice DEF e
    <3> QED BY <1>1, <3>1 DEF flashfsAddressShift
  <2> QED BY <1>1, <2>1, <2>2, LengthFacts
<1>9. PageOf(h) \in Int
  BY HeadPlace
<1>10. u \in 1 .. Pages - 1 /\ PageOf(t) = (PageOf(h) + u - 1) % Pages
  BY <1>2, <1>3, <1>5, <1>6, <1>7, <1>9
<1> HIDE DEF u
<1>11. /\ t % s = 0 <=> PagesFor(d) = u - 1
       /\ t % s # 0 <=> PagesFor(d) = u
  BY <1>2, <1>3, <1>4, <1>6
<1> QED BY <1>8, <1>10, <1>11 DEF u, d, s

\* The beginning of the k-th page after the head.
LEMMA PageAddress ==
    ASSUME NEW h, SectorBegin(h), NEW k \in 0 .. Pages - 1
    PROVE  LET e == ((PageOf(h) + k) % Pages) * PageSize
           IN  /\ e = flashfsAddressShift(h, k * PageSize) /\ e \in Address
               /\ Length(h, e) = k * PageSize /\ PagesFor(Length(h, e)) = k
<1> DEFINE s == PageSize
           x == k * s
           e == flashfsAddressShift(h, x)
<1>1. s \in Nat /\ s > 0 /\ Size \in Nat /\ Size > 0 /\ Size = Pages * s /\ Pages \in Nat /\ Pages > 0
  BY Units
<1>2. k \in Nat /\ k \in Int /\ k <= Pages - 1 /\ h \in Address
  BY <1>1 DEF SectorBegin
<1>3. x \in Int /\ x = k * s + 0 /\ 0 \in 0 .. s - 1 /\ x \in 0 .. Size - 1
  <2>1. k * s <= (Pages - 1) * s /\ (Pages - 1) * s = Size - s /\ k * s \in Nat
    BY <1>1, <1>2
  <2> QED BY <1>1, <2>1
<1>4. PagesFor(x) = k
  BY <1>2, PagesForLeast
<1> HIDE DEF x, s
<1>5. x \div s = k /\ x % s = 0
  BY <1>1, <1>2, <1>3, DivMod
<1>6. e % s = 0 /\ e \div s = (PageOf(h) + k) % Pages
  BY <1>3, <1>5, TailPlace DEF PageOf, s
<1>7. e \in Address /\ Length(h, e) = x
  BY <1>2, <1>3, LengthFacts
<1>8. e = ((PageOf(h) + k) % Pages) * s
  <2>1. e \in Int
    BY <1>1, <1>7 DEF Address
  <2> QED BY <1>1, <1>6, <2>1
<1> QED BY <1>4, <1>7, <1>8 DEF s, x

\* The tail is moved on to the next page when the device is closed: the log takes the
\* same pages.
LEMMA LogCloses ==
    ASSUME NEW h, SectorBegin(h), NEW t \in Address, PagesFor(Length(h, t)) <= Pages - 1
    PROVE  LET e == flashfsAddressShift(t, (-t) % PageSize)
               u == PagesFor(Length(h, t))
           IN  /\ e \in Address /\ Length(h, e) = u * PageSize /\ PagesFor(Length(h, e)) = u
               /\ Length(h, t) <= Length(h, e)
               /\ e = ((PageOf(h) + u) % Pages) * PageSize
<1> DEFINE d == Length(h, t)
           s == PageSize
           r == d % s
           q == d \div s
           u == PagesFor(d)
           pad == (-t) % s
           e == flashfsAddressShift(t, pad)
<1>a. h \in Address
  BY DEF SectorBegin
<1>b. d \in 0 .. Size - 1 /\ flashfsAddressShift(h, d) = t
  BY <1>a, LengthFacts
<1>c. s \in Nat /\ s > 0 /\ Size \in Nat /\ Size > 0 /\ Size = Pages * s /\ Pages \in Nat /\ Pages > 0
  BY Units
<1>1. /\ h \in Address /\ d \in 0 .. Size - 1 /\ flashfsAddressShift(h, d) = t /\ h \in Int /\ t \in Int
      /\ s \in Nat /\ s > 0 /\ Size \in Nat /\ Size > 0 /\ Size = Pages * s /\ Pages \in Nat /\ Pages > 0
  BY <1>a, <1>b, <1>c DEF Address
<1>2. /\ d \in Nat /\ u \in Nat /\ d <= u * s
      /\ q \in Nat /\ r \in 0 .. s - 1 /\ d = q * s + r
      /\ r = 0 => u = q
      /\ r # 0 => u = q + 1
  <2> HIDE DEF d
  <2>1. d \in Nat
    BY <1>1
  <2> QED BY <2>1, PagesForFacts
<1>3. t % s = r
  <2> HIDE DEF d
  <2>1. d \in Int
    BY <1>2
  <2> QED BY <1>1, <2>1, TailPlace
<1>4. d + pad = u * s /\ pad \in Nat
  <2>1. t = s * (t \div s) + r /\ t \div s \in Int
    BY <1>1, <1>3
  <2> DEFINE b == t \div s
             x == -t
  <2> HIDE DEF b, q, r, u, d
  <2>2. CASE r = 0
    <3> DEFINE v == -b
    <3>1. x \in Int /\ x = v * s + 0 /\ 0 \in 0 .. s - 1 /\ v \in Int
      BY <1>1, <2>1, <2>2 DEF b
    <3> HIDE DEF x, s, v
    <3>2. x % s = 0
      BY <1>1, <3>1, DivMod
    <3> QED BY <1>1, <1>2, <2>2, <3>2 DEF x, s
  <2>3. CASE r # 0
    <3> DEFINE v == -b - 1
               y == s - r
    <3>1. x \in Int /\ x = v * s + y /\ y \in 0 .. s - 1 /\ v \in Int
      <4>1. (-b - 1) * s = -(s * b) - s /\ s * b \in Int
        BY <1>1, <2>1 DEF b
      <4> QED BY <1>1, <1>2, <2>1, <2>3, <4>1 DEF b
    <3> HIDE DEF x, s, v, y
    <3>2. x % s = y
      BY <1>c, <3>1, DivMod
    <3>3. (q + 1) * s = q * s + s /\ q * s \in Int
      BY <1>1, <1>2
    <3> QED BY <1>1, <1>2, <2>3, <3>2, <3>3 DEF x, s, y
  <2> QED BY <2>2, <2>3
<1> HIDE DEF q, r, pad, d, s
<1>5. e = flashfsAddressShift(h, d + pad)
  <2>1. (h + (d + pad)) % Size = (((h + d) % Size) + pad) % Size
    <3>1. h + d \in Int /\ pad \in Int
      BY <1>1, <1>2, <1>4
    <3> DEFINE f == h + d
    <3>2. h + (d + pad) = f + pad
      BY <1>1, <1>2, <1>4
    <3>3. f \in Int /\ pad \in Int /\ f = h + d
      BY <3>1
    <3> HIDE DEF f
    <3>4. (f + pad) % Size = ((f % Size) + pad) % Size
      BY <1>1, <3>3, ModTwice
    <3> QED BY <3>2, <3>3, <3>4
  <2> QED BY <1>1, <2>1 DEF flashfsAddressShift
<1>6. u \in 0 .. Pages - 1
  BY <1>1, <1>2 DEF d
<1>7. e = flashfsAddressShift(h, u * s)
  BY <1>4, <1>5
<1> HIDE DEF u, e
<1>8. e \in Address /\ Length(h, e) = u * s /\ PagesFor(Length(h, e)) = u
      /\ e = ((PageOf(h) + u) % Pages) * s
  BY <1>6, <1>7, PageAddress DEF s
<1> QED BY <1>2, <1>8 DEF u, d, s, e, pad

\* The head moves on by a sector, and the log has a sector less.
LEMMA HeadAdvances ==
    ASSUME NEW h, SectorBegin(h), NEW t \in Address, Length(h, t) >= SectorSize
    PROVE  LET g == flashfsAddressShift(h, SectorSize)
           IN  /\ SectorBegin(g) /\ Length(g, t) = Length(h, t) - SectorSize
               /\ PagesFor(Length(g, t)) = PagesFor(Length(h, t)) - PagesPerSector
               /\ PageOf(g) = (PageOf(h) + PagesPerSector) % Pages
               /\ SectorOf(g) = (SectorOf(h) + 1) % Sectors
<1> DEFINE g == flashfsAddressShift(h, SectorSize)
           d == Length(h, t)
           m == PagesPerSector
<1>a. h \in Address
  BY DEF SectorBegin
<1>b. d \in 0 .. Size - 1 /\ flashfsAddressShift(h, d) = t
  BY <1>a, LengthFacts
<1>1. /\ h \in Address /\ h \in Int /\ d \in 0 .. Size - 1 /\ flashfsAddressShift(h, d) = t
      /\ Size \in Nat /\ Size > 0 /\ SectorSize \in Nat /\ SectorSize > 0 /\ d >= SectorSize
      /\ PageSize \in Nat /\ PageSize > 0 /\ m \in Nat /\ SectorSize = m * PageSize
  BY <1>a, <1>b, Units DEF Address
<1>2. g \in Address /\ g % SectorSize = 0
  BY HeadMoves
<1>3. Length(g, t) = d - SectorSize
  <2> DEFINE c == d - SectorSize
  <2>1. c \in 0 .. Size - 1 /\ h + SectorSize \in Int /\ c \in Int
    BY <1>1
  <2>2. t = flashfsAddressShift(g, c)
    <3> DEFINE f == h + SectorSize
    <3>1. (f + c) % Size = ((f % Size) + c) % Size
      <4> HIDE DEF f, c
      <4> QED BY <1>1, <2>1, ModTwice DEF f
    <3>2. f + c = h + d
      BY <1>1
    <3> QED BY <1>1, <3>1, <3>2 DEF flashfsAddressShift
  <2> HIDE DEF c, g
  <2>3. Length(g, flashfsAddressShift(g, c)) = c
    BY <1>2, <2>1, LengthFacts
  <2> QED BY <2>2, <2>3 DEF c
<1>4. PagesFor(d - SectorSize) = PagesFor(d) - m
  <2> DEFINE s == PageSize
             q == (d + s - 1) \div s
             r == (d + s - 1) % s
             x == d - SectorSize + s - 1
  <2>1. q \in Int /\ r \in 0 .. s - 1 /\ d + s - 1 = s * q + r
    <3> DEFINE y == d + s - 1
    <3>1. y \in Int /\ s \in Nat /\ s > 0
      BY <1>1
    <3> HIDE DEF y, s
    <3>2. y \div s \in Int /\ y % s \in 0 .. s - 1 /\ y = s * (y \div s) + (y % s)
      BY <3>1
    <3> QED BY <3>2 DEF y
  <2> HIDE DEF q, r, d, s
  <2>2. (q - m) * s = s * q - m * s /\ s * q \in Int /\ m * s \in Int /\ q - m \in Int
    BY <1>1, <2>1 DEF s
  <2>3. x \in Int /\ x = (q - m) * s + r
    BY <1>1, <2>1, <2>2 DEF s
  <2> HIDE DEF x
  <2>4. x \div s = q - m
    BY <1>1, <2>1, <2>2, <2>3, DivMod DEF s
  <2> QED BY <2>4 DEF x, q, s, PagesFor
<1>5. /\ PageOf(g) = (PageOf(h) + (SectorSize \div PageSize)) % Pages
      /\ SectorOf(g) = (SectorOf(h) + (SectorSize \div SectorSize)) % Sectors
  BY <1>1, TailPlace
<1>6. SectorSize \div PageSize = m /\ SectorSize \div SectorSize = 1
  <2> DEFINE x == SectorSize
             s == PageSize
  <2>1. x \in Int /\ s \in Nat /\ s > 0 /\ x = m * s + 0 /\ 0 \in 0 .. s - 1 /\ x > 0
    BY <1>1
  <2> HIDE DEF x, s
  <2>2. x \div s = m
    BY <1>1, <2>1, DivMod
  <2>3. x \div x = 1
    BY <2>1
  <2> QED BY <2>2, <2>3 DEF x, s
<1> QED BY <1>2, <1>3, <1>4, <1>5, <1>6 DEF SectorBegin

\* A log of a sector and more does not end in the sector it begins in.
LEMMA OtherSector ==
    ASSUME NEW h, SectorBegin(h), NEW t \in Address, Length(h, t) >= SectorSize
    PROVE  SectorOf(t) # SectorOf(h)
<1> DEFINE d == Length(h, t)
           j == d \div SectorSize
           k == SectorOf(h)
           n == Sectors
           c == SectorSize
<1>1. h \in Address /\ c \in Nat /\ c > 0 /\ n \in Nat /\ n > 1 /\ Size = n * c
  BY Units DEF SectorBegin
<1>2. d \in 0 .. Size - 1 /\ flashfsAddressShift(h, d) = t
  BY <1>1, LengthFacts
<1>3. k \in 0 .. n - 1
  BY HeadPlace DEF Sector
<1>4. SectorOf(t) = (k + j) % n
  <2> HIDE DEF d
  <2>1. d \in Int
    BY <1>2
  <2> QED BY <1>2, <2>1, TailPlace
<1>5. d \in Int /\ d >= c /\ d < n * c
  BY <1>1, <1>2, Units
<1> HIDE DEF d, c, n, k
<1>6. j \in 1 .. n - 1
  <2>1. j \in Int /\ d = c * j + (d % c) /\ d % c \in 0 .. c - 1
    BY <1>1, <1>5 DEF c
  <2> HIDE DEF j
  <2>2. CASE j <= 0
    <3>1. c * j <= 0
      BY <1>1, <2>1, <2>2
    <3> QED BY <1>1, <1>5, <2>1, <3>1
  <2>3. CASE j >= n
    <3>1. c * j >= n * c
      BY <1>1, <2>1, <2>3
    <3> QED BY <1>1, <1>5, <2>1, <3>1
  <2> QED BY <1>1, <2>1, <2>2, <2>3
<1> HIDE DEF j
<1>7. (k + j) % n # k
  <2>1. CASE k + j < n
    BY <1>1, <1>3, <1>6, <2>1
  <2>2. CASE k + j >= n
    <3> DEFINE x == k + j
               y == k + j - n
    <3>1. x \in Int /\ x = 1 * n + y /\ y \in 0 .. n - 1 /\ y # k
      BY <1>1, <1>3, <1>6, <2>2
    <3> HIDE DEF x, y
    <3>2. x % n = y
      BY <1>1, <3>1, DivMod
    <3> QED BY <3>1, <3>2 DEF x
  <2> QED BY <1>1, <1>3, <1>6, <2>1, <2>2
<1> QED BY <1>4, <1>7 DEF k

-----------------------------------------------------------------------------
(* Runs of pages around the volume. *)

Run(start, length) == {(start + i) % Pages : i \in 0 .. length - 1}

\* A page is in the run when fewer pages than it has lie between its beginning and the
\* page.
LEMMA RunMember ==
    ASSUME NEW start \in Int, NEW length \in 0 .. Pages
    PROVE  /\ Run(start, length) \subseteq Page
           /\ \A p \in Page : p \in Run(start, length) <=> (p - start) % Pages < length
<1> DEFINE n == Pages
<1>1. n \in Nat /\ n > 0 /\ Page = 0 .. n - 1 /\ length \in Nat /\ length <= n
  BY Units DEF Page, Pages
<1> HIDE DEF n
<1>2. /\ \A p \in 0 .. n - 1 : (p - start) % n \in 0 .. n - 1 /\ (start + ((p - start) % n)) % n = p
      /\ \A i \in 0 .. n - 1 : (start + i) % n \in 0 .. n - 1 /\ (((start + i) % n) - start) % n = i
  BY <1>1, Between
<1>3. Run(start, length) = {(start + i) % n : i \in 0 .. length - 1}
  BY DEF Run, n
<1>4. Run(start, length) \subseteq Page
  BY <1>1, <1>2, <1>3
<1>5. ASSUME NEW p \in Page PROVE p \in Run(start, length) <=> (p - start) % n < length
  <2>1. ASSUME p \in Run(start, length) PROVE (p - start) % n < length
    <3>1. PICK i \in 0 .. length - 1 : p = (start + i) % n
      BY <1>3, <2>1
    <3>2. i \in 0 .. n - 1
      BY <1>1
    <3> QED BY <1>1, <1>2, <3>1, <3>2
  <2>2. ASSUME (p - start) % n < length PROVE p \in Run(start, length)
    <3> DEFINE i == (p - start) % n
    <3>1. i \in 0 .. n - 1 /\ (start + i) % n = p
      BY <1>1, <1>2
    <3>2. i \in 0 .. length - 1
      BY <1>1, <2>2, <3>1
    <3> QED BY <1>3, <3>1, <3>2
  <2> QED BY <2>1, <2>2
<1> QED BY <1>4, <1>5 DEF n

\* Where the next page of a run is, and its last one.
LEMMA RunNext ==
    ASSUME NEW start \in Int, NEW length \in 0 .. Pages - 1
    PROVE  /\ (start + length) % Pages \in Page
           /\ (start + length) % Pages \notin Run(start, length)
           /\ Run(start, length + 1) = Run(start, length) \cup {(start + length) % Pages}
<1> DEFINE n == Pages
<1>1. n \in Nat /\ n > 0 /\ Page = 0 .. n - 1 /\ length \in Nat /\ length < n
  BY Units DEF Page, Pages
<1>2. length \in 0 .. Pages
  BY <1>1
<1> HIDE DEF n
<1>3. (start + length) % n \in 0 .. n - 1 /\ (((start + length) % n) - start) % n = length
  <2>1. length \in 0 .. n - 1
    BY <1>1
  <2> QED BY <1>1, <2>1, Between
<1>4. (start + length) % Pages \notin Run(start, length)
  BY <1>1, <1>2, <1>3, RunMember DEF n
<1>5. 0 .. (length + 1) - 1 = (0 .. length - 1) \cup {length}
  BY <1>1
<1> QED BY <1>1, <1>3, <1>4, <1>5 DEF Run, n

\* A run loses its first pages.
LEMMA RunShrinks ==
    ASSUME NEW start \in Int, NEW length \in 0 .. Pages, NEW m \in 0 .. length
    PROVE  Run(start, length) \ Run(start, m) = Run(start + m, length - m)
<1> DEFINE n == Pages
<1>1. /\ n \in Nat /\ n > 0 /\ Page = 0 .. n - 1 /\ length \in Nat /\ length <= n
      /\ m \in Nat /\ m <= length /\ m \in 0 .. Pages /\ length - m \in 0 .. Pages /\ start + m \in Int
  BY Units DEF Page, Pages
<1>2. /\ Run(start, length) \subseteq Page /\ Run(start, m) \subseteq Page
      /\ Run(start + m, length - m) \subseteq Page
      /\ \A p \in Page : /\ p \in Run(start, length) <=> (p - start) % Pages < length
                         /\ p \in Run(start, m) <=> (p - start) % Pages < m
                         /\ p \in Run(start + m, length - m) <=> (p - (start + m)) % Pages < length - m
  BY <1>1, RunMember
<1>3. ASSUME NEW p \in Page
      PROVE  (p - (start + m)) % n < length - m
               <=> (p - start) % n < length /\ ~((p - start) % n < m)
  <2> DEFINE a == p - start
             i == a % n
             q == a \div n
             b == p - (start + m)
  <2>1. p \in Int /\ a \in Int /\ b \in Int /\ b = a - m
    BY <1>1
  <2> HIDE DEF a, b, n
  <2>2. i \in 0 .. n - 1 /\ q \in Int /\ a = n * q + i
    BY <1>1, <2>1
  <2> HIDE DEF i, q
  <2>3. CASE i >= m
    <3> DEFINE r == i - m
    <3>1. b = q * n + r /\ r \in 0 .. n - 1
      BY <1>1, <2>1, <2>2, <2>3
    <3> HIDE DEF r
    <3>2. b % n = r
      BY <1>1, <2>1, <2>2, <3>1, DivMod
    <3> QED BY <1>1, <2>2, <2>3, <3>2 DEF i, r, a, b
  <2>4. CASE i < m
    <3> DEFINE r == i - m + n
               w == q - 1
    <3>1. b = w * n + r /\ r \in 0 .. n - 1 /\ w \in Int /\ n \in Nat /\ n > 0 /\ b \in Int
      <4>1. (q - 1) * n = n * q - n /\ n * q \in Int
        BY <1>1, <2>2
      <4> QED BY <1>1, <2>1, <2>2, <2>4, <4>1
    <3> HIDE DEF r, w
    <3>2. b % n = r
      BY <3>1, DivMod
    <3> QED BY <1>1, <2>2, <2>4, <3>2 DEF i, r, a, b
  <2> QED BY <1>1, <2>2, <2>3, <2>4
<1> QED BY <1>2, <1>3 DEF n

\* It does not matter how often the beginning has gone around the volume.
LEMMA RunAround ==
    ASSUME NEW start \in Int, NEW length \in Int
    PROVE  Run(start % Pages, length) = Run(start, length)
<1>1. \A i \in 0 .. length - 1 : (start + i) % Pages = ((start % Pages) + i) % Pages
  <2> SUFFICES ASSUME NEW i \in 0 .. length - 1
               PROVE  (start + i) % Pages = ((start % Pages) + i) % Pages
    OBVIOUS
  <2>1. i \in Int
    OBVIOUS
  <2>2. Pages \in Nat /\ Pages > 0
    BY Units
  <2> QED BY <2>1, <2>2, ModTwice
<1> QED BY <1>1 DEF Run

\* Every page is in a sector, and the pages of all the sectors are all the pages.
LEMMA PageSector ==
    /\ \A p \in Page : p \div PagesPerSector \in Sector
    /\ PagesOf(Sector) = Page
<1> DEFINE m == PagesPerSector
<1>1. m \in Nat /\ m > 0 /\ Sectors \in Nat /\ Page = 0 .. (Sectors * m) - 1
  BY Units DEF Page, Pages
<1> HIDE DEF m
<1>2. ASSUME NEW p \in Page PROVE p \div m \in 0 .. Sectors - 1
  <2> DEFINE q == p \div m
             r == p % m
  <2>1. p \in Nat /\ q \in Nat /\ r \in 0 .. m - 1 /\ p < Sectors * m
    BY <1>1
  <2>2. p = m * q + r
    BY <1>1, <2>1
  <2> HIDE DEF q, r
  <2>3. ASSUME q >= Sectors PROVE FALSE
    <3>1. m * q >= m * Sectors
      BY <1>1, <2>1, <2>3
    <3> QED BY <1>1, <2>1, <2>2, <3>1
  <2>4. q \in 0 .. Sectors - 1
    BY <1>1, <2>1, <2>3
  <2> QED BY <2>4 DEF q
<1> QED BY <1>2 DEF Sector, PagesOf, m

\* The pages of a sector are a run.
LEMMA SectorRun ==
    ASSUME NEW k \in Sector
    PROVE  PagesOf({k}) = Run(k * PagesPerSector, PagesPerSector)
<1> DEFINE m == PagesPerSector
           n == Pages
<1>1. /\ m \in Nat /\ m > 0 /\ n \in Nat /\ n > 0 /\ n = Sectors * m /\ m < n
      /\ k \in Nat /\ k <= Sectors - 1 /\ Sectors \in Nat /\ Page = 0 .. n - 1
  BY Units DEF Sector, Page, Pages
<1>2. m \in 0 .. Pages /\ k * m \in Int
  BY <1>1
<1>3. (k + 1) * m <= n /\ (k + 1) * m = k * m + m /\ k * m \in Nat
  <2>1. (k + 1) * m <= Sectors * m
    BY <1>1
  <2> QED BY <1>1, <2>1
<1>4. PagesOf({k}) = {p \in Page : p \div m = k}
  BY DEF PagesOf
<1>5. /\ Run(k * m, m) \subseteq Page
      /\ \A p \in Page : p \in Run(k * m, m) <=> (p - k * m) % Pages < m
  BY <1>2, RunMember
<1> HIDE DEF m
<1>6. ASSUME NEW p \in Page PROVE p \div m = k <=> (p - k * m) % n < m
  <2> HIDE DEF n
  <2> DEFINE a == k * m
             q == p \div m
             r == p % m
             x == p - a
  <2>1. p \in Nat /\ p < n /\ a \in Nat /\ a + m <= n /\ x \in Int
    BY <1>1, <1>3
  <2>2. q \in Int /\ r \in 0 .. m - 1 /\ p = q * m + r
    <3>1. p = m * (p \div m) + (p % m)
      BY <1>1, <2>1
    <3> QED BY <1>1, <2>1, <3>1
  <2>3. q = k <=> p >= a /\ p < a + m
    <3> HIDE DEF q, r
    <3>1. CASE q <= k - 1
      <4>1. q * m <= k * m - m
        BY <1>1, <2>2, <3>1
      <4> QED BY <1>1, <2>1, <2>2, <3>1, <4>1
    <3>2. CASE q >= k + 1
      <4>1. q * m >= k * m + m
        BY <1>1, <2>2, <3>2
      <4> QED BY <1>1, <2>1, <2>2, <3>2, <4>1
    <3>3. CASE q = k
      BY <1>1, <2>1, <2>2, <3>3
    <3> QED BY <1>1, <2>2, <3>1, <3>2, <3>3
  <2> HIDE DEF a, x
  <2>4. CASE p >= a
    <3>1. x = 0 * n + x /\ x \in 0 .. n - 1
      BY <1>1, <2>1, <2>4 DEF x
    <3>2. x % n = x
      BY <1>1, <2>1, <3>1, DivMod
    <3> QED BY <2>1, <2>3, <2>4, <3>2, <1>1 DEF x, a
  <2>5. CASE p < a
    <3> DEFINE y == x + n
    <3>1. x = (-1) * n + y /\ y \in 0 .. n - 1 /\ ~(y < m)
      BY <1>1, <2>1, <2>5 DEF x
    <3> HIDE DEF y
    <3>2. x % n = y
      BY <1>1, <2>1, <3>1, DivMod
    <3> QED BY <2>1, <2>3, <2>5, <3>1, <3>2, <1>1 DEF x, a
  <2> QED BY <2>1, <2>4, <2>5
<1> QED BY <1>4, <1>5, <1>6 DEF m, n

\* The sector after another begins with the page after the other's last one.
LEMMA NextSectorPage ==
    ASSUME NEW s \in Sector
    PROVE  /\ (s + 1) % Sectors \in Sector
           /\ ((s + 1) % Sectors) * PagesPerSector = (s * PagesPerSector + PagesPerSector) % Pages
<1> DEFINE m == PagesPerSector
           c == Sectors
           k == s + 1
           x == k * m
<1>1. m \in Nat /\ m > 0 /\ c \in Nat /\ c > 0 /\ Pages = c * m /\ Sector = 0 .. c - 1
      /\ k \in Int /\ x \in Int /\ x = s * m + m
  BY Units DEF Sector
<1> HIDE DEF m, c, k
<1>2. k % c \in 0 .. c - 1
  BY <1>1
<1>3. WalkEnds(m, c, k, 0)
  <2>1. m \in Nat /\ m > 0 /\ c \in Nat /\ c > 0 /\ k \in Int /\ 0 \in Int
    BY <1>1
  <2> HIDE DEF x
  <2> QED BY <2>1, Around
<1> DEFINE n == c * m
<1>4. x % n = (((k + (0 \div m)) % c) * m) + (0 % m)
  BY <1>1, <1>3 DEF WalkEnds
<1> HIDE DEF x, n
<1>5. 0 \div m = 0 /\ 0 % m = 0 /\ k + 0 = k /\ (k % c) * m \in Int
  BY <1>1, <1>2
<1>6. x % n = (k % c) * m
  BY <1>4, <1>5
<1> QED BY <1>1, <1>2, <1>6 DEF m, c, k, n

\* A set of numbers that is not empty has a least one.
LEMMA LeastExists ==
    ASSUME NEW S, S \subseteq Nat, S # {}
    PROVE  /\ (CHOOSE s \in S : \A t \in S : s <= t) \in S
           /\ \A t \in S : (CHOOSE s \in S : \A u \in S : s <= u) <= t
<1>1. PICK x \in S : \A y \in S : ~(<<y, x>> \in OpToRel(<, Nat))
  BY NatLessThanWellFounded, WFMin
<1>2. ASSUME NEW y \in S PROVE x <= y
  <2>1. x \in Nat /\ y \in Nat
    OBVIOUS
  <2>2. ~(y < x)
    BY <1>1, <2>1 DEF OpToRel
  <2> QED BY <2>1, <2>2
<1> QED BY <1>2

\* The boot finds a head at the beginning of a sector.
LEMMA FoundHeadTyped ==
    ASSUME NEW pages
    PROVE  StartOfUsedSpace(pages) \in Address /\ StartOfUsedSpace(pages) % SectorSize = 0
<1> DEFINE boundary == {s \in Sector \ {0} : /\ s * PagesPerSector - 1 \notin pages
                                             /\ s * PagesPerSector \in pages}
           first == CHOOSE s \in boundary : \A t \in boundary : s <= t
<1>1. CASE boundary = {}
  <2>1. StartOfUsedSpace(pages) = 0
    BY <1>1 DEF StartOfUsedSpace
  <2> QED BY <2>1, GeometryNat DEF Address
<1>2. CASE boundary # {}
  <2>1. StartOfUsedSpace(pages) = first * SectorSize
    BY <1>2 DEF StartOfUsedSpace
  <2>2. Sector \subseteq Nat
    BY FlashfsAssumption DEF Sector
  <2>3. boundary \subseteq Sector
    OBVIOUS
  <2> HIDE DEF boundary
  <2>4. first \in Sector
    BY <1>2, <2>2, <2>3, LeastExists
  <2> HIDE DEF first
  <2>5. first \in Int
    BY <2>2, <2>4
  <2> QED BY <2>1, <2>4, <2>5, SectorStart
<1> QED BY <1>1, <1>2

-----------------------------------------------------------------------------
(* The boot finds the log: where a run that begins at a sector begins, and   *)
(* where it ends.                                                            *)

\* The sector that begins with data after a page without is the first of the log.
LEMMA FoundHead ==
    ASSUME NEW k \in Sector, NEW length \in 0 .. Pages - 1
    PROVE  StartOfUsedSpace(Run(k * PagesPerSector, length)) = IF length = 0 THEN 0 ELSE k * SectorSize
<1> DEFINE m == PagesPerSector
           n == Pages
           a == k * m
           pages == Run(a, length)
           boundary == {s \in Sector \ {0} : s * m - 1 \notin pages /\ s * m \in pages}
<1>1. /\ m \in Nat /\ m > 1 /\ n \in Nat /\ n > 0 /\ n = Sectors * m /\ Sectors \in Nat
      /\ Page = 0 .. n - 1 /\ Sector = 0 .. Sectors - 1
      /\ length \in Nat /\ length < n /\ length \in 0 .. Pages
  BY Units DEF Page, Pages, Sector
<1>2. StartOfUsedSpace(pages) = IF boundary = {} THEN 0
                                ELSE (CHOOSE s \in boundary : \A t \in boundary : s <= t) * SectorSize
  BY DEF StartOfUsedSpace
<1>3. \A s \in Sector : s * m \in 0 .. n - m /\ s \in Nat /\ s < Sectors
  <2> SUFFICES ASSUME NEW s \in Sector PROVE s * m \in 0 .. n - m /\ s \in Nat /\ s < Sectors
    OBVIOUS
  <2>1. s \in Nat /\ s <= Sectors - 1
    BY <1>1
  <2> HIDE DEF m, n
  <2>2. s * m <= (Sectors - 1) * m /\ (Sectors - 1) * m = n - m /\ s * m \in Nat
    BY <1>1, <2>1
  <2> QED BY <1>1, <2>1, <2>2
<1>4. a \in 0 .. n - m /\ a \in Int
  BY <1>1, <1>3
<1>5. \A p \in Page : p \in pages <=> (p - a) % n < length
  BY <1>1, <1>4, RunMember
<1> HIDE DEF m, n, a, pages
<1>6. ASSUME NEW p \in Int, p >= 1, p <= n - 1
      PROVE  p - 1 \notin pages /\ p \in pages <=> p = a /\ length > 0
  <2> DEFINE x == p - a
             y == p - 1 - a
  <2>1. p \in Page /\ p - 1 \in Page /\ x \in Int /\ y \in Int /\ y = x - 1
    BY <1>1, <1>4, <1>6
  <2>2. (p \in pages <=> x % n < length) /\ (p - 1 \in pages <=> y % n < length)
    BY <1>5, <2>1
  <2>3. CASE x = 0
    <3>1. x = 0 * n + 0 /\ 0 \in 0 .. n - 1 /\ y = (-1) * n + (n - 1) /\ n - 1 \in 0 .. n - 1
      BY <1>1, <2>1, <2>3
    <3> HIDE DEF x, y
    <3> DEFINE z == n - 1
    <3>2. y = (-1) * n + z /\ z \in 0 .. n - 1
      BY <3>1
    <3> HIDE DEF z
    <3>3. x % n = 0
      BY <1>1, <2>1, <3>1, DivMod
    <3>4. y % n = z
      BY <1>1, <2>1, <3>2, DivMod
    <3>5. p = a
      BY <1>4, <2>1, <2>3 DEF x
    <3> QED BY <1>1, <2>2, <3>3, <3>4, <3>5 DEF z
  <2>4. CASE x > 0
    <3>1. x = 0 * n + x /\ x \in 0 .. n - 1 /\ y = 0 * n + y /\ y \in 0 .. n - 1 /\ p # a
      BY <1>1, <1>4, <1>6, <2>1, <2>4
    <3> HIDE DEF x, y
    <3>2. x % n = x /\ y % n = y
      BY <1>1, <2>1, <3>1, DivMod
    <3> QED BY <1>1, <2>1, <2>2, <3>1, <3>2
  <2>5. CASE x < 0
    <3> DEFINE v == x + n
               w == y + n
    <3>1. x = (-1) * n + v /\ v \in 0 .. n - 1 /\ y = (-1) * n + w /\ w \in 0 .. n - 1 /\ p # a /\ w = v - 1
      BY <1>1, <1>4, <1>6, <2>1, <2>5
    <3> HIDE DEF x, y, v, w
    <3>2. x % n = v /\ y % n = w
      BY <1>1, <2>1, <3>1, DivMod
    <3> QED BY <1>1, <2>1, <2>2, <3>1, <3>2
  <2> QED BY <2>1, <2>3, <2>4, <2>5
<1>7. ASSUME NEW s \in Sector, s # 0
      PROVE  s \in boundary <=> s = k /\ length > 0
  <2>1. s \in Nat /\ s >= 1 /\ k \in Nat
    BY <1>3, <1>7
  <2>2. s * m >= 1 /\ s * m <= n - 1 /\ s * m \in Int
    <3>1. s * m >= m
      BY <1>1, <2>1
    <3> QED BY <1>1, <1>3, <3>1
  <2>3. s * m = a <=> s = k
    <3>1. CASE s <= k - 1
      <4>1. s * m <= k * m - m
        BY <1>1, <2>1, <3>1
      <4>2. s * m # k * m
        BY <1>1, <2>1, <2>2, <4>1
      <4> QED BY <2>1, <3>1, <4>2 DEF a
    <3>2. CASE s >= k + 1
      <4>1. s * m >= k * m + m
        BY <1>1, <2>1, <3>2
      <4>2. s * m # k * m
        BY <1>1, <2>1, <2>2, <4>1
      <4> QED BY <2>1, <3>2, <4>2 DEF a
    <3> QED BY <2>1, <3>1, <3>2 DEF a
  <2> QED BY <1>6, <1>7, <2>2, <2>3
<1>8. boundary \subseteq Sector /\ 0 \notin boundary
  OBVIOUS
<1>9. k \in Nat /\ SectorSize \in Nat
  BY <1>3, Units
<1> HIDE DEF boundary
<1>10. CASE length = 0 \/ k = 0
  <2>1. boundary = {}
    BY <1>1, <1>7, <1>8, <1>10
  <2>2. StartOfUsedSpace(pages) = 0
    BY <1>2, <2>1
  <2> QED BY <1>9, <1>10, <2>2 DEF pages, a, m
<1>11. CASE length # 0 /\ k # 0
  <2>1. boundary = {k}
    <3>1. length > 0
      BY <1>1, <1>11
    <3>2. k \in boundary
      BY <1>7, <1>11, <3>1
    <3>3. \A s \in boundary : s = k
      BY <1>7, <1>8
    <3> QED BY <3>2, <3>3
  <2>2. (CHOOSE s \in boundary : \A t \in boundary : s <= t) = k
    BY <1>9, <2>1
  <2>3. StartOfUsedSpace(pages) = k * SectorSize
    BY <1>2, <2>1, <2>2
  <2> QED BY <1>11, <2>3 DEF pages, a, m
<1> QED BY <1>10, <1>11

\* What holds for 0, and with a number for the next one, holds for every number.
LEMMA NatInductionOnSets ==
    ASSUME NEW S, 0 \in S, \A n \in Nat : n \in S => n + 1 \in S
    PROVE  \A n \in Nat : n \in S
<1> DEFINE T == Nat \ S
           x == CHOOSE s \in T : \A t \in T : s <= t
<1> SUFFICES ASSUME T # {} PROVE FALSE
  OBVIOUS
<1>1. x \in T /\ \A t \in T : x <= t
  <2>1. T \subseteq Nat
    OBVIOUS
  <2> HIDE DEF T
  <2> QED BY <2>1, LeastExists
<1> HIDE DEF x
<1>2. x \in Nat /\ x # 0 /\ x - 1 \in Nat
  BY <1>1
<1>3. x - 1 \in T
  BY <1>1, <1>2
<1> QED BY <1>1, <1>2, <1>3

\* The binary search of flashfsIdentifyStartOfFreeSpace() ends with the page after the
\* log, which is never the one before the head.
LEMMA FoundTail ==
    ASSUME NEW h, SectorBegin(h), NEW length \in 0 .. Pages - 1
    PROVE  StartOfFreeSpace(Run(PageOf(h), length), h) = ((PageOf(h) + length) % Pages) * PageSize
<1> DEFINE pages == Run(PageOf(h), length)
           last == Sectors * PagesPerSector - 1
           A == 0 .. last
           W == A \X A
           Turn(f, w) == LET left == w[1]  right == w[2]  mid == (left + right) \div 2
                         IN  IF left >= right THEN right
                             ELSE IF PageAfter(h, mid) \notin pages THEN f[<<left, mid>>]
                             ELSE f[<<mid + 1, right>>]
           Eq(f) == f = [w \in (0 .. last) \X (0 .. last) |->
                           LET left == w[1]  right == w[2]  mid == (left + right) \div 2
                           IN  IF left >= right THEN right
                               ELSE IF PageAfter(h, mid) \notin pages THEN f[<<left, mid>>]
                               ELSE f[<<mid + 1, right>>]]
           g == [w \in W |-> IF w[1] >= w[2] THEN w[2]
                             ELSE IF length <= w[1] THEN w[1]
                             ELSE IF length >= w[2] THEN w[2] ELSE length]
           s == CHOOSE f : Eq(f)
<1>1. /\ Pages \in Nat /\ Pages > 0 /\ last = Pages - 1 /\ last \in Nat /\ PageOf(h) \in Int
      /\ length \in A /\ length \in Nat /\ length \in 0 .. Pages
      /\ Page = 0 .. last
  BY Units, HeadPlace DEF Pages, Page
<1>2. \A mid \in A : PageAfter(h, mid) \notin pages <=> mid >= length
  <2> SUFFICES ASSUME NEW mid \in A PROVE PageAfter(h, mid) \notin pages <=> mid >= length
    OBVIOUS
  <2>1. mid \in 0 .. Pages - 1 /\ mid \in Nat
    BY <1>1
  <2>2. PageAfter(h, mid) = (PageOf(h) + mid) % Pages
    BY DEF PageAfter, Pages
  <2>3. /\ (PageOf(h) + mid) % Pages \in 0 .. Pages - 1
        /\ (((PageOf(h) + mid) % Pages) - PageOf(h)) % Pages = mid
    BY <1>1, <2>1, Between
  <2>4. (PageOf(h) + mid) % Pages \in Page
    BY <1>1, <2>3
  <2>5. (PageOf(h) + mid) % Pages \in pages <=> mid < length
    BY <1>1, <2>3, <2>4, RunMember
  <2> QED BY <1>1, <2>1, <2>2, <2>5
<1> HIDE DEF pages
<1>3. \A l, r \in A : l < r => LET mid == (l + r) \div 2
                               IN  mid \in A /\ mid + 1 \in A /\ l <= mid /\ mid < r
  <2> HIDE DEF last
  <2> SUFFICES ASSUME NEW l \in A, NEW r \in A, l < r
               PROVE  (l + r) \div 2 \in A /\ ((l + r) \div 2) + 1 \in A
                      /\ l <= (l + r) \div 2 /\ (l + r) \div 2 < r
    OBVIOUS
  <2> QED BY <1>1
<1>4. \A l, r \in A : g[<<l, r>>] = IF l >= r THEN r
                                  ELSE IF length <= l THEN l
                                  ELSE IF length >= r THEN r ELSE length
  OBVIOUS
<1>5. Eq(g)
  <2>1. ASSUME NEW l \in A, NEW r \in A PROVE g[<<l, r>>] = Turn(g, <<l, r>>)
    <3> HIDE DEF g, last
    <3> DEFINE mid == (l + r) \div 2
    <3>1. CASE l >= r
      BY <1>4, <3>1
    <3>2. CASE l < r
      <4>1. /\ mid \in A /\ mid + 1 \in A /\ l <= mid /\ mid < r /\ (PageAfter(h, mid) \notin pages <=> mid >= length)
            /\ l \in Int /\ r \in Int /\ mid \in Int
        BY <1>2, <1>3, <3>2
      <4>0. /\ length \in Int /\ l \in Int /\ r \in Int
            /\ g[<<l, r>>] = IF length <= l THEN l ELSE IF length >= r THEN r ELSE length
        BY <1>1, <1>4, <3>2, <4>1
      <4>2. Turn(g, <<l, r>>) = IF PageAfter(h, mid) \notin pages THEN g[<<l, mid>>] ELSE g[<<mid + 1, r>>]
        BY <3>2, <4>1
      <4> HIDE DEF mid
      <4>3. CASE mid >= length
        <5>1. Turn(g, <<l, r>>) = g[<<l, mid>>]
          BY <4>1, <4>2, <4>3
        <5>2. g[<<l, mid>>] = IF l >= mid THEN mid
                              ELSE IF length <= l THEN l
                              ELSE IF length >= mid THEN mid ELSE length
          BY <1>4, <4>1
        <5> HIDE DEF Turn, A, pages
        <5> QED BY <3>2, <4>0, <4>1, <4>3, <5>1, <5>2
      <4>4. CASE mid < length
        <5>1. Turn(g, <<l, r>>) = g[<<mid + 1, r>>]
          BY <1>1, <4>1, <4>2, <4>4
        <5>2. g[<<mid + 1, r>>] = IF mid + 1 >= r THEN r
                                  ELSE IF length <= mid + 1 THEN mid + 1
                                  ELSE IF length >= r THEN r ELSE length
          BY <1>4, <4>1
        <5> HIDE DEF Turn, A, pages
        <5> QED BY <3>2, <4>0, <4>1, <4>4, <5>1, <5>2
      <4> QED BY <1>1, <4>1, <4>3, <4>4
    <3>3. l \in Int /\ r \in Int
      BY <1>1
    <3> QED BY <3>1, <3>2, <3>3
  <2>2. \A w \in W : g[w] = Turn(g, w)
    <3> SUFFICES ASSUME NEW w \in W PROVE g[w] = Turn(g, w)
      OBVIOUS
    <3>1. PICK l \in A, r \in A : w = <<l, r>>
      OBVIOUS
    <3> HIDE DEF g, Turn
    <3> QED BY <2>1, <3>1
  <2>3. g = [w \in W |-> g[w]]
    OBVIOUS
  <2> HIDE DEF g
  <2> QED BY <2>2, <2>3
<1>6. StartOfFreeSpace(pages, h) = PageAfter(h, s[<<0, last>>]) * PageSize
  BY DEF StartOfFreeSpace
<1> HIDE DEF g
<1>7. Eq(s)
  BY <1>5
<1> HIDE DEF s
<1>8. \A l, r \in A : s[<<l, r>>] = Turn(s, <<l, r>>)
  BY <1>7
<1> DEFINE S == {n \in Nat : \A l, r \in A : l <= length /\ length <= r /\ r - l <= n => s[<<l, r>>] = length}
<1> HIDE DEF last
<1>9. \A n \in Nat : n \in S
  <2>0. ASSUME NEW l \in A, NEW r \in A, l <= length, length <= r, l >= r PROVE s[<<l, r>>] = length
    <3>1. s[<<l, r>>] = r
      BY <1>8, <2>0
    <3> QED BY <1>1, <2>0, <3>1
  <2>1. 0 \in S
    <3> HIDE DEF Turn
    <3> QED BY <1>1, <2>0
  <2>2. ASSUME NEW n \in Nat, n \in S PROVE n + 1 \in S
    <3> SUFFICES ASSUME NEW l \in A, NEW r \in A, l <= length, length <= r, r - l <= n + 1
                 PROVE  s[<<l, r>>] = length
      OBVIOUS
    <3> DEFINE mid == (l + r) \div 2
    <3>1. CASE l >= r
      BY <2>0, <3>1
    <3>2. CASE l < r
      <4>1. mid \in A /\ mid + 1 \in A /\ l <= mid /\ mid < r /\ (PageAfter(h, mid) \notin pages <=> mid >= length)
        BY <1>2, <1>3, <3>2
      <4>2. s[<<l, r>>] = IF PageAfter(h, mid) \notin pages THEN s[<<l, mid>>] ELSE s[<<mid + 1, r>>]
        BY <1>1, <1>8, <3>2
      <4> HIDE DEF mid
      <4>3. CASE mid >= length
        <5>1. mid - l <= n
          BY <1>1, <4>1
        <5> QED BY <2>2, <4>1, <4>2, <4>3, <5>1
      <4>4. CASE mid < length
        <5>1. r - (mid + 1) <= n /\ mid + 1 <= length
          BY <1>1, <4>1, <4>4
        <5>2. ~(mid >= length)
          BY <1>1, <4>1, <4>4
        <5> QED BY <2>2, <4>1, <4>2, <5>1, <5>2
      <4> QED BY <1>1, <4>1, <4>3, <4>4
    <3> QED BY <1>1, <3>1, <3>2
  <2> HIDE DEF S
  <2> QED BY <2>1, <2>2, NatInductionOnSets
<1>10. s[<<0, last>>] = length
  <2>1. last \in S
    BY <1>1, <1>9
  <2> QED BY <1>1, <2>1
<1> QED BY <1>6, <1>10 DEF pages, PageAfter, Pages
=============================================================================
