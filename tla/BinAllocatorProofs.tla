------------------------- MODULE BinAllocatorProofs -------------------------
(***************************************************************************)
(* The general allocator, for every page size, every ascending sequence of  *)
(* bins that divide a page, every set of pages and every sequence of calls. *)
(***************************************************************************)
EXTENDS BinAllocator, FiniteSetTheorems, NaturalsInduction,
        WellFoundedInduction, TLAPS

-----------------------------------------------------------------------------
(* Numbers.                                                                *)

\* Division by a positive number.
LEMMA Parts ==
    ASSUME NEW e \in Nat \ {0}, NEW v \in Nat
    PROVE  /\ v = (v \div e) * e + (v % e)
           /\ v \div e \in Nat
           /\ v % e \in 0 .. e - 1
OBVIOUS

\* Quotient and remainder are determined by the sum.
LEMMA Unique ==
    ASSUME NEW e \in Nat \ {0}, NEW q \in Nat, NEW r \in 0 .. e - 1
    PROVE  (q * e + r) \div e = q /\ (q * e + r) % e = r
OBVIOUS

\* Factors of products keep their order.
LEMMA Products ==
    ASSUME NEW e \in Nat \ {0}, NEW p \in Nat, NEW q \in Nat
    PROVE  /\ p * e \in Nat
           /\ p < q => p * e + e <= q * e
           /\ p <= q => p * e <= q * e
<1>1. p * e \in Nat /\ q * e \in Nat
  OBVIOUS
<1>2. ASSUME p < q
      PROVE  p * e + e <= q * e
  <2>1. PICK d \in Nat : q = p + 1 + d
    <3>1. q - p - 1 \in Nat /\ q = p + 1 + (q - p - 1)
      BY <1>2
    <3> QED BY <3>1
  <2>2. q * e = p * e + e + d * e /\ d * e \in Nat
    BY <2>1
  <2> QED BY <1>1, <2>2
<1> QED BY <1>1, <1>2

\* A set of numbers has a smallest element.
LEMMA Smallest ==
    ASSUME NEW T \in SUBSET Nat, T # {}
    PROVE  \E x \in T : \A y \in T : x <= y
<1>1. PICK x \in T : \A y \in T : ~(<<y, x>> \in OpToRel(<, Nat))
  BY WFMin, NatLessThanWellFounded
<1>2. ASSUME NEW y \in T
      PROVE  x <= y
  <2>1. x \in Nat /\ y \in Nat /\ <<y, x>> \in Nat \X Nat
    OBVIOUS
  <2>2. ~(y < x)
    BY <1>1, <2>1, Zenon DEF OpToRel
  <2> QED BY <2>1, <2>2
<1> QED BY <1>2

-----------------------------------------------------------------------------
(* Addresses, pages and bins.                                              *)

\* The sizes.
LEMMA Sizes ==
    /\ PageUnits \in Nat \ {0}
    /\ Pages \subseteq Nat \ {0}
    /\ Requests \subseteq Nat
    /\ \A b \in Bins : /\ b \in Nat \ {0} /\ 1 .. b \subseteq Bins
                       /\ BinSizes[b] \in Nat \ {0}
                       /\ BinSizes[b] < PageUnits
                       /\ PageUnits % BinSizes[b] = 0
BY BinsAssumption DEF Bins

\* The addresses are the units of the pages, numbers that are no NULL.
LEMMA AddressesAre ==
    /\ \A a : a \in Addresses <=> \E page \in Pages : a \in Units(page)
    /\ Addresses \subseteq Nat \ {0}
    /\ NULL \notin Addresses /\ Junk \notin Addresses
    /\ \A page \in Pages : /\ PageStart(page) \in Nat \ {0}
                           /\ PageStart(page) \in Units(page)
                           /\ Units(page) \subseteq Addresses
<1>1. \A a : a \in Addresses <=> \E page \in Pages : a \in Units(page)
  BY Zenon DEF Addresses
<1>2. \A page \in Pages : PageStart(page) \in Nat \ {0}
  BY Sizes DEF PageStart
<1>3. \A page \in Pages : /\ PageStart(page) \in Units(page)
                          /\ Units(page) \subseteq Nat \ {0}
  BY Sizes, <1>2 DEF Units
<1>4. Addresses \subseteq Nat \ {0} /\ \A page \in Pages : Units(page) \subseteq Addresses
  BY <1>1, <1>3
<1> QED BY <1>1, <1>2, <1>3, <1>4 DEF NULL, Junk

\* There are finitely many.
LEMMA AddressesFinite == IsFiniteSet(Addresses)
<1> DEFINE f == [page \in Pages |-> Units(page)]
           US == {Units(page) : page \in Pages}
<1>1. f \in Surjection(Pages, US)
  BY DEF Surjection
<1>2. IsFiniteSet(US)
  BY <1>1, FS_Surjection, BinsAssumption
<1>3. \A T \in US : IsFiniteSet(T)
  <2> SUFFICES ASSUME NEW page \in Pages
               PROVE  IsFiniteSet(Units(page))
    OBVIOUS
  <2>1. PageStart(page) \in Int /\ PageStart(page) + PageUnits - 1 \in Int
    BY Sizes, AddressesAre
  <2> QED BY <2>1, FS_Interval DEF Units
<1> HIDE DEF US
<1>4. IsFiniteSet(UNION US)
  BY <1>2, <1>3, FS_UNION
<1> QED BY <1>4 DEF US, Addresses

\* Two pages have no unit in common.
LEMMA PagesApart ==
    ASSUME NEW p \in Pages, NEW q \in Pages, p # q
    PROVE  Units(p) \cap Units(q) = {}
<1>1. /\ PageUnits \in Nat \ {0} /\ p \in Nat /\ q \in Nat
      /\ p * PageUnits \in Nat /\ q * PageUnits \in Nat
  BY Sizes
<1>2. p < q => p * PageUnits + PageUnits <= q * PageUnits
  BY <1>1, Products
<1>3. q < p => q * PageUnits + PageUnits <= p * PageUnits
  BY <1>1, Products
<1> DEFINE x == p * PageUnits
           y == q * PageUnits
<1>4. (x + PageUnits <= y \/ y + PageUnits <= x) /\ x \in Nat /\ y \in Nat
  BY <1>1, <1>2, <1>3
<1> HIDE DEF x, y
<1>5. (x .. x + PageUnits - 1) \cap (y .. y + PageUnits - 1) = {}
  BY <1>1, <1>4
<1> QED BY <1>5 DEF x, y, Units, PageStart

\* bin_index returns a bin that is large enough, or 0 for what no bin can hold.
LEMMA BinIndexIs ==
    ASSUME NEW n \in Nat
    PROVE  /\ bin_index(n) # 0 => bin_index(n) \in Bins /\ n <= BinSizes[bin_index(n)]
           /\ bin_index(n) = 0 => n # 0
<1>1. CASE \E b \in Bins : n <= BinSizes[b]
  <2> DEFINE T == {b \in Bins : n <= BinSizes[b]}
  <2>1. T \in SUBSET Nat /\ T # {}
    BY <1>1, Sizes
  <2>2. PICK b \in T : \A c \in T : b <= c
    BY <2>1, Smallest
  <2>3. b \in Bins /\ n <= BinSizes[b] /\ \A c \in 1 .. b - 1 : n > BinSizes[c]
    <3>1. \A c \in 1 .. b - 1 : c \in Bins /\ c \notin T /\ BinSizes[c] \in Nat
      BY <2>2, Sizes
    <3> QED BY <3>1, <2>2
  <2>4. bin_index(n) = CHOOSE c \in Bins : n <= BinSizes[c] /\ \A d \in 1 .. c - 1 : n > BinSizes[d]
    BY <1>1 DEF bin_index
  <2>5. bin_index(n) \in Bins /\ n <= BinSizes[bin_index(n)]
    BY <2>3, <2>4, Zenon
  <2> QED BY <2>5, Sizes
<1>2. CASE ~\E b \in Bins : n <= BinSizes[b]
  <2>1. bin_index(n) = 0
    BY <1>2 DEF bin_index
  <2>2. PICK b \in Bins : TRUE
    BY BinsAssumption DEF Bins
  <2> QED BY <1>2, <2>1, <2>2, Sizes
<1> QED BY <1>1, <1>2

-----------------------------------------------------------------------------
(* The chunks of a page.                                                   *)

\* The chunks are where the quotients of their bin are.
LEMMA ChunkPlaces ==
    ASSUME NEW page \in Pages, NEW b \in Bins
    PROVE  \E m \in Nat \ {0} :
              /\ PageUnits = m * BinSizes[b]
              /\ Len(ChunksDown(page, BinSizes[b])) = m
              /\ DOMAIN ChunksDown(page, BinSizes[b]) = 1 .. m
              /\ \A k \in 1 .. m :
                    ChunksDown(page, BinSizes[b])[k] = PageStart(page) + (m - k) * BinSizes[b]
<1> DEFINE size == BinSizes[b]
           m == PageUnits \div size
<1>1. size \in Nat \ {0} /\ PageUnits \in Nat \ {0} /\ PageUnits % size = 0
  BY Sizes
<1>2. PageUnits = m * size + (PageUnits % size) /\ m \in Nat
  BY <1>1, Parts
<1>3. PageUnits = m * size /\ m # 0
  BY <1>1, <1>2
<1>4. /\ Len(ChunksDown(page, size)) = m
      /\ DOMAIN ChunksDown(page, size) = 1 .. m
      /\ \A k \in 1 .. m : ChunksDown(page, size)[k] = PageStart(page) + PageUnits - k * size
  BY <1>2 DEF ChunksDown
<1> HIDE DEF size, m
<1>5. \A k \in 1 .. m : PageStart(page) + PageUnits - k * size = PageStart(page) + (m - k) * size
  BY <1>1, <1>2, <1>3, AddressesAre
<1>6. \A k \in 1 .. m : ChunksDown(page, size)[k] = PageStart(page) + (m - k) * size
  BY <1>4, <1>5
<1> QED BY <1>2, <1>3, <1>4, <1>6 DEF size

\* A chunk has its first unit.
LEMMA StartInChunk ==
    ASSUME NEW b \in Bins, NEW a \in Addresses
    PROVE  a \in ChunkUnits(a, b)
<1>1. BinSizes[b] \in Nat \ {0} /\ a \in Nat
  BY Sizes, AddressesAre
<1> QED BY <1>1 DEF ChunkUnits

\* The pushes of init_bin_page cut the page: its chunks are aligned, they do not
\* overlap, and they cover the page.
LEMMA ChunksCutPage ==
    ASSUME NEW page \in Pages, NEW b \in Bins,
           NEW s, s = ChunksDown(page, BinSizes[b])
    PROVE  /\ s \in Seq(Addresses) /\ Len(s) \in Nat \ {0}
           /\ \A k \in 1 .. Len(s) : is_aligned_to_bin(s[k], BinSizes[b])
           /\ \A j, k \in 1 .. Len(s) :
                 j # k => ChunkUnits(s[j], b) \cap ChunkUnits(s[k], b) = {}
           /\ \A u : u \in Units(page) <=> \E k \in 1 .. Len(s) : u \in ChunkUnits(s[k], b)
<1> DEFINE size == BinSizes[b]
           start == PageStart(page)
<1>1. PICK m \in Nat \ {0} :
         /\ PageUnits = m * size
         /\ Len(s) = m /\ DOMAIN s = 1 .. m
         /\ \A k \in 1 .. m : s[k] = start + (m - k) * size
  BY ChunkPlaces
<1>2. size \in Nat \ {0} /\ PageUnits \in Nat \ {0} /\ start \in Nat /\ page \in Nat
  BY Sizes, AddressesAre
<1>3. start = page * PageUnits /\ Units(page) = start .. start + PageUnits - 1
  BY DEF PageStart, Units
<1>4. \A a : ChunkUnits(a, b) = a .. a + size - 1
  BY DEF ChunkUnits
<1> HIDE DEF size, start
<1>5. ASSUME NEW k \in 1 .. m
      PROVE  (m - k) * size \in 0 .. PageUnits - size
  <2>1. m - k \in Nat /\ m - k < m
    OBVIOUS
  <2>2. (m - k) * size \in Nat /\ (m - k) * size + size <= m * size
    BY <1>2, <2>1, Products
  <2> QED BY <1>1, <1>2, <2>2
<1>6. ASSUME NEW k \in 1 .. m
      PROVE  is_aligned_to_bin(s[k], size) /\ s[k] \in Units(page)
  <2>1. (m - k) * size \in 0 .. PageUnits - 1 /\ m - k \in Nat
    BY <1>2, <1>5
  <2> DEFINE r == (m - k) * size
  <2>2. s[k] = page * PageUnits + r
    BY <1>1, <1>3
  <2>3. r % size = 0
    <3>1. (m - k) * size + 0 = r /\ 0 \in 0 .. size - 1
      BY <1>2, <2>1
    <3>2. ((m - k) * size + 0) % size = 0
      BY <1>2, <2>1, <3>1, Unique
    <3> QED BY <3>1, <3>2
  <2> HIDE DEF r
  <2>4. s[k] % PageUnits = r
    BY <1>2, <2>1, <2>2, Unique DEF r
  <2>5. s[k] \in Units(page)
    BY <1>2, <1>3, <2>1, <2>2 DEF r
  <2> QED BY <2>3, <2>4, <2>5 DEF is_aligned_to_bin
<1>7. ASSUME NEW j \in 1 .. m, NEW k \in 1 .. m, j < k
      PROVE  ChunkUnits(s[j], b) \cap ChunkUnits(s[k], b) = {}
  <2>1. m - k \in Nat /\ m - j \in Nat /\ m - k < m - j
    BY <1>7
  <2>2. (m - k) * size + size <= (m - j) * size
    BY <1>2, <2>1, Products
  <2>3. (m - k) * size \in Nat /\ (m - j) * size \in Nat
    BY <1>2, <1>5
  <2> DEFINE x == (m - k) * size
             y == (m - j) * size
  <2>4. x + size <= y /\ x \in Nat /\ y \in Nat /\ s[k] = start + x /\ s[j] = start + y
    BY <1>1, <2>2, <2>3
  <2> HIDE DEF x, y
  <2> QED BY <1>2, <1>4, <2>4
<1>8. ASSUME NEW u \in Units(page)
      PROVE  \E k \in 1 .. m : u \in ChunkUnits(s[k], b)
  <2> DEFINE v == u - start
             q == v \div size
  <2>1. v \in Nat /\ v < PageUnits /\ u = start + v
    BY <1>2, <1>3
  <2>2. v = q * size + (v % size) /\ q \in Nat /\ v % size \in 0 .. size - 1
    BY <1>2, <2>1, Parts
  <2> HIDE DEF v, q
  <2>3. q < m
    <3> SUFFICES ASSUME m <= q
                 PROVE  FALSE
      BY <2>2
    <3>1. m * size <= q * size
      BY <1>2, <2>2, Products
    <3>2. q * size <= v
      BY <1>2, <2>1, <2>2
    <3> DEFINE x == q * size
    <3>3. PageUnits <= x /\ x <= v /\ x \in Nat
      BY <1>1, <1>2, <2>2, <3>1, <3>2
    <3> HIDE DEF x
    <3> QED BY <1>2, <2>1, <3>3
  <2>4. m - q \in 1 .. m /\ s[m - q] = start + q * size
    <3>1. m - q \in 1 .. m /\ m - (m - q) = q
      BY <2>2, <2>3
    <3> QED BY <1>1, <3>1
  <2>5. u \in s[m - q] .. s[m - q] + size - 1
    <3> DEFINE x == q * size
               r == v % size
    <3>1. x \in Nat /\ r \in 0 .. size - 1 /\ v = x + r /\ s[m - q] = start + x
      BY <1>2, <2>2, <2>4
    <3> HIDE DEF x, r
    <3> QED BY <1>2, <2>1, <3>1
  <2> QED BY <1>4, <2>4, <2>5
<1>9. ASSUME NEW k \in 1 .. m, NEW u \in ChunkUnits(s[k], b)
      PROVE  u \in Units(page)
  <2> DEFINE x == (m - k) * size
  <2>1. x \in 0 .. PageUnits - size /\ s[k] = start + x
    BY <1>1, <1>5
  <2> HIDE DEF x
  <2> QED BY <1>2, <1>3, <1>4, <2>1
<1>10. s \in Seq(Addresses) /\ Len(s) \in Nat \ {0}
  <2>1. \A k \in 1 .. m : s[k] \in Addresses
    BY <1>6, AddressesAre
  <2>2. s = [k \in 1 .. m |-> s[k]]
    BY <1>1 DEF ChunksDown
  <2>3. [k \in 1 .. m |-> s[k]] \in [1 .. m -> Addresses]
    BY <2>1
  <2>4. s \in [1 .. m -> Addresses]
    BY <2>2, <2>3
  <2> QED BY <1>1, <2>4
<1>11. \A j, k \in 1 .. m : j # k => ChunkUnits(s[j], b) \cap ChunkUnits(s[k], b) = {}
  <2> SUFFICES ASSUME NEW j \in 1 .. m, NEW k \in 1 .. m, j # k
               PROVE  ChunkUnits(s[j], b) \cap ChunkUnits(s[k], b) = {}
    OBVIOUS
  <2>1. CASE j < k
    BY <2>1, <1>7
  <2>2. CASE k < j
    BY <2>2, <1>7
  <2> QED BY <2>1, <2>2
<1>12. \A u : u \in Units(page) <=> \E k \in 1 .. m : u \in ChunkUnits(s[k], b)
  BY <1>8, <1>9
<1> QED BY <1>1, <1>6, <1>10, <1>11, <1>12 DEF size

-----------------------------------------------------------------------------
(* Memory is partitioned: pieces are handed from one owner to another.      *)

\* A piece of memory: a page that the page allocator has, a block that a caller
\* holds, or a free chunk, given by its bin and its address.
PagePiece(page) == <<"page", page, 0>>
BlockPiece(x) == <<"block", x.ptr, x.n>>
ChunkPiece(b, c) == <<"chunk", b, c>>

\* The pieces when the free chunks of bin b are the elements of free[b].
Pieces(free, lv, av) ==
    {PagePiece(page) : page \in av}
      \cup {BlockPiece(x) : x \in lv}
      \cup UNION {{ChunkPiece(b, free[b][k]) : k \in 1 .. Len(free[b])} : b \in Bins}

PieceUnits(p) ==
    IF p[1] = "page" THEN Units(p[2])
    ELSE IF p[1] = "block" THEN BlockUnits([ptr |-> p[2], n |-> p[3]])
    ELSE ChunkUnits(p[3], p[2])

\* Every unit is in exactly one of the pieces.
Partition(P) ==
    /\ \A p, q \in P : p # q => PieceUnits(p) \cap PieceUnits(q) = {}
    /\ \A u : u \in Addresses <=> \E p \in P : u \in PieceUnits(p)

\* Q is P with the pieces A replaced by the pieces B, which have the same units.
Exchanged(P, Q, A, B) ==
    /\ A \subseteq P
    /\ \A p, q \in B : p # q => PieceUnits(p) \cap PieceUnits(q) = {}
    /\ \A u : (\E p \in A : u \in PieceUnits(p)) <=> (\E p \in B : u \in PieceUnits(p))
    /\ \A p : p \in Q <=> (p \in P /\ p \notin A) \/ p \in B

\* What was a partition stays one.
LEMMA Exchange ==
    ASSUME NEW P, NEW Q, NEW A, NEW B, Partition(P), Exchanged(P, Q, A, B)
    PROVE  Partition(Q)
<1> USE DEF Exchanged
<1>1. ASSUME NEW p \in P, p \notin A, NEW q \in B
      PROVE  PieceUnits(p) \cap PieceUnits(q) = {}
  <2> SUFFICES ASSUME NEW u \in PieceUnits(p), u \in PieceUnits(q)
               PROVE  FALSE
    OBVIOUS
  <2>1. PICK r \in A : u \in PieceUnits(r)
    OBVIOUS
  <2>2. r \in P /\ r # p
    BY <1>1
  <2> QED BY <2>1, <2>2 DEF Partition
<1>2. ASSUME NEW p \in Q, NEW q \in Q, p # q
      PROVE  PieceUnits(p) \cap PieceUnits(q) = {}
  <2>1. CASE p \in B /\ q \in B
    BY <1>2, <2>1
  <2>2. CASE p \notin B /\ q \in B
    BY <1>1, <2>2
  <2>3. CASE p \in B /\ q \notin B
    <3>1. PieceUnits(q) \cap PieceUnits(p) = {}
      BY <1>1, <2>3
    <3> QED BY <3>1
  <2>4. CASE p \notin B /\ q \notin B
    BY <1>2, <2>4 DEF Partition
  <2> QED BY <2>1, <2>2, <2>3, <2>4
<1>3. ASSUME NEW u
      PROVE  u \in Addresses <=> \E p \in Q : u \in PieceUnits(p)
  <2>1. ASSUME u \in Addresses
        PROVE  \E p \in Q : u \in PieceUnits(p)
    <3>1. PICK p \in P : u \in PieceUnits(p)
      BY <2>1 DEF Partition
    <3> QED BY <3>1
  <2>2. ASSUME NEW p \in Q, u \in PieceUnits(p)
        PROVE  u \in Addresses
    <3>1. \E r \in P : u \in PieceUnits(r)
      BY <2>2
    <3> QED BY <3>1 DEF Partition
  <2> QED BY <2>1, <2>2
<1> QED BY <1>2, <1>3 DEF Partition

-----------------------------------------------------------------------------
(* Blocks of the page allocator.                                           *)

\* The number of pages that n units take.
PageCount(n) == (n + PageUnits - 1) \div PageUnits

\* They are enough, and one less is not.
LEMMA PageCountIs ==
    ASSUME NEW n \in Nat \ {0}
    PROVE  /\ PageCount(n) \in Nat \ {0}
           /\ n <= PageCount(n) * PageUnits
           /\ (PageCount(n) - 1) * PageUnits < n
<1> DEFINE v == n + PageUnits - 1
           q == v \div PageUnits
           r == v % PageUnits
<1>1. PageUnits \in Nat \ {0} /\ v \in Nat
  BY Sizes
<1>2. v = q * PageUnits + r /\ q \in Nat /\ r \in 0 .. PageUnits - 1
  BY <1>1, Parts
<1>3. n = v - PageUnits + 1
  BY <1>1
<1> HIDE DEF v, q, r
<1>4. q # 0
  <2> SUFFICES ASSUME q = 0
               PROVE  FALSE
    OBVIOUS
  <2> QED BY <1>1, <1>2, <1>3
<1>5. n <= q * PageUnits /\ (q - 1) * PageUnits = q * PageUnits - PageUnits
  BY <1>1, <1>2, <1>3
<1>6. (q - 1) * PageUnits < n
  <2> DEFINE x == q * PageUnits
  <2>1. v = x + r /\ x \in Nat /\ (q - 1) * PageUnits = x - PageUnits
    BY <1>1, <1>2, <1>5
  <2> HIDE DEF x
  <2> QED BY <1>1, <1>2, <1>3, <2>1
<1> QED BY <1>2, <1>4, <1>5, <1>6 DEF PageCount, q, v

\* An interval of m numbers.
LEMMA IntervalSize ==
    ASSUME NEW a \in Nat, NEW m \in Nat \ {0}
    PROVE  IsFiniteSet(a .. a + m - 1) /\ Cardinality(a .. a + m - 1) = m
<1>1. PICK z \in Int : z = a + m - 1 /\ a <= z /\ z - a + 1 = m
  <2>1. a + m - 1 \in Int /\ a <= a + m - 1 /\ a + m - 1 - a + 1 = m
    OBVIOUS
  <2> QED BY <2>1
<1>2. IsFiniteSet(a .. z) /\ Cardinality(a .. z) = IF a > z THEN 0 ELSE z - a + 1
  BY FS_Interval
<1>3. Cardinality(a .. z) = m
  BY <1>1, <1>2
<1> QED BY <1>1, <1>2, <1>3

\* The pages of a block that starts with a page, and their units.
LEMMA PagesOfIs ==
    ASSUME NEW first \in Pages, NEW n \in Nat \ {0}, NEW x, x.ptr = PageStart(first), x.n = n,
           first .. first + PageCount(n) - 1 \subseteq Pages
    PROVE  /\ PagesOf(x) = first .. first + PageCount(n) - 1
           /\ Cardinality(PagesOf(x)) = PageCount(n)
           /\ \A u : (\E page \in PagesOf(x) : u \in Units(page))
                       <=> u \in x.ptr .. x.ptr + PageCount(n) * PageUnits - 1
           /\ x.ptr .. x.ptr + n - 1 \subseteq x.ptr .. x.ptr + PageCount(n) * PageUnits - 1
<1> DEFINE m == PageCount(n)
           start == PageStart(first)
<1>1. /\ PageUnits \in Nat \ {0} /\ first \in Nat \ {0} /\ m \in Nat \ {0}
      /\ n <= m * PageUnits /\ (m - 1) * PageUnits < n
      /\ first .. first + m - 1 \subseteq Pages
  BY Sizes, PageCountIs
<1>2. start = first * PageUnits /\ start \in Nat /\ x.ptr = start
  BY <1>1 DEF PageStart
<1> HIDE DEF m, start
<1>3. /\ (first + m) * PageUnits = start + m * PageUnits
      /\ (first + m - 1) * PageUnits = start + (m - 1) * PageUnits
      /\ m * PageUnits \in Nat /\ (m - 1) * PageUnits \in Nat
  BY <1>1, <1>2
<1> DEFINE end == m * PageUnits
           last == (m - 1) * PageUnits
<1>4. ASSUME NEW page \in Pages
      PROVE  PageStart(page) \in start .. start + n - 1 <=> page \in first .. first + m - 1
  <2> DEFINE p == page * PageUnits
  <2>1. page \in Nat \ {0} /\ PageStart(page) = p /\ p \in Nat
    BY Sizes DEF PageStart
  <2>2. page < first => p + PageUnits <= start
    BY <1>1, <1>2, <2>1, Products
  <2>3. first <= page => start <= p
    BY <1>1, <1>2, <2>1, Products
  <2>4. first + m <= page => start + end <= p
    <3>1. first + m \in Nat
      BY <1>1
    <3>2. first + m <= page => (first + m) * PageUnits <= p
      BY <1>1, <2>1, <3>1, Products
    <3> QED BY <1>3, <3>2
  <2>5. page <= first + m - 1 => p <= start + last
    <3>1. first + m - 1 \in Nat
      BY <1>1
    <3>2. page <= first + m - 1 => p <= (first + m - 1) * PageUnits
      BY <1>1, <2>1, <3>1, Products
    <3> QED BY <1>3, <3>2
  <2>6. end \in Nat /\ last \in Nat /\ n <= end /\ last < n
    BY <1>1, <1>3
  <2> HIDE DEF p, end, last
  <2>7. p \in start .. start + n - 1 => page \in first .. first + m - 1
    BY <1>1, <1>2, <2>1, <2>2, <2>4, <2>6
  <2>8. page \in first .. first + m - 1 => p \in start .. start + n - 1
    BY <1>1, <1>2, <2>1, <2>3, <2>5, <2>6
  <2> QED BY <2>1, <2>7, <2>8
<1>5. PagesOf(x) = first .. first + m - 1
  BY <1>1, <1>2, <1>4 DEF PagesOf
<1>6. Cardinality(first .. first + m - 1) = m
  BY <1>1, IntervalSize
<1>7. ASSUME NEW page \in first .. first + m - 1, NEW u \in Units(page)
      PROVE  u \in start .. start + end - 1
  <2> DEFINE p == page * PageUnits
  <2>1. page \in Nat /\ first + m - 1 \in Nat /\ p \in Nat /\ u \in p .. p + PageUnits - 1
    BY <1>1 DEF Units, PageStart
  <2>2. start <= p
    BY <1>1, <1>2, <2>1, Products
  <2>3. p <= (first + m - 1) * PageUnits
    BY <1>1, <2>1, Products
  <2>4. p <= start + last /\ last + PageUnits = end /\ end \in Nat /\ last \in Nat
    BY <1>1, <1>3, <2>3
  <2> HIDE DEF p, end, last
  <2> QED BY <1>1, <1>2, <2>1, <2>2, <2>4
<1>8. ASSUME NEW u \in start .. start + end - 1
      PROVE  \E page \in first .. first + m - 1 : u \in Units(page)
  <2> DEFINE q == u \div PageUnits
             r == u % PageUnits
             p == q * PageUnits
  <2>0. end \in Nat
    BY <1>3
  <2> HIDE DEF end
  <2>1. u \in Nat /\ start <= u /\ u < start + end
    BY <1>2, <2>0
  <2>2. u = q * PageUnits + r /\ q \in Nat /\ r \in 0 .. PageUnits - 1
    BY <1>1, <2>1, Parts
  <2> HIDE DEF q, r
  <2>3. p \in Nat /\ u \in p .. p + PageUnits - 1
    BY <1>1, <2>2
  <2>4. q < first => p + PageUnits <= start
    BY <1>1, <1>2, <2>2, Products
  <2>5. first + m <= q => start + end <= p
    <3>1. first + m \in Nat
      BY <1>1
    <3>2. first + m <= q => (first + m) * PageUnits <= p
      BY <1>1, <2>2, <3>1, Products
    <3> QED BY <1>3, <3>2 DEF end
  <2> HIDE DEF p
  <2>6. q \in first .. first + m - 1
    BY <1>1, <1>2, <2>0, <2>1, <2>2, <2>3, <2>4, <2>5
  <2>7. u \in Units(q)
    BY <2>3 DEF Units, PageStart, p
  <2> QED BY <2>6, <2>7
<1>9. \A u : (\E page \in PagesOf(x) : u \in Units(page)) <=> u \in start .. start + end - 1
  BY <1>5, <1>7, <1>8
<1>10. start .. start + n - 1 \subseteq start .. start + end - 1
  <2>1. end \in Nat /\ n <= end
    BY <1>1, <1>3
  <2> HIDE DEF end
  <2> QED BY <1>2, <2>1
<1> QED BY <1>2, <1>5, <1>6, <1>9, <1>10 DEF m

\* What the page allocator returns is an interval of pages that starts with the
\* smallest.
LEMMA RunIs ==
    ASSUME NEW av \in SUBSET Pages, NEW n \in Nat \ {0}, NEW run \in SUBSET av,
           Cardinality(run) = PageCount(n), \A p, q \in run : p .. q \subseteq run,
           NEW first, first = CHOOSE p \in run : \A q \in run : p <= q
    PROVE  first \in run /\ run = first .. first + PageCount(n) - 1
<1>1. PageCount(n) \in Nat \ {0} /\ run \in SUBSET Nat /\ IsFiniteSet(run)
  <2>1. run \subseteq Pages
    OBVIOUS
  <2> QED BY <2>1, PageCountIs, Sizes, FS_Subset, BinsAssumption
<1>2. run # {}
  BY <1>1, FS_EmptySet
<1>3. first \in run /\ \A q \in run : first <= q
  BY <1>1, <1>2, Smallest
<1> DEFINE m == PageCount(n)
<1> HIDE DEF m
<1>4. first \in Nat /\ m \in Nat \ {0} /\ Cardinality(run) = m
  BY <1>1, <1>3 DEF m
<1>5. \A q \in run : q < first + m
  <2> SUFFICES ASSUME NEW q \in run, first + m <= q
               PROVE  FALSE
    BY <1>1, <1>4
  <2>1. first .. q \subseteq run /\ q \in Nat
    BY <1>1, <1>3
  <2>2. Cardinality(first .. q) = q - first + 1
    <3>1. first \in Int /\ q \in Int /\ ~(first > q)
      BY <1>3, <1>4, <2>1
    <3> QED BY <3>1, FS_Interval
  <2>3. Cardinality(first .. q) <= Cardinality(run)
    BY <1>1, <2>1, FS_Subset
  <2> QED BY <1>4, <2>1, <2>2, <2>3
<1>6. run \subseteq first .. first + m - 1
  <2> SUFFICES ASSUME NEW q \in run
               PROVE  q \in first .. first + m - 1
    OBVIOUS
  <2>1. q \in Nat /\ first <= q /\ q < first + m
    BY <1>1, <1>3, <1>5
  <2> QED BY <1>4, <2>1
<1>7. /\ IsFiniteSet(first .. first + m - 1)
      /\ Cardinality(first .. first + m - 1) = Cardinality(run)
  BY <1>4, IntervalSize
<1>8. run = first .. first + m - 1
  BY <1>6, <1>7, FS_Subset
<1> QED BY <1>3, <1>8 DEF m

-----------------------------------------------------------------------------
(* Free lists.                                                             *)

Lists == [heads : [Bins -> Addresses \cup {NULL}],
          next : [Addresses -> Addresses \cup {NULL, Junk}]]

\* The element at a place of a stack; NULL is what lies below the first one.
At(s, k) == IF k = 0 THEN NULL ELSE s[k]

\* The free list of bin b holds the chunks of the stack s, the last one at its
\* head: every link leads to the chunk that was at the head when it was written.
Linked(l, b, s) ==
    /\ l.heads[b] = At(s, Len(s))
    /\ \A k \in 1 .. Len(s) : l.next[s[k]] = At(s, k - 1)

\* The list of a bin: no chunk is in it twice, and all of them are aligned.
FreeList(l, b, s) ==
    /\ s \in Seq(Addresses)
    /\ Linked(l, b, s)
    /\ \A j, k \in 1 .. Len(s) : s[j] = s[k] => j = k
    /\ \A k \in 1 .. Len(s) : is_aligned_to_bin(s[k], BinSizes[b])

\* What push does.
LEMMA PushIs ==
    ASSUME NEW l \in Lists, NEW node \in Addresses, NEW b \in Bins
    PROVE  /\ push(l, node, b) \in Lists
           /\ push(l, node, b).heads[b] = node
           /\ push(l, node, b).next[node] = l.heads[b]
           /\ \A c \in Bins \ {b} : push(l, node, b).heads[c] = l.heads[c]
           /\ \A a \in Addresses \ {node} : push(l, node, b).next[a] = l.next[a]
<1>1. l.heads \in [Bins -> Addresses \cup {NULL}]
      /\ l.next \in [Addresses -> Addresses \cup {NULL, Junk}]
  BY DEF Lists
<1>2. /\ push(l, node, b).heads = [l.heads EXCEPT ![b] = node]
      /\ push(l, node, b).next = [l.next EXCEPT ![node] = l.heads[b]]
  BY DEF push
<1>3. [l.heads EXCEPT ![b] = node] \in [Bins -> Addresses \cup {NULL}]
  BY <1>1
<1>4. [l.next EXCEPT ![node] = l.heads[b]] \in [Addresses -> Addresses \cup {NULL, Junk}]
  BY <1>1
<1>5. push(l, node, b) \in Lists
  BY <1>3, <1>4 DEF push, Lists
<1> QED BY <1>1, <1>2, <1>5

\* What pop does to a list that is not empty, when its first link is one.
LEMMA PopIs ==
    ASSUME NEW l \in Lists, NEW b \in Bins, l.heads[b] \in Addresses,
           l.next[l.heads[b]] # Junk
    PROVE  /\ pop(l, b) \in Lists
           /\ pop(l, b).heads[b] = l.next[l.heads[b]]
           /\ pop(l, b).next = l.next
           /\ \A c \in Bins \ {b} : pop(l, b).heads[c] = l.heads[c]
<1>1. l.heads \in [Bins -> Addresses \cup {NULL}]
      /\ l.next \in [Addresses -> Addresses \cup {NULL, Junk}]
  BY DEF Lists
<1>2. l.next[l.heads[b]] \in Addresses \cup {NULL}
  BY <1>1
<1>3. /\ pop(l, b).heads = [l.heads EXCEPT ![b] = l.next[l.heads[b]]]
      /\ pop(l, b).next = l.next
      /\ pop(l, b) = [heads |-> pop(l, b).heads, next |-> pop(l, b).next]
  BY DEF pop, Lists
<1>4. [l.heads EXCEPT ![b] = l.next[l.heads[b]]] \in [Bins -> Addresses \cup {NULL}]
  BY <1>1, <1>2
<1>5. pop(l, b) \in Lists
  BY <1>1, <1>3, <1>4 DEF Lists
<1> QED BY <1>1, <1>3, <1>5

\* What data does to the links.
LEMMA FillIs ==
    ASSUME NEW l \in Lists, NEW ptr, NEW size
    PROVE  /\ Fill(l, ptr, size) \in Lists
           /\ Fill(l, ptr, size).heads = l.heads
           /\ \A a \in Addresses : a \notin ptr .. ptr + size - 1
                 => Fill(l, ptr, size).next[a] = l.next[a]
<1> DEFINE nx == [a \in Addresses |-> IF a \in ptr .. ptr + size - 1 THEN Junk ELSE l.next[a]]
<1>1. l.heads \in [Bins -> Addresses \cup {NULL}]
      /\ l.next \in [Addresses -> Addresses \cup {NULL, Junk}]
  BY DEF Lists
<1>2. nx \in [Addresses -> Addresses \cup {NULL, Junk}]
  BY <1>1
<1>3. Fill(l, ptr, size) = [l EXCEPT !.next = nx]
  BY DEF Fill
<1>4. \A a \in Addresses : a \notin ptr .. ptr + size - 1 => nx[a] = l.next[a]
  OBVIOUS
<1> HIDE DEF nx
<1>5. Fill(l, ptr, size).heads = l.heads /\ Fill(l, ptr, size).next = nx
      /\ Fill(l, ptr, size) \in Lists
  BY <1>2, <1>3 DEF Lists
<1> QED BY <1>4, <1>5

\* A list of which nothing has been written stays.
LEMMA ListKept ==
    ASSUME NEW l, NEW r, NEW b \in Bins, NEW s, FreeList(l, b, s),
           r.heads[b] = l.heads[b],
           \A k \in 1 .. Len(s) : r.next[s[k]] = l.next[s[k]]
    PROVE  FreeList(r, b, s)
BY DEF FreeList, Linked

\* A chunk that is pushed on the list it is not in.
LEMMA PushLinked ==
    ASSUME NEW l \in Lists, NEW b \in Bins, NEW s, FreeList(l, b, s),
           NEW node \in Addresses, is_aligned_to_bin(node, BinSizes[b]),
           \A k \in 1 .. Len(s) : s[k] # node
    PROVE  FreeList(push(l, node, b), b, Append(s, node))
<1> DEFINE r == push(l, node, b)
           t == Append(s, node)
           m == Len(s)
<1>1. /\ s \in Seq(Addresses) /\ m \in Nat
      /\ \A k \in 1 .. m : s[k] \in Addresses
      /\ l.heads[b] = At(s, m)
      /\ \A k \in 1 .. m : l.next[s[k]] = At(s, k - 1)
      /\ \A j, k \in 1 .. m : s[j] = s[k] => j = k
      /\ \A k \in 1 .. m : is_aligned_to_bin(s[k], BinSizes[b])
  BY DEF FreeList, Linked
<1>2. /\ r.heads[b] = node /\ r.next[node] = l.heads[b]
      /\ \A a \in Addresses \ {node} : r.next[a] = l.next[a]
  BY PushIs
<1>3. /\ t \in Seq(Addresses) /\ Len(t) = m + 1 /\ t[m + 1] = node
      /\ \A k \in 1 .. m : t[k] = s[k]
  BY <1>1
<1> HIDE DEF r, t, m
<1>4. \A k \in 0 .. m : At(t, k) = At(s, k)
  BY <1>1, <1>3 DEF At
<1>5. r.heads[b] = At(t, m + 1)
  BY <1>1, <1>2, <1>3 DEF At
<1>6. ASSUME NEW k \in 1 .. m + 1
      PROVE  r.next[t[k]] = At(t, k - 1) /\ is_aligned_to_bin(t[k], BinSizes[b])
  <2>1. CASE k = m + 1
    <3>1. k - 1 = m /\ m \in 0 .. m
      BY <1>1, <2>1
    <3> QED BY <1>1, <1>2, <1>3, <1>4, <2>1, <3>1
  <2>2. CASE k # m + 1
    <3>1. k \in 1 .. m /\ k - 1 \in 0 .. m
      BY <1>1, <2>2
    <3>2. t[k] = s[k] /\ s[k] \in Addresses \ {node}
      BY <1>1, <1>3, <3>1 DEF m
    <3>3. r.next[t[k]] = l.next[s[k]]
      BY <1>2, <3>2
    <3>4. l.next[s[k]] = At(t, k - 1)
      BY <1>1, <1>4, <3>1
    <3> QED BY <1>1, <3>1, <3>2, <3>3, <3>4
  <2> QED BY <2>1, <2>2
<1>7. ASSUME NEW j \in 1 .. m + 1, NEW k \in 1 .. m + 1, t[j] = t[k]
      PROVE  j = k
  <2>1. \A i \in 1 .. m + 1 : i # m + 1 => i \in 1 .. m
    BY <1>1
  <2>2. \A i \in 1 .. m : t[i] # node
    BY <1>3 DEF m
  <2> QED BY <1>1, <1>3, <1>7, <2>1, <2>2
<1> QED BY <1>3, <1>5, <1>6, <1>7 DEF FreeList, Linked, r, t

\* The stack without its last element.
Popped(s) == [k \in 1 .. Len(s) - 1 |-> s[k]]

\* The first chunk of a list is taken.
LEMMA PopLinked ==
    ASSUME NEW l \in Lists, NEW b \in Bins, NEW s, FreeList(l, b, s), l.heads[b] # NULL
    PROVE  /\ Len(s) \in Nat \ {0} /\ l.heads[b] = s[Len(s)] /\ l.heads[b] \in Addresses
           /\ l.next[l.heads[b]] # Junk
           /\ FreeList(pop(l, b), b, Popped(s))
           /\ Len(Popped(s)) = Len(s) - 1
<1> DEFINE r == pop(l, b)
           t == Popped(s)
           m == Len(s)
<1>1. /\ s \in Seq(Addresses) /\ m \in Nat
      /\ \A k \in 1 .. m : s[k] \in Addresses
      /\ l.heads[b] = At(s, m)
      /\ \A k \in 1 .. m : l.next[s[k]] = At(s, k - 1)
      /\ \A j, k \in 1 .. m : s[j] = s[k] => j = k
      /\ \A k \in 1 .. m : is_aligned_to_bin(s[k], BinSizes[b])
  BY DEF FreeList, Linked
<1> HIDE DEF m
<1>2. m # 0 /\ m \in 1 .. m /\ l.heads[b] = s[m] /\ s[m] \in Addresses
  BY <1>1 DEF At
<1>3. l.next[s[m]] = At(s, m - 1) /\ At(s, m - 1) # Junk
  <2>1. m - 1 = 0 \/ m - 1 \in 1 .. m
    BY <1>1, <1>2
  <2>2. At(s, m - 1) = NULL \/ At(s, m - 1) \in Addresses
    BY <1>1, <2>1 DEF At
  <2> QED BY <1>1, <1>2, <2>2, AddressesAre DEF NULL, Junk
<1>4. r.heads[b] = At(s, m - 1) /\ r.next = l.next
  BY <1>2, <1>3, PopIs
<1>5. /\ t \in Seq(Addresses) /\ Len(t) = m - 1
      /\ \A k \in 1 .. m - 1 : t[k] = s[k] /\ k \in 1 .. m
  <2>1. t = [k \in 1 .. m - 1 |-> s[k]] /\ m - 1 \in Nat
    BY <1>1, <1>2 DEF Popped, m
  <2>2. \A k \in 1 .. m - 1 : k \in 1 .. m /\ s[k] \in Addresses
    BY <1>1
  <2>3. t \in [1 .. m - 1 -> Addresses]
    BY <2>1, <2>2
  <2> HIDE DEF t
  <2> QED BY <2>1, <2>2, <2>3
<1> HIDE DEF r, t
<1>6. \A k \in 0 .. m - 1 : At(t, k) = At(s, k)
  BY <1>1, <1>2, <1>5 DEF At
<1>7. r.heads[b] = At(t, m - 1)
  <2>1. m - 1 \in 0 .. m - 1
    BY <1>1, <1>2
  <2> QED BY <1>4, <1>6, <2>1
<1>8. \A k \in 1 .. m - 1 : r.next[t[k]] = At(t, k - 1)
  <2> SUFFICES ASSUME NEW k \in 1 .. m - 1
               PROVE  r.next[t[k]] = At(t, k - 1)
    OBVIOUS
  <2>1. k - 1 \in 0 .. m - 1 /\ k \in 1 .. m
    BY <1>1, <1>2
  <2> QED BY <1>1, <1>4, <1>5, <1>6, <2>1
<1>9. FreeList(r, b, t)
  BY <1>1, <1>5, <1>7, <1>8 DEF FreeList, Linked
<1> QED BY <1>1, <1>2, <1>3, <1>5, <1>9 DEF r, t, m

\* init_bin_page fills an empty list with the chunks of its page, and writes
\* nothing else.  The lists after k pushes exist and are what they should be, by the
\* first k for which they would not.
LEMMA InitBinPageIs ==
    ASSUME NEW l \in Lists, NEW page \in Pages, NEW b \in Bins, l.heads[b] = NULL
    PROVE  /\ init_bin_page(l, page, b) \in Lists
           /\ FreeList(init_bin_page(l, page, b), b, ChunksDown(page, BinSizes[b]))
           /\ \A c \in Bins \ {b} : init_bin_page(l, page, b).heads[c] = l.heads[c]
           /\ \A a \in Addresses \ Units(page) :
                 init_bin_page(l, page, b).next[a] = l.next[a]
<1> DEFINE s == ChunksDown(page, BinSizes[b])
           n == Len(s)
           Step(g, k) == IF k = 0 THEN l ELSE push(g[k - 1], s[k], b)
           Eq(g, m) == g = [k \in 0 .. m |-> Step(g, k)]
<1>0. /\ s \in Seq(Addresses) /\ n \in Nat \ {0}
      /\ \A k \in 1 .. n : s[k] \in Addresses /\ s[k] \in Units(page)
      /\ \A k \in 1 .. n : is_aligned_to_bin(s[k], BinSizes[b])
      /\ \A j, k \in 1 .. n : s[j] = s[k] => j = k
  <2>1. /\ s \in Seq(Addresses) /\ n \in Nat \ {0}
        /\ \A k \in 1 .. n : is_aligned_to_bin(s[k], BinSizes[b])
        /\ \A j, k \in 1 .. n : j # k => ChunkUnits(s[j], b) \cap ChunkUnits(s[k], b) = {}
        /\ \A u : u \in Units(page) <=> \E k \in 1 .. n : u \in ChunkUnits(s[k], b)
    BY ChunksCutPage
  <2> HIDE DEF s, n
  <2>2. \A k \in 1 .. n : s[k] \in Addresses
    BY <2>1 DEF n
  <2>3. \A k \in 1 .. n : s[k] \in ChunkUnits(s[k], b)
    BY <2>2, StartInChunk
  <2>4. \A k \in 1 .. n : s[k] \in Units(page)
    BY <2>1, <2>3
  <2>5. \A j, k \in 1 .. n : s[j] = s[k] => j = k
    BY <2>1, <2>3
  <2> QED BY <2>1, <2>2, <2>4, <2>5
<1>1. init_bin_page(l, page, b) = (CHOOSE g : Eq(g, n))[n]
  BY DEF init_bin_page
<1> HIDE DEF n, s
<1>2. \A m \in 0 .. n : \E g : Eq(g, m)
  <2> DEFINE Bad == {m \in 0 .. n : ~\E g : Eq(g, m)}
  <2> SUFFICES ASSUME Bad # {}
               PROVE  FALSE
    OBVIOUS
  <2> HIDE DEF Eq
  <2>0. Bad \in SUBSET Nat /\ \A m : m \in Bad <=> m \in 0 .. n /\ ~\E g : Eq(g, m)
    BY <1>0
  <2> HIDE DEF Bad
  <2>1. PICK m \in Bad : \A y \in Bad : m <= y
    BY <2>0, Smallest
  <2>2. m # 0
    <3> DEFINE e == [k \in 0 .. 0 |-> l]
    <3>1. Eq(e, 0)
      <4>1. \A k \in 0 .. 0 : Step(e, k) = l
        OBVIOUS
      <4> QED BY <4>1 DEF Eq
    <3> QED BY <2>0, <2>1, <3>1
  <2>3. m \in 1 .. n /\ m - 1 \in 0 .. n /\ m - 1 \notin Bad
    <3>1. m \in 0 .. n
      BY <2>0, <2>1
    <3> QED BY <1>0, <2>1, <2>2, <3>1
  <2>4. PICK g : Eq(g, m - 1)
    BY <2>0, <2>3
  <2> DEFINE h == [k \in 0 .. m |-> IF k = m THEN Step(g, m) ELSE g[k]]
  <2>5. \A k \in 0 .. m : h[k] = Step(h, k)
    <3> SUFFICES ASSUME NEW k \in 0 .. m
                 PROVE  h[k] = Step(h, k)
      OBVIOUS
    <3>1. k # 0 => k - 1 \in 0 .. m - 1
      BY <1>0, <2>3
    <3>2. k # 0 => h[k - 1] = g[k - 1]
      BY <1>0, <2>3, <3>1
    <3>3. Step(h, k) = Step(g, k)
      BY <3>2
    <3>4. k # m => g[k] = Step(g, k)
      <4>1. k # m => k \in 0 .. m - 1
        BY <1>0, <2>3
      <4>2. \A j \in 0 .. m - 1 : g[j] = Step(g, j)
        <5> HIDE DEF Step
        <5> QED BY <2>4 DEF Eq
      <4> QED BY <4>1, <4>2
    <3> QED BY <3>3, <3>4
  <2>6. Eq(h, m)
    <3> HIDE DEF Step
    <3> QED BY <2>5 DEF Eq
  <2> QED BY <2>0, <2>1, <2>6
<1> DEFINE f == CHOOSE g : Eq(g, n)
<1>3. Eq(f, n)
  <2> HIDE DEF Eq
  <2>1. n \in 0 .. n
    BY <1>0
  <2>2. \E g : Eq(g, n)
    BY <1>2, <2>1, Zenon
  <2> QED BY <2>2
<1> HIDE DEF f
<1>4. \A k \in 0 .. n : f[k] = Step(f, k)
  <2> HIDE DEF Step
  <2> QED BY <1>3
<1> HIDE DEF Eq
<1> DEFINE Filled(r, k) ==
              /\ r \in Lists
              /\ r.heads[b] = At(s, k)
              /\ \A j \in 1 .. k : r.next[s[j]] = At(s, j - 1)
              /\ \A c \in Bins \ {b} : r.heads[c] = l.heads[c]
              /\ \A a \in Addresses \ Units(page) : r.next[a] = l.next[a]
<1>5. \A k \in 0 .. n : Filled(f[k], k)
  <2> DEFINE Bad == {k \in 0 .. n : ~Filled(f[k], k)}
  <2> SUFFICES ASSUME Bad # {}
               PROVE  FALSE
    OBVIOUS
  <2> HIDE DEF Filled
  <2>0. Bad \in SUBSET Nat /\ \A k : k \in Bad <=> k \in 0 .. n /\ ~Filled(f[k], k)
    BY <1>0
  <2> HIDE DEF Bad
  <2>1. PICK m \in Bad : \A y \in Bad : m <= y
    BY <2>0, Smallest
  <2>2. m \in 0 .. n /\ ~Filled(f[m], m)
    BY <2>0, <2>1
  <2>3. m # 0
    <3> SUFFICES ASSUME m = 0
                 PROVE  FALSE
      OBVIOUS
    <3>1. f[0] = l
      BY <1>0, <1>4
    <3>2. Filled(l, 0)
      BY DEF Filled, At
    <3> QED BY <2>2, <3>1, <3>2
  <2>4. m \in 1 .. n /\ m - 1 \in 0 .. n /\ m - 1 \notin Bad
    BY <1>0, <2>1, <2>2, <2>3
  <2>5. PICK q : q = f[m - 1] /\ Filled(q, m - 1)
    BY <2>0, <2>4
  <2>6. PICK r : r = f[m] /\ r = push(q, s[m], b)
    BY <1>4, <2>2, <2>3, <2>5
  <2>7. s[m] \in Addresses /\ s[m] \in Units(page) /\ q \in Lists
    BY <1>0, <2>4, <2>5 DEF Filled
  <2>8. /\ r \in Lists /\ r.heads[b] = s[m] /\ r.next[s[m]] = q.heads[b]
        /\ \A c \in Bins \ {b} : r.heads[c] = q.heads[c]
        /\ \A a \in Addresses \ {s[m]} : r.next[a] = q.next[a]
    BY <2>6, <2>7, PushIs
  <2>9. ASSUME NEW j \in 1 .. m
        PROVE  r.next[s[j]] = At(s, j - 1)
    <3>1. CASE j = m
      BY <2>5, <2>8, <3>1 DEF Filled
    <3>2. CASE j # m
      <4>1. j \in 1 .. m - 1 /\ j \in 1 .. n
        BY <1>0, <2>4, <3>2
      <4>2. s[j] \in Addresses \ {s[m]}
        BY <1>0, <2>4, <3>2, <4>1
      <4> QED BY <2>5, <2>8, <4>1, <4>2 DEF Filled
    <3> QED BY <3>1, <3>2
  <2>10. Filled(r, m)
    <3>1. r.heads[b] = At(s, m)
      BY <2>3, <2>8 DEF At
    <3>2. \A c \in Bins \ {b} : r.heads[c] = l.heads[c]
      BY <2>5, <2>8 DEF Filled
    <3>3. \A a \in Addresses \ Units(page) : r.next[a] = l.next[a]
      <4>1. \A a \in Addresses \ Units(page) : r.next[a] = q.next[a]
        BY <2>7, <2>8
      <4> QED BY <2>5, <4>1 DEF Filled
    <3> QED BY <2>8, <2>9, <3>1, <3>2, <3>3 DEF Filled
  <2> QED BY <2>2, <2>6, <2>10
<1>6. Filled(f[n], n) /\ init_bin_page(l, page, b) = f[n]
  <2>1. n \in 0 .. n
    BY <1>0
  <2>2. Filled(f[n], n)
    <3> HIDE DEF Filled
    <3> QED BY <1>5, <2>1
  <2> QED BY <1>1, <2>2 DEF f
<1>7. FreeList(f[n], b, s)
  BY <1>0, <1>6 DEF FreeList, Linked, n
<1> QED BY <1>6, <1>7 DEF s

-----------------------------------------------------------------------------
(* Following the links of a list.                                          *)

\* Where a walk down the stack is after k links, and all it has passed.
Passed(s, k) ==
    [i \in 1 .. (IF k < Len(s) THEN k ELSE Len(s)) + 1 |-> At(s, Len(s) + 1 - i)]

\* A stack of distinct addresses is not higher than there are addresses.
LEMMA StackFits ==
    ASSUME NEW s \in Seq(Addresses), \A j, k \in 1 .. Len(s) : s[j] = s[k] => j = k
    PROVE  /\ Len(s) \in Nat /\ Cardinality(Addresses) \in Nat
           /\ Len(s) <= Cardinality(Addresses)
<1> DEFINE n == Len(s)
<1>1. n \in Nat /\ s \in [1 .. n -> Addresses] /\ DOMAIN s = 1 .. n
  OBVIOUS
<1> HIDE DEF n
<1>2. s \in Injection(1 .. n, Addresses)
  BY <1>1 DEF Injection, IsInjective, n
<1>3. Cardinality(1 .. n) <= Cardinality(Addresses)
  BY <1>2, AddressesFinite, FS_Injection
<1>4. Cardinality(1 .. n) = n
  <2>1. CASE n = 0
    <3>1. 1 .. n = {}
      BY <2>1
    <3> QED BY <2>1, <3>1, FS_EmptySet
  <2>2. CASE n # 0
    <3>1. 1 .. n = 1 .. 1 + n - 1 /\ n \in Nat \ {0}
      BY <1>1, <2>2
    <3> QED BY <3>1, IntervalSize
  <2> QED BY <2>1, <2>2
<1> QED BY <1>1, <1>3, <1>4, AddressesFinite, FS_CardinalityType DEF n

\* One link more.
LEMMA PassedStep ==
    ASSUME NEW l, NEW b \in Bins, NEW s, FreeList(l, b, s), NEW k \in Nat
    PROVE  /\ Passed(s, 0) = <<l.heads[b]>>
           /\ k # 0 => Passed(s, k) =
                 IF Last(Passed(s, k - 1)) \in Addresses
                 THEN Append(Passed(s, k - 1), l.next[Last(Passed(s, k - 1))])
                 ELSE Passed(s, k - 1)
<1> DEFINE n == Len(s)
<1>1. /\ s \in Seq(Addresses) /\ n \in Nat
      /\ \A j \in 1 .. n : s[j] \in Addresses
      /\ l.heads[b] = At(s, n)
      /\ \A j \in 1 .. n : l.next[s[j]] = At(s, j - 1)
  BY DEF FreeList, Linked
<1>2. \A j \in Nat : Passed(s, j) = [i \in 1 .. (IF j < n THEN j ELSE n) + 1 |-> At(s, n + 1 - i)]
  BY DEF Passed
<1> HIDE DEF n
<1>3. Passed(s, 0) = <<l.heads[b]>>
  <2>1. (IF 0 < n THEN 0 ELSE n) + 1 = 1
    BY <1>1
  <2>2. Passed(s, 0) = [i \in 1 .. 1 |-> At(s, n + 1 - i)]
    BY <1>2, <2>1
  <2>3. n + 1 - 1 = n
    BY <1>1
  <2>4. [i \in 1 .. 1 |-> At(s, n + 1 - i)] = <<At(s, n)>>
    <3> HIDE DEF At
    <3> QED BY <2>3
  <2> QED BY <1>1, <2>2, <2>4
<1>4. ASSUME k # 0, k <= n
      PROVE  /\ Last(Passed(s, k - 1)) \in Addresses
             /\ Passed(s, k) = Append(Passed(s, k - 1), l.next[Last(Passed(s, k - 1))])
  <2> DEFINE w == Passed(s, k - 1)
  <2>1. k - 1 \in Nat /\ (IF k - 1 < n THEN k - 1 ELSE n) + 1 = k
        /\ (IF k < n THEN k ELSE n) + 1 = k + 1
    BY <1>1, <1>4
  <2>2. w = [i \in 1 .. k |-> At(s, n + 1 - i)]
        /\ Passed(s, k) = [i \in 1 .. k + 1 |-> At(s, n + 1 - i)]
    BY <1>2, <2>1
  <2>3. n + 1 - k \in 1 .. n /\ n + 1 - k # 0 /\ n + 1 - (k + 1) = n + 1 - k - 1
    BY <1>1, <1>4
  <2>4. Len(w) = k /\ w[k] = At(s, n + 1 - k) /\ Last(w) = s[n + 1 - k]
    <3>1. Len(w) = k /\ w[k] = At(s, n + 1 - k)
      <4> HIDE DEF w
      <4> QED BY <1>4, <2>2
    <3> HIDE DEF w
    <3> QED BY <2>3, <3>1 DEF Last, At
  <2>5. Last(w) \in Addresses /\ l.next[Last(w)] = At(s, n + 1 - (k + 1))
    BY <1>1, <2>3, <2>4
  <2> DEFINE x == At(s, n + 1 - (k + 1))
  <2>6. Append(w, x) = [i \in 1 .. k + 1 |-> At(s, n + 1 - i)]
    <3> HIDE DEF w, At
    <3> QED BY <2>2
  <2> QED BY <2>2, <2>5, <2>6
<1>5. ASSUME k # 0, n < k
      PROVE  Last(Passed(s, k - 1)) \notin Addresses /\ Passed(s, k) = Passed(s, k - 1)
  <2> DEFINE w == Passed(s, k - 1)
  <2>1. k - 1 \in Nat /\ (IF k - 1 < n THEN k - 1 ELSE n) + 1 = n + 1
        /\ (IF k < n THEN k ELSE n) + 1 = n + 1 /\ n + 1 - (n + 1) = 0
    BY <1>1, <1>5
  <2>2. w = [i \in 1 .. n + 1 |-> At(s, n + 1 - i)] /\ Passed(s, k) = w
    BY <1>2, <2>1
  <2>3. Len(w) = n + 1 /\ w[n + 1] = At(s, 0)
    <3> HIDE DEF w, At
    <3> QED BY <1>1, <2>1, <2>2
  <2>4. Last(w) = NULL
    <3> HIDE DEF w
    <3> QED BY <2>3 DEF Last, At
  <2> QED BY <2>2, <2>4, AddressesAre
<1> QED BY <1>1, <1>3, <1>4, <1>5

\* The chain of a list is its stack from the last element down, and then NULL.
LEMMA ChainIs ==
    ASSUME NEW b \in Bins, NEW s, FreeList(lists, b, s)
    PROVE  /\ Last(Chain(b)) = NULL
           /\ \A c : c \in FreeChunks(b) <=> \E k \in 1 .. Len(s) : c = s[k]
<1> DEFINE N == Cardinality(Addresses)
           n == Len(s)
           Step(g, k) == IF k = 0 THEN <<lists.heads[b]>>
                         ELSE IF Last(g[k - 1]) \in Addresses
                              THEN Append(g[k - 1], lists.next[Last(g[k - 1])]) ELSE g[k - 1]
           Eq(g) == g = [k \in 0 .. N |-> Step(g, k)]
           f == CHOOSE g : Eq(g)
<1>1. Chain(b) = f[N]
  BY DEF Chain
<1>2. N \in Nat /\ n \in Nat /\ n <= N /\ \A j \in 1 .. n : s[j] \in Addresses
  BY StackFits DEF FreeList
<1> HIDE DEF N
<1>3. \A k \in Nat : /\ Passed(s, 0) = <<lists.heads[b]>>
                     /\ k # 0 => Passed(s, k) =
                           IF Last(Passed(s, k - 1)) \in Addresses
                           THEN Append(Passed(s, k - 1), lists.next[Last(Passed(s, k - 1))])
                           ELSE Passed(s, k - 1)
  BY PassedStep
<1>4. \E g : Eq(g)
  <2> DEFINE g == [k \in 0 .. N |-> Passed(s, k)]
  <2>1. \A k \in 0 .. N : Passed(s, k) = Step(g, k)
    <3> SUFFICES ASSUME NEW k \in 0 .. N
                 PROVE  Passed(s, k) = Step(g, k)
      OBVIOUS
    <3>1. k \in Nat /\ (k # 0 => k - 1 \in 0 .. N)
      BY <1>2
    <3>2. k # 0 => g[k - 1] = Passed(s, k - 1)
      BY <3>1
    <3> HIDE DEF g
    <3> QED BY <1>3, <3>1, <3>2
  <2>2. Eq(g)
    <3> HIDE DEF Step
    <3> QED BY <2>1
  <2> QED BY <2>2
<1>5. Eq(f)
  <2> HIDE DEF Eq
  <2> QED BY <1>4
<1> HIDE DEF f
<1>6. \A k \in 0 .. N : f[k] = Step(f, k)
  <2> HIDE DEF Step
  <2> QED BY <1>5
<1> HIDE DEF Eq
<1>7. \A k \in 0 .. N : f[k] = Passed(s, k)
  <2> DEFINE Bad == {k \in 0 .. N : f[k] # Passed(s, k)}
  <2> SUFFICES ASSUME Bad # {}
               PROVE  FALSE
    OBVIOUS
  <2>0. Bad \in SUBSET Nat /\ \A k : k \in Bad <=> k \in 0 .. N /\ f[k] # Passed(s, k)
    BY <1>2
  <2> HIDE DEF Bad
  <2>1. PICK m \in Bad : \A y \in Bad : m <= y
    BY <2>0, Smallest
  <2>2. m \in 0 .. N /\ f[m] # Passed(s, m)
    BY <2>0, <2>1
  <2>3. m # 0
    BY <1>3, <1>6, <2>2
  <2>4. m \in Nat /\ m - 1 \in 0 .. N /\ m - 1 \notin Bad
    BY <1>2, <2>1, <2>2, <2>3
  <2>5. f[m - 1] = Passed(s, m - 1)
    BY <2>0, <2>4
  <2>6. f[m] = Step(f, m)
    BY <1>6, <2>2
  <2> QED BY <1>3, <2>2, <2>3, <2>4, <2>5, <2>6
<1>8. Chain(b) = [i \in 1 .. n + 1 |-> At(s, n + 1 - i)]
  <2>1. f[N] = Passed(s, N)
    BY <1>2, <1>7
  <2>2. (IF N < n THEN N ELSE n) + 1 = n + 1
    BY <1>2
  <2> QED BY <1>1, <2>1, <2>2 DEF Passed
<1> HIDE DEF n
<1> DEFINE w == Chain(b)
<1>9. /\ Len(w) = n + 1 /\ DOMAIN w = 1 .. n + 1
      /\ \A i \in 1 .. n + 1 : w[i] = At(s, n + 1 - i)
  <2> HIDE DEF w, At
  <2> QED BY <1>2, <1>8 DEF w
<1>10. Last(w) = NULL
  <2>1. n + 1 \in 1 .. n + 1 /\ n + 1 - (n + 1) = 0
    BY <1>2
  <2> HIDE DEF w
  <2> QED BY <1>9, <2>1 DEF Last, At
<1>11. ASSUME NEW c \in FreeChunks(b)
       PROVE  \E k \in 1 .. n : c = s[k]
  <2>1. PICK i \in 1 .. n + 1 : c = At(s, n + 1 - i)
    <3>1. c \in Range(w)
      BY DEF FreeChunks
    <3> HIDE DEF w
    <3> QED BY <1>9, <3>1 DEF Range
  <2>2. n + 1 - i # 0
    BY <2>1 DEF FreeChunks, At
  <2>3. n + 1 - i \in 1 .. n
    BY <1>2, <2>2
  <2> QED BY <2>1, <2>2, <2>3 DEF At
<1>12. ASSUME NEW k \in 1 .. n
       PROVE  s[k] \in FreeChunks(b)
  <2>1. n + 1 - k \in 1 .. n + 1 /\ n + 1 - (n + 1 - k) = k /\ k # 0
    BY <1>2
  <2>2. w[n + 1 - k] = s[k]
    <3> HIDE DEF w
    <3> QED BY <1>9, <2>1 DEF At
  <2>3. s[k] \in Range(w)
    <3> HIDE DEF w
    <3> QED BY <1>9, <2>1, <2>2 DEF Range
  <2> QED BY <1>2, <2>3, AddressesAre DEF FreeChunks
<1> QED BY <1>10, <1>11, <1>12 DEF n

-----------------------------------------------------------------------------
(* Who owns what.                                                          *)

\* A block is where bin_free would take it: at the start of a chunk, or of as
\* many pages as it needs.
WellPlaced(x) ==
    IF bin_index(x.n) # 0
    THEN is_aligned_to_bin(x.ptr, BinSizes[bin_index(x.n)])
    ELSE \E first \in Pages : /\ x.ptr = PageStart(first)
                              /\ first .. first + PageCount(x.n) - 1 \subseteq Pages

\* The lists are stacks of free chunks, and the free chunks, the blocks that are
\* held and the pages that are available partition memory.
Owned(free, l, lv, av) ==
    /\ free \in [Bins -> Seq(Addresses)]
    /\ \A b \in Bins : FreeList(l, b, free[b])
    /\ \A x \in lv : WellPlaced(x)
    /\ Partition(Pieces(free, lv, av))

\* The types, without what the last call returned.
Typed(l, lv, av) == l \in Lists /\ lv \subseteq Block /\ av \subseteq Pages

\* The pieces.
LEMMA PiecesAre ==
    ASSUME NEW free, NEW lv, NEW av, NEW p
    PROVE  p \in Pieces(free, lv, av) <=>
              \/ \E page \in av : p = PagePiece(page)
              \/ \E x \in lv : p = BlockPiece(x)
              \/ \E b \in Bins : \E k \in 1 .. Len(free[b]) : p = ChunkPiece(b, free[b][k])
<1> DEFINE CS == UNION {{ChunkPiece(b, free[b][k]) : k \in 1 .. Len(free[b])} : b \in Bins}
<1>1. p \in CS <=> \E b \in Bins : \E k \in 1 .. Len(free[b]) : p = ChunkPiece(b, free[b][k])
  OBVIOUS
<1> HIDE DEF CS
<1>2. p \in {PagePiece(page) : page \in av} <=> \E page \in av : p = PagePiece(page)
  OBVIOUS
<1>3. p \in {BlockPiece(x) : x \in lv} <=> \E x \in lv : p = BlockPiece(x)
  OBVIOUS
<1>4. Pieces(free, lv, av) = {PagePiece(page) : page \in av} \cup {BlockPiece(x) : x \in lv} \cup CS
  BY DEF Pieces, CS
<1> QED BY <1>1, <1>2, <1>3, <1>4

\* Different things are different pieces.
LEMMA PiecesDiffer ==
    /\ \A p, q : PagePiece(p) = PagePiece(q) => p = q
    /\ \A x, y \in Block : BlockPiece(x) = BlockPiece(y) => x = y
    /\ \A b, c, d, e : ChunkPiece(b, c) = ChunkPiece(d, e) => b = d /\ c = e
    /\ \A p, x : PagePiece(p) # BlockPiece(x)
    /\ \A p, b, c : PagePiece(p) # ChunkPiece(b, c)
    /\ \A x, b, c : BlockPiece(x) # ChunkPiece(b, c)
BY DEF PagePiece, BlockPiece, ChunkPiece, Block

\* Their units.
LEMMA PieceUnitsAre ==
    /\ \A p : PieceUnits(PagePiece(p)) = Units(p)
    /\ \A x \in Block : PieceUnits(BlockPiece(x)) = BlockUnits(x)
    /\ \A b, c : PieceUnits(ChunkPiece(b, c)) = ChunkUnits(c, b)
<1>1. \A p : PieceUnits(PagePiece(p)) = Units(p)
  BY DEF PieceUnits, PagePiece
<1>2. ASSUME NEW x \in Block
      PROVE  PieceUnits(BlockPiece(x)) = BlockUnits(x)
  <2>1. x = [ptr |-> x.ptr, n |-> x.n]
    BY DEF Block
  <2>2. PieceUnits(BlockPiece(x)) = BlockUnits([ptr |-> x.ptr, n |-> x.n])
    BY DEF PieceUnits, BlockPiece
  <2> QED BY <2>1, <2>2
<1>3. \A b, c : PieceUnits(ChunkPiece(b, c)) = ChunkUnits(c, b)
  BY DEF PieceUnits, ChunkPiece
<1> QED BY <1>1, <1>2, <1>3

\* What a partition says of each pair of owners.
LEMMA Apart ==
    ASSUME NEW free, NEW l, NEW lv, NEW av, Owned(free, l, lv, av), Typed(l, lv, av)
    PROVE  /\ \A x, y \in lv : x # y => BlockUnits(x) \cap BlockUnits(y) = {}
           /\ \A x \in lv : \A page \in av : BlockUnits(x) \cap Units(page) = {}
           /\ \A b \in Bins : \A k \in 1 .. Len(free[b]) :
                 /\ \A x \in lv : ChunkUnits(free[b][k], b) \cap BlockUnits(x) = {}
                 /\ \A page \in av : ChunkUnits(free[b][k], b) \cap Units(page) = {}
                 /\ \A d \in Bins : \A j \in 1 .. Len(free[d]) :
                       <<b, free[b][k]>> # <<d, free[d][j]>>
                         => ChunkUnits(free[b][k], b) \cap ChunkUnits(free[d][j], d) = {}
<1> DEFINE P == Pieces(free, lv, av)
<1>1. \A p, q \in P : p # q => PieceUnits(p) \cap PieceUnits(q) = {}
  BY DEF Owned, Partition
<1>2. /\ \A page \in av : PagePiece(page) \in P
      /\ \A x \in lv : BlockPiece(x) \in P /\ x \in Block
      /\ \A b \in Bins : \A k \in 1 .. Len(free[b]) : ChunkPiece(b, free[b][k]) \in P
  BY PiecesAre DEF Typed
<1> HIDE DEF P
<1>3. \A x, y \in lv : x # y => BlockUnits(x) \cap BlockUnits(y) = {}
  BY <1>1, <1>2, PiecesDiffer, PieceUnitsAre
<1>4. \A x \in lv : \A page \in av : BlockUnits(x) \cap Units(page) = {}
  BY <1>1, <1>2, PiecesDiffer, PieceUnitsAre
<1>5. ASSUME NEW b \in Bins, NEW k \in 1 .. Len(free[b])
      PROVE  /\ \A x \in lv : ChunkUnits(free[b][k], b) \cap BlockUnits(x) = {}
             /\ \A page \in av : ChunkUnits(free[b][k], b) \cap Units(page) = {}
             /\ \A d \in Bins : \A j \in 1 .. Len(free[d]) :
                   <<b, free[b][k]>> # <<d, free[d][j]>>
                     => ChunkUnits(free[b][k], b) \cap ChunkUnits(free[d][j], d) = {}
  <2> DEFINE c == free[b][k]
  <2>1. PICK p \in P : p = ChunkPiece(b, c) /\ PieceUnits(p) = ChunkUnits(c, b)
    BY <1>2, PieceUnitsAre
  <2> HIDE DEF c
  <2>2. \A x \in lv : ChunkUnits(c, b) \cap BlockUnits(x) = {}
    BY <1>1, <1>2, <2>1, PiecesDiffer, PieceUnitsAre
  <2>3. \A page \in av : ChunkUnits(c, b) \cap Units(page) = {}
    BY <1>1, <1>2, <2>1, PiecesDiffer, PieceUnitsAre
  <2>4. ASSUME NEW d \in Bins, NEW j \in 1 .. Len(free[d]), <<b, c>> # <<d, free[d][j]>>
        PROVE  ChunkUnits(c, b) \cap ChunkUnits(free[d][j], d) = {}
    <3>1. ChunkPiece(d, free[d][j]) \in P
      BY <1>2
    <3>2. ChunkPiece(d, free[d][j]) # p
      BY <2>1, <2>4, PiecesDiffer
    <3> QED BY <1>1, <2>1, <3>1, <3>2, PieceUnitsAre
  <2> QED BY <2>2, <2>3, <2>4 DEF c
<1> QED BY <1>3, <1>4, <1>5

\* A block covers what its caller asked for.
LEMMA BlockIsLargeEnough ==
    ASSUME NEW x \in Block, WellPlaced(x)
    PROVE  x.ptr .. x.ptr + x.n - 1 \subseteq BlockUnits(x)
<1>1. x.ptr \in Addresses /\ x.ptr \in Nat /\ x.n \in Nat
  BY Sizes, AddressesAre DEF Block
<1>2. CASE bin_index(x.n) # 0
  <2> DEFINE b == bin_index(x.n)
  <2>1. b \in Bins /\ x.n <= BinSizes[b] /\ BinSizes[b] \in Nat
    BY <1>1, <1>2, BinIndexIs, Sizes
  <2>2. BlockUnits(x) = x.ptr .. x.ptr + BinSizes[b] - 1
    BY <1>2 DEF BlockUnits, ChunkUnits
  <2> HIDE DEF b
  <2> QED BY <1>1, <2>1, <2>2
<1>3. CASE bin_index(x.n) = 0
  <2>1. x.n \in Nat \ {0}
    BY <1>1, <1>3, BinIndexIs
  <2>2. PICK first \in Pages : x.ptr = PageStart(first)
                               /\ first .. first + PageCount(x.n) - 1 \subseteq Pages
    BY <1>3 DEF WellPlaced
  <2>3. /\ \A u : (\E page \in PagesOf(x) : u \in Units(page))
                    <=> u \in x.ptr .. x.ptr + PageCount(x.n) * PageUnits - 1
        /\ x.ptr .. x.ptr + x.n - 1 \subseteq x.ptr .. x.ptr + PageCount(x.n) * PageUnits - 1
    BY <2>1, <2>2, PagesOfIs
  <2>4. \A u : u \in BlockUnits(x) <=> \E page \in PagesOf(x) : u \in Units(page)
    BY <1>3, Zenon DEF BlockUnits
  <2> QED BY <2>3, <2>4
<1> QED BY <1>2, <1>3

-----------------------------------------------------------------------------
(* Memory changes hands.                                                   *)

\* pop hands the first chunk of a list to a caller.
LEMMA TakeChunk ==
    ASSUME NEW free, NEW l, NEW lv, NEW av, Owned(free, l, lv, av), Typed(l, lv, av),
           NEW n \in Requests, NEW b, b = bin_index(n), b # 0, l.heads[b] # NULL,
           NEW x, x = [ptr |-> l.heads[b], n |-> n]
    PROVE  /\ Typed(pop(l, b), lv \cup {x}, av)
           /\ \E other : Owned(other, pop(l, b), lv \cup {x}, av)
<1>1. n \in Nat /\ b \in Bins
  BY Sizes, BinIndexIs
<1> DEFINE s == free[b]
           m == Len(s)
           t == Popped(s)
           c == l.heads[b]
           r == pop(l, b)
           other == [free EXCEPT ![b] = t]
<1>2. l \in Lists /\ FreeList(l, b, s)
  BY <1>1 DEF Owned, Typed
<1>3. /\ m \in Nat \ {0} /\ c = s[m] /\ c \in Addresses /\ l.next[c] # Junk
      /\ FreeList(r, b, t) /\ Len(t) = m - 1
  BY <1>1, <1>2, PopLinked
<1>4. /\ r \in Lists /\ r.next = l.next
      /\ \A d \in Bins \ {b} : r.heads[d] = l.heads[d]
  BY <1>1, <1>2, <1>3, PopIs
<1>5. x \in Block /\ x.ptr = c /\ x.n = n
  BY <1>3 DEF Block
<1>6. Typed(r, lv \cup {x}, av)
  BY <1>4, <1>5 DEF Typed
<1>7. /\ free \in [Bins -> Seq(Addresses)] /\ s \in Seq(Addresses) /\ t \in Seq(Addresses)
      /\ \A j, k \in 1 .. m : s[j] = s[k] => j = k
      /\ is_aligned_to_bin(s[m], BinSizes[b]) /\ m \in 1 .. m
      /\ \A k \in 1 .. m - 1 : t[k] = s[k]
  <2>1. m \in 1 .. m
    BY <1>3
  <2>2. free \in [Bins -> Seq(Addresses)] /\ FreeList(r, b, t)
    BY <1>3 DEF Owned
  <2>3. \A k \in 1 .. m - 1 : t[k] = s[k]
    BY DEF Popped
  <2> QED BY <1>2, <2>1, <2>2, <2>3 DEF FreeList
<1>8. /\ other \in [Bins -> Seq(Addresses)] /\ other[b] = t
      /\ \A d \in Bins \ {b} : other[d] = free[d]
  <2> HIDE DEF t
  <2> QED BY <1>1, <1>7
<1> HIDE DEF s, m, t, c, r, other
<1>9. ASSUME NEW d \in Bins
      PROVE  FreeList(r, d, other[d])
  <2>1. CASE d = b
    BY <1>3, <1>8, <2>1
  <2>2. CASE d # b
    <3>1. FreeList(l, d, free[d]) /\ r.heads[d] = l.heads[d]
      BY <1>4, <2>2 DEF Owned
    <3>2. FreeList(r, d, free[d])
      BY <1>4, <3>1, ListKept
    <3> QED BY <1>8, <2>2, <3>2
  <2> QED BY <2>1, <2>2
<1>10. WellPlaced(x)
  BY <1>3, <1>5, <1>7 DEF WellPlaced
<1>11. BlockUnits(x) = ChunkUnits(c, b)
  BY <1>5 DEF BlockUnits
<1> DEFINE P == Pieces(free, lv, av)
           Q == Pieces(other, lv \cup {x}, av)
           old == ChunkPiece(b, c)
           new == BlockPiece(x)
<1>12. ASSUME NEW p
       PROVE  (\E d \in Bins : \E k \in 1 .. Len(other[d]) : p = ChunkPiece(d, other[d][k]))
                <=> /\ \E d \in Bins : \E k \in 1 .. Len(free[d]) : p = ChunkPiece(d, free[d][k])
                    /\ p # old
  <2>1. ASSUME NEW d \in Bins, NEW k \in 1 .. Len(other[d]), p = ChunkPiece(d, other[d][k])
        PROVE  /\ \E j \in 1 .. Len(free[d]) : p = ChunkPiece(d, free[d][j])
               /\ p # old
    <3>1. CASE d = b
      <4>1. k \in 1 .. m - 1 /\ k \in 1 .. m /\ k # m
        BY <1>3, <1>8, <2>1, <3>1
      <4>2. other[d][k] = s[k] /\ s[k] # c /\ s = free[d] /\ m = Len(free[d])
        BY <1>3, <1>7, <1>8, <3>1, <4>1 DEF s, m
      <4> QED BY <2>1, <4>1, <4>2, PiecesDiffer DEF old
    <3>2. CASE d # b
      BY <1>8, <2>1, <3>2, PiecesDiffer DEF old
    <3> QED BY <3>1, <3>2
  <2>2. ASSUME NEW d \in Bins, NEW k \in 1 .. Len(free[d]), p = ChunkPiece(d, free[d][k]),
               p # old
        PROVE  \E j \in 1 .. Len(other[d]) : p = ChunkPiece(d, other[d][j])
    <3>1. CASE d = b
      <4>1. k \in 1 .. m /\ free[d][k] = s[k] /\ k # m
        BY <1>3, <2>2, <3>1 DEF s, m, old
      <4>2. k \in 1 .. m - 1
        BY <1>3, <4>1
      <4>3. k \in 1 .. Len(other[d]) /\ other[d][k] = free[d][k]
        BY <1>3, <1>7, <1>8, <3>1, <4>1, <4>2
      <4> QED BY <2>2, <4>3
    <3>2. CASE d # b
      BY <1>8, <2>2, <3>2
    <3> QED BY <3>1, <3>2
  <2> HIDE DEF old
  <2> QED BY <2>1, <2>2
<1>13. \A p : p \in Q <=> (p \in P /\ p \notin {old}) \/ p \in {new}
  <2> SUFFICES ASSUME NEW p
               PROVE  p \in Q <=> (p \in P /\ p \notin {old}) \/ p \in {new}
    OBVIOUS
  <2>1. p \in Q <=>
           \/ \E page \in av : p = PagePiece(page)
           \/ \E y \in lv \cup {x} : p = BlockPiece(y)
           \/ \E d \in Bins : \E k \in 1 .. Len(other[d]) : p = ChunkPiece(d, other[d][k])
    BY PiecesAre
  <2>2. p \in P <=>
           \/ \E page \in av : p = PagePiece(page)
           \/ \E y \in lv : p = BlockPiece(y)
           \/ \E d \in Bins : \E k \in 1 .. Len(free[d]) : p = ChunkPiece(d, free[d][k])
    BY PiecesAre
  <2>3. /\ \A page : PagePiece(page) # old
        /\ \A y : BlockPiece(y) # old
    BY PiecesDiffer
  <2> HIDE DEF P, Q, old
  <2> QED BY <1>12, <2>1, <2>2, <2>3
<1>14. old \in P /\ PieceUnits(old) = PieceUnits(new)
  <2>1. c = free[b][m] /\ m \in 1 .. Len(free[b])
    BY <1>3, <1>7 DEF s, m
  <2>2. old \in P
    BY <1>1, <2>1, PiecesAre
  <2> QED BY <1>5, <1>11, <2>2, PieceUnitsAre
<1>15. Partition(P)
  BY DEF Owned
<1>16. Partition(Q)
  <2> HIDE DEF P, Q, old, new
  <2>1. /\ \A p, q \in {new} : p # q => PieceUnits(p) \cap PieceUnits(q) = {}
        /\ {old} \subseteq P
        /\ \A u : (\E p \in {old} : u \in PieceUnits(p)) <=> (\E p \in {new} : u \in PieceUnits(p))
    BY <1>14
  <2>2. Exchanged(P, Q, {old}, {new})
    BY <1>13, <2>1 DEF Exchanged
  <2> QED BY <1>15, <2>2, Exchange
<1>17. Owned(other, r, lv \cup {x}, av)
  BY <1>8, <1>9, <1>10, <1>16 DEF Owned
<1> QED BY <1>6, <1>17 DEF r

\* init_bin_page hands the chunks of a page to the list of a bin that was empty.
LEMMA CutPage ==
    ASSUME NEW free, NEW l, NEW lv, NEW av, Owned(free, l, lv, av), Typed(l, lv, av),
           NEW b \in Bins, l.heads[b] = NULL, NEW page \in av
    PROVE  /\ Typed(init_bin_page(l, page, b), lv, av \ {page})
           /\ init_bin_page(l, page, b).heads[b] # NULL
           /\ \E other : Owned(other, init_bin_page(l, page, b), lv, av \ {page})
<1> DEFINE t == ChunksDown(page, BinSizes[b])
           m == Len(t)
           r == init_bin_page(l, page, b)
           other == [free EXCEPT ![b] = t]
<1>1. l \in Lists /\ page \in Pages
  BY DEF Typed
<1>2. /\ r \in Lists /\ FreeList(r, b, t)
      /\ \A d \in Bins \ {b} : r.heads[d] = l.heads[d]
      /\ \A a \in Addresses \ Units(page) : r.next[a] = l.next[a]
  BY <1>1, InitBinPageIs
<1>3. /\ t \in Seq(Addresses) /\ m \in Nat \ {0}
      /\ \A j, k \in 1 .. m : j # k => ChunkUnits(t[j], b) \cap ChunkUnits(t[k], b) = {}
      /\ \A u : u \in Units(page) <=> \E k \in 1 .. m : u \in ChunkUnits(t[k], b)
  BY <1>1, ChunksCutPage
<1>4. /\ free \in [Bins -> Seq(Addresses)] /\ other \in [Bins -> Seq(Addresses)]
      /\ other[b] = t /\ \A d \in Bins \ {b} : other[d] = free[d]
  <2> HIDE DEF t
  <2> QED BY <1>3 DEF Owned
<1> HIDE DEF t, m, r, other
<1>5. Typed(r, lv, av \ {page})
  BY <1>2 DEF Typed
<1>6. r.heads[b] # NULL
  <2>1. r.heads[b] = At(t, m) /\ t[m] \in Addresses
    BY <1>2, <1>3 DEF FreeList, Linked, m
  <2> QED BY <1>3, <2>1, AddressesAre DEF At
<1>7. ASSUME NEW d \in Bins
      PROVE  FreeList(r, d, other[d])
  <2>1. CASE d = b
    BY <1>2, <1>4, <2>1
  <2>2. CASE d # b
    <3>1. FreeList(l, d, free[d]) /\ r.heads[d] = l.heads[d]
      BY <1>2, <2>2 DEF Owned
    <3>2. \A k \in 1 .. Len(free[d]) : r.next[free[d][k]] = l.next[free[d][k]]
      <4> SUFFICES ASSUME NEW k \in 1 .. Len(free[d])
                   PROVE  r.next[free[d][k]] = l.next[free[d][k]]
        OBVIOUS
      <4>1. free[d][k] \in Addresses
        BY <3>1 DEF FreeList
      <4>2. ChunkUnits(free[d][k], d) \cap Units(page) = {}
        BY Apart
      <4>3. free[d][k] \notin Units(page)
        BY <4>1, <4>2, StartInChunk
      <4> QED BY <1>2, <4>1, <4>3
    <3>3. FreeList(r, d, free[d])
      BY <3>1, <3>2, ListKept
    <3> QED BY <1>4, <2>2, <3>3
  <2> QED BY <2>1, <2>2
<1>8. Len(free[b]) = 0
  <2>1. FreeList(l, b, free[b])
    BY DEF Owned
  <2>2. /\ free[b] \in Seq(Addresses) /\ Len(free[b]) \in Nat
        /\ NULL = At(free[b], Len(free[b]))
    BY <2>1 DEF FreeList, Linked
  <2>3. Len(free[b]) # 0 => free[b][Len(free[b])] \in Addresses
    BY <2>2
  <2> QED BY <2>2, <2>3, AddressesAre DEF At
<1> DEFINE P == Pieces(free, lv, av)
           Q == Pieces(other, lv, av \ {page})
           old == PagePiece(page)
           B == {ChunkPiece(b, t[k]) : k \in 1 .. m}
<1>9. \A p : p \in Q <=> (p \in P /\ p \notin {old}) \/ p \in B
  <2> SUFFICES ASSUME NEW p
               PROVE  p \in Q <=> (p \in P /\ p \notin {old}) \/ p \in B
    OBVIOUS
  <2>1. p \in Q <=>
           \/ \E y \in av \ {page} : p = PagePiece(y)
           \/ \E y \in lv : p = BlockPiece(y)
           \/ \E d \in Bins : \E k \in 1 .. Len(other[d]) : p = ChunkPiece(d, other[d][k])
    BY PiecesAre
  <2>2. p \in P <=>
           \/ \E y \in av : p = PagePiece(y)
           \/ \E y \in lv : p = BlockPiece(y)
           \/ \E d \in Bins : \E k \in 1 .. Len(free[d]) : p = ChunkPiece(d, free[d][k])
    BY PiecesAre
  <2>3. (\E d \in Bins : \E k \in 1 .. Len(other[d]) : p = ChunkPiece(d, other[d][k]))
           <=> \/ \E d \in Bins : \E k \in 1 .. Len(free[d]) : p = ChunkPiece(d, free[d][k])
               \/ p \in B
    <3>1. \A d \in Bins : d # b => other[d] = free[d]
      BY <1>4
    <3>2. ~\E k \in 1 .. Len(free[b]) : TRUE
      BY <1>8
    <3>3. p \in B <=> \E k \in 1 .. Len(other[b]) : p = ChunkPiece(b, other[b][k])
      BY <1>4 DEF m
    <3> HIDE DEF B
    <3> QED BY <3>1, <3>2, <3>3
  <2>4. /\ \A y : PagePiece(y) = old => y = page
        /\ \A y : BlockPiece(y) # old
        /\ \A d, c : ChunkPiece(d, c) # old
    BY PiecesDiffer
  <2>5. (\E y \in av \ {page} : p = PagePiece(y)) <=> p # old /\ \E y \in av : p = PagePiece(y)
    BY <2>4
  <2>6. /\ (\E y \in lv : p = BlockPiece(y)) => p # old
        /\ (\E d \in Bins : \E k \in 1 .. Len(free[d]) : p = ChunkPiece(d, free[d][k])) => p # old
    BY <2>4
  <2> HIDE DEF P, Q, old, B
  <2> QED BY <2>1, <2>2, <2>3, <2>5, <2>6
<1>10. \A p, q \in B : p # q => PieceUnits(p) \cap PieceUnits(q) = {}
  <2> SUFFICES ASSUME NEW j \in 1 .. m, NEW k \in 1 .. m,
                      ChunkPiece(b, t[j]) # ChunkPiece(b, t[k])
               PROVE  PieceUnits(ChunkPiece(b, t[j])) \cap PieceUnits(ChunkPiece(b, t[k])) = {}
    OBVIOUS
  <2>1. j # k
    OBVIOUS
  <2> QED BY <1>3, <2>1, PieceUnitsAre
<1>11. \A u : (\E p \in {old} : u \in PieceUnits(p)) <=> (\E p \in B : u \in PieceUnits(p))
  <2> SUFFICES ASSUME NEW u
               PROVE  u \in PieceUnits(old) <=> (\E p \in B : u \in PieceUnits(p))
    OBVIOUS
  <2>1. u \in PieceUnits(old) <=> \E k \in 1 .. m : u \in ChunkUnits(t[k], b)
    BY <1>3, PieceUnitsAre
  <2>2. (\E p \in B : u \in PieceUnits(p))
           <=> \E k \in 1 .. m : u \in PieceUnits(ChunkPiece(b, t[k]))
    OBVIOUS
  <2> QED BY <2>1, <2>2, PieceUnitsAre
<1>12. {old} \subseteq P /\ Partition(P)
  BY PiecesAre DEF Owned
<1>13. Partition(Q)
  <2> HIDE DEF P, Q, old, B
  <2>1. Exchanged(P, Q, {old}, B)
    BY <1>9, <1>10, <1>11, <1>12 DEF Exchanged
  <2> QED BY <1>12, <2>1, Exchange
<1>14. Owned(other, r, lv, av \ {page})
  BY <1>4, <1>7, <1>13 DEF Owned
<1> QED BY <1>5, <1>6, <1>14 DEF r

\* push hands a block of a bin back to its list.
LEMMA GiveChunk ==
    ASSUME NEW free, NEW l, NEW lv, NEW av, Owned(free, l, lv, av), Typed(l, lv, av),
           NEW x \in lv, NEW b, b = bin_index(x.n), b # 0,
           is_aligned_to_bin(x.ptr, BinSizes[b])
    PROVE  /\ Typed(push(l, x.ptr, b), lv \ {x}, av)
           /\ \E other : Owned(other, push(l, x.ptr, b), lv \ {x}, av)
<1>1. x \in Block /\ x.ptr \in Addresses /\ x.n \in Nat /\ l \in Lists
  BY Sizes DEF Typed, Block
<1>2. b \in Bins
  BY <1>1, BinIndexIs
<1> DEFINE s == free[b]
           m == Len(s)
           c == x.ptr
           t == Append(s, c)
           r == push(l, c, b)
           other == [free EXCEPT ![b] = t]
<1>3. BlockUnits(x) = ChunkUnits(c, b) /\ c \in BlockUnits(x)
  BY <1>1, <1>2, StartInChunk DEF BlockUnits
<1>4. /\ free \in [Bins -> Seq(Addresses)] /\ s \in Seq(Addresses) /\ m \in Nat
      /\ FreeList(l, b, s) /\ \A d \in Bins : FreeList(l, d, free[d])
  BY <1>2 DEF Owned
<1>5. ASSUME NEW d \in Bins, NEW k \in 1 .. Len(free[d])
      PROVE  free[d][k] # c /\ free[d][k] \in Addresses
  <2>1. free[d][k] \in Addresses
    BY <1>4
  <2>2. free[d][k] \in ChunkUnits(free[d][k], d)
    BY <2>1, StartInChunk
  <2>3. ChunkUnits(free[d][k], d) \cap BlockUnits(x) = {}
    BY Apart
  <2> QED BY <1>3, <2>1, <2>2, <2>3
<1>6. FreeList(r, b, t)
  <2>1. \A k \in 1 .. Len(s) : s[k] # c
    BY <1>2, <1>5
  <2> QED BY <1>1, <1>2, <1>4, <2>1, PushLinked
<1>7. /\ r \in Lists
      /\ \A d \in Bins \ {b} : r.heads[d] = l.heads[d]
      /\ \A a \in Addresses \ {c} : r.next[a] = l.next[a]
  BY <1>1, <1>2, PushIs
<1>8. t \in Seq(Addresses) /\ Len(t) = m + 1 /\ t[m + 1] = c /\ \A k \in 1 .. m : t[k] = s[k]
  BY <1>1, <1>4
<1>9. /\ other \in [Bins -> Seq(Addresses)] /\ other[b] = t
      /\ \A d \in Bins \ {b} : other[d] = free[d]
  <2> HIDE DEF t
  <2> QED BY <1>2, <1>4, <1>8
<1> HIDE DEF s, m, c, t, r, other
<1>10. Typed(r, lv \ {x}, av)
  BY <1>7 DEF Typed
<1>11. ASSUME NEW d \in Bins
       PROVE  FreeList(r, d, other[d])
  <2>1. CASE d = b
    BY <1>6, <1>9, <2>1
  <2>2. CASE d # b
    <3>1. FreeList(l, d, free[d]) /\ r.heads[d] = l.heads[d]
      BY <1>4, <1>7, <2>2
    <3>2. \A k \in 1 .. Len(free[d]) : r.next[free[d][k]] = l.next[free[d][k]]
      BY <1>5, <1>7
    <3>3. FreeList(r, d, free[d])
      BY <3>1, <3>2, ListKept
    <3> QED BY <1>9, <2>2, <3>3
  <2> QED BY <2>1, <2>2
<1> DEFINE P == Pieces(free, lv, av)
           Q == Pieces(other, lv \ {x}, av)
           old == BlockPiece(x)
           new == ChunkPiece(b, c)
<1>12. ASSUME NEW p
       PROVE  (\E d \in Bins : \E k \in 1 .. Len(other[d]) : p = ChunkPiece(d, other[d][k]))
                <=> \/ \E d \in Bins : \E k \in 1 .. Len(free[d]) : p = ChunkPiece(d, free[d][k])
                    \/ p = new
  <2>1. (\E k \in 1 .. Len(other[b]) : p = ChunkPiece(b, other[b][k]))
           <=> (\E k \in 1 .. Len(free[b]) : p = ChunkPiece(b, free[b][k])) \/ p = new
    <3>1. m = Len(free[b]) /\ s = free[b] /\ Len(other[b]) = m + 1 /\ other[b] = t
      BY <1>8, <1>9 DEF s, m
    <3>2. m + 1 \in 1 .. m + 1 /\ \A k \in 1 .. m + 1 : k = m + 1 \/ k \in 1 .. m
      BY <1>4
    <3>3. \A k \in 1 .. m : k \in 1 .. m + 1
      BY <1>4
    <3>4. ASSUME NEW k \in 1 .. m + 1, p = ChunkPiece(b, t[k])
          PROVE  (\E j \in 1 .. m : p = ChunkPiece(b, s[j])) \/ p = new
      <4>1. CASE k = m + 1
        BY <1>8, <3>4, <4>1
      <4>2. CASE k \in 1 .. m
        BY <1>8, <3>4, <4>2
      <4> QED BY <3>2, <4>1, <4>2
    <3>5. ASSUME p = new
          PROVE  \E k \in 1 .. m + 1 : p = ChunkPiece(b, t[k])
      BY <1>8, <3>2, <3>5
    <3>6. ASSUME NEW j \in 1 .. m, p = ChunkPiece(b, s[j])
          PROVE  \E k \in 1 .. m + 1 : p = ChunkPiece(b, t[k])
      BY <1>8, <3>3, <3>6
    <3> HIDE DEF new
    <3> QED BY <3>1, <3>4, <3>5, <3>6
  <2>2. \A d \in Bins : d # b => other[d] = free[d]
    BY <1>9
  <2> HIDE DEF new
  <2> QED BY <1>2, <2>1, <2>2
<1>13. \A p : p \in Q <=> (p \in P /\ p \notin {old}) \/ p \in {new}
  <2> SUFFICES ASSUME NEW p
               PROVE  p \in Q <=> (p \in P /\ p \notin {old}) \/ p \in {new}
    OBVIOUS
  <2>1. p \in Q <=>
           \/ \E page \in av : p = PagePiece(page)
           \/ \E y \in lv \ {x} : p = BlockPiece(y)
           \/ \E d \in Bins : \E k \in 1 .. Len(other[d]) : p = ChunkPiece(d, other[d][k])
    BY PiecesAre
  <2>2. p \in P <=>
           \/ \E page \in av : p = PagePiece(page)
           \/ \E y \in lv : p = BlockPiece(y)
           \/ \E d \in Bins : \E k \in 1 .. Len(free[d]) : p = ChunkPiece(d, free[d][k])
    BY PiecesAre
  <2>3. /\ \A page : PagePiece(page) # old
        /\ \A d, e : ChunkPiece(d, e) # old
        /\ \A y \in lv : BlockPiece(y) = old => y = x
    BY <1>1, PiecesDiffer DEF Typed
  <2>4. (\E y \in lv \ {x} : p = BlockPiece(y)) <=> p # old /\ \E y \in lv : p = BlockPiece(y)
    BY <2>3
  <2>5. /\ (\E page \in av : p = PagePiece(page)) => p # old
        /\ (\E d \in Bins : \E k \in 1 .. Len(free[d]) : p = ChunkPiece(d, free[d][k])) => p # old
    BY <2>3
  <2> HIDE DEF P, Q, old, new
  <2> QED BY <1>12, <2>1, <2>2, <2>4, <2>5
<1>14. old \in P /\ PieceUnits(old) = PieceUnits(new)
  <2>1. old \in P
    BY PiecesAre
  <2> QED BY <1>1, <1>3, <2>1, PieceUnitsAre
<1>15. Partition(P) /\ \A y \in lv \ {x} : WellPlaced(y)
  BY DEF Owned
<1>16. Partition(Q)
  <2> HIDE DEF P, Q, old, new
  <2>1. /\ \A p, q \in {new} : p # q => PieceUnits(p) \cap PieceUnits(q) = {}
        /\ {old} \subseteq P
        /\ \A u : (\E p \in {old} : u \in PieceUnits(p)) <=> (\E p \in {new} : u \in PieceUnits(p))
    BY <1>14
  <2>2. Exchanged(P, Q, {old}, {new})
    BY <1>13, <2>1 DEF Exchanged
  <2> QED BY <1>15, <2>2, Exchange
<1>17. Owned(other, r, lv \ {x}, av)
  BY <1>9, <1>11, <1>15, <1>16 DEF Owned
<1> QED BY <1>10, <1>17 DEF r, c

\* Data that is written inside a block reaches no free list.
LEMMA DataStaysInBlock ==
    ASSUME NEW free, NEW l, NEW lv, NEW av, Owned(free, l, lv, av), Typed(l, lv, av),
           NEW x \in lv, NEW size, x.ptr .. x.ptr + size - 1 \subseteq BlockUnits(x)
    PROVE  /\ Fill(l, x.ptr, size) \in Lists
           /\ \A d \in Bins : FreeList(Fill(l, x.ptr, size), d, free[d])
<1> DEFINE r == Fill(l, x.ptr, size)
<1>1. /\ r \in Lists /\ r.heads = l.heads
      /\ \A a \in Addresses : a \notin x.ptr .. x.ptr + size - 1 => r.next[a] = l.next[a]
  BY FillIs DEF Typed
<1> HIDE DEF r
<1>2. ASSUME NEW d \in Bins
      PROVE  FreeList(r, d, free[d])
  <2>1. FreeList(l, d, free[d]) /\ r.heads[d] = l.heads[d]
    BY <1>1 DEF Owned
  <2>2. ASSUME NEW k \in 1 .. Len(free[d])
        PROVE  r.next[free[d][k]] = l.next[free[d][k]]
    <3>1. free[d][k] \in Addresses
      BY <2>1 DEF FreeList
    <3>2. free[d][k] \in ChunkUnits(free[d][k], d)
      BY <3>1, StartInChunk
    <3>3. ChunkUnits(free[d][k], d) \cap BlockUnits(x) = {}
      BY Apart
    <3>4. free[d][k] \notin x.ptr .. x.ptr + size - 1
      BY <3>2, <3>3
    <3> QED BY <1>1, <3>1, <3>4
  <2> QED BY <2>1, <2>2, ListKept
<1> QED BY <1>1, <1>2 DEF r

\* A block of the page allocator, and the pages that it takes.
LEMMA PageBlock ==
    ASSUME NEW x \in Block, bin_index(x.n) = 0, WellPlaced(x)
    PROVE  /\ PagesOf(x) \subseteq Pages
           /\ \A u : u \in BlockUnits(x) <=> \E page \in PagesOf(x) : u \in Units(page)
           /\ x.ptr .. x.ptr + Cardinality(PagesOf(x)) * PageUnits - 1 \subseteq BlockUnits(x)
<1>1. x.n \in Nat \ {0}
  <2>1. x.n \in Nat
    BY Sizes DEF Block
  <2> QED BY <2>1, BinIndexIs
<1>2. PICK first \in Pages : /\ x.ptr = PageStart(first)
                             /\ first .. first + PageCount(x.n) - 1 \subseteq Pages
  BY DEF WellPlaced
<1>3. /\ Cardinality(PagesOf(x)) = PageCount(x.n)
      /\ \A u : (\E page \in PagesOf(x) : u \in Units(page))
                  <=> u \in x.ptr .. x.ptr + PageCount(x.n) * PageUnits - 1
  BY <1>1, <1>2, PagesOfIs
<1>4. \A u : u \in BlockUnits(x) <=> \E page \in PagesOf(x) : u \in Units(page)
  BY Zenon DEF BlockUnits
<1>5. PagesOf(x) \subseteq Pages
  BY DEF PagesOf
<1> QED BY <1>3, <1>4, <1>5

\* bin_free hands a block of pages back to the page allocator.
LEMMA GivePages ==
    ASSUME NEW free, NEW l, NEW lv, NEW av, Owned(free, l, lv, av), Typed(l, lv, av),
           NEW x \in lv, bin_index(x.n) = 0,
           NEW r, r = Fill(l, x.ptr, Cardinality(PagesOf(x)) * PageUnits)
    PROVE  /\ Typed(r, lv \ {x}, av \cup PagesOf(x))
           /\ Owned(free, r, lv \ {x}, av \cup PagesOf(x))
<1>1. x \in Block /\ WellPlaced(x)
  BY DEF Owned, Typed
<1>2. /\ PagesOf(x) \subseteq Pages
      /\ \A u : u \in BlockUnits(x) <=> \E page \in PagesOf(x) : u \in Units(page)
      /\ x.ptr .. x.ptr + Cardinality(PagesOf(x)) * PageUnits - 1 \subseteq BlockUnits(x)
  BY <1>1, PageBlock
<1>3. r \in Lists /\ \A d \in Bins : FreeList(r, d, free[d])
  BY <1>2, DataStaysInBlock
<1> DEFINE S == PagesOf(x)
           P == Pieces(free, lv, av)
           Q == Pieces(free, lv \ {x}, av \cup S)
           old == BlockPiece(x)
           B == {PagePiece(page) : page \in S}
<1> HIDE DEF S
<1>4. \A p : p \in Q <=> (p \in P /\ p \notin {old}) \/ p \in B
  <2> SUFFICES ASSUME NEW p
               PROVE  p \in Q <=> (p \in P /\ p \notin {old}) \/ p \in B
    OBVIOUS
  <2> DEFINE IsChunk == \E d \in Bins : \E k \in 1 .. Len(free[d]) : p = ChunkPiece(d, free[d][k])
  <2>1. p \in Q <=>
           \/ \E page \in av \cup S : p = PagePiece(page)
           \/ \E y \in lv \ {x} : p = BlockPiece(y)
           \/ IsChunk
    BY PiecesAre
  <2>2. p \in P <=>
           \/ \E page \in av : p = PagePiece(page)
           \/ \E y \in lv : p = BlockPiece(y)
           \/ IsChunk
    BY PiecesAre
  <2>3. /\ \A page : PagePiece(page) # old
        /\ \A d, e : ChunkPiece(d, e) # old
        /\ \A y \in lv : BlockPiece(y) = old => y = x
    BY <1>1, PiecesDiffer DEF Typed
  <2>4. (\E y \in lv \ {x} : p = BlockPiece(y)) <=> p # old /\ \E y \in lv : p = BlockPiece(y)
    BY <2>3
  <2>5. /\ (\E page \in av : p = PagePiece(page)) => p # old
        /\ IsChunk => p # old
    BY <2>3
  <2>6. (\E page \in av \cup S : p = PagePiece(page))
           <=> (\E page \in av : p = PagePiece(page)) \/ p \in B
    OBVIOUS
  <2> HIDE DEF P, Q, old, B, IsChunk
  <2> QED BY <2>1, <2>2, <2>4, <2>5, <2>6
<1>5. \A p, q \in B : p # q => PieceUnits(p) \cap PieceUnits(q) = {}
  <2> SUFFICES ASSUME NEW p \in S, NEW q \in S, PagePiece(p) # PagePiece(q)
               PROVE  PieceUnits(PagePiece(p)) \cap PieceUnits(PagePiece(q)) = {}
    OBVIOUS
  <2>1. p # q /\ p \in Pages /\ q \in Pages
    BY <1>2 DEF S
  <2> QED BY <2>1, PagesApart, PieceUnitsAre
<1>6. \A u : (\E p \in {old} : u \in PieceUnits(p)) <=> (\E p \in B : u \in PieceUnits(p))
  <2> SUFFICES ASSUME NEW u
               PROVE  u \in PieceUnits(old) <=> (\E p \in B : u \in PieceUnits(p))
    OBVIOUS
  <2>1. u \in PieceUnits(old) <=> \E page \in S : u \in Units(page)
    BY <1>1, <1>2, PieceUnitsAre DEF S
  <2>2. (\E p \in B : u \in PieceUnits(p)) <=> \E page \in S : u \in PieceUnits(PagePiece(page))
    OBVIOUS
  <2> QED BY <2>1, <2>2, PieceUnitsAre
<1>7. {old} \subseteq P /\ Partition(P) /\ \A y \in lv \ {x} : WellPlaced(y)
  BY PiecesAre DEF Owned
<1>8. Partition(Q)
  <2> HIDE DEF P, Q, old, B
  <2>1. Exchanged(P, Q, {old}, B)
    BY <1>4, <1>5, <1>6, <1>7 DEF Exchanged
  <2> QED BY <1>7, <2>1, Exchange
<1>9. Owned(free, r, lv \ {x}, av \cup S)
  BY <1>3, <1>7, <1>8 DEF Owned
<1>10. Typed(r, lv \ {x}, av \cup S)
  BY <1>2, <1>3 DEF Typed, S
<1> QED BY <1>9, <1>10 DEF S

\* bin_alloc hands pages to a caller.
LEMMA TakePages ==
    ASSUME NEW free, NEW l, NEW lv, NEW av, Owned(free, l, lv, av), Typed(l, lv, av),
           NEW n \in Requests, bin_index(n) = 0, NEW run \in SUBSET av,
           Cardinality(run) = PageCount(n), \A p, q \in run : p .. q \subseteq run,
           NEW first, first = CHOOSE p \in run : \A q \in run : p <= q,
           NEW x, x = [ptr |-> PageStart(first), n |-> n]
    PROVE  /\ Typed(l, lv \cup {x}, av \ run)
           /\ Owned(free, l, lv \cup {x}, av \ run)
<1>1. n \in Nat \ {0} /\ av \in SUBSET Pages
  <2>1. n \in Nat
    BY Sizes
  <2> QED BY <2>1, BinIndexIs DEF Typed
<1>2. first \in run /\ run = first .. first + PageCount(n) - 1
  BY <1>1, RunIs
<1>3. x.ptr = PageStart(first) /\ x.n = n /\ first \in Pages /\ run \subseteq Pages
  BY <1>1, <1>2
<1>4. PagesOf(x) = run
  <2>1. first .. first + PageCount(n) - 1 \subseteq Pages
    BY <1>2, <1>3
  <2>2. PagesOf(x) = first .. first + PageCount(n) - 1
    BY ONLY <1>1, <1>3, <2>1, PagesOfIs
  <2> QED BY <1>2, <2>2
<1>5. x \in Block
  BY <1>3, AddressesAre DEF Block
<1>6. WellPlaced(x)
  BY <1>2, <1>3 DEF WellPlaced
<1>7. \A u : u \in BlockUnits(x) <=> \E page \in run : u \in Units(page)
  BY <1>3, <1>4, <1>5, <1>6, PageBlock
<1> DEFINE P == Pieces(free, lv, av)
           Q == Pieces(free, lv \cup {x}, av \ run)
           new == BlockPiece(x)
           A == {PagePiece(page) : page \in run}
<1>8. \A p : p \in Q <=> (p \in P /\ p \notin A) \/ p \in {new}
  <2> SUFFICES ASSUME NEW p
               PROVE  p \in Q <=> (p \in P /\ p \notin A) \/ p \in {new}
    OBVIOUS
  <2> DEFINE IsChunk == \E d \in Bins : \E k \in 1 .. Len(free[d]) : p = ChunkPiece(d, free[d][k])
             IsBlock == \E y \in lv : p = BlockPiece(y)
  <2>1. p \in Q <=>
           \/ \E page \in av \ run : p = PagePiece(page)
           \/ \E y \in lv \cup {x} : p = BlockPiece(y)
           \/ IsChunk
    BY PiecesAre
  <2>2. p \in P <=> (\E page \in av : p = PagePiece(page)) \/ IsBlock \/ IsChunk
    BY PiecesAre
  <2>3. (\E y \in lv \cup {x} : p = BlockPiece(y)) <=> IsBlock \/ p = new
    OBVIOUS
  <2>4. (\E page \in av \ run : p = PagePiece(page))
           <=> p \notin A /\ \E page \in av : p = PagePiece(page)
    BY PiecesDiffer
  <2>5. (IsBlock \/ IsChunk) => p \notin A
    BY PiecesDiffer
  <2> HIDE DEF P, Q, new, A, IsChunk, IsBlock
  <2> QED BY <2>1, <2>2, <2>3, <2>4, <2>5
<1>9. \A u : (\E p \in A : u \in PieceUnits(p)) <=> (\E p \in {new} : u \in PieceUnits(p))
  <2> SUFFICES ASSUME NEW u
               PROVE  (\E p \in A : u \in PieceUnits(p)) <=> u \in PieceUnits(new)
    OBVIOUS
  <2>1. u \in PieceUnits(new) <=> \E page \in run : u \in Units(page)
    BY <1>5, <1>7, PieceUnitsAre
  <2>2. (\E p \in A : u \in PieceUnits(p)) <=> \E page \in run : u \in PieceUnits(PagePiece(page))
    OBVIOUS
  <2> QED BY <2>1, <2>2, PieceUnitsAre
<1>10. A \subseteq P /\ Partition(P)
  BY PiecesAre DEF Owned
<1>11. Partition(Q)
  <2> HIDE DEF P, Q, new, A
  <2>1. \A p, q \in {new} : p # q => PieceUnits(p) \cap PieceUnits(q) = {}
    OBVIOUS
  <2>2. Exchanged(P, Q, A, {new})
    BY <1>8, <1>9, <1>10, <2>1 DEF Exchanged
  <2> QED BY <1>10, <2>2, Exchange
<1>12. Owned(free, l, lv \cup {x}, av \ run)
  BY <1>6, <1>11 DEF Owned
<1>13. Typed(l, lv \cup {x}, av \ run)
  BY <1>5 DEF Typed
<1> QED BY <1>12, <1>13

-----------------------------------------------------------------------------
(* The invariant and its consequences.                                     *)

\* The free lists are some stacks of chunks, and the chunks, the blocks and the pages
\* partition the memory.  The properties of BinAllocator are not inductive: they do
\* not say that a link leads to a chunk of the same bin, that a list holds a chunk
\* once, or that a block of pages lies at their start.
Inv ==
    /\ TypeOK
    /\ \E free : Owned(free, lists, live, avail)

\* TypeOK in terms of the predicates above.
LEMMA TypeOKIs ==
    TypeOK <=> /\ Typed(lists, live, avail)
               /\ result \in {"init", "block", "NULL", "freed", "invalid"}
BY DEF TypeOK, Typed, Lists

\* The same after a step.
LEMMA TypeOKIsNext ==
    TypeOK' <=> /\ Typed(lists', live', avail')
                /\ result' \in {"init", "block", "NULL", "freed", "invalid"}
BY DEF TypeOK, Typed, Lists

\* The allocator starts with empty lists and all pages.
LEMMA InitInv ==
    ASSUME Init
    PROVE  Inv
<1> DEFINE free == [b \in Bins |-> <<>>]
<1>1. TypeOK
  BY DEF Init, TypeOK
<1>2. free \in [Bins -> Seq(Addresses)] /\ \A b \in Bins : free[b] = <<>> /\ Len(free[b]) = 0
  OBVIOUS
<1> HIDE DEF free
<1>3. ASSUME NEW b \in Bins
      PROVE  FreeList(lists, b, free[b])
  <2>1. lists.heads[b] = NULL
    BY DEF Init
  <2> QED BY <1>2, <2>1 DEF FreeList, Linked, At
<1>4. Partition(Pieces(free, live, avail))
  <2> DEFINE P == Pieces(free, live, avail)
  <2>1. \A p : p \in P <=> \E page \in Pages : p = PagePiece(page)
    <3> SUFFICES ASSUME NEW p
                 PROVE  p \in P <=> \E page \in Pages : p = PagePiece(page)
      OBVIOUS
    <3>1. p \in P <=>
             \/ \E page \in avail : p = PagePiece(page)
             \/ \E x \in live : p = BlockPiece(x)
             \/ \E b \in Bins : \E k \in 1 .. Len(free[b]) : p = ChunkPiece(b, free[b][k])
      BY PiecesAre
    <3>2. \A b \in Bins : ~\E k \in 1 .. Len(free[b]) : TRUE
      BY <1>2
    <3> HIDE DEF P
    <3> QED BY <3>1, <3>2 DEF Init
  <2> HIDE DEF P
  <2>2. \A p, q \in P : p # q => PieceUnits(p) \cap PieceUnits(q) = {}
    <3> SUFFICES ASSUME NEW p \in P, NEW q \in P, p # q
                 PROVE  PieceUnits(p) \cap PieceUnits(q) = {}
      OBVIOUS
    <3>1. PICK y \in Pages : p = PagePiece(y)
      BY <2>1
    <3>2. PICK z \in Pages : q = PagePiece(z)
      BY <2>1
    <3>3. y # z
      BY <3>1, <3>2
    <3> QED BY <3>1, <3>2, <3>3, PagesApart, PieceUnitsAre
  <2>3. \A u : u \in Addresses <=> \E p \in P : u \in PieceUnits(p)
    <3> SUFFICES ASSUME NEW u
                 PROVE  u \in Addresses <=> \E p \in P : u \in PieceUnits(p)
      OBVIOUS
    <3>1. (\E p \in P : u \in PieceUnits(p))
             <=> \E page \in Pages : u \in PieceUnits(PagePiece(page))
      BY <2>1
    <3> QED BY <3>1, AddressesAre, PieceUnitsAre
  <2> QED BY <2>2, <2>3 DEF Partition, P
<1>5. \A x \in live : WellPlaced(x)
  BY DEF Init
<1>6. Owned(free, lists, live, avail)
  BY <1>2, <1>3, <1>4, <1>5 DEF Owned
<1> QED BY <1>1, <1>6 DEF Inv

\* Every call and every write by an owner keeps the invariant.
LEMMA NextInv ==
    ASSUME Inv, [Next]_vars
    PROVE  Inv'
<1>1. PICK free : Owned(free, lists, live, avail)
  BY DEF Inv
<1>2. Typed(lists, live, avail) /\ result \in {"init", "block", "NULL", "freed", "invalid"}
  BY TypeOKIs DEF Inv
<1> SUFFICES /\ Typed(lists', live', avail')
             /\ result' \in {"init", "block", "NULL", "freed", "invalid"}
             /\ \E other : Owned(other, lists', live', avail')
  BY TypeOKIsNext DEF Inv
<1>3. CASE /\ UNCHANGED <<lists, live, avail>>
           /\ result' \in {"init", "block", "NULL", "freed", "invalid"}
  BY <1>1, <1>2, <1>3
<1>4. CASE UNCHANGED vars
  BY <1>2, <1>3, <1>4 DEF vars
<1>5. ASSUME NEW n \in Requests, AllocFromBin(n)
      PROVE  /\ Typed(lists', live', avail')
             /\ result' \in {"init", "block", "NULL", "freed", "invalid"}
             /\ \E other : Owned(other, lists', live', avail')
  <2>1. PICK b : b = bin_index(n) /\ b # 0 /\ lists.heads[b] # NULL
    BY <1>5 DEF AllocFromBin
  <2>2. PICK x : x = [ptr |-> lists.heads[b], n |-> n]
    OBVIOUS
  <2>3. /\ live' = live \cup {x} /\ lists' = pop(lists, b) /\ avail' = avail
        /\ result' = "block"
    BY <1>5, <2>1, <2>2 DEF AllocFromBin
  <2>4. /\ Typed(pop(lists, b), live \cup {x}, avail)
        /\ \E other : Owned(other, pop(lists, b), live \cup {x}, avail)
    BY <1>1, <1>2, <2>1, <2>2, TakeChunk
  <2> QED BY <2>3, <2>4
<1>6. ASSUME NEW n \in Requests, AllocFromNewPage(n)
      PROVE  /\ Typed(lists', live', avail')
             /\ result' \in {"init", "block", "NULL", "freed", "invalid"}
             /\ \E other : Owned(other, lists', live', avail')
  <2>1. PICK b : b = bin_index(n) /\ b # 0 /\ lists.heads[b] = NULL
    BY <1>6 DEF AllocFromNewPage
  <2>2. PICK page \in avail :
           /\ avail' = avail \ {page}
           /\ live' = live \cup {[ptr |-> init_bin_page(lists, page, b).heads[b], n |-> n]}
           /\ lists' = pop(init_bin_page(lists, page, b), b)
    BY <1>6, <2>1 DEF AllocFromNewPage
  <2>3. PICK l : l = init_bin_page(lists, page, b)
    OBVIOUS
  <2>4. PICK x : x = [ptr |-> l.heads[b], n |-> n]
    OBVIOUS
  <2>5. b \in Bins
    <3>1. n \in Nat
      BY Sizes
    <3> QED BY <2>1, <3>1, BinIndexIs
  <2>6. /\ Typed(l, live, avail \ {page}) /\ l.heads[b] # NULL
        /\ \E other : Owned(other, l, live, avail \ {page})
    BY <1>1, <1>2, <2>1, <2>3, <2>5, CutPage
  <2>7. PICK cut : Owned(cut, l, live, avail \ {page})
    BY <2>6
  <2>8. /\ Typed(pop(l, b), live \cup {x}, avail \ {page})
        /\ \E other : Owned(other, pop(l, b), live \cup {x}, avail \ {page})
    BY <2>1, <2>4, <2>6, <2>7, TakeChunk
  <2>9. result' = "block"
    BY <1>6 DEF AllocFromNewPage
  <2> QED BY <2>2, <2>3, <2>4, <2>8, <2>9
<1>7. ASSUME NEW n \in Requests, AllocPages(n)
      PROVE  /\ Typed(lists', live', avail')
             /\ result' \in {"init", "block", "NULL", "freed", "invalid"}
             /\ \E other : Owned(other, lists', live', avail')
  <2>1. PICK run \in Runs(n) :
           /\ avail' = avail \ run
           /\ live' = live \cup {[ptr |-> PageStart(CHOOSE p \in run : \A q \in run : p <= q),
                                  n |-> n]}
    BY <1>7 DEF AllocPages
  <2>2. bin_index(n) = 0 /\ lists' = lists /\ result' = "block"
    BY <1>7 DEF AllocPages
  <2>3. PICK first : first = CHOOSE p \in run : \A q \in run : p <= q
    OBVIOUS
  <2>4. PICK x : x = [ptr |-> PageStart(first), n |-> n]
    OBVIOUS
  <2>5. /\ run \in SUBSET avail /\ Cardinality(run) = PageCount(n)
        /\ \A p, q \in run : p .. q \subseteq run
    BY <2>1 DEF Runs, PageCount
  <2>6. /\ Typed(lists, live \cup {x}, avail \ run)
        /\ Owned(free, lists, live \cup {x}, avail \ run)
    BY <1>1, <1>2, <2>2, <2>3, <2>4, <2>5, TakePages
  <2>7. live' = live \cup {x}
    BY <2>1, <2>3, <2>4
  <2> QED BY <2>1, <2>2, <2>6, <2>7
<1>8. ASSUME NEW n \in Requests, AllocFails(n)
      PROVE  UNCHANGED <<lists, live, avail>> /\ result' = "NULL"
  BY <1>8 DEF AllocFails, OnlyResult
<1>9. ASSUME NEW x \in live, FreeToBin(x)
      PROVE  /\ Typed(lists', live', avail')
             /\ result' \in {"init", "block", "NULL", "freed", "invalid"}
             /\ \E other : Owned(other, lists', live', avail')
  <2>1. PICK b : b = bin_index(x.n) /\ b # 0 /\ is_aligned_to_bin(x.ptr, BinSizes[b])
    BY <1>9 DEF FreeToBin
  <2>2. /\ lists' = push(lists, x.ptr, b) /\ live' = live \ {x} /\ avail' = avail
        /\ result' = "freed"
    BY <1>9, <2>1 DEF FreeToBin
  <2>3. /\ Typed(push(lists, x.ptr, b), live \ {x}, avail)
        /\ \E other : Owned(other, push(lists, x.ptr, b), live \ {x}, avail)
    BY <1>1, <1>2, <2>1, GiveChunk
  <2> QED BY <2>2, <2>3
<1>10. ASSUME NEW x \in live, FreePages(x)
       PROVE  /\ Typed(lists', live', avail')
              /\ result' \in {"init", "block", "NULL", "freed", "invalid"}
              /\ \E other : Owned(other, lists', live', avail')
  <2>1. /\ bin_index(x.n) = 0 /\ avail' = avail \cup PagesOf(x) /\ live' = live \ {x}
        /\ result' = "freed"
    BY <1>10 DEF FreePages
  <2>2. PICK l : l = lists' /\ l = Fill(lists, x.ptr, Cardinality(PagesOf(x)) * PageUnits)
    BY <1>10 DEF FreePages
  <2>3. /\ Typed(l, live \ {x}, avail \cup PagesOf(x))
        /\ Owned(free, l, live \ {x}, avail \cup PagesOf(x))
    BY <1>1, <1>2, <2>1, <2>2, GivePages
  <2> QED BY <2>1, <2>2, <2>3
<1>11. ASSUME NEW x \in live, FreeRefused(x)
       PROVE  UNCHANGED <<lists, live, avail>> /\ result' = "invalid"
  BY <1>11 DEF FreeRefused, OnlyResult
<1>12. ASSUME NEW x \in live, OwnerWrites(x)
       PROVE  /\ Typed(lists', live', avail')
              /\ result' \in {"init", "block", "NULL", "freed", "invalid"}
              /\ \E other : Owned(other, lists', live', avail')
  <2>1. /\ lists' = Fill(lists, x.ptr, x.n)
        /\ avail' = avail /\ live' = live /\ result' = result
    BY <1>12 DEF OwnerWrites
  <2>2. x \in Block /\ WellPlaced(x)
    BY <1>1, <1>2 DEF Owned, Typed
  <2>3. x.ptr .. x.ptr + x.n - 1 \subseteq BlockUnits(x)
    BY <2>2, BlockIsLargeEnough
  <2>4. /\ Fill(lists, x.ptr, x.n) \in Lists
        /\ \A d \in Bins : FreeList(Fill(lists, x.ptr, x.n), d, free[d])
    BY <1>1, <1>2, <2>3, DataStaysInBlock
  <2>5. Owned(free, Fill(lists, x.ptr, x.n), live, avail)
    BY <1>1, <2>4 DEF Owned
  <2>6. Typed(Fill(lists, x.ptr, x.n), live, avail)
    BY <1>2, <2>4 DEF Typed
  <2> QED BY <1>2, <2>1, <2>5, <2>6
<1>13. CASE Next
  <2>1. ASSUME NEW n \in Requests,
               AllocFromBin(n) \/ AllocFromNewPage(n) \/ AllocPages(n) \/ AllocFails(n)
        PROVE  /\ Typed(lists', live', avail')
               /\ result' \in {"init", "block", "NULL", "freed", "invalid"}
               /\ \E other : Owned(other, lists', live', avail')
    BY <1>3, <1>5, <1>6, <1>7, <1>8, <2>1
  <2>2. ASSUME NEW x \in live,
               FreeToBin(x) \/ FreePages(x) \/ FreeRefused(x) \/ OwnerWrites(x)
        PROVE  /\ Typed(lists', live', avail')
               /\ result' \in {"init", "block", "NULL", "freed", "invalid"}
               /\ \E other : Owned(other, lists', live', avail')
    BY <1>3, <1>9, <1>10, <1>11, <1>12, <2>2
  <2> QED BY <1>13, <2>1, <2>2 DEF Next
<1> QED BY <1>4, <1>13

\* What the invariant says of the lists, the blocks and the memory.
LEMMA Consequences ==
    ASSUME Inv
    PROVE  ListsIntact /\ BlocksDisjoint /\ FreeMeansFree /\ NothingLeaked
<1>1. PICK free : Owned(free, lists, live, avail)
  BY DEF Inv
<1>2. Typed(lists, live, avail)
  BY TypeOKIs DEF Inv
<1>3. \A b \in Bins : FreeList(lists, b, free[b])
  BY <1>1 DEF Owned
<1>4. /\ \A b \in Bins : Last(Chain(b)) = NULL
      /\ \A b \in Bins : \A c : c \in FreeChunks(b) <=> \E k \in 1 .. Len(free[b]) : c = free[b][k]
  BY <1>3, ChainIs
<1>5. ListsIntact
  BY <1>4 DEF ListsIntact
<1>6. BlocksDisjoint
  <2>1. \A x, y \in live : x # y => BlockUnits(x) \cap BlockUnits(y) = {}
    BY <1>1, <1>2, Apart
  <2>2. ASSUME NEW x \in live
        PROVE  /\ x.ptr .. x.ptr + x.n - 1 \subseteq BlockUnits(x)
               /\ bin_index(x.n) # 0 => is_aligned_to_bin(x.ptr, BinSizes[bin_index(x.n)])
    <3>1. x \in Block /\ WellPlaced(x)
      BY <1>1, <1>2 DEF Owned, Typed
    <3>2. x.ptr .. x.ptr + x.n - 1 \subseteq BlockUnits(x)
      BY <3>1, BlockIsLargeEnough
    <3> QED BY <3>1, <3>2 DEF WellPlaced
  <2> QED BY <2>1, <2>2 DEF BlocksDisjoint
<1>7. FreeMeansFree
  <2>1. ASSUME NEW b \in Bins, NEW c \in FreeChunks(b)
        PROVE  /\ \A x \in live : ChunkUnits(c, b) \cap BlockUnits(x) = {}
               /\ \A page \in avail : ChunkUnits(c, b) \cap Units(page) = {}
               /\ \A d \in Bins : \A e \in FreeChunks(d) :
                     <<b, c>> # <<d, e>> => ChunkUnits(c, b) \cap ChunkUnits(e, d) = {}
    <3>1. PICK k \in 1 .. Len(free[b]) : c = free[b][k]
      BY <1>4
    <3>2. /\ \A x \in live : ChunkUnits(c, b) \cap BlockUnits(x) = {}
          /\ \A page \in avail : ChunkUnits(c, b) \cap Units(page) = {}
          /\ \A d \in Bins : \A j \in 1 .. Len(free[d]) :
                <<b, c>> # <<d, free[d][j]>>
                  => ChunkUnits(c, b) \cap ChunkUnits(free[d][j], d) = {}
      BY <1>1, <1>2, <3>1, Apart
    <3>3. ASSUME NEW d \in Bins, NEW e \in FreeChunks(d), <<b, c>> # <<d, e>>
          PROVE  ChunkUnits(c, b) \cap ChunkUnits(e, d) = {}
      <4>1. PICK j \in 1 .. Len(free[d]) : e = free[d][j]
        BY <1>4
      <4> QED BY <3>2, <3>3, <4>1
    <3> QED BY <3>2, <3>3
  <2> QED BY <2>1 DEF FreeMeansFree
<1>8. NothingLeaked
  <2> DEFINE P == Pieces(free, live, avail)
             PU == {Units(page) : page \in avail}
             BU == {BlockUnits(x) : x \in live}
             CU == UNION {{ChunkUnits(c, b) : c \in FreeChunks(b)} : b \in Bins}
  <2>1. \A u : u \in Addresses <=> \E p \in P : u \in PieceUnits(p)
    BY <1>1 DEF Owned, Partition
  <2>2. ASSUME NEW u
        PROVE  (\E p \in P : u \in PieceUnits(p)) <=>
                  \/ \E page \in avail : u \in Units(page)
                  \/ \E x \in live : u \in BlockUnits(x)
                  \/ \E b \in Bins : \E k \in 1 .. Len(free[b]) : u \in ChunkUnits(free[b][k], b)
    <3>1. \A p : p \in P <=>
             \/ \E page \in avail : p = PagePiece(page)
             \/ \E x \in live : p = BlockPiece(x)
             \/ \E b \in Bins : \E k \in 1 .. Len(free[b]) : p = ChunkPiece(b, free[b][k])
      BY PiecesAre
    <3>2. \A x \in live : x \in Block
      BY <1>2 DEF Typed
    <3> HIDE DEF P
    <3>3. ASSUME NEW p \in P, u \in PieceUnits(p)
          PROVE  \/ \E page \in avail : u \in Units(page)
                 \/ \E x \in live : u \in BlockUnits(x)
                 \/ \E b \in Bins : \E k \in 1 .. Len(free[b]) : u \in ChunkUnits(free[b][k], b)
      BY <3>1, <3>2, <3>3, PieceUnitsAre
    <3>4. ASSUME NEW page \in avail, u \in Units(page)
          PROVE  \E p \in P : u \in PieceUnits(p)
      BY <3>1, <3>4, PieceUnitsAre
    <3>5. ASSUME NEW x \in live, u \in BlockUnits(x)
          PROVE  \E p \in P : u \in PieceUnits(p)
      BY <3>1, <3>2, <3>5, PieceUnitsAre
    <3>6. ASSUME NEW b \in Bins, NEW k \in 1 .. Len(free[b]), u \in ChunkUnits(free[b][k], b)
          PROVE  \E p \in P : u \in PieceUnits(p)
      BY <3>1, <3>6, PieceUnitsAre
    <3> QED BY <3>3, <3>4, <3>5, <3>6
  <2>3. ASSUME NEW u
        PROVE  /\ (\E T \in PU : u \in T) <=> \E page \in avail : u \in Units(page)
               /\ (\E T \in BU : u \in T) <=> \E x \in live : u \in BlockUnits(x)
               /\ (\E T \in CU : u \in T)
                    <=> \E b \in Bins : \E k \in 1 .. Len(free[b]) : u \in ChunkUnits(free[b][k], b)
    <3>1. (\E T \in PU : u \in T) <=> \E page \in avail : u \in Units(page)
      OBVIOUS
    <3>2. (\E T \in BU : u \in T) <=> \E x \in live : u \in BlockUnits(x)
      OBVIOUS
    <3>3. (\E T \in CU : u \in T)
            <=> \E b \in Bins : \E c \in FreeChunks(b) : u \in ChunkUnits(c, b)
      OBVIOUS
    <3>4. (\E b \in Bins : \E c \in FreeChunks(b) : u \in ChunkUnits(c, b))
            <=> \E b \in Bins : \E k \in 1 .. Len(free[b]) : u \in ChunkUnits(free[b][k], b)
      BY <1>4
    <3> HIDE DEF PU, BU, CU
    <3> QED BY <3>1, <3>2, <3>3, <3>4
  <2> HIDE DEF P, PU, BU, CU
  <2>4. \A u : u \in Addresses <=> u \in UNION (PU \cup BU \cup CU)
    BY <2>1, <2>2, <2>3
  <2>5. Addresses = UNION (PU \cup BU \cup CU)
    BY <2>4
  <2> QED BY <2>5 DEF NothingLeaked, PU, BU, CU
<1> QED BY <1>5, <1>6, <1>7, <1>8

-----------------------------------------------------------------------------
(* The theorems.                                                           *)

\* The invariant holds in every reachable state.
THEOREM BinInvariant == Spec => []Inv
<1>1. Init => Inv
  BY InitInv
<1>2. Inv /\ [Next]_vars => Inv'
  BY NextInv
<1> QED BY <1>1, <1>2, PTL DEF Spec

\* Type correctness: no list ever begins with data, and no caller gets a pointer
\* that is not memory of the pages (bin_alloc, pop).
THEOREM BinTypeCorrect == Spec => []TypeOK
<1>1. Inv => TypeOK
  BY DEF Inv
<1> QED BY <1>1, BinInvariant, PTL

\* Every free list ends in NULL, whatever the owners of blocks write (push, pop,
\* init_bin_page).
THEOREM BinListsIntact == Spec => []ListsIntact
<1>1. Inv => ListsIntact
  BY Consequences
<1> QED BY <1>1, BinInvariant, PTL

\* No two callers hold the same memory, a block is large enough, and bin_free would
\* not refuse it (bin_alloc, bin_free).
THEOREM BinBlocksDisjoint == Spec => []BlocksDisjoint
<1>1. Inv => BlocksDisjoint
  BY Consequences
<1> QED BY <1>1, BinInvariant, PTL

\* What is on a free list is nobody else's (init_bin_page, free_to_bin).
THEOREM BinFreeMeansFree == Spec => []FreeMeansFree
<1>1. Inv => FreeMeansFree
  BY Consequences
<1> QED BY <1>1, BinInvariant, PTL

\* No memory is lost (init_bin_page, bin_free).
THEOREM BinNothingLeaked == Spec => []NothingLeaked
<1>1. Inv => NothingLeaked
  BY Consequences
<1> QED BY <1>1, BinInvariant, PTL

=============================================================================
