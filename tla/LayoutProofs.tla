---------------------------- MODULE LayoutProofs ----------------------------
(***************************************************************************)
(* The four invariants of LayoutSafety, for images and blocks of any size. *)
(* They hold together: the superblock is always the one that fs_mount      *)
(* computed from the length of fs.img, also after fs_reset, which computes *)
(* it from what is left of that length.                                    *)
(***************************************************************************)
EXTENDS LayoutSafety, NatSets, FiniteSetTheorems

-----------------------------------------------------------------------------
(* Arithmetic of the divisions that the superblock is made of.              *)

LEMMA LayoutSizes ==
  /\ BSize \in Nat \ {0} /\ InodeSize \in Nat \ {0} /\ InodeSize <= BSize
  /\ NBlocks \in Nat /\ Behind \in Nat /\ Sizes \subseteq Nat
  BY LayoutAssumption DEF LayoutAssumption

LEMMA Product ==
  ASSUME NEW a \in Nat, NEW b \in Nat
  PROVE  /\ a * b \in Nat /\ (a + 1) * b = a * b + b
         /\ a * (b + 1) = a * b + a
<1>1. a * b \in Nat
  OBVIOUS
<1>2. (a + 1) * b = a * b + b /\ a * (b + 1) = a * b + a
  OBVIOUS
<1>3. QED
  BY <1>1, <1>2

LEMMA ProductMonotone ==
  ASSUME NEW a \in Nat, NEW b \in Nat, NEW c \in Nat, a <= b
  PROVE  a * c <= b * c /\ c * a <= c * b
<1>1. (b - a) * c >= 0
  OBVIOUS
<1>2. (b - a) * c = b * c - a * c
  OBVIOUS
<1>3. c * a = a * c /\ c * b = b * c
  OBVIOUS
<1>4. a * c \in Nat /\ b * c \in Nat
  BY Product
<1>5. QED
  BY <1>1, <1>2, <1>3, <1>4

\* Factors are in the order of their products.
LEMMA FactorLess ==
  ASSUME NEW a \in Nat, NEW b \in Nat, NEW c \in Nat \ {0}, a * c < b * c
  PROVE  a < b
<1>1. SUFFICES ASSUME b <= a PROVE FALSE
  OBVIOUS
<1>2. b * c <= a * c
  BY <1>1, ProductMonotone
<1>3. a * c \in Nat /\ b * c \in Nat
  BY Product
<1>4. QED
  BY <1>2, <1>3

LEMMA Division ==
  ASSUME NEW a \in Nat, NEW d \in Nat \ {0}
  PROVE  /\ a \div d \in Nat /\ (a \div d) * d \in Nat
         /\ (a \div d) * d <= a /\ a < (a \div d) * d + d
<1>1. a \div d \in Nat /\ a % d \in 0 .. d - 1
  OBVIOUS
<1>2. a = d * (a \div d) + (a % d)
  OBVIOUS
<1>3. d * (a \div d) = (a \div d) * d /\ (a \div d) * d \in Nat
  BY <1>1, Product
<1>4. QED
  BY <1>1, <1>2, <1>3

\* The quotient is the one number whose multiple is next below.
LEMMA Quotient ==
  ASSUME NEW a \in Nat, NEW d \in Nat \ {0}, NEW q \in Nat,
         q * d <= a, a < q * d + d
  PROVE  a \div d = q
<1> DEFINE r == a \div d
<1>1. r \in Nat /\ r * d \in Nat /\ r * d <= a /\ a < r * d + d
  BY Division
<1> HIDE DEF r
<1>2. /\ (r + 1) * d = r * d + d /\ (q + 1) * d = q * d + d /\ q * d \in Nat
      /\ r + 1 \in Nat /\ q + 1 \in Nat
  BY <1>1, Product
<1>3. r * d < (q + 1) * d /\ q * d < (r + 1) * d
  BY <1>1, <1>2
<1>4. r < q + 1 /\ q < r + 1
  BY <1>1, <1>2, <1>3, FactorLess
<1>5. r = q
  BY <1>1, <1>4
<1>6. QED
  BY <1>5 DEF r

LEMMA DivisionMonotone ==
  ASSUME NEW a \in Nat, NEW b \in Nat, NEW d \in Nat \ {0}, a <= b
  PROVE  a \div d <= b \div d
<1> DEFINE q == a \div d
           r == b \div d
<1>1. /\ q \in Nat /\ q * d \in Nat /\ q * d <= a
      /\ r \in Nat /\ r * d \in Nat /\ b < r * d + d
  BY Division
<1> HIDE DEF q, r
<1>2. r + 1 \in Nat /\ (r + 1) * d = r * d + d
  BY <1>1, Product
<1>3. q * d < (r + 1) * d
  BY <1>1, <1>2
<1>4. q < r + 1
  BY <1>1, <1>2, <1>3, FactorLess
<1>5. q <= r
  BY <1>1, <1>4
<1>6. QED
  BY <1>5 DEF q, r

\* An image of size bytes, one byte longer, is mapped to one block more than it
\* has whole ones; and fs_reset finds the number of its blocks again.
LEMMA ImageBlocks ==
  ASSUME NEW size \in Nat
  PROVE  /\ size \div BSize \in Nat
         /\ CeilDiv(size + 1, BSize) = size \div BSize + 1
         /\ CeilDiv(size, BSize) \in Nat
         /\ CeilDiv(size, BSize) <= CeilDiv(size + 1, BSize)
         /\ ((size \div BSize) * BSize) \div BSize = size \div BSize
<1> DEFINE t == size \div BSize
<1>1. t \in Nat /\ t * BSize \in Nat /\ t * BSize <= size /\ size < t * BSize + BSize
  BY Division, LayoutSizes
<1> HIDE DEF t
<1>2. t + 1 \in Nat /\ (t + 1) * BSize = t * BSize + BSize
  BY <1>1, Product, LayoutSizes
<1>3. (size + BSize) \div BSize = t + 1
  <2>1. size + BSize \in Nat /\ (t + 1) * BSize <= size + BSize
        /\ size + BSize < (t + 1) * BSize + BSize
    BY <1>1, <1>2, LayoutSizes
  <2>2. QED
    BY <1>2, <2>1, Quotient, LayoutSizes
<1>4. (size + 1) + BSize - 1 = size + BSize
  BY LayoutSizes
<1>5. (size + BSize - 1) \div BSize \in Nat
      /\ (size + BSize - 1) \div BSize <= (size + BSize) \div BSize
  <2>1. size + BSize - 1 \in Nat /\ size + BSize \in Nat /\ size + BSize - 1 <= size + BSize
    BY LayoutSizes
  <2>2. QED
    BY <2>1, Division, DivisionMonotone, LayoutSizes
<1>6. (t * BSize) \div BSize = t
  <2>1. t * BSize <= t * BSize /\ t * BSize < t * BSize + BSize
    BY <1>1, LayoutSizes
  <2>2. QED
    BY <1>1, <2>1, Quotient, LayoutSizes
<1>7. QED
  BY <1>1, <1>3, <1>4, <1>5, <1>6 DEF CeilDiv, t

\* A bitmap with a bit for each of n things fits in the blocks that the
\* superblock gives it, though the divisions round down.
LEMMA BitmapRoom ==
  ASSUME NEW n \in Nat
  PROVE  /\ (n \div 8) \div BSize \in Nat
         /\ n < 8 * BSize * ((n \div 8) \div BSize + 1)
         /\ 8 * BSize * ((n \div 8) \div BSize) <= n
<1> DEFINE m == n \div 8
           q == m \div BSize
<1>1. m \in Nat /\ 8 * m <= n /\ n < 8 * m + 8
  OBVIOUS
<1>2. q \in Nat /\ q * BSize \in Nat /\ q * BSize <= m /\ m < q * BSize + BSize
  BY <1>1, Division, LayoutSizes
<1> HIDE DEF m, q
<1>3. 8 * BSize * (q + 1) = 8 * (q * BSize + BSize) /\ 8 * BSize * q = 8 * (q * BSize)
  BY <1>2, LayoutSizes
<1>4. QED
  BY <1>1, <1>2, <1>3, LayoutSizes DEF m, q

\* The region of inodes has room for as many as the superblock names.
LEMMA InodeRoom ==
  ASSUME NEW k \in Nat
  PROVE  /\ InoPerBlk \in Nat /\ k * InoPerBlk \in Nat
         /\ k * InoPerBlk * InodeSize <= BSize * k
         /\ k * InoPerBlk <= k * BSize
<1> DEFINE per == BSize \div InodeSize
<1>1. per \in Nat /\ per * InodeSize \in Nat /\ per * InodeSize <= BSize
  BY Division, LayoutSizes
<1> HIDE DEF per
<1>2. k * (per * InodeSize) <= k * BSize
  BY <1>1, ProductMonotone, LayoutSizes
<1>3. k * per * InodeSize = k * (per * InodeSize) /\ k * BSize = BSize * k
  BY <1>1, LayoutSizes
<1>4. per <= per * InodeSize
  <2>1. per * 1 <= per * InodeSize
    BY <1>1, ProductMonotone, LayoutSizes
  <2>2. QED
    BY <1>1, <2>1
<1>5. per <= BSize
  BY <1>1, <1>4, LayoutSizes
<1>6. k * per <= k * BSize /\ k * per \in Nat
  BY <1>1, <1>5, ProductMonotone, Product, LayoutSizes
<1>7. QED
  BY <1>1, <1>2, <1>3, <1>6 DEF InoPerBlk, per

\* What init_superblock computes for an image of any size.
LEMMA Superblock ==
  ASSUME NEW size \in Nat, NEW s, s = init_superblock(size)
  PROVE  /\ s.size = size \div BSize /\ s.size \in Nat /\ s.ninodes \in Nat
         /\ s.inodestart \in Nat /\ s.bitmapstart \in Nat /\ s.datastart \in Nat
         /\ 1 <= s.inodebitmapstart
         /\ s.inodebitmapstart < s.inodestart
         /\ s.inodestart <= s.bitmapstart
         /\ s.bitmapstart < s.datastart
         /\ s.ninodes <= 8 * BSize * (s.inodestart - s.inodebitmapstart)
         /\ s.ninodes * InodeSize <= BSize * (s.bitmapstart - s.inodestart)
         /\ s.size < 8 * BSize * (s.datastart - s.bitmapstart)
         /\ s.datastart <= 8 * BSize * (s.datastart - s.bitmapstart)
<1> DEFINE total == size \div BSize
           k == (3 * total) \div 100
           n == k * InoPerBlk
           i == (n \div 8) \div BSize
           d == (total \div 8) \div BSize
<1>1. total \in Nat
  BY Division, LayoutSizes
<1>2. k \in Nat /\ 100 * k <= 3 * total
  <2> HIDE DEF total
  <2>1. QED
    BY <1>1
<1>3. /\ n \in Nat /\ n * InodeSize <= BSize * k /\ n <= k * BSize
  <2> HIDE DEF k
  <2>1. QED
    BY <1>2, InodeRoom
<1>4. i \in Nat /\ n < 8 * BSize * (i + 1) /\ 8 * BSize * i <= n
  <2> HIDE DEF n
  <2>1. QED
    BY <1>3, BitmapRoom
<1>5. d \in Nat /\ total < 8 * BSize * (d + 1) /\ 8 * BSize * d <= total
  <2> HIDE DEF total
  <2>1. QED
    BY <1>1, BitmapRoom
<1>6. /\ s.size = total /\ s.ninodes = n /\ s.inodebitmapstart = 1
      /\ s.inodestart = 1 + (i + 1) /\ s.bitmapstart = 1 + (i + 1) + k
      /\ s.datastart = 1 + (i + 1) + k + (d + 1)
  BY DEF init_superblock, InodeBitmapBlocks, BitmapBlocks
<1> HIDE DEF total, k, n, i, d
<1>7. /\ s.inodestart - s.inodebitmapstart = i + 1
      /\ s.bitmapstart - s.inodestart = k
      /\ s.datastart - s.bitmapstart = d + 1
  BY <1>2, <1>4, <1>5, <1>6
<1>8. 8 * i <= k
  <2>1. (8 * i) * BSize <= k * BSize
    <3>1. (8 * i) * BSize = 8 * BSize * i
      BY <1>4, LayoutSizes
    <3>2. k * BSize \in Nat /\ 8 * BSize * i \in Nat
      BY <1>2, <1>4, LayoutSizes
    <3>3. QED
      BY <1>3, <1>4, <3>1, <3>2
  <2>2. ~ (k * BSize < (8 * i) * BSize)
    BY <1>2, <1>4, <2>1, LayoutSizes
  <2>3. ~ (k < 8 * i)
    <3>1. ASSUME k < 8 * i PROVE FALSE
      <4>1. (k + 1) * BSize <= (8 * i) * BSize
        BY <1>2, <1>4, <3>1, ProductMonotone, LayoutSizes
      <4>2. (k + 1) * BSize = k * BSize + BSize /\ k * BSize \in Nat
        BY <1>2, Product, LayoutSizes
      <4>3. (8 * i) * BSize \in Nat
        BY <1>4, Product, LayoutSizes
      <4>4. QED
        BY <2>1, <4>1, <4>2, <4>3, LayoutSizes
    <3>2. QED
      BY <3>1
  <2>4. QED
    BY <1>2, <1>4, <2>3
<1>9. 8 * (d + 1) <= 8 * BSize * (d + 1)
  <2>1. 1 * (8 * (d + 1)) <= BSize * (8 * (d + 1))
    BY <1>5, ProductMonotone, LayoutSizes
  <2>2. BSize * (8 * (d + 1)) = 8 * BSize * (d + 1)
    BY <1>5, LayoutSizes
  <2>3. QED
    BY <1>5, <2>1, <2>2
<1> DEFINE room == 8 * BSize * (d + 1)
<1>10. room \in Nat /\ total < room /\ 8 * (d + 1) <= room
  BY <1>5, <1>9, LayoutSizes
<1>11. 8 * d <= total
  <2>1. 1 * (8 * d) <= BSize * (8 * d)
    BY <1>5, ProductMonotone, LayoutSizes
  <2>2. BSize * (8 * d) = 8 * BSize * d /\ 8 * BSize * d \in Nat
    BY <1>5, LayoutSizes
  <2>3. QED
    BY <1>1, <1>5, <2>1, <2>2
<1>12. s.datastart <= room
  <2> HIDE DEF room
  <2>1. 3 + i + k + d <= room
    BY <1>1, <1>2, <1>4, <1>5, <1>8, <1>10, <1>11
  <2>2. s.datastart = 3 + i + k + d
    BY <1>2, <1>4, <1>5, <1>6
  <2>3. QED
    BY <2>1, <2>2
<1>13. n <= 8 * BSize * (i + 1)
  BY <1>3, <1>4, LayoutSizes
<1>14. QED
  BY <1>1, <1>2, <1>3, <1>4, <1>5, <1>6, <1>7, <1>10, <1>12, <1>13 DEF room, total

-----------------------------------------------------------------------------
(* The invariant.                                                           *)

\* The end of the memory that blocks can be in, counted from the data.
DataEnd ==
  IF sb.datastart <= CeilDiv(file, BSize) + Behind
  THEN CeilDiv(file, BSize) + Behind - sb.datastart ELSE 0

\* Each death of the process sets one bit after the memory it had.
BitsBound == \A b \in bits : b < DataEnd + ends

TypeInv ==
  /\ file \in Nat /\ mapped \in Nat /\ behind \in 0 .. Behind /\ ends \in Nat
  /\ held \in [inobits \ {0} -> SUBSET Nat]

NothingInv == file = 0 => mapped = 0 /\ inobits = {} /\ bits = {}

ImageInv ==
  Formatted =>
    /\ sb = init_superblock(file - 1)
    /\ mapped <= CeilDiv(file, BSize)
    /\ bits \subseteq 0 .. 8 * sb.size - 1
    /\ BitsBound

LayoutInv == TypeInv /\ NothingInv /\ ImageInv /\ InodesInRegion

LEMMA LayoutInit ==
  ASSUME Init
  PROVE  LayoutInv
<1>1. held \in [inobits \ {0} -> SUBSET Nat] /\ DOMAIN held = {}
  BY DEF Init, NoFiles
<1>2. TypeInv /\ NothingInv /\ ImageInv
  BY <1>1, LayoutSizes DEF Init, TypeInv, NothingInv, ImageInv, Formatted
<1>3. InodesInRegion
  BY <1>1 DEF Init, InodesInRegion
<1>4. QED
  BY <1>2, <1>3 DEF LayoutInv

\* The numbers of an image, as the proofs below use them.
LEMMA ImageNumbers ==
  ASSUME TypeInv, ImageInv, Formatted
  PROVE  /\ sb.size \in Nat /\ sb.ninodes \in Nat /\ sb.datastart \in Nat
         /\ CeilDiv(file, BSize) = sb.size + 1
         /\ DataEnd \in Nat
<1>1. file - 1 \in Nat /\ (file - 1) + 1 = file
  BY DEF TypeInv, Formatted
<1>2. /\ sb.size \in Nat /\ sb.ninodes \in Nat /\ sb.datastart \in Nat
      /\ sb.size = (file - 1) \div BSize
  BY <1>1, Superblock DEF ImageInv
<1>3. CeilDiv(file, BSize) = sb.size + 1
  BY <1>1, <1>2, ImageBlocks
<1>4. DataEnd \in Nat
  BY <1>2, <1>3, LayoutSizes DEF DataEnd
<1>5. QED
  BY <1>2, <1>3, <1>4

\* get_free_inum returns an inode of the image that is not in use, or 0.
LEMMA FreeInode ==
  ASSUME NEW s, s.ninodes \in Nat, NEW used
  PROVE  LET i == get_free_inum(s, used)
         IN  i \in Nat /\ (i # 0 => i < s.ninodes /\ i \notin used)
<1> DEFINE free == Searched(s) \ used
<1>1. free \in SUBSET Nat /\ \A i \in free : i < s.ninodes
  BY DEF Searched
<1>2. CASE free = {}
  BY <1>2 DEF get_free_inum
<1>3. CASE free # {}
  <2>1. PICK i \in free : \A j \in free : i <= j
    BY <1>1, <1>3, NatMinimum
  <2>2. Min(free) \in free
    BY <2>1 DEF Min
  <2>3. get_free_inum(s, used) = Min(free)
    BY <1>3 DEF get_free_inum
  <2> HIDE DEF free
  <2>4. get_free_inum(s, used) \in free
    BY <2>2, <2>3
  <2>5. QED
    BY <1>1, <2>4 DEF free
<1>4. QED
  BY <1>2, <1>3

\* init_fs leaves an image with the root, or without an inode.
LEMMA InitFsKeeps ==
  ASSUME NEW size \in Nat, NEW pages \in Nat, InitFs(size, pages),
         TypeInv, file' \in Nat \ {0}, behind' \in 0 .. Behind, ends' \in Nat,
         init_superblock(size) = init_superblock(file' - 1),
         pages <= CeilDiv(file', BSize)
  PROVE  LayoutInv'
<1> DEFINE s == init_superblock(size)
           root == get_free_inum(s, {0})
<1>1. s.ninodes \in Nat /\ s.size \in Nat
  BY Superblock
<1>2. root \in Nat /\ (root # 0 => root < s.ninodes)
  BY <1>1, FreeInode
<1>3. /\ sb' = s /\ bits' = {}
      /\ inobits' = IF root = 0 THEN {0} ELSE {0, root}
      /\ held' = IF root = 0 THEN NoFiles ELSE [i \in {root} |-> {}]
      /\ mapped' = IF root = 0 THEN 0 ELSE pages
  BY DEF InitFs
<1> HIDE DEF root
<1>4. /\ held' \in [inobits' \ {0} -> SUBSET Nat] /\ DOMAIN held' = inobits' \ {0}
      /\ \A i \in DOMAIN held' : held'[i] = {}
  <2>1. CASE root = 0
    BY <1>3, <2>1 DEF NoFiles
  <2>2. CASE root # 0
    <3>1. inobits' \ {0} = {root} /\ held' = [i \in {root} |-> {}]
      BY <1>3, <2>2
    <3>2. QED
      BY <3>1
  <2>3. QED
    BY <2>1, <2>2
<1>5. mapped' \in Nat /\ mapped' <= pages
  BY <1>3
<1>6. CeilDiv(file', BSize) \in Nat
  BY ImageBlocks
<1>7. TypeInv'
  BY <1>4, <1>5 DEF TypeInv
<1>8. NothingInv' /\ ImageInv'
  <2>1. mapped' <= CeilDiv(file', BSize)
    BY <1>5, <1>6
  <2>2. BitsBound'
    BY <1>3 DEF BitsBound
  <2>3. bits' \subseteq 0 .. 8 * sb'.size - 1
    BY <1>3
  <2>4. sb' = init_superblock(file' - 1)
    BY <1>3
  <2>5. QED
    BY <2>1, <2>2, <2>3, <2>4 DEF NothingInv, ImageInv, Formatted
<1>9. InodesInRegion'
  <2>1. \A i \in inobits' : i < s.ninodes \/ i = 0
    BY <1>2, <1>3
  <2>2. QED
    BY <1>3, <1>4, <2>1 DEF InodesInRegion
<1>10. QED
  BY <1>7, <1>8, <1>9 DEF LayoutInv

LEMMA MountNewKeeps ==
  ASSUME LayoutInv, NEW size \in Sizes, MountNew(size)
  PROVE  LayoutInv'
<1>1. size \in Nat
  BY LayoutSizes
<1>2. file' \in Nat \ {0} /\ file' - 1 = size /\ file' = size + 1
  BY <1>1 DEF MountNew
<1>3. CeilDiv(size, BSize) \in Nat /\ CeilDiv(size, BSize) <= CeilDiv(file', BSize)
  BY <1>1, <1>2, ImageBlocks
<1>4. InitFs(size, CeilDiv(size, BSize)) /\ behind' \in 0 .. Behind /\ ends' \in Nat
  BY DEF MountNew, LayoutInv, TypeInv
<1>5. QED
  BY <1>1, <1>2, <1>3, <1>4, InitFsKeeps DEF LayoutInv

LEMMA ResetKeeps ==
  ASSUME LayoutInv, fs_reset
  PROVE  LayoutInv'
<1>1. TypeInv /\ NothingInv /\ ImageInv /\ mapped > 0
  BY DEF LayoutInv, fs_reset
<1>2. Formatted /\ file \in Nat
  BY <1>1 DEF NothingInv, TypeInv, Formatted
<1>3. sb = init_superblock(file - 1) /\ mapped <= CeilDiv(file, BSize) /\ file - 1 \in Nat
  BY <1>1, <1>2 DEF ImageInv, Formatted
<1>4. sb.size = (file - 1) \div BSize /\ sb.size \in Nat
  BY <1>3, Superblock
<1>5. sb.size * BSize \in Nat
  BY <1>4, Product, LayoutSizes
<1>6. (sb.size * BSize) \div BSize = (file - 1) \div BSize
  BY <1>3, <1>4, ImageBlocks
<1>7. init_superblock(sb.size * BSize) = init_superblock(file - 1)
  BY <1>6 DEF init_superblock
<1>8. /\ InitFs(sb.size * BSize, mapped) /\ file' = file
      /\ behind' \in 0 .. Behind /\ ends' \in Nat /\ mapped \in Nat
  BY <1>1 DEF fs_reset, TypeInv
<1>9. file' \in Nat \ {0}
  BY <1>2, <1>8 DEF Formatted
<1>10. QED
  BY <1>1, <1>3, <1>5, <1>7, <1>8, <1>9, InitFsKeeps

\* The image stays as it is when it is mapped and when the process ends.
LEMMA MountKeeps ==
  ASSUME LayoutInv, Mount \/ Unmount
  PROVE  LayoutInv'
<1>1. /\ UNCHANGED << file, sb, inobits, bits, held >>
      /\ file \in Nat /\ ends \in Nat
  BY DEF Mount, Unmount, LayoutInv, TypeInv
<1>2. /\ mapped' = 0 \/ (file > 0 /\ mapped' = CeilDiv(file, BSize))
      /\ behind' \in 0 .. Behind
      /\ ends' = ends \/ ends' = ends + 1
  BY DEF Mount, Unmount, Ends, LayoutInv, TypeInv
<1>3. Formatted => CeilDiv(file, BSize) \in Nat /\ DataEnd \in Nat
  BY ImageNumbers DEF LayoutInv
<1>4. TypeInv'
  BY <1>1, <1>2, <1>3 DEF LayoutInv, TypeInv, Formatted
<1>5. NothingInv'
  BY <1>1, <1>2 DEF LayoutInv, NothingInv
<1>6. ImageInv'
  <2>1. SUFFICES ASSUME Formatted PROVE ImageInv'
    BY <1>1 DEF ImageInv, Formatted
  <2>2. mapped' <= CeilDiv(file, BSize)
    BY <1>2, <1>3, <2>1
  <2>3. sb = init_superblock(file - 1) /\ bits \subseteq 0 .. 8 * sb.size - 1 /\ BitsBound
    BY <2>1 DEF LayoutInv, ImageInv
  <2>4. sb.size \in Nat
    BY <2>1, ImageNumbers DEF LayoutInv
  <2>5. BitsBound'
    <3>1. DataEnd' = DataEnd
      BY <1>1 DEF DataEnd
    <3>2. \A b \in bits : b \in Int
      BY <2>3, <2>4
    <3>3. QED
      BY <1>1, <1>2, <1>3, <2>1, <2>3, <3>1, <3>2 DEF BitsBound
  <2>6. QED
    BY <1>1, <2>2, <2>3, <2>5 DEF ImageInv
<1>7. InodesInRegion'
  BY <1>1 DEF LayoutInv, InodesInRegion
<1>8. QED
  BY <1>4, <1>5, <1>6, <1>7 DEF LayoutInv

\* alloc_inode and free_inode leave the blocks alone, but for the bits that
\* free_inode clears.
LEMMA InodesKeep ==
  ASSUME LayoutInv, mapped > 0,
         UNCHANGED << file, mapped, behind, sb, ends >>, bits' \subseteq bits,
         held' \in [inobits' \ {0} -> SUBSET Nat],
         \A i \in inobits' : i \in inobits \/ i < sb.ninodes \/ i = 0
  PROVE  LayoutInv'
<1>1. TypeInv' /\ NothingInv'
  BY DEF LayoutInv, TypeInv, NothingInv
<1>2. ImageInv'
  <2>1. SUFFICES ASSUME Formatted PROVE ImageInv'
    BY DEF ImageInv, Formatted
  <2>2. /\ sb = init_superblock(file - 1) /\ mapped <= CeilDiv(file, BSize)
        /\ bits \subseteq 0 .. 8 * sb.size - 1 /\ BitsBound
    BY <2>1 DEF LayoutInv, ImageInv
  <2>3. DataEnd' = DataEnd
    BY DEF DataEnd
  <2>4. BitsBound'
    BY <2>2, <2>3 DEF BitsBound
  <2>5. QED
    BY <2>2, <2>4 DEF ImageInv
<1>3. DOMAIN held' = inobits' \ {0}
  OBVIOUS
<1>4. InodesInRegion'
  BY <1>3 DEF LayoutInv, InodesInRegion
<1>5. QED
  BY <1>1, <1>2, <1>4 DEF LayoutInv

LEMMA CreateKeeps ==
  ASSUME LayoutInv, Create
  PROVE  LayoutInv'
<1> DEFINE i == get_free_inum(sb, inobits)
<1>1. /\ mapped > 0 /\ i # 0 /\ inobits' = inobits \union {i}
      /\ held' = [j \in DOMAIN held \union {i} |-> IF j = i THEN {} ELSE held[j]]
      /\ UNCHANGED << file, mapped, behind, sb, bits, ends >>
  BY DEF Create
<1>2. Formatted /\ TypeInv /\ ImageInv
  BY <1>1 DEF LayoutInv, NothingInv, TypeInv, Formatted
<1>3. sb.ninodes \in Nat
  BY <1>2, ImageNumbers
<1>4. i < sb.ninodes
  BY <1>1, <1>3, FreeInode
<1>5. held \in [inobits \ {0} -> SUBSET Nat] /\ DOMAIN held = inobits \ {0}
  BY <1>2 DEF TypeInv
<1> HIDE DEF i
<1>6. DOMAIN held \union {i} = inobits' \ {0}
  BY <1>1, <1>5
<1>7. held' \in [inobits' \ {0} -> SUBSET Nat]
  BY <1>1, <1>5, <1>6
<1>8. QED
  BY <1>1, <1>4, <1>7, InodesKeep

LEMMA RemoveKeeps ==
  ASSUME LayoutInv, NEW i \in DOMAIN held, Remove(i)
  PROVE  LayoutInv'
<1>1. /\ mapped > 0 /\ inobits' = inobits \ {i}
      /\ held' = [j \in DOMAIN held \ {i} |-> held[j]]
      /\ bits' \subseteq bits
      /\ UNCHANGED << file, mapped, behind, sb, ends >>
  BY DEF Remove
<1>2. held \in [inobits \ {0} -> SUBSET Nat] /\ DOMAIN held = inobits \ {0}
  BY DEF LayoutInv, TypeInv
<1>3. DOMAIN held \ {i} = inobits' \ {0}
  BY <1>1, <1>2
<1>4. held' \in [inobits' \ {0} -> SUBSET Nat]
  BY <1>1, <1>2, <1>3
<1>5. QED
  BY <1>1, <1>4, InodesKeep

\* alloc_data_block takes the first free bits: there is none before one of
\* them that it did not take.
LEMMA FirstFree ==
  ASSUME NEW n \in Nat, sb.size \in Nat, bits \subseteq 0 .. 8 * sb.size - 1
  PROVE  /\ FreeBits(n) \subseteq (0 .. 8 * sb.size - 1) \ bits
         /\ \A b \in FreeBits(n) : \A c \in Nat : c < b /\ c \notin bits => c \in FreeBits(n)
<1> DEFINE free == {b \in 0 .. 8 * sb.size - 1 : b \notin bits /\ b < Cardinality(bits) + n}
           before(b) == {c \in free : c < b}
<1>1. FreeBits(n) = {b \in free : Cardinality(before(b)) < n}
  BY DEF FreeBits
<1>2. IsFiniteSet(0 .. 8 * sb.size - 1)
  BY FS_Interval
<1>3. IsFiniteSet(bits) /\ Cardinality(bits) \in Nat
  BY <1>2, FS_Subset, FS_CardinalityType
<1>4. ASSUME NEW b \in FreeBits(n), NEW c \in Nat, c < b, c \notin bits
      PROVE  c \in FreeBits(n)
  <2>1. b \in free /\ b \in Nat /\ Cardinality(before(b)) < n
    BY <1>1
  <2>2. c \in free
    BY <1>3, <1>4, <2>1
  <2>3. before(c) \subseteq before(b)
    BY <1>4, <2>1
  <2>4. IsFiniteSet(before(b))
    BY <1>2, FS_Subset
  <2>5. /\ Cardinality(before(c)) <= Cardinality(before(b))
        /\ Cardinality(before(c)) \in Nat /\ Cardinality(before(b)) \in Nat
    BY <2>3, <2>4, FS_Subset, FS_CardinalityType
  <2> HIDE DEF before, free
  <2>6. Cardinality(before(c)) < n
    BY <2>1, <2>5
  <2>7. QED
    BY <1>1, <2>2, <2>6
<1>5. QED
  BY <1>1, <1>4

\* A write gets blocks of the data, or of the memory after the mapping; when
\* there is no such memory, the bit that is set is the first one without a
\* block, or one after those that earlier deaths have set.
LEMMA WriteKeeps ==
  ASSUME LayoutInv, NEW i \in DOMAIN held, NEW n \in Nat, Write(i, n)
  PROVE  LayoutInv'
<1> DEFINE found == FreeBits(n)
           missing == {b \in found : BlockOf(b) >= mapped + behind}
           good == found \ missing
<1>1. /\ mapped > 0
      /\ held' = [held EXCEPT ![i] = @ \union {BlockOf(b) : b \in good}]
      /\ UNCHANGED << file, behind, sb, inobits >>
  BY DEF Write
<1>2. \/ missing = {} /\ bits' = bits \union found /\ UNCHANGED << mapped, ends >>
      \/ missing # {} /\ ends' = ends + 1 /\ mapped' = 0
         /\ bits' = bits \union good \union {Min(missing)}
  BY DEF Write, Ends
<1>3. /\ Formatted /\ TypeInv /\ ImageInv
      /\ mapped \in Nat /\ behind \in 0 .. Behind /\ ends \in Nat
      /\ held \in [inobits \ {0} -> SUBSET Nat] /\ DOMAIN held = inobits \ {0}
  BY <1>1 DEF LayoutInv, NothingInv, TypeInv, Formatted
<1>4. /\ sb.size \in Nat /\ sb.datastart \in Nat /\ DataEnd \in Nat
      /\ CeilDiv(file, BSize) = sb.size + 1
  BY <1>3, ImageNumbers
<1>5. /\ mapped <= CeilDiv(file, BSize) /\ sb = init_superblock(file - 1)
      /\ bits \subseteq 0 .. 8 * sb.size - 1 /\ BitsBound
  BY <1>3 DEF ImageInv
<1>6. /\ found \subseteq (0 .. 8 * sb.size - 1) \ bits
      /\ \A b \in found : \A c \in Nat : c < b /\ c \notin bits => c \in found
  BY <1>4, <1>5, FirstFree
<1> HIDE DEF found
<1>7. found \subseteq Nat /\ bits \subseteq Nat
  BY <1>4, <1>5, <1>6
<1>8. ASSUME NEW b \in good
      PROVE  /\ BlockOf(b) \in Nat /\ sb.datastart <= BlockOf(b)
             /\ BlockOf(b) < CeilDiv(file, BSize) + Behind /\ b < DataEnd
  <2>1. b \in Nat /\ ~ (BlockOf(b) >= mapped + behind)
    BY <1>7, <1>8
  <2>2. BlockOf(b) = sb.datastart + b
    BY DEF BlockOf
  <2>3. QED
    BY <1>3, <1>4, <1>5, <2>1, <2>2, LayoutSizes DEF DataEnd
<1>9. ASSUME missing # {}
      PROVE  Min(missing) \in found /\ Min(missing) <= DataEnd + ends
  <2>1. missing \in SUBSET Nat
    BY <1>7
  <2>2. PICK m \in missing : \A c \in missing : m <= c
    BY <1>9, <2>1, NatMinimum
  <2> DEFINE least == Min(missing)
             past == DataEnd + ends
  <2>3. least \in missing /\ \A c \in missing : least <= c
    BY <2>2 DEF Min
  <2> HIDE DEF least
  <2>4. least \in found /\ least \in Nat /\ past \in Nat
    BY <1>3, <1>4, <2>1, <2>3
  <2>5. ASSUME past < least PROVE FALSE
    <3>1. past \notin bits
      <4>1. \A b \in bits : b < past
        BY <1>5 DEF BitsBound
      <4>2. QED
        BY <2>4, <4>1
    <3>2. past \in found
      BY <1>6, <2>4, <2>5, <3>1
    <3>3. BlockOf(past) >= mapped + behind
      BY <1>3, <1>4, <1>5, LayoutSizes DEF BlockOf, DataEnd
    <3>4. least <= past
      BY <2>3, <3>2, <3>3
    <3>5. QED
      BY <2>4, <2>5, <3>4
  <2>6. QED
    BY <2>4, <2>5 DEF least
<1>10. bits' \subseteq 0 .. 8 * sb.size - 1
  BY <1>2, <1>5, <1>6, <1>9
<1>11. BitsBound'
  <2>1. DataEnd' = DataEnd
    BY <1>1 DEF DataEnd
  <2>2. \A b \in bits \union good : b \in Nat /\ b < DataEnd + ends
    <3>1. \A b \in bits : b \in Nat /\ b < DataEnd + ends
      BY <1>5, <1>7 DEF BitsBound
    <3>2. \A b \in good : b \in Nat /\ b < DataEnd + ends
      BY <1>3, <1>4, <1>7, <1>8
    <3>3. QED
      BY <3>1, <3>2
  <2>3. CASE missing = {} /\ bits' = bits \union found /\ ends' = ends
    <3>1. bits' = bits \union good
      BY <2>3
    <3>2. QED
      BY <2>1, <2>2, <2>3, <3>1 DEF BitsBound
  <2>4. CASE missing # {} /\ ends' = ends + 1 /\ bits' = bits \union good \union {Min(missing)}
    <3>1. Min(missing) \in Nat /\ Min(missing) <= DataEnd + ends
      BY <1>7, <1>9, <2>4
    <3> HIDE DEF missing, good
    <3>2. QED
      BY <1>3, <1>4, <2>1, <2>2, <2>4, <3>1 DEF BitsBound
  <2>5. QED
    BY <1>2, <2>3, <2>4
<1>12. mapped' \in Nat /\ mapped' <= CeilDiv(file, BSize) /\ ends' \in Nat
  BY <1>2, <1>3, <1>4, <1>5
<1>13. held' \in [inobits \ {0} -> SUBSET Nat]
       /\ \A j \in inobits \ {0} : held'[j] \subseteq held[j] \union {BlockOf(b) : b \in good}
  BY <1>1, <1>3, <1>8
<1>14. TypeInv' /\ NothingInv' /\ ImageInv'
  BY <1>1, <1>3, <1>5, <1>10, <1>11, <1>12, <1>13 DEF TypeInv, NothingInv, ImageInv, Formatted
<1>15. InodesInRegion'
  BY <1>1, <1>13 DEF LayoutInv, InodesInRegion
<1>16. QED
  BY <1>14, <1>15 DEF LayoutInv

LEMMA LayoutNext ==
  ASSUME LayoutInv, [Next]_vars
  PROVE  LayoutInv'
<1>1. CASE \E size \in Sizes : MountNew(size)
  BY <1>1, MountNewKeeps
<1>2. CASE Mount \/ Unmount
  BY <1>2, MountKeeps
<1>3. CASE fs_reset
  BY <1>3, ResetKeeps
<1>4. CASE Create
  BY <1>4, CreateKeeps
<1>5. CASE \E i \in DOMAIN held : Remove(i)
  BY <1>5, RemoveKeeps
<1>6. CASE \E i \in DOMAIN held \cap Writers, n \in Amounts : Write(i, n)
  <2>1. Amounts \subseteq Nat
    BY LayoutAssumption DEF LayoutAssumption
  <2>2. QED
    BY <1>6, <2>1, WriteKeeps
<1>7. CASE UNCHANGED vars
  BY <1>7 DEF vars, LayoutInv, TypeInv, NothingInv, ImageInv, Formatted, BitsBound,
              DataEnd, InodesInRegion
<1>8. QED
  BY <1>1, <1>2, <1>3, <1>4, <1>5, <1>6, <1>7 DEF Next

LEMMA LayoutInvariant == Spec => []LayoutInv
<1>1. Init => LayoutInv
  BY LayoutInit
<1>2. LayoutInv /\ [Next]_vars => LayoutInv'
  BY LayoutNext
<1>3. QED
  BY <1>1, <1>2, PTL DEF Spec

-----------------------------------------------------------------------------
\* The regions of an image of any size follow each other and have the room
\* that their entries need, also after fs_reset (init_superblock).
THEOREM RegionsInOrderCorrect == Spec => []RegionsInOrder
<1>1. LayoutInv => RegionsInOrder
  <2>1. SUFFICES ASSUME LayoutInv, Formatted PROVE RegionsInOrder
    BY DEF RegionsInOrder
  <2>2. file - 1 \in Nat /\ sb = init_superblock(file - 1)
    BY <2>1 DEF LayoutInv, TypeInv, ImageInv, Formatted
  <2> DEFINE room == 8 * BSize * (sb.datastart - sb.bitmapstart)
  <2>3. /\ 1 <= sb.inodebitmapstart
        /\ sb.inodebitmapstart < sb.inodestart
        /\ sb.inodestart <= sb.bitmapstart
        /\ sb.bitmapstart < sb.datastart
        /\ sb.ninodes <= 8 * BSize * (sb.inodestart - sb.inodebitmapstart)
        /\ sb.ninodes * InodeSize <= BSize * (sb.bitmapstart - sb.inodestart)
        /\ sb.size < room /\ sb.size \in Nat
        /\ sb.bitmapstart \in Nat /\ sb.datastart \in Nat
    BY <2>2, Superblock
  <2>4. room \in Int
    <3>1. sb.datastart - sb.bitmapstart \in Nat
      BY <2>3
    <3>2. QED
      BY <3>1, LayoutSizes
  <2> HIDE DEF room
  <2>5. sb.size <= room
    BY <2>3, <2>4
  <2>6. QED
    BY <2>3, <2>5 DEF RegionsInOrder, room
<1>2. QED
  BY <1>1, LayoutInvariant, PTL

\* An inode that get_free_inum hands out lies in its region (alloc_inode).
THEOREM InodesInRegionCorrect == Spec => []InodesInRegion
<1>1. LayoutInv => InodesInRegion
  BY DEF LayoutInv
<1>2. QED
  BY <1>1, LayoutInvariant, PTL

\* Though eight times as many bits are searched as the bitmap has, none is set
\* outside it before the process has died as often as the metadata have blocks
\* (alloc_data_block).
THEOREM BitsInBitmapCorrect == Spec => []BitsInBitmap
<1>1. LayoutInv => BitsInBitmap
  <2>1. SUFFICES ASSUME LayoutInv, ends + Behind < sb.datastart, NEW b \in bits
                 PROVE  b < 8 * BSize * (sb.datastart - sb.bitmapstart)
    BY DEF BitsInBitmap
  <2> DEFINE room == 8 * BSize * (sb.datastart - sb.bitmapstart)
  <2>2. Formatted /\ TypeInv /\ ImageInv
    BY <2>1 DEF LayoutInv, NothingInv, TypeInv, Formatted
  <2>3. file - 1 \in Nat /\ sb = init_superblock(file - 1)
    BY <2>2 DEF TypeInv, ImageInv, Formatted
  <2>4. /\ sb.size < room /\ sb.datastart <= room
        /\ sb.bitmapstart < sb.datastart /\ sb.bitmapstart \in Nat
    BY <2>3, Superblock
  <2>5. /\ sb.size \in Nat /\ sb.datastart \in Nat /\ DataEnd \in Nat
        /\ CeilDiv(file, BSize) = sb.size + 1
    BY <2>2, ImageNumbers
  <2>6. b \in Nat /\ b < DataEnd + ends /\ ends \in Nat
    BY <2>1, <2>2, <2>5 DEF ImageInv, BitsBound, TypeInv
  <2>7. room \in Int
    <3>1. sb.datastart - sb.bitmapstart \in Nat
      BY <2>4, <2>5
    <3>2. QED
      BY <3>1, LayoutSizes
  <2> HIDE DEF room
  <2>8. b < room
    BY <2>1, <2>4, <2>5, <2>6, <2>7, LayoutSizes DEF DataEnd
  <2>9. QED
    BY <2>8 DEF room
<1>2. QED
  BY <1>1, LayoutInvariant, PTL
=============================================================================
