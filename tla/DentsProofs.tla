---------------------------- MODULE DentsProofs -----------------------------
(***************************************************************************)
(* For all lengths of names, areas and blocks: every record has room for   *)
(* its name, ls prints what lookups find, and the directory is a map.      *)
(* The names must be so short that no length of a record wraps in eight    *)
(* bits (NoWrap).                                                          *)
(*                                                                         *)
(* A record begins where the one before it ends, so a list of records that *)
(* ends inside its area has all of them in it, and the loops meet them     *)
(* all.  A directory is then the set of its places in use, in which every  *)
(* name occurs once.                                                       *)
(***************************************************************************)
EXTENDS DentsSafety, NatSets

NoWrap == \A n \in Names : Reclen(n) < Byte

-----------------------------------------------------------------------------
(* Lists of records.                                                        *)

Rec == [name : Names, inum : Nat, reclen : Nat, off : Nat]

Chained(s) ==
  \A k \in DOMAIN s : s[k].off = IF k = 1 THEN 0 ELSE s[k - 1].off + s[k - 1].reclen

\* Records one after the other, with room for their names, in size bytes.
Records(s, size) ==
  /\ s \in Seq(Rec) /\ Chained(s)
  /\ \A k \in DOMAIN s : Reclen(s[k].name) <= s[k].reclen
  /\ End(s) <= size

LEMMA Sizes ==
  /\ Header \in Nat /\ Header > 0 /\ AreaSize \in Nat /\ BSize \in Nat /\ NBlocks \in Nat
  /\ NBlocks > 0 /\ Byte \in Nat /\ Byte > 0 /\ Byte <= BSize
  /\ Dot \in Names /\ DotDot \in Names /\ Dot # DotDot
  /\ Self \in Nat /\ Self # 0 /\ Parent \in Nat /\ Parent # 0
  /\ \A n \in Names : /\ Reclen(n) \in Nat /\ Reclen(n) > Header + 1
                      /\ Reclen(Dot) <= Reclen(n)
  /\ Reclen(Dot) + Reclen(DotDot) + AreaSize <= BSize
<1>1. /\ Header \in Nat /\ Header > 0 /\ AreaSize \in Nat /\ BSize \in Nat /\ NBlocks \in Nat
      /\ NBlocks > 0 /\ Byte \in Nat /\ Byte > 0 /\ Byte <= BSize
      /\ Dot \in Names /\ DotDot \in Names /\ Dot # DotDot
      /\ Self \in Nat /\ Self # 0 /\ Parent \in Nat /\ Parent # 0
      /\ Length[Dot] = 1 /\ Length[DotDot] = 2
  BY DentsAssumption
<1>2. \A n \in Names : Length[n] \in Nat /\ Length[n] > 0
  BY DentsAssumption
<1>3. \A n \in Names : /\ Reclen(n) \in Nat /\ Reclen(n) > Header + 1
                       /\ Reclen(Dot) <= Reclen(n)
  BY <1>1, <1>2 DEF Reclen
<1>4. Reclen(Dot) + Reclen(DotDot) + AreaSize <= BSize
  BY <1>1, DentsAssumption DEF Reclen
<1>5. QED
  BY <1>1, <1>3, <1>4

LEMMA RecIs ==
  ASSUME NEW s \in Seq(Rec), NEW k \in DOMAIN s
  PROVE  /\ k \in Nat /\ k \in 1 .. Len(s) /\ s[k] \in Rec
         /\ s[k].name \in Names /\ s[k].inum \in Nat /\ s[k].reclen \in Nat /\ s[k].off \in Nat
<1>1. s[k] \in Rec /\ k \in Nat /\ k \in 1 .. Len(s)
  OBVIOUS
<1>2. QED
  BY <1>1 DEF Rec

LEMMA EndIs ==
  ASSUME NEW s \in Seq(Rec)
  PROVE  /\ End(s) \in Nat
         /\ s = << >> => End(s) = 0
         /\ s # << >> => End(s) = s[Len(s)].off + s[Len(s)].reclen /\ Len(s) \in DOMAIN s
<1>1. CASE s = << >>
  BY <1>1 DEF End
<1>2. CASE s # << >>
  <2>1. Len(s) \in DOMAIN s /\ s[Len(s)] \in Rec
    BY <1>2
  <2>2. End(s) = s[Len(s)].off + s[Len(s)].reclen
    BY <1>2 DEF End, Last
  <2>3. QED
    BY <1>2, <2>1, <2>2 DEF Rec
<1>3. QED
  BY <1>1, <1>2

LEMMA NoRecords ==
  ASSUME NEW s, s = << >>, NEW size \in Nat
  PROVE  s \in Seq(Rec) /\ Len(s) = 0 /\ DOMAIN s = {} /\ End(s) = 0 /\ Records(s, size)
<1>1. s \in Seq(Rec) /\ Len(s) = 0
  OBVIOUS
<1>2. DOMAIN s = {}
  OBVIOUS
<1>3. End(s) = 0
  BY DEF End
<1>4. QED
  BY <1>1, <1>2, <1>3 DEF Records, Chained

\* No record ends behind the last one.
LEMMA EndsInside ==
  ASSUME NEW s \in Seq(Rec), Chained(s), NEW k \in DOMAIN s
  PROVE  s[k].off + s[k].reclen <= End(s)
<1> DEFINE T == {j \in Nat : \A l \in DOMAIN s :
                               l + j = Len(s) => s[l].off + s[l].reclen <= End(s)}
<1>1. Len(s) \in Nat /\ DOMAIN s = 1 .. Len(s) /\ \A l \in DOMAIN s : s[l] \in Rec
  OBVIOUS
<1>2. 0 \in T
  <2>1. ASSUME NEW l \in DOMAIN s, l + 0 = Len(s)
        PROVE  s[l].off + s[l].reclen <= End(s)
    <3>1. l = Len(s) /\ s # << >>
      BY <1>1, <2>1
    <3>2. s[l].off + s[l].reclen = End(s) /\ End(s) \in Nat
      BY <3>1, EndIs
    <3>3. QED
      BY <3>2
  <2>2. QED
    BY <2>1
<1>3. ASSUME NEW j \in Nat, j \in T PROVE j + 1 \in T
  <2>1. ASSUME NEW l \in DOMAIN s, l + (j + 1) = Len(s)
        PROVE  s[l].off + s[l].reclen <= End(s)
    <3>1. l + 1 \in DOMAIN s /\ l + 1 # 1 /\ (l + 1) - 1 = l /\ (l + 1) + j = Len(s)
      BY <1>1, <2>1
    <3>2. s[l + 1].off = s[l].off + s[l].reclen
      BY <3>1 DEF Chained
    <3>3. s[l + 1].off + s[l + 1].reclen <= End(s)
      BY <1>3, <3>1
    <3>4. /\ s[l].off \in Nat /\ s[l].reclen \in Nat /\ s[l + 1].reclen \in Nat
          /\ End(s) \in Nat
      BY <3>1, RecIs, EndIs
    <3>5. QED
      BY <3>2, <3>3, <3>4
  <2>2. QED
    BY <2>1
<1>4. Nat \subseteq T
  <2> HIDE DEF T
  <2>1. QED
    BY <1>2, <1>3, NatSetInduction
<1>5. Len(s) - k \in Nat /\ k + (Len(s) - k) = Len(s)
  BY <1>1
<1>6. QED
  BY <1>4, <1>5

\* The loops meet all the records.
LEMMA LoopsWhole ==
  ASSUME NEW s
  PROVE  /\ Records(s, AreaSize) => InlineLoop(s) = DOMAIN s
         /\ Records(s, BSize) => BlockLoop(s) = DOMAIN s
<1>1. ASSUME NEW size \in Nat, Records(s, size), NEW k \in DOMAIN s
      PROVE  s[k].off \in Nat /\ s[k].off + Header < size
  <2>1. s \in Seq(Rec) /\ s[k] \in Rec
    BY <1>1 DEF Records
  <2>2. s[k].off + s[k].reclen <= End(s) /\ End(s) <= size /\ End(s) \in Nat
    BY <1>1, <2>1, EndsInside, EndIs DEF Records
  <2>3. s[k].reclen > Header
    <3>1. s[k].name \in Names /\ s[k].reclen \in Nat
      BY <2>1 DEF Rec
    <3>2. Reclen(s[k].name) \in Nat /\ Reclen(s[k].name) > Header + 1 /\ Header \in Nat
      BY <3>1, Sizes
    <3>3. Reclen(s[k].name) <= s[k].reclen
      BY <1>1 DEF Records
    <3>4. QED
      BY <3>1, <3>2, <3>3
  <2>4. Header \in Nat
    BY Sizes
  <2>5. QED
    BY <2>1, <2>2, <2>3, <2>4 DEF Rec
<1>2. Records(s, AreaSize) => \A k \in DOMAIN s : s[k].off < AreaSize - Header
  BY <1>1, Sizes
<1>3. Records(s, BSize) => \A k \in DOMAIN s : s[k].off + Header < BSize
  BY <1>1, Sizes
<1>4. QED
  BY <1>2, <1>3 DEF InlineLoop, BlockLoop

-----------------------------------------------------------------------------
(* A record is added or emptied.                                            *)

\* r is s with an entry of n for i at k, where there was none in use.
PutAt(s, r, k, n, i) ==
  /\ k \in DOMAIN r /\ r[k].name = n /\ r[k].inum = i
  /\ k \in DOMAIN s => s[k].inum = 0
  /\ \A j \in Nat \ {k} : j \in DOMAIN r <=> j \in DOMAIN s
  /\ \A j \in DOMAIN s \ {k} : r[j].name = s[j].name /\ r[j].inum = s[j].inum

\* r is s without the entry at k.
GoneAt(s, r, k) ==
  /\ DOMAIN r = DOMAIN s /\ r[k].inum = 0
  /\ \A j \in DOMAIN s \ {k} : r[j].name = s[j].name /\ r[j].inum = s[j].inum

LEMMA AtEndIs ==
  ASSUME NEW size \in Nat, NEW s, Records(s, size), NEW n \in Names, NEW i \in Nat,
         NEW reclen \in Nat, Reclen(n) <= reclen, End(s) + reclen <= size,
         NEW r, r = AtEnd(s, n, i, reclen)
  PROVE  /\ Records(r, size) /\ PutAt(s, r, Len(s) + 1, n, i)
         /\ Len(r) = Len(s) + 1 /\ End(r) = End(s) + reclen
         /\ \A j \in DOMAIN s : r[j] = s[j]
<1> DEFINE m == Len(s)
           e == [name |-> n, inum |-> i, reclen |-> reclen, off |-> End(s)]
<1>1. s \in Seq(Rec) /\ m \in Nat /\ DOMAIN s = 1 .. m /\ Chained(s) /\ End(s) \in Nat
  BY EndIs DEF Records
<1>2. r = Append(s, e)
  BY DEF AtEnd
<1>3. /\ e \in Rec /\ e.off = End(s) /\ e.reclen = reclen /\ e.name = n /\ e.inum = i
  BY <1>1 DEF Rec
<1> HIDE DEF e
<1>4. /\ r \in Seq(Rec) /\ Len(r) = m + 1 /\ DOMAIN r = 1 .. m + 1 /\ r[m + 1] = e
      /\ \A j \in 1 .. m : r[j] = s[j]
  BY <1>1, <1>2, <1>3
<1>5. Chained(r)
  <2>1. ASSUME NEW k \in 1 .. m
        PROVE  r[k].off = IF k = 1 THEN 0 ELSE r[k - 1].off + r[k - 1].reclen
    <3>1. k = 1 \/ k - 1 \in 1 .. m
      BY <1>1
    <3>2. s[k].off = IF k = 1 THEN 0 ELSE s[k - 1].off + s[k - 1].reclen
      BY <1>1 DEF Chained
    <3>3. QED
      BY <1>4, <3>1, <3>2
  <2>2. CASE m = 0
    <3>1. s = << >>
      BY <1>1, <2>2
    <3>2. r[1].off = 0 /\ DOMAIN r = {1}
      <4>1. End(s) = 0
        BY <1>1, <3>1, EndIs
      <4>2. QED
        BY <1>3, <1>4, <2>2, <4>1
    <3>3. QED
      BY <3>2 DEF Chained
  <2>3. CASE m # 0
    <3>1. s # << >> /\ (m + 1) - 1 = m /\ m \in 1 .. m /\ m + 1 # 1
      BY <1>1, <2>3
    <3>2. r[m + 1].off = r[m].off + r[m].reclen
      BY <1>1, <1>3, <1>4, <3>1, EndIs
    <3>3. \A k \in DOMAIN r : k \in 1 .. m \/ k = m + 1
      BY <1>1, <1>4
    <3>4. QED
      BY <2>1, <3>1, <3>2, <3>3 DEF Chained
  <2>4. QED
    BY <2>2, <2>3
<1>6. \A k \in DOMAIN r : Reclen(r[k].name) <= r[k].reclen
  <2>1. \A k \in 1 .. m : Reclen(s[k].name) <= s[k].reclen
    BY <1>1 DEF Records
  <2>2. \A k \in DOMAIN r : k \in 1 .. m \/ k = m + 1
    BY <1>1, <1>4
  <2>3. QED
    BY <1>3, <1>4, <2>1, <2>2
<1>7. End(r) = End(s) + reclen
  <2>1. r # << >>
    BY <1>1, <1>4
  <2>2. QED
    BY <1>3, <1>4, <2>1, EndIs
<1>8. Records(r, size)
  BY <1>4, <1>5, <1>6, <1>7 DEF Records
<1>9. PutAt(s, r, m + 1, n, i)
  BY <1>1, <1>3, <1>4 DEF PutAt
<1>10. QED
  BY <1>1, <1>4, <1>7, <1>8, <1>9

\* Only names and inodes of records change: they stay where they are.
LEMMA SameRecords ==
  ASSUME NEW size \in Nat, NEW s, Records(s, size), NEW r \in Seq(Rec), DOMAIN r = DOMAIN s,
         \A j \in DOMAIN s : /\ r[j].off = s[j].off /\ r[j].reclen = s[j].reclen
                             /\ Reclen(r[j].name) <= r[j].reclen
  PROVE  Records(r, size) /\ End(r) = End(s) /\ Len(r) = Len(s)
<1>1. s \in Seq(Rec) /\ Chained(s)
  BY DEF Records
<1>2. Len(r) = Len(s) /\ (r = << >> <=> s = << >>)
  BY <1>1
<1>3. End(r) = End(s)
  BY <1>1, <1>2, EndIs
<1>4. Chained(r)
  <2>1. ASSUME NEW k \in DOMAIN r
        PROVE  r[k].off = IF k = 1 THEN 0 ELSE r[k - 1].off + r[k - 1].reclen
    <3>1. k = 1 \/ k - 1 \in DOMAIN s
      BY <1>1
    <3>2. s[k].off = IF k = 1 THEN 0 ELSE s[k - 1].off + s[k - 1].reclen
      BY <1>1 DEF Chained
    <3>3. QED
      BY <3>1, <3>2
  <2>2. QED
    BY <2>1 DEF Chained
<1>5. QED
  BY <1>1, <1>2, <1>3, <1>4 DEF Records

Reused(s, k, n, i) == [s EXCEPT ![k].name = n, ![k].inum = i]

LEMMA ReuseIs ==
  ASSUME NEW size \in Nat, NEW s, Records(s, size), NEW n \in Names, NEW i \in Nat,
         NEW k \in DOMAIN s, s[k].inum = 0, Reclen(n) <= s[k].reclen,
         NEW r, r = Reused(s, k, n, i)
  PROVE  Records(r, size) /\ PutAt(s, r, k, n, i)
<1>1. s \in Seq(Rec) /\ DOMAIN s = 1 .. Len(s) /\ Len(s) \in Nat /\ s[k] \in Rec
  BY DEF Records
<1> DEFINE e == s[k]
           x == [e EXCEPT !.name = n, !.inum = i]
<1>2. r = [s EXCEPT ![k] = x]
  BY <1>1 DEF Reused
<1>3. x \in Rec /\ x.name = n /\ x.inum = i /\ x.reclen = e.reclen /\ x.off = e.off
  <2> HIDE DEF e
  <2>1. e \in Rec
    BY <1>1 DEF e
  <2>2. QED
    BY <2>1 DEF Rec
<1> HIDE DEF x
<1>4. r \in Seq(Rec) /\ DOMAIN r = DOMAIN s /\ r[k] = x
      /\ \A j \in DOMAIN s \ {k} : r[j] = s[j]
  BY <1>1, <1>2, <1>3
<1>5. \A j \in DOMAIN s : Reclen(s[j].name) <= s[j].reclen
  BY DEF Records
<1>6. \A j \in DOMAIN s : /\ r[j].off = s[j].off /\ r[j].reclen = s[j].reclen
                          /\ Reclen(r[j].name) <= r[j].reclen
  BY <1>3, <1>4, <1>5
<1>7. Records(r, size)
  BY <1>4, <1>6, SameRecords
<1>8. QED
  BY <1>3, <1>4, <1>7 DEF PutAt

LEMMA UnusedIs ==
  ASSUME NEW size \in Nat, NEW s, Records(s, size), NEW k \in DOMAIN s,
         NEW r, r = [s EXCEPT ![k] = Unused(@)]
  PROVE  Records(r, size) /\ GoneAt(s, r, k)
<1>1. s \in Seq(Rec) /\ DOMAIN s = 1 .. Len(s) /\ Len(s) \in Nat /\ s[k] \in Rec
  BY DEF Records
<1> DEFINE e == s[k]
           x == Unused(e)
<1>2. r = [s EXCEPT ![k] = x]
  BY <1>1
<1>3. x \in Rec /\ x.name = Dot /\ x.inum = 0 /\ x.reclen = e.reclen /\ x.off = e.off
  <2> HIDE DEF e
  <2>1. e \in Rec
    BY <1>1 DEF e
  <2>2. QED
    BY <2>1, Sizes DEF Rec, Unused
<1> HIDE DEF x
<1>4. r \in Seq(Rec) /\ DOMAIN r = DOMAIN s /\ r[k] = x
      /\ \A j \in DOMAIN s \ {k} : r[j] = s[j]
  BY <1>1, <1>2, <1>3
<1>5. \A j \in DOMAIN s : Reclen(s[j].name) <= s[j].reclen
  BY DEF Records
<1>6. Reclen(Dot) <= s[k].reclen
  <2>1. s[k].name \in Names /\ s[k].reclen \in Nat
    BY <1>1 DEF Rec
  <2>2. Reclen(Dot) <= Reclen(s[k].name) /\ Reclen(Dot) \in Nat /\ Reclen(s[k].name) \in Nat
    BY <2>1, Sizes
  <2>3. QED
    BY <1>5, <2>1, <2>2
<1>7. \A j \in DOMAIN s : /\ r[j].off = s[j].off /\ r[j].reclen = s[j].reclen
                          /\ Reclen(r[j].name) <= r[j].reclen
  BY <1>3, <1>4, <1>5, <1>6
<1>8. Records(r, size)
  BY <1>4, <1>7, SameRecords
<1>9. QED
  BY <1>3, <1>4, <1>8 DEF GoneAt

LEMMA PutInBlockIs ==
  ASSUME NEW s, Records(s, BSize), NEW n \in Names, NEW i \in Nat,
         NEW reclen \in Nat, Reclen(n) <= reclen,
         Reusable(s, reclen) # {} \/ End(s) + reclen <= BSize,
         NEW r, r = PutInBlock(s, n, i, reclen)
  PROVE  Records(r, BSize) /\ \E k \in Nat : PutAt(s, r, k, n, i)
<1>1. s \in Seq(Rec) /\ DOMAIN s = 1 .. Len(s) /\ Len(s) \in Nat /\ BSize \in Nat
  BY Sizes DEF Records
<1>2. CASE Reusable(s, reclen) = {}
  <2>1. r = AtEnd(s, n, i, reclen)
    BY <1>2 DEF PutInBlock
  <2>2. Records(r, BSize) /\ PutAt(s, r, Len(s) + 1, n, i)
    BY <1>1, <1>2, <2>1, AtEndIs
  <2>3. QED
    BY <1>1, <2>2
<1>3. CASE Reusable(s, reclen) # {}
  <2> DEFINE S == Reusable(s, reclen)
             k == Min(S)
  <2>1. S \subseteq DOMAIN s /\ S \subseteq Nat
    BY <1>1 DEF Reusable, BlockLoop
  <2>2. k \in S
    <3>1. \E x \in S : \A y \in S : x <= y
      BY <1>3, <2>1, NatMinimum
    <3>2. QED
      BY <3>1 DEF Min
  <2>3. s[k].inum = 0 /\ s[k].reclen >= reclen /\ k \in DOMAIN s
    BY <2>1, <2>2 DEF Reusable
  <2>4. Reclen(n) <= s[k].reclen
    <3>1. s[k].reclen \in Nat /\ Reclen(n) \in Nat
      BY <1>1, <2>3, Sizes, RecIs
    <3>2. QED
      BY <2>3, <3>1
  <2>5. r = Reused(s, k, n, i)
    BY <1>3 DEF PutInBlock, Reused
  <2> HIDE DEF k
  <2>6. Records(r, BSize) /\ PutAt(s, r, k, n, i)
    BY <1>1, <2>3, <2>4, <2>5, ReuseIs
  <2>7. k \in Nat
    BY <1>1, <2>3
  <2>8. QED
    BY <2>6, <2>7
<1>4. QED
  BY <1>2, <1>3

-----------------------------------------------------------------------------
(* Directories, as the set of the places in use: a block b, or 0 for the    *)
(* area of the inode, and an entry k of it.                                 *)

Seg(d, b) == IF b = 0 THEN d.area ELSE d.blocks[b]

InUse(d, b, k) ==
  /\ b = 0 \/ b \in DOMAIN d.blocks
  /\ k \in DOMAIN Seg(d, b) /\ Seg(d, b)[k].inum # 0

Has(d, n, i) ==
  \E b, k \in Nat : InUse(d, b, k) /\ Seg(d, b)[k].name = n /\ Seg(d, b)[k].inum = i

\* No name is in use twice.
Once(d) ==
  \A b, c, j, k \in Nat :
    InUse(d, b, j) /\ InUse(d, c, k) /\ Seg(d, b)[j].name = Seg(d, c)[k].name
    => b = c /\ j = k

\* The entry at k of b is the same in e as in d.
Same(d, e, b, k) ==
  /\ InUse(e, b, k) <=> InUse(d, b, k)
  /\ InUse(d, b, k) => /\ Seg(e, b)[k].name = Seg(d, b)[k].name
                       /\ Seg(e, b)[k].inum = Seg(d, b)[k].inum

\* e is d with an entry of n for i, at c and j.
Plus(d, e, c, j, n, i) ==
  /\ c \in Nat /\ j \in Nat
  /\ InUse(e, c, j) /\ Seg(e, c)[j].name = n /\ Seg(e, c)[j].inum = i /\ ~ InUse(d, c, j)
  /\ \A b, k \in Nat : ~ (b = c /\ k = j) => Same(d, e, b, k)

\* e is d without the entry at c and j.
Minus(d, e, c, j) ==
  /\ c \in Nat /\ j \in Nat /\ InUse(d, c, j) /\ ~ InUse(e, c, j)
  /\ \A b, k \in Nat : ~ (b = c /\ k = j) => Same(d, e, b, k)

LEMMA PlusIs ==
  ASSUME NEW d, NEW e, NEW c, NEW j, NEW n, NEW i, Once(d), Plus(d, e, c, j, n, i),
         \A x \in Nat : ~ Has(d, n, x),
         \A b, k \in Nat : InUse(d, b, k) => Seg(d, b)[k].inum \in Nat
  PROVE  /\ Once(e)
         /\ \A m, x : Has(e, m, x) <=> Has(d, m, x) \/ (m = n /\ x = i)
<1>1. \A b, k \in Nat : InUse(d, b, k) => Seg(d, b)[k].name # n
  BY DEF Has
<1>2. \A b, k \in Nat : (b = c /\ k = j) \/ Same(d, e, b, k)
  BY DEF Plus
<1>3. Once(e)
  <2>1. ASSUME NEW b1 \in Nat, NEW b2 \in Nat, NEW k1 \in Nat, NEW k2 \in Nat,
               InUse(e, b1, k1), InUse(e, b2, k2), Seg(e, b1)[k1].name = Seg(e, b2)[k2].name
        PROVE  b1 = b2 /\ k1 = k2
    <3>1. CASE b1 = c /\ k1 = j
      <4>1. CASE b2 = c /\ k2 = j
        BY <3>1, <4>1
      <4>2. CASE Same(d, e, b2, k2)
        BY <1>1, <2>1, <3>1, <4>2 DEF Same, Plus
      <4>3. QED
        BY <1>2, <4>1, <4>2
    <3>2. CASE Same(d, e, b1, k1)
      <4>1. CASE b2 = c /\ k2 = j
        BY <1>1, <2>1, <3>2, <4>1 DEF Same, Plus
      <4>2. CASE Same(d, e, b2, k2)
        BY <2>1, <3>2, <4>2 DEF Same, Once
      <4>3. QED
        BY <1>2, <4>1, <4>2
    <3>3. QED
      BY <1>2, <3>1, <3>2
  <2>2. QED
    BY <2>1 DEF Once
<1>4. ASSUME NEW m, NEW x, Has(e, m, x) PROVE Has(d, m, x) \/ (m = n /\ x = i)
  <2>1. PICK b \in Nat, k \in Nat :
               InUse(e, b, k) /\ Seg(e, b)[k].name = m /\ Seg(e, b)[k].inum = x
    BY <1>4 DEF Has
  <2>2. CASE b = c /\ k = j
    BY <2>1, <2>2 DEF Plus
  <2>3. CASE Same(d, e, b, k)
    BY <2>1, <2>3 DEF Same, Has
  <2>4. QED
    BY <1>2, <2>2, <2>3
<1>5. ASSUME NEW m, NEW x, Has(d, m, x) PROVE Has(e, m, x)
  <2>1. PICK b \in Nat, k \in Nat :
               InUse(d, b, k) /\ Seg(d, b)[k].name = m /\ Seg(d, b)[k].inum = x
    BY <1>5 DEF Has
  <2>2. ~ (b = c /\ k = j)
    BY <2>1 DEF Plus
  <2>3. Same(d, e, b, k)
    BY <1>2, <2>2
  <2>4. QED
    BY <2>1, <2>3 DEF Same, Has
<1>6. Has(e, n, i)
  BY DEF Plus, Has
<1>7. QED
  BY <1>3, <1>4, <1>5, <1>6

LEMMA MinusIs ==
  ASSUME NEW d, NEW e, NEW c, NEW j, Once(d), Minus(d, e, c, j)
  PROVE  /\ Once(e)
         /\ \A m, x : Has(e, m, x) <=> Has(d, m, x) /\ m # Seg(d, c)[j].name
         /\ \A b, k \in Nat : InUse(e, b, k) => /\ InUse(d, b, k)
                                                /\ Seg(e, b)[k].name = Seg(d, b)[k].name
         /\ \A b, k \in Nat : InUse(d, b, k) /\ Seg(d, b)[k].name # Seg(d, c)[j].name =>
              InUse(e, b, k) /\ Seg(e, b)[k].name = Seg(d, b)[k].name
<1>1. \A b, k \in Nat : (b = c /\ k = j) \/ Same(d, e, b, k)
  BY DEF Minus
<1>2. c \in Nat /\ j \in Nat /\ InUse(d, c, j) /\ ~ InUse(e, c, j)
  BY DEF Minus
<1>3. \A b, k \in Nat : InUse(e, b, k) =>
        /\ InUse(d, b, k) /\ ~ (b = c /\ k = j)
        /\ Seg(e, b)[k].name = Seg(d, b)[k].name /\ Seg(e, b)[k].inum = Seg(d, b)[k].inum
  BY <1>1, <1>2 DEF Same
<1>4. \A b, k \in Nat : InUse(d, b, k) /\ ~ (b = c /\ k = j) =>
        /\ InUse(e, b, k)
        /\ Seg(e, b)[k].name = Seg(d, b)[k].name /\ Seg(e, b)[k].inum = Seg(d, b)[k].inum
  BY <1>1, <1>2 DEF Same
<1>5. Once(e)
  <2>1. ASSUME NEW b1 \in Nat, NEW b2 \in Nat, NEW k1 \in Nat, NEW k2 \in Nat,
               InUse(e, b1, k1), InUse(e, b2, k2), Seg(e, b1)[k1].name = Seg(e, b2)[k2].name
        PROVE  b1 = b2 /\ k1 = k2
    BY <1>3, <2>1 DEF Once
  <2>2. QED
    BY <2>1 DEF Once
<1>6. ASSUME NEW m, NEW x, Has(e, m, x) PROVE Has(d, m, x) /\ m # Seg(d, c)[j].name
  <2>1. PICK b \in Nat, k \in Nat :
               InUse(e, b, k) /\ Seg(e, b)[k].name = m /\ Seg(e, b)[k].inum = x
    BY <1>6 DEF Has
  <2>2. /\ InUse(d, b, k) /\ ~ (b = c /\ k = j)
        /\ Seg(d, b)[k].name = m /\ Seg(d, b)[k].inum = x
    BY <1>3, <2>1
  <2>3. m # Seg(d, c)[j].name
    BY <1>2, <2>2 DEF Once
  <2>4. QED
    BY <2>2, <2>3 DEF Has
<1>7. ASSUME NEW m, NEW x, Has(d, m, x), m # Seg(d, c)[j].name PROVE Has(e, m, x)
  <2>1. PICK b \in Nat, k \in Nat :
               InUse(d, b, k) /\ Seg(d, b)[k].name = m /\ Seg(d, b)[k].inum = x
    BY <1>7 DEF Has
  <2>2. ~ (b = c /\ k = j)
    BY <1>7, <2>1
  <2>3. QED
    BY <1>4, <2>1, <2>2 DEF Has
<1>8. \A b, k \in Nat : InUse(d, b, k) /\ Seg(d, b)[k].name # Seg(d, c)[j].name =>
              InUse(e, b, k) /\ Seg(e, b)[k].name = Seg(d, b)[k].name
  BY <1>4
<1>9. QED
  BY <1>3, <1>5, <1>6, <1>7, <1>8

\* What a directory is: its records are well-formed, and it has one form.
Sane(d) ==
  /\ d = [inline |-> d.inline, area |-> d.area, blocks |-> d.blocks]
  /\ d.inline \in BOOLEAN
  /\ Records(d.area, AreaSize)
  /\ d.blocks \in Seq(Seq(Rec)) /\ \A b \in DOMAIN d.blocks : Records(d.blocks[b], BSize)
  /\ IF d.inline THEN d.blocks = << >> ELSE d.area = << >>

LEMMA SegIs ==
  ASSUME NEW d, Sane(d), NEW b, NEW k, InUse(d, b, k)
  PROVE  /\ b \in Nat /\ k \in Nat /\ k # 0 /\ k \in DOMAIN Seg(d, b)
         /\ Seg(d, b)[k].name \in Names /\ Seg(d, b)[k].inum \in Nat
         /\ IF d.inline THEN b = 0 ELSE b # 0
<1>1. /\ d.area \in Seq(Rec) /\ d.blocks \in Seq(Seq(Rec))
      /\ DOMAIN d.blocks = 1 .. Len(d.blocks) /\ Len(d.blocks) \in Nat
  BY DEF Sane, Records
<1>2. b = 0 \/ b \in 1 .. Len(d.blocks)
  BY <1>1 DEF InUse
<1>3. Seg(d, b) \in Seq(Rec)
  BY <1>1, <1>2 DEF Seg
<1>4. k \in DOMAIN Seg(d, b)
  BY DEF InUse
<1>5. /\ k \in Nat /\ k # 0 /\ Seg(d, b)[k].name \in Names /\ Seg(d, b)[k].inum \in Nat
  BY <1>3, <1>4, RecIs
<1>6. CASE d.inline
  <2>1. d.blocks = << >>
    BY <1>6 DEF Sane
  <2>2. QED
    BY <1>1, <1>2, <1>4, <1>5, <1>6, <2>1
<1>7. CASE ~ d.inline
  <2>1. d.area = << >>
    BY <1>7 DEF Sane
  <2>2. b # 0
    BY <1>4, <2>1 DEF Seg
  <2>3. QED
    BY <1>1, <1>2, <1>4, <1>5, <1>7, <2>2
<1>8. QED
  BY <1>6, <1>7

-----------------------------------------------------------------------------
(* The three ways to change a directory, and one to extend it.              *)

WithArea(d, r) == [d EXCEPT !.area = r]
WithBlock(d, b, r) == [d EXCEPT !.blocks[b] = r]
WithNew(d, r) == [d EXCEPT !.blocks = Append(@, r)]

LEMMA WithAreaIs ==
  ASSUME NEW d, Sane(d), d.inline, NEW r, Records(r, AreaSize), NEW e, e = WithArea(d, r)
  PROVE  /\ Sane(e) /\ e.inline /\ e.blocks = d.blocks
         /\ Seg(e, 0) = r
         /\ \A b \in DOMAIN d.blocks \union {0} : b # 0 => Seg(e, b) = Seg(d, b)
<1>1. d = [inline |-> d.inline, area |-> d.area, blocks |-> d.blocks]
  BY DEF Sane
<1>2. e = [inline |-> d.inline, area |-> r, blocks |-> d.blocks]
  BY <1>1 DEF WithArea
<1>3. e.inline = d.inline /\ e.blocks = d.blocks /\ e.area = r
      /\ e = [inline |-> e.inline, area |-> e.area, blocks |-> e.blocks]
  BY <1>2
<1>4. Sane(e)
  BY <1>3 DEF Sane
<1>5. QED
  BY <1>3, <1>4 DEF Seg

LEMMA WithBlockIs ==
  ASSUME NEW d, Sane(d), ~ d.inline, NEW c \in DOMAIN d.blocks, NEW r, Records(r, BSize),
         NEW e, e = WithBlock(d, c, r)
  PROVE  /\ Sane(e) /\ ~ e.inline /\ DOMAIN e.blocks = DOMAIN d.blocks
         /\ c # 0 /\ Seg(e, c) = r
         /\ \A b \in DOMAIN d.blocks \union {0} : b # c => Seg(e, b) = Seg(d, b)
<1>1. /\ d = [inline |-> d.inline, area |-> d.area, blocks |-> d.blocks]
      /\ d.blocks \in Seq(Seq(Rec)) /\ r \in Seq(Rec)
      /\ d.area = << >> /\ Records(d.area, AreaSize)
      /\ \A b \in DOMAIN d.blocks : Records(d.blocks[b], BSize)
  BY DEF Sane, Records
<1> DEFINE blks == [d.blocks EXCEPT ![c] = r]
<1>2. e = [inline |-> d.inline, area |-> d.area, blocks |-> blks]
  BY <1>1 DEF WithBlock
<1>3. /\ blks \in Seq(Seq(Rec)) /\ DOMAIN blks = DOMAIN d.blocks /\ blks[c] = r /\ c # 0
      /\ \A b \in DOMAIN d.blocks : b # c => blks[b] = d.blocks[b]
  BY <1>1
<1> HIDE DEF blks
<1>4. /\ e.inline = d.inline /\ e.blocks = blks /\ e.area = d.area
      /\ e = [inline |-> e.inline, area |-> e.area, blocks |-> e.blocks]
  BY <1>2
<1>5. \A b \in DOMAIN blks : Records(blks[b], BSize)
  BY <1>1, <1>3
<1>6. Sane(e)
  BY <1>1, <1>3, <1>4, <1>5 DEF Sane
<1>7. QED
  BY <1>3, <1>4, <1>6 DEF Seg

LEMMA WithNewIs ==
  ASSUME NEW d, Sane(d), ~ d.inline, NEW r, Records(r, BSize), NEW e, e = WithNew(d, r)
  PROVE  /\ Sane(e) /\ ~ e.inline
         /\ DOMAIN e.blocks = DOMAIN d.blocks \union {Len(d.blocks) + 1}
         /\ Len(d.blocks) + 1 \in Nat /\ Len(d.blocks) + 1 # 0
         /\ Len(d.blocks) + 1 \notin DOMAIN d.blocks
         /\ Seg(e, Len(d.blocks) + 1) = r
         /\ \A b \in DOMAIN d.blocks \union {0} : Seg(e, b) = Seg(d, b)
<1>1. /\ d = [inline |-> d.inline, area |-> d.area, blocks |-> d.blocks]
      /\ d.blocks \in Seq(Seq(Rec)) /\ r \in Seq(Rec)
      /\ d.area = << >> /\ Records(d.area, AreaSize)
      /\ \A b \in DOMAIN d.blocks : Records(d.blocks[b], BSize)
  BY DEF Sane, Records
<1> DEFINE blks == Append(d.blocks, r)
           m == Len(d.blocks)
<1>2. e = [inline |-> d.inline, area |-> d.area, blocks |-> blks]
  BY <1>1 DEF WithNew
<1>3. /\ m \in Nat /\ DOMAIN d.blocks = 1 .. m
      /\ blks \in Seq(Seq(Rec)) /\ DOMAIN blks = 1 .. m + 1 /\ blks[m + 1] = r
      /\ \A b \in 1 .. m : blks[b] = d.blocks[b]
  BY <1>1
<1> HIDE DEF blks
<1>4. /\ e.inline = d.inline /\ e.blocks = blks /\ e.area = d.area
      /\ e = [inline |-> e.inline, area |-> e.area, blocks |-> e.blocks]
  BY <1>2
<1>5. \A b \in DOMAIN blks : b \in 1 .. m \/ b = m + 1
  BY <1>3
<1>6. \A b \in DOMAIN blks : Records(blks[b], BSize)
  BY <1>1, <1>3, <1>5
<1>7. Sane(e)
  BY <1>1, <1>3, <1>4, <1>6 DEF Sane
<1>8. DOMAIN blks = DOMAIN d.blocks \union {m + 1} /\ m + 1 \notin DOMAIN d.blocks
      /\ m + 1 # 0 /\ 0 \notin DOMAIN d.blocks
  BY <1>3
<1>9. QED
  BY <1>3, <1>4, <1>7, <1>8 DEF Seg

\* An entry put into one list of records.
LEMMA SegPut ==
  ASSUME NEW d, NEW e, NEW c \in Nat, NEW k \in Nat, NEW n, NEW i, i # 0,
         PutAt(Seg(d, c), Seg(e, c), k, n, i),
         c = 0 \/ c \in DOMAIN d.blocks, DOMAIN e.blocks = DOMAIN d.blocks,
         \A b \in DOMAIN d.blocks \union {0} : b # c => Seg(e, b) = Seg(d, b)
  PROVE  Plus(d, e, c, k, n, i)
<1>1. InUse(e, c, k) /\ Seg(e, c)[k].name = n /\ Seg(e, c)[k].inum = i /\ ~ InUse(d, c, k)
  BY DEF PutAt, InUse
<1>2. ASSUME NEW b \in Nat, NEW j \in Nat, ~ (b = c /\ j = k) PROVE Same(d, e, b, j)
  <2>1. CASE b = c
    <3>1. /\ j \in DOMAIN Seg(e, c) <=> j \in DOMAIN Seg(d, c)
          /\ j \in DOMAIN Seg(d, c) => /\ Seg(e, c)[j].name = Seg(d, c)[j].name
                                       /\ Seg(e, c)[j].inum = Seg(d, c)[j].inum
      BY <1>2, <2>1 DEF PutAt
    <3>2. QED
      BY <2>1, <3>1 DEF Same, InUse
  <2>2. CASE b # c
    BY <2>2 DEF Same, InUse
  <2>3. QED
    BY <2>1, <2>2
<1>3. QED
  BY <1>1, <1>2 DEF Plus

\* An entry emptied in one list of records.
LEMMA SegGone ==
  ASSUME NEW d, NEW e, NEW c \in Nat, NEW k \in Nat, InUse(d, c, k),
         GoneAt(Seg(d, c), Seg(e, c), k),
         DOMAIN e.blocks = DOMAIN d.blocks,
         \A b \in DOMAIN d.blocks \union {0} : b # c => Seg(e, b) = Seg(d, b)
  PROVE  Minus(d, e, c, k)
<1>1. ~ InUse(e, c, k)
  BY DEF GoneAt, InUse
<1>2. ASSUME NEW b \in Nat, NEW j \in Nat, ~ (b = c /\ j = k) PROVE Same(d, e, b, j)
  <2>1. CASE b = c
    BY <1>2, <2>1 DEF GoneAt, Same, InUse
  <2>2. CASE b # c
    BY <2>2 DEF Same, InUse
  <2>3. QED
    BY <2>1, <2>2
<1>3. QED
  BY <1>1, <1>2 DEF Minus

\* alloc_dentry: the entry comes to a place in one of the blocks.
LEMMA PutInBlocksIs ==
  ASSUME NoWrap, NEW d, Sane(d), ~ d.inline, NEW n \in Names, NEW i \in Nat \ {0},
         NEW e, e = PutInBlocks(d, n, i)
  PROVE  Sane(e) /\ ~ e.inline /\ \E c, k : Plus(d, e, c, k, n, i)
<1> DEFINE takes == {b \in DOMAIN d.blocks : BlockTakes(d.blocks[b], Reclen(n))}
           m == Len(d.blocks)
<1>1. /\ d.blocks \in Seq(Seq(Rec)) /\ m \in Nat /\ DOMAIN d.blocks = 1 .. m
      /\ \A b \in DOMAIN d.blocks : Records(d.blocks[b], BSize)
  BY DEF Sane
<1>2. Reclen(n) \in Nat /\ Reclen(n) <= BSize /\ BSize \in Nat
  BY Sizes DEF NoWrap
<1>3. CASE takes = {}
  <2> DEFINE z == << >>
             r == AtEnd(z, n, i, Reclen(n))
  <2>1. e = WithNew(d, r)
    BY <1>3 DEF PutInBlocks, WithNew
  <2>2. z = << >>
    OBVIOUS
  <2> HIDE DEF z
  <2>3. Len(z) = 0 /\ End(z) + Reclen(n) <= BSize
    BY <1>2, <2>2, NoRecords
  <2>4. Records(r, BSize) /\ PutAt(z, r, 1, n, i) /\ Len(r) = 1
    <3>1. Records(z, BSize) /\ i \in Nat /\ Reclen(n) <= Reclen(n) /\ End(z) + Reclen(n) <= BSize
      BY <1>2, <2>2, <2>3, NoRecords
    <3>2. r = AtEnd(z, n, i, Reclen(n))
      OBVIOUS
    <3> HIDE DEF r
    <3>3. Records(r, BSize) /\ PutAt(z, r, Len(z) + 1, n, i)
      BY <1>2, <3>1, <3>2, AtEndIs
    <3>4. Len(r) = Len(z) + 1
      BY <1>2, <3>1, <3>2, AtEndIs
    <3>5. QED
      BY <2>3, <3>3, <3>4
  <2> HIDE DEF r
  <2>5. /\ Sane(e) /\ ~ e.inline
        /\ DOMAIN e.blocks = DOMAIN d.blocks \union {m + 1}
        /\ m + 1 \in Nat /\ m + 1 # 0 /\ m + 1 \notin DOMAIN d.blocks /\ Seg(e, m + 1) = r
        /\ \A b \in DOMAIN d.blocks \union {0} : Seg(e, b) = Seg(d, b)
    BY <2>1, <2>4, WithNewIs
  <2>6. DOMAIN r = {1}
    BY <2>4 DEF Records
  <2>7. r[1].name = n /\ r[1].inum = i
    BY <2>4 DEF PutAt
  <2>8. \A b, k \in Nat : ~ (b = m + 1 /\ k = 1) => Same(d, e, b, k)
    BY <2>5, <2>6 DEF Same, InUse
  <2>9. InUse(e, m + 1, 1) /\ ~ InUse(d, m + 1, 1)
    BY <2>5, <2>6, <2>7 DEF InUse
  <2>10. Plus(d, e, m + 1, 1, n, i)
    BY <2>5, <2>7, <2>8, <2>9 DEF Plus
  <2>11. QED
    BY <2>5, <2>10
<1>4. CASE takes # {}
  <2> DEFINE c == Min(takes)
             s == d.blocks[c]
             r == PutInBlock(s, n, i, Reclen(n))
  <2>1. c \in DOMAIN d.blocks /\ c \in Nat /\ c # 0 /\ BlockTakes(s, Reclen(n))
    <3>1. takes \subseteq Nat
      BY <1>1
    <3>2. \E x \in takes : \A y \in takes : x <= y
      BY <1>4, <3>1, NatMinimum
    <3>3. c \in takes
      BY <3>2 DEF Min
    <3>4. QED
      BY <1>1, <3>3
  <2>2. e = WithBlock(d, c, r)
    BY <1>4 DEF PutInBlocks, WithBlock
  <2>3. Records(s, BSize)
    BY <1>1, <2>1
  <2> HIDE DEF c
  <2>4. Reusable(s, Reclen(n)) # {} \/ End(s) + Reclen(n) <= BSize
    BY <2>1 DEF BlockTakes, RoomAtEnd
  <2>5. Records(r, BSize) /\ \E k \in Nat : PutAt(s, r, k, n, i)
    <3> HIDE DEF s
    <3>1. QED
      BY <1>2, <2>3, <2>4, PutInBlockIs
  <2>6. PICK k \in Nat : PutAt(s, r, k, n, i)
    BY <2>5
  <2> HIDE DEF r
  <2>7. /\ Sane(e) /\ ~ e.inline /\ DOMAIN e.blocks = DOMAIN d.blocks
        /\ Seg(e, c) = r
        /\ \A b \in DOMAIN d.blocks \union {0} : b # c => Seg(e, b) = Seg(d, b)
    BY <2>1, <2>2, <2>5, WithBlockIs
  <2>8. Seg(d, c) = s
    BY <2>1 DEF Seg
  <2> HIDE DEF s
  <2>9. Plus(d, e, c, k, n, i)
    BY <2>1, <2>6, <2>7, <2>8, SegPut
  <2>10. QED
    BY <2>7, <2>9
<1>5. QED
  BY <1>3, <1>4

-----------------------------------------------------------------------------
(* The conversion, entry by entry.                                          *)

\* The directory of one block of records.
Block(t) == [inline |-> FALSE, area |-> << >>, blocks |-> << t >>]

\* The block t holds entries in use only, and every name once.
Full(t) == Records(t, BSize) /\ (\A k \in DOMAIN t : t[k].inum # 0) /\ Once(Block(t))

LEMMA BlockIs ==
  ASSUME NEW t
  PROVE  /\ ~ Block(t).inline /\ DOMAIN Block(t).blocks = {1}
         /\ Seg(Block(t), 1) = t /\ Seg(Block(t), 0) = << >>
         /\ \A b, k \in Nat : InUse(Block(t), b, k) <=> b = 1 /\ k \in DOMAIN t /\ t[k].inum # 0
         /\ Records(t, BSize) => Sane(Block(t))
<1>1. /\ Block(t).inline = FALSE /\ Block(t).area = << >> /\ Block(t).blocks = << t >>
      /\ Block(t) = [inline |-> Block(t).inline, area |-> Block(t).area,
                     blocks |-> Block(t).blocks]
  BY DEF Block
<1> DEFINE blks == << t >>
<1>2. DOMAIN blks = {1} /\ blks[1] = t
  OBVIOUS
<1>3. Records(t, BSize) => blks \in Seq(Seq(Rec))
  BY DEF Records
<1> HIDE DEF blks
<1>4. Seg(Block(t), 1) = t /\ Seg(Block(t), 0) = << >> /\ DOMAIN Block(t).blocks = {1}
  BY <1>1, <1>2 DEF Seg, blks
<1>5. \A b, k \in Nat : InUse(Block(t), b, k) <=> b = 1 /\ k \in DOMAIN t /\ t[k].inum # 0
  <2>1. ASSUME NEW k PROVE ~ InUse(Block(t), 0, k)
    BY <1>4 DEF InUse
  <2>2. ASSUME NEW k PROVE InUse(Block(t), 1, k) <=> k \in DOMAIN t /\ t[k].inum # 0
    BY <1>4 DEF InUse
  <2>3. ASSUME NEW b, NEW k, InUse(Block(t), b, k) PROVE b = 0 \/ b = 1
    BY <1>4, <2>3 DEF InUse
  <2>4. QED
    BY <2>1, <2>2, <2>3
<1>6. ASSUME Records(t, BSize) PROVE Sane(Block(t))
  <2>1. Records(Block(t).area, AreaSize)
    BY <1>1, Sizes, NoRecords
  <2>2. Block(t).blocks \in Seq(Seq(Rec)) /\ \A b \in DOMAIN Block(t).blocks :
                                              Records(Block(t).blocks[b], BSize)
    BY <1>1, <1>2, <1>3, <1>6 DEF blks
  <2>3. QED
    BY <1>1, <2>1, <2>2 DEF Sane
<1>7. QED
  BY <1>1, <1>4, <1>5, <1>6

LEMMA FullAppend ==
  ASSUME NEW t, Full(t), NEW n \in Names, NEW i \in Nat \ {0}, NEW reclen \in Nat,
         Reclen(n) <= reclen, End(t) + reclen <= BSize,
         \A x \in Nat : ~ Has(Block(t), n, x),
         NEW r, r = AtEnd(t, n, i, reclen) \/ r = PutInBlock(t, n, i, reclen)
  PROVE  /\ Full(r) /\ End(r) = End(t) + reclen
         /\ \A m, x : Has(Block(r), m, x) <=> Has(Block(t), m, x) \/ (m = n /\ x = i)
<1>1. r = AtEnd(t, n, i, reclen)
  <2>1. Reusable(t, reclen) = {}
    BY DEF Full, Reusable, BlockLoop
  <2>2. QED
    BY <2>1 DEF PutInBlock
<1>2. Records(t, BSize) /\ BSize \in Nat /\ i \in Nat
  BY Sizes DEF Full
<1>3. Records(r, BSize)
  BY <1>1, <1>2, AtEndIs
<1>4. PutAt(t, r, Len(t) + 1, n, i)
  BY <1>1, <1>2, AtEndIs
<1>5. End(r) = End(t) + reclen
  BY <1>1, <1>2, AtEndIs
<1>6. Len(t) + 1 \in Nat /\ 1 \in Nat
  BY <1>2 DEF Records
<1> DEFINE c == Len(t) + 1
<1>7. Plus(Block(t), Block(r), 1, c, n, i)
  <2> HIDE DEF c
  <2>1. /\ DOMAIN Block(t).blocks = {1} /\ DOMAIN Block(r).blocks = {1}
        /\ Seg(Block(t), 1) = t /\ Seg(Block(t), 0) = << >>
        /\ Seg(Block(r), 1) = r /\ Seg(Block(r), 0) = << >>
    BY BlockIs
  <2>2. \A b \in DOMAIN Block(t).blocks \union {0} :
           b # 1 => Seg(Block(r), b) = Seg(Block(t), b)
    BY <2>1
  <2>3. PutAt(Seg(Block(t), 1), Seg(Block(r), 1), c, n, i) /\ c \in Nat
    BY <1>4, <1>6, <2>1 DEF c
  <2>4. QED
    BY <1>6, <2>1, <2>2, <2>3, SegPut
<1>8. \A b, k \in Nat : InUse(Block(t), b, k) => Seg(Block(t), b)[k].inum \in Nat
  <2>1. Sane(Block(t))
    BY <1>2, BlockIs
  <2>2. QED
    BY <2>1, SegIs
<1>9. /\ Once(Block(r))
      /\ \A m, x : Has(Block(r), m, x) <=> Has(Block(t), m, x) \/ (m = n /\ x = i)
  <2> HIDE DEF c
  <2>1. Once(Block(t))
    BY DEF Full
  <2>2. QED
    BY <1>7, <1>8, <2>1, PlusIs
<1>10. \A k \in DOMAIN r : r[k].inum # 0
  <2>1. ASSUME NEW k \in DOMAIN r PROVE r[k].inum # 0
    <3>1. k \in Nat
      BY <1>3 DEF Records
    <3>2. CASE k = c
      BY <1>4, <3>2 DEF PutAt
    <3>3. CASE k # c
      <4>1. k \in DOMAIN t /\ r[k].inum = t[k].inum
        BY <1>4, <3>1, <3>3 DEF PutAt
      <4>2. QED
        BY <4>1 DEF Full
    <3>4. QED
      BY <3>2, <3>3
  <2>2. QED
    BY <2>1
<1>11. QED
  BY <1>3, <1>5, <1>9, <1>10 DEF Full

DotsHave(m, x) == (m = Dot /\ x = Self) \/ (m = DotDot /\ x = Parent)

LEMMA DotsAre ==
  /\ Full(Dots) /\ End(Dots) = Reclen(Dot) + Reclen(DotDot)
  /\ \A m, x : Has(Block(Dots), m, x) <=> DotsHave(m, x)
<1>1. /\ Dot \in Names /\ DotDot \in Names /\ Dot # DotDot
      /\ Self \in Nat \ {0} /\ Parent \in Nat \ {0}
      /\ Reclen(Dot) \in Nat /\ Reclen(DotDot) \in Nat /\ BSize \in Nat
      /\ Reclen(Dot) + Reclen(DotDot) <= BSize
  BY Sizes
<1> DEFINE z == << >>
           s == AtEnd(z, Dot, Self, Reclen(Dot))
           t == AtEnd(s, DotDot, Parent, Reclen(DotDot))
<1>2. z = << >> /\ Dots = t
  BY DEF Dots
<1> HIDE DEF z
<1>3. Records(z, BSize) /\ End(z) = 0 /\ DOMAIN z = {}
  BY <1>1, <1>2, NoRecords
<1>4. \A m, x : ~ Has(Block(z), m, x)
  BY <1>3, BlockIs DEF Has
<1>5. Full(z)
  <2>1. Once(Block(z))
    BY <1>3, BlockIs DEF Once
  <2>2. QED
    BY <1>3, <2>1 DEF Full
<1>6. s = AtEnd(z, Dot, Self, Reclen(Dot))
  OBVIOUS
<1> HIDE DEF s
<1>7. /\ Full(s) /\ End(s) = End(z) + Reclen(Dot)
      /\ \A m, x : Has(Block(s), m, x) <=> Has(Block(z), m, x) \/ (m = Dot /\ x = Self)
  <2>1. End(z) + Reclen(Dot) <= BSize /\ Reclen(Dot) <= Reclen(Dot)
    BY <1>1, <1>3
  <2>2. QED
    BY <1>1, <1>4, <1>5, <1>6, <2>1, FullAppend
<1>8. t = AtEnd(s, DotDot, Parent, Reclen(DotDot))
  OBVIOUS
<1> HIDE DEF t
<1>9. /\ Full(t) /\ End(t) = End(s) + Reclen(DotDot)
      /\ \A m, x : Has(Block(t), m, x) <=> Has(Block(s), m, x) \/ (m = DotDot /\ x = Parent)
  <2>1. End(s) + Reclen(DotDot) <= BSize /\ Reclen(DotDot) <= Reclen(DotDot)
    BY <1>1, <1>3, <1>7
  <2>2. \A x \in Nat : ~ Has(Block(s), DotDot, x)
    BY <1>1, <1>4, <1>7
  <2>3. QED
    BY <1>1, <1>7, <1>8, <2>1, <2>2, FullAppend
<1>10. End(t) = Reclen(Dot) + Reclen(DotDot)
  BY <1>1, <1>3, <1>7, <1>9
<1>11. \A m, x : Has(Block(t), m, x) <=> DotsHave(m, x)
  BY <1>4, <1>7, <1>9 DEF DotsHave
<1>12. QED
  BY <1>2, <1>9, <1>10, <1>11

CopyNext(t, e) == IF e.inum = 0 THEN t ELSE PutInBlock(t, e.name, e.inum, e.reclen)

\* The entries in use of an inode have names of their own.
Clean(s) ==
  /\ \A j, l \in DOMAIN s :
       s[j].inum # 0 /\ s[l].inum # 0 /\ s[j].name = s[l].name => j = l
  /\ \A j \in DOMAIN s : s[j].inum # 0 => s[j].name \notin {Dot, DotDot}

Live(s, k, m, x) == \E l \in 1 .. k : s[l].inum # 0 /\ s[l].name = m /\ s[l].inum = x

\* t is the block after the first k entries of s.
Copied(s, t, k) ==
  /\ Full(t)
  /\ End(t) <= Reclen(Dot) + Reclen(DotDot) + (IF k = 0 THEN 0 ELSE s[k].off + s[k].reclen)
  /\ \A m, x : Has(Block(t), m, x) <=> DotsHave(m, x) \/ Live(s, k, m, x)

LEMMA CopyStep ==
  ASSUME NEW s, Records(s, AreaSize), Clean(s), NEW k \in Nat, k + 1 \in DOMAIN s,
         NEW t, Copied(s, t, k), NEW r, r = CopyNext(t, s[k + 1])
  PROVE  Copied(s, r, k + 1)
<1> DEFINE e == s[k + 1]
           R == Reclen(Dot) + Reclen(DotDot)
           before == IF k = 0 THEN 0 ELSE s[k].off + s[k].reclen
<1>1. /\ s \in Seq(Rec) /\ DOMAIN s = 1 .. Len(s) /\ Len(s) \in Nat /\ Chained(s)
      /\ End(s) <= AreaSize /\ End(s) \in Nat
  BY EndIs DEF Records
<1>2. R \in Nat /\ R + AreaSize <= BSize /\ AreaSize \in Nat /\ BSize \in Nat
  BY Sizes
<1>3. e.name \in Names /\ e.inum \in Nat /\ e.reclen \in Nat /\ e.off \in Nat
  BY <1>1, RecIs
<1>4. e.off = before
  <2>1. (k + 1) - 1 = k /\ (k + 1 = 1 <=> k = 0)
    OBVIOUS
  <2>2. QED
    BY <1>1, <2>1 DEF Chained
<1>5. e.off + e.reclen <= End(s)
  BY <1>1, EndsInside
<1>6. /\ Full(t) /\ End(t) <= R + before /\ End(t) \in Nat
      /\ \A m, x : Has(Block(t), m, x) <=> DotsHave(m, x) \/ Live(s, k, m, x)
  BY EndIs DEF Copied, Full, Records
<1>7. (IF k + 1 = 0 THEN 0 ELSE s[k + 1].off + s[k + 1].reclen) = e.off + e.reclen
  OBVIOUS
<1> HIDE DEF before, R
<1>8. ASSUME NEW m, NEW x
      PROVE  Live(s, k + 1, m, x) <=>
               Live(s, k, m, x) \/ (e.inum # 0 /\ e.name = m /\ e.inum = x)
  <2>1. 1 .. k + 1 = (1 .. k) \union {k + 1}
    OBVIOUS
  <2>2. QED
    BY <2>1 DEF Live
<1>9. CASE e.inum = 0
  <2>1. r = t
    BY <1>9 DEF CopyNext
  <2>2. End(t) <= R + (e.off + e.reclen)
    BY <1>2, <1>3, <1>4, <1>6
  <2>3. \A m, x : Live(s, k + 1, m, x) <=> Live(s, k, m, x)
    BY <1>8, <1>9
  <2> HIDE DEF e
  <2>4. QED
    BY <1>6, <1>7, <2>1, <2>2, <2>3 DEF Copied, R
<1>10. CASE e.inum # 0
  <2>1. r = PutInBlock(t, e.name, e.inum, e.reclen)
    BY <1>10 DEF CopyNext
  <2>2. Reclen(e.name) <= e.reclen
    BY DEF Records
  <2>3. \A x \in Nat : ~ Has(Block(t), e.name, x)
    <3>1. \A x : ~ DotsHave(e.name, x)
      BY <1>10 DEF Clean, DotsHave
    <3>2. \A x : ~ Live(s, k, e.name, x)
      <4>1. SUFFICES ASSUME NEW l \in 1 .. k, s[l].inum # 0, s[l].name = e.name PROVE FALSE
        BY DEF Live
      <4>2. l \in DOMAIN s /\ l # k + 1
        BY <1>1
      <4>3. QED
        BY <1>10, <4>1, <4>2 DEF Clean
    <3>3. QED
      BY <1>6, <3>1, <3>2
  <2> HIDE DEF e
  <2>4. End(t) + e.reclen <= R + (e.off + e.reclen) /\ End(t) + e.reclen <= BSize
    <3>1. ASSUME NEW x \in Nat, NEW y \in Nat, NEW l \in Nat, NEW z \in Nat, NEW size \in Nat,
                 x <= R + y, y + l <= z, z <= size, R + size <= BSize
          PROVE  x + l <= R + (y + l) /\ x + l <= BSize
      BY <1>2, <3>1
    <3>2. End(t) <= R + e.off
      BY <1>4, <1>6
    <3>3. QED
      BY <1>1, <1>2, <1>3, <1>5, <1>6, <3>1, <3>2
  <2>5. /\ Full(r) /\ End(r) = End(t) + e.reclen
        /\ \A m, x : Has(Block(r), m, x) <=> Has(Block(t), m, x) \/ (m = e.name /\ x = e.inum)
    <3>1. e.inum \in Nat \ {0}
      BY <1>3, <1>10
    <3>2. QED
      BY <1>3, <1>6, <2>1, <2>2, <2>3, <2>4, <3>1, FullAppend
  <2>6. \A m, x : Has(Block(r), m, x) <=> DotsHave(m, x) \/ Live(s, k + 1, m, x)
    BY <1>6, <1>8, <1>10, <2>5
  <2>7. QED
    BY <1>7, <2>4, <2>5, <2>6 DEF Copied, R
<1>11. QED
  BY <1>9, <1>10

\* The block after all entries.
LEMMA CopiedAll ==
  ASSUME NEW d, Records(d.area, AreaSize), Clean(d.area)
  PROVE  \E t : /\ convert_inline_directory(d) = Block(t)
                /\ Copied(d.area, t, Len(d.area))
<1> DEFINE s == d.area
           Walk(f, n) ==
             [k \in 0 .. n |-> IF k = 0 THEN Dots ELSE CopyNext(f[k - 1], s[k])]
           after == CHOOSE f : f = Walk(f, Len(s))
           T == {n \in Nat : \E f : f = Walk(f, n)}
<1>1. Len(s) \in Nat /\ DOMAIN s = 1 .. Len(s)
  BY DEF Records
<1>2. convert_inline_directory(d) = Block(after[Len(s)])
  BY DEF convert_inline_directory, CopyNext, Block
<1>3. Nat \subseteq T
  <2>1. 0 \in T
    <3>1. [k \in 0 .. 0 |-> Dots] = Walk([k \in 0 .. 0 |-> Dots], 0)
      OBVIOUS
    <3>2. QED
      BY <3>1
  <2>2. ASSUME NEW n \in Nat, n \in T PROVE n + 1 \in T
    <3>1. PICK f : f = Walk(f, n)
      BY <2>2
    <3> DEFINE g == [k \in 0 .. n + 1 |-> IF k = n + 1 THEN CopyNext(f[n], s[n + 1]) ELSE f[k]]
    <3>2. ASSUME NEW k \in 0 .. n + 1
          PROVE  g[k] = IF k = 0 THEN Dots ELSE CopyNext(g[k - 1], s[k])
      <4>1. CASE k = n + 1
        <5>1. k # 0 /\ k - 1 = n /\ g[n] = f[n] /\ g[k] = CopyNext(f[n], s[n + 1])
          BY <4>1
        <5>2. QED
          BY <4>1, <5>1
      <4>2. CASE k = 0
        <5>1. g[0] = f[0] /\ f[0] = Dots
          BY <3>1
        <5>2. QED
          BY <4>2, <5>1
      <4>3. CASE k # n + 1 /\ k # 0
        <5>1. k \in 0 .. n /\ k - 1 \in 0 .. n + 1 /\ k - 1 # n + 1
          BY <4>3
        <5>2. g[k] = f[k] /\ g[k - 1] = f[k - 1]
          BY <4>3, <5>1
        <5>3. f[k] = CopyNext(f[k - 1], s[k])
          <6> HIDE DEF g
          <6>1. f[k] = Walk(f, n)[k]
            BY <3>1
          <6>2. QED
            BY <4>3, <5>1, <6>1
        <5> HIDE DEF g
        <5>4. QED
          BY <4>3, <5>2, <5>3
      <4>4. QED
        BY <4>1, <4>2, <4>3
    <3>3. g = Walk(g, n + 1)
      <4>1. g = [k \in 0 .. n + 1 |-> g[k]]
        OBVIOUS
      <4> HIDE DEF g
      <4>2. QED
        BY <3>2, <4>1
    <3> HIDE DEF Walk, g
    <3>4. QED
      BY <3>3
  <2> HIDE DEF T
  <2>3. QED
    BY <2>1, <2>2, NatSetInduction
<1>4. after = Walk(after, Len(s))
  <2>1. \E f : f = Walk(f, Len(s))
    BY <1>1, <1>3
  <2> HIDE DEF Walk
  <2>2. QED
    BY <2>1
<1> HIDE DEF after, T
<1>5. after[0] = Dots
  BY <1>1, <1>4
<1>6. ASSUME NEW k \in 1 .. Len(s) PROVE after[k] = CopyNext(after[k - 1], s[k])
  BY <1>1, <1>4
<1> DEFINE L == {k \in Nat : k <= Len(s) => Copied(s, after[k], k)}
<1>7. 0 \in L
  <2>1. \A m, x : ~ Live(s, 0, m, x)
    BY DEF Live
  <2>2. Reclen(Dot) + Reclen(DotDot) + 0 = End(Dots) /\ End(Dots) <= End(Dots)
    BY DotsAre, Sizes
  <2>3. Copied(s, Dots, 0)
    BY <2>1, <2>2, DotsAre DEF Copied
  <2>4. QED
    BY <1>5, <2>3
<1>8. ASSUME NEW k \in Nat, k \in L PROVE k + 1 \in L
  <2>1. SUFFICES ASSUME k + 1 <= Len(s) PROVE Copied(s, after[k + 1], k + 1)
    OBVIOUS
  <2>2. Copied(s, after[k], k) /\ k + 1 \in 1 .. Len(s) /\ (k + 1) - 1 = k
    BY <1>1, <1>8, <2>1
  <2>3. after[k + 1] = CopyNext(after[k], s[k + 1])
    BY <1>6, <2>2
  <2>4. k + 1 \in DOMAIN s
    BY <1>1, <2>2
  <2>5. QED
    BY <2>2, <2>3, <2>4, CopyStep
<1>9. Nat \subseteq L
  <2> HIDE DEF L
  <2>1. QED
    BY <1>7, <1>8, NatSetInduction
<1>10. Copied(s, after[Len(s)], Len(s))
  BY <1>1, <1>9
<1>11. QED
  BY <1>2, <1>10

\* convert_inline_directory keeps the entries in use, and adds the dots.
LEMMA ConvertIs ==
  ASSUME NEW d, Sane(d), Once(d), d.inline, \A x : ~ Has(d, Dot, x) /\ ~ Has(d, DotDot, x),
         NEW e, e = convert_inline_directory(d)
  PROVE  /\ Sane(e) /\ Once(e) /\ ~ e.inline
         /\ \A m, x : Has(e, m, x) <=> DotsHave(m, x) \/ Has(d, m, x)
<1> DEFINE s == d.area
<1>1. Records(s, AreaSize) /\ d.blocks = << >>
  BY DEF Sane
<1>2. DOMAIN s = 1 .. Len(s) /\ Len(s) \in Nat /\ DOMAIN d.blocks = {}
  BY <1>1 DEF Records
<1>3. Seg(d, 0) = s
  BY DEF Seg
<1>4. \A b, k : InUse(d, b, k) <=> b = 0 /\ k \in DOMAIN s /\ s[k].inum # 0
  <2>1. \A b, k : InUse(d, b, k) => b = 0
    BY <1>2 DEF InUse
  <2>2. \A k : InUse(d, 0, k) <=> k \in DOMAIN s /\ s[k].inum # 0
    BY <1>3 DEF InUse
  <2>3. QED
    BY <2>1, <2>2
<1>5. \A m, x : Has(d, m, x) <=> Live(s, Len(s), m, x)
  <2>1. ASSUME NEW m, NEW x, Has(d, m, x) PROVE Live(s, Len(s), m, x)
    <3>1. PICK b \in Nat, k \in Nat :
                 InUse(d, b, k) /\ Seg(d, b)[k].name = m /\ Seg(d, b)[k].inum = x
      BY <2>1 DEF Has
    <3>2. b = 0 /\ k \in 1 .. Len(s) /\ s[k].inum # 0
      BY <1>2, <1>4, <3>1
    <3>3. QED
      BY <1>3, <3>1, <3>2 DEF Live
  <2>2. ASSUME NEW m, NEW x, Live(s, Len(s), m, x) PROVE Has(d, m, x)
    <3>1. PICK l \in 1 .. Len(s) : s[l].inum # 0 /\ s[l].name = m /\ s[l].inum = x
      BY <2>2 DEF Live
    <3>2. InUse(d, 0, l) /\ l \in Nat /\ 0 \in Nat
      BY <1>2, <1>4, <3>1
    <3>3. QED
      BY <1>3, <3>1, <3>2 DEF Has
  <2>3. QED
    BY <2>1, <2>2
<1>6. Clean(s)
  <2>1. ASSUME NEW j \in DOMAIN s, NEW l \in DOMAIN s,
               s[j].inum # 0, s[l].inum # 0, s[j].name = s[l].name
        PROVE  j = l
    <3>1. InUse(d, 0, j) /\ InUse(d, 0, l) /\ j \in Nat /\ l \in Nat /\ 0 \in Nat
      BY <1>2, <1>4, <2>1
    <3>2. QED
      BY <1>3, <2>1, <3>1 DEF Once
  <2>2. ASSUME NEW j \in DOMAIN s, s[j].inum # 0 PROVE s[j].name \notin {Dot, DotDot}
    <3>1. Live(s, Len(s), s[j].name, s[j].inum)
      BY <1>2, <2>2 DEF Live
    <3>2. QED
      BY <1>5, <3>1
  <2>3. QED
    BY <2>1, <2>2 DEF Clean
<1>7. PICK t : e = Block(t) /\ Copied(s, t, Len(s))
  BY <1>1, <1>6, CopiedAll
<1>8. /\ Full(t) /\ Records(t, BSize)
      /\ \A m, x : Has(e, m, x) <=> DotsHave(m, x) \/ Live(s, Len(s), m, x)
  BY <1>7 DEF Copied, Full
<1>9. Sane(e) /\ Once(e) /\ ~ e.inline
  BY <1>7, <1>8, BlockIs DEF Full
<1> HIDE DEF s
<1>10. QED
  BY <1>5, <1>8, <1>9

-----------------------------------------------------------------------------
(* The dots, and what a lookup sees.                                        *)

\* "." and ".." have entries when the directory is in blocks.
Named(d) ==
  IF d.inline THEN \A x : ~ Has(d, Dot, x) /\ ~ Has(d, DotDot, x)
  ELSE Has(d, Dot, Self) /\ Has(d, DotDot, Parent)

Whole(d) == Sane(d) /\ Once(d) /\ Named(d)

Sees(d, n, x) == Has(d, n, x) \/ (d.inline /\ DotsHave(n, x))

LEMMA DotsSeen ==
  ASSUME NEW d, Whole(d)
  PROVE  Sees(d, Dot, Self) /\ Sees(d, DotDot, Parent)
  BY DEF Whole, Named, Sees, DotsHave

LEMMA Unwrapped ==
  ASSUME NoWrap, NEW n \in Names
  PROVE  (Length[n] + 1) % Byte = Length[n] + 1 /\ Reclen(n) % Byte = Reclen(n)
<1>1. Length[n] \in Nat /\ Header \in Nat /\ Byte \in Nat /\ Byte > 0 /\ Reclen(n) \in Nat
  BY Sizes, DentsAssumption
<1>2. Reclen(n) < Byte /\ Length[n] + 1 < Byte
  BY <1>1 DEF NoWrap, Reclen
<1>3. ASSUME NEW x \in Nat, NEW y \in Nat, x < y PROVE x % y = x
  BY <1>3
<1>4. QED
  BY <1>1, <1>2, <1>3

\* A name that had no entry has one now.
LEMMA PlusOne ==
  ASSUME NEW d, NEW e, NEW c, NEW j, NEW n \in Names, NEW i \in Nat \ {0},
         Sane(d), Once(d), Plus(d, e, c, j, n, i), \A x : ~ Has(d, n, x)
  PROVE  /\ Once(e)
         /\ \A m, x : Has(e, m, x) <=> Has(d, m, x) \/ (m = n /\ x = i)
<1>1. \A b, k \in Nat : InUse(d, b, k) => Seg(d, b)[k].inum \in Nat
  BY SegIs
<1>2. QED
  BY <1>1, PlusIs

\* new_dentry, in all its three ways.
LEMMA AddedIs ==
  ASSUME NoWrap, NEW d, Whole(d), NEW n \in Names, NEW i \in Nat \ {0},
         \A x : ~ Sees(d, n, x), NEW e, e = new_dentry(d, n, i)
  PROVE  /\ Whole(e)
         /\ \A m, x : Sees(e, m, x) <=> Sees(d, m, x) \/ (m = n /\ x = i)
<1>1. n # Dot /\ n # DotDot /\ Sane(d) /\ Once(d) /\ \A x : ~ Has(d, n, x)
  BY DotsSeen DEF Whole, Sees
<1>2. \A x : ~ DotsHave(n, x)
  BY <1>1 DEF DotsHave
<1>3. CASE ~ d.inline
  <2>1. e = PutInBlocks(d, n, i)
    BY <1>3 DEF new_dentry
  <2>2. Sane(e) /\ ~ e.inline /\ \E c, k : Plus(d, e, c, k, n, i)
    BY <1>1, <1>3, <2>1, PutInBlocksIs
  <2>3. /\ Once(e)
        /\ \A m, x : Has(e, m, x) <=> Has(d, m, x) \/ (m = n /\ x = i)
    BY <1>1, <2>2, PlusOne
  <2>4. QED
    BY <1>3, <2>2, <2>3 DEF Whole, Named, Sees
<1>4. CASE d.inline /\ InlineFits(d.area, n)
  <2> DEFINE s == d.area
             r == AtEnd(s, n, i, Reclen(n))
  <2>1. e = WithArea(d, r)
    BY <1>4 DEF new_dentry, WithArea
  <2>2. Records(s, AreaSize) /\ AreaSize \in Nat /\ Reclen(n) \in Nat /\ End(s) \in Nat
    BY <1>1, Sizes, EndIs DEF Sane, Records
  <2>3. End(s) + Reclen(n) <= AreaSize
    BY <1>4, <2>2, Unwrapped DEF InlineFits
  <2>4. r = AtEnd(s, n, i, Reclen(n)) /\ Reclen(n) <= Reclen(n) /\ i \in Nat
    BY <2>2
  <2> HIDE DEF r
  <2>5. Records(r, AreaSize) /\ PutAt(s, r, Len(s) + 1, n, i)
    <3> HIDE DEF s
    <3>1. QED
      BY <2>2, <2>3, <2>4, AtEndIs
  <2>6. /\ Sane(e) /\ e.inline /\ e.blocks = d.blocks
        /\ Seg(e, 0) = r
        /\ \A b \in DOMAIN d.blocks \union {0} : b # 0 => Seg(e, b) = Seg(d, b)
    BY <1>1, <1>4, <2>1, <2>5, WithAreaIs
  <2>7. Seg(d, 0) = s /\ 0 \in Nat /\ Len(s) + 1 \in Nat
    BY <2>2 DEF Seg, Records
  <2> HIDE DEF s
  <2>8. Plus(d, e, 0, Len(s) + 1, n, i)
    <3>1. PutAt(Seg(d, 0), Seg(e, 0), Len(s) + 1, n, i) /\ i # 0
      BY <2>5, <2>6, <2>7
    <3> DEFINE k == Len(s) + 1
    <3>2. k \in Nat /\ PutAt(Seg(d, 0), Seg(e, 0), k, n, i)
      BY <2>7, <3>1
    <3> HIDE DEF k
    <3>3. Plus(d, e, 0, k, n, i)
      BY <2>6, <2>7, <3>1, <3>2, SegPut
    <3>4. QED
      BY <3>3 DEF k
  <2>9. /\ Once(e)
        /\ \A m, x : Has(e, m, x) <=> Has(d, m, x) \/ (m = n /\ x = i)
    BY <1>1, <2>8, PlusOne
  <2>10. QED
    BY <1>1, <1>4, <2>6, <2>9 DEF Whole, Named, Sees
<1>5. CASE d.inline /\ ~ InlineFits(d.area, n)
  <2> DEFINE f == convert_inline_directory(d)
  <2>1. e = PutInBlocks(f, n, i)
    BY <1>5 DEF new_dentry
  <2>2. f = convert_inline_directory(d)
    OBVIOUS
  <2> HIDE DEF f
  <2>3. \A x : ~ Has(d, Dot, x) /\ ~ Has(d, DotDot, x)
    BY <1>5 DEF Whole, Named
  <2>4. /\ Sane(f) /\ Once(f) /\ ~ f.inline
        /\ \A m, x : Has(f, m, x) <=> DotsHave(m, x) \/ Has(d, m, x)
    BY <1>1, <1>5, <2>2, <2>3, ConvertIs
  <2>5. Sane(e) /\ ~ e.inline /\ \E c, k : Plus(f, e, c, k, n, i)
    BY <2>1, <2>4, PutInBlocksIs
  <2>6. \A x : ~ Has(f, n, x)
    BY <1>1, <1>2, <2>4
  <2>7. /\ Once(e)
        /\ \A m, x : Has(e, m, x) <=> Has(f, m, x) \/ (m = n /\ x = i)
    BY <2>4, <2>5, <2>6, PlusOne
  <2>8. Has(e, Dot, Self) /\ Has(e, DotDot, Parent)
    BY <2>4, <2>7 DEF DotsHave
  <2>9. QED
    BY <1>5, <2>4, <2>5, <2>7, <2>8 DEF Whole, Named, Sees
<1>6. QED
  BY <1>3, <1>4, <1>5

\* The entry at p is one in use, of n for i.
At(d, p, n, i) ==
  /\ p.b \in Nat /\ p.k \in Nat /\ InUse(d, p.b, p.k)
  /\ Seg(d, p.b)[p.k].name = n /\ Seg(d, p.b)[p.k].inum = i

\* unlink_dent: one name is gone, and the others are where they were.
LEMMA EmptiedIs ==
  ASSUME NEW d, Whole(d), NEW p, NEW n, NEW i, At(d, p, n, i), n # Dot, n # DotDot,
         NEW e, e = Emptied(d, p)
  PROVE  /\ Whole(e) /\ Len(e.blocks) = Len(d.blocks)
         /\ \A m, x : Sees(e, m, x) <=> Sees(d, m, x) /\ m # n
         /\ \A q, m, x : At(d, q, m, x) /\ m # n => At(e, q, m, x)
<1> DEFINE b == p.b
           k == p.k
<1>1. /\ Sane(d) /\ Once(d) /\ Named(d) /\ b \in Nat /\ k \in Nat /\ InUse(d, b, k)
      /\ Seg(d, b)[k].name = n
  BY DEF Whole, At
<1>2. k # 0 /\ k \in DOMAIN Seg(d, b) /\ (IF d.inline THEN b = 0 ELSE b # 0)
  <2> HIDE DEF b, k
  <2>1. QED
    BY <1>1, SegIs
<1>3. p # NotFound
  BY <1>2 DEF NotFound
<1> DEFINE s == Seg(d, b)
           r == [s EXCEPT ![k] = Unused(@)]
<1>4. /\ Sane(e) /\ (e.inline <=> d.inline) /\ Len(e.blocks) = Len(d.blocks)
      /\ Minus(d, e, b, k)
  <2>1. CASE b = 0
    <3>1. e = WithArea(d, r)
      BY <1>3, <2>1 DEF Emptied, WithArea, Seg
    <3>2. Records(s, AreaSize) /\ AreaSize \in Nat /\ d.inline
      BY <1>1, <1>2, <2>1, Sizes DEF Sane, Seg
    <3>3. r = [s EXCEPT ![k] = Unused(@)] /\ k \in DOMAIN s
      BY <1>2
    <3> HIDE DEF r, b, k, s
    <3>4. Records(r, AreaSize) /\ GoneAt(s, r, k)
      BY <3>2, <3>3, UnusedIs
    <3>5. /\ Sane(e) /\ e.inline /\ e.blocks = d.blocks
          /\ Seg(e, 0) = r
          /\ \A c \in DOMAIN d.blocks \union {0} : c # 0 => Seg(e, c) = Seg(d, c)
      BY <1>1, <3>1, <3>2, <3>4, WithAreaIs
    <3>6. GoneAt(Seg(d, b), Seg(e, b), k)
      BY <2>1, <3>4, <3>5 DEF s
    <3>7. Minus(d, e, b, k)
      BY <1>1, <2>1, <3>5, <3>6, SegGone
    <3>8. QED
      BY <3>2, <3>5, <3>7
  <2>2. CASE b # 0
    <3>1. b \in DOMAIN d.blocks /\ s = d.blocks[b] /\ ~ d.inline
      <4> HIDE DEF b, k
      <4>1. QED
        BY <1>1, <1>2, <2>2 DEF InUse, Seg
    <3>2. e = WithBlock(d, b, r)
      BY <1>3, <2>2, <3>1 DEF Emptied, WithBlock
    <3>3. r = [s EXCEPT ![k] = Unused(@)] /\ k \in DOMAIN s
      BY <1>2
    <3> HIDE DEF r, b, k, s
    <3>4. Records(s, BSize) /\ BSize \in Nat
      BY <1>1, <3>1, Sizes DEF Sane
    <3>5. Records(r, BSize) /\ GoneAt(s, r, k)
      BY <3>3, <3>4, UnusedIs
    <3>6. /\ Sane(e) /\ ~ e.inline /\ DOMAIN e.blocks = DOMAIN d.blocks
          /\ b # 0 /\ Seg(e, b) = r
          /\ \A c \in DOMAIN d.blocks \union {0} : c # b => Seg(e, c) = Seg(d, c)
      BY <1>1, <3>1, <3>2, <3>5, WithBlockIs
    <3>7. GoneAt(Seg(d, b), Seg(e, b), k)
      BY <3>5, <3>6 DEF s
    <3>8. Minus(d, e, b, k)
      BY <1>1, <3>6, <3>7, SegGone
    <3>9. Len(e.blocks) = Len(d.blocks)
      BY <1>1, <3>6 DEF Sane
    <3>10. QED
      BY <3>1, <3>6, <3>8, <3>9
  <2>3. QED
    BY <2>1, <2>2
<1> HIDE DEF b, k
<1>5. /\ Once(e)
      /\ \A m, x : Has(e, m, x) <=> Has(d, m, x) /\ m # n
  BY <1>1, <1>4, MinusIs
<1>6. \A m, x : Sees(e, m, x) <=> Sees(d, m, x) /\ m # n
  BY <1>4, <1>5 DEF Sees, DotsHave
<1>7. Named(e)
  BY <1>1, <1>4, <1>5 DEF Named
<1>8. ASSUME NEW q, NEW m, NEW x, At(d, q, m, x), m # n PROVE At(e, q, m, x)
  <2>1. /\ q.b \in Nat /\ q.k \in Nat /\ InUse(d, q.b, q.k)
        /\ Seg(d, q.b)[q.k].name = m /\ Seg(d, q.b)[q.k].inum = x
    BY <1>8 DEF At
  <2>2. ~ (q.b = b /\ q.k = k)
    BY <1>1, <1>8, <2>1
  <2>3. Same(d, e, q.b, q.k)
    BY <1>4, <2>1, <2>2 DEF Minus
  <2>4. QED
    BY <2>1, <2>3 DEF Same, At
<1>9. QED
  BY <1>4, <1>5, <1>6, <1>7, <1>8 DEF Whole

-----------------------------------------------------------------------------
(* The invariant, and what lookups find in it.                              *)

DirInv == Whole(D) /\ Len(blocks) < NBlocks

LEMMA DirIs ==
  ASSUME DirInv
  PROVE  /\ D.inline = inline /\ D.area = area /\ D.blocks = blocks
         /\ Seg(D, 0) = area /\ \A b \in DOMAIN blocks : b # 0 /\ Seg(D, b) = blocks[b]
         /\ Records(area, AreaSize) /\ \A b \in DOMAIN blocks : Records(blocks[b], BSize)
         /\ blocks \in Seq(Seq(Rec)) /\ Len(blocks) \in Nat
         /\ DOMAIN blocks = 1 .. Len(blocks) /\ DOMAIN blocks \subseteq 1 .. NBlocks - 1
         /\ InlineLoop(area) = DOMAIN area
         /\ \A b \in DOMAIN blocks : BlockLoop(blocks[b]) = DOMAIN blocks[b]
         /\ inline \in BOOLEAN
         /\ IF inline THEN blocks = << >> ELSE area = << >>
<1>1. D.inline = inline /\ D.area = area /\ D.blocks = blocks
  BY DEF D
<1>2. Sane(D) /\ Len(blocks) < NBlocks
  BY DEF DirInv, Whole
<1>3. /\ Records(area, AreaSize) /\ \A b \in DOMAIN blocks : Records(blocks[b], BSize)
      /\ blocks \in Seq(Seq(Rec)) /\ inline \in BOOLEAN
      /\ IF inline THEN blocks = << >> ELSE area = << >>
  BY <1>1, <1>2 DEF Sane
<1>4. Len(blocks) \in Nat /\ DOMAIN blocks = 1 .. Len(blocks)
  BY <1>3
<1>5. DOMAIN blocks \subseteq 1 .. NBlocks - 1 /\ \A b \in DOMAIN blocks : b # 0
  BY <1>2, <1>4, Sizes
<1>6. Seg(D, 0) = area /\ \A b \in DOMAIN blocks : Seg(D, b) = blocks[b]
  BY <1>1, <1>5 DEF Seg
<1>7. /\ InlineLoop(area) = DOMAIN area
      /\ \A b \in DOMAIN blocks : BlockLoop(blocks[b]) = DOMAIN blocks[b]
  BY <1>3, LoopsWhole
<1>8. QED
  BY <1>1, <1>3, <1>4, <1>5, <1>6, <1>7

\* The loops meet an entry of n where there is one in use, and only there.
LEMMA PlacesAre ==
  ASSUME NoWrap, DirInv, NEW n \in Names
  PROVE  /\ \A p \in Places(n) : /\ p = [b |-> p.b, k |-> p.k] /\ p # NotFound
                                 /\ At(D, p, n, InumAt(p)) /\ InumAt(p) # 0
         /\ \A x : Has(D, n, x) => Places(n) # {}
<1>1. ASSUME NEW e PROVE Matches(e, n) <=> e.inum # 0 /\ e.name = n
  BY Unwrapped DEF Matches
<1>2. CASE inline
  <2>1. Places(n) = {[b |-> 0, k |-> k] : k \in {j \in DOMAIN area : Matches(area[j], n)}}
    BY <1>2, DirIs DEF Places
  <2>2. ASSUME NEW p \in Places(n)
        PROVE  /\ p = [b |-> p.b, k |-> p.k] /\ p # NotFound
               /\ At(D, p, n, InumAt(p)) /\ InumAt(p) # 0
    <3>1. PICK k \in DOMAIN area : p = [b |-> 0, k |-> k] /\ Matches(area[k], n)
      BY <2>1
    <3>2. k \in Nat /\ k # 0 /\ area[k].inum # 0 /\ area[k].name = n
      BY <1>1, <3>1, DirIs DEF Records
    <3>3. p.b = 0 /\ p.k = k /\ p # NotFound
      BY <3>1, <3>2 DEF NotFound
    <3>4. InumAt(p) = area[k].inum
      BY <3>3 DEF InumAt
    <3>5. InUse(D, 0, k) /\ Seg(D, 0)[k].name = n /\ Seg(D, 0)[k].inum = area[k].inum
      BY <3>1, <3>2, DirIs DEF InUse
    <3>6. At(D, p, n, InumAt(p))
      BY <3>2, <3>3, <3>4, <3>5 DEF At
    <3>7. QED
      BY <3>1, <3>2, <3>3, <3>4, <3>6
  <2>3. ASSUME NEW x, Has(D, n, x) PROVE Places(n) # {}
    <3>1. PICK b \in Nat, k \in Nat : InUse(D, b, k) /\ Seg(D, b)[k].name = n
      BY <2>3 DEF Has
    <3>2. b = 0 /\ k \in DOMAIN area /\ area[k].inum # 0 /\ area[k].name = n
      BY <1>2, <3>1, DirIs DEF InUse
    <3>3. [b |-> 0, k |-> k] \in Places(n)
      BY <1>1, <2>1, <3>2
    <3>4. QED
      BY <3>3
  <2>4. QED
    BY <2>2, <2>3
<1>3. CASE ~ inline
  <2> DEFINE In(b) == {[b |-> b, k |-> k] : k \in {j \in DOMAIN blocks[b] :
                                                    Matches(blocks[b][j], n)}}
             Loop(b) == {[b |-> b, k |-> k] : k \in {j \in BlockLoop(blocks[b]) :
                                                    Matches(blocks[b][j], n)}}
  <2>1. Places(n) = UNION {In(b) : b \in DOMAIN blocks}
    <3>1. Places(n) = UNION {Loop(b) : b \in DOMAIN blocks \cap (1 .. NBlocks - 1)}
      BY <1>3 DEF Places
    <3>2. DOMAIN blocks \cap (1 .. NBlocks - 1) = DOMAIN blocks
      BY DirIs
    <3>3. \A b \in DOMAIN blocks : Loop(b) = In(b)
      BY DirIs
    <3> HIDE DEF In, Loop
    <3>4. QED
      BY <3>1, <3>2, <3>3
  <2>2. ASSUME NEW p \in Places(n)
        PROVE  /\ p = [b |-> p.b, k |-> p.k] /\ p # NotFound
               /\ At(D, p, n, InumAt(p)) /\ InumAt(p) # 0
    <3>1. PICK c \in DOMAIN blocks : p \in In(c)
      <4> HIDE DEF In
      <4>1. QED
        BY <2>1
    <3>2. PICK k \in DOMAIN blocks[c] : p = [b |-> c, k |-> k] /\ Matches(blocks[c][k], n)
      BY <3>1
    <3>3. c \in Nat /\ c # 0 /\ blocks[c][k].inum # 0 /\ blocks[c][k].name = n
      BY <1>1, <3>2, DirIs
    <3>4. k \in Nat
      BY <3>1, DirIs DEF Records
    <3>5. p.b = c /\ p.k = k /\ p # NotFound
      BY <3>2, <3>3 DEF NotFound
    <3>6. InumAt(p) = blocks[c][k].inum
      BY <3>3, <3>5 DEF InumAt
    <3>7. InUse(D, c, k) /\ Seg(D, c)[k].name = n /\ Seg(D, c)[k].inum = blocks[c][k].inum
      BY <3>2, <3>3, DirIs DEF InUse
    <3>8. At(D, p, n, InumAt(p))
      BY <3>3, <3>4, <3>5, <3>6, <3>7 DEF At
    <3>9. QED
      BY <3>2, <3>3, <3>5, <3>6, <3>8
  <2>3. ASSUME NEW x, Has(D, n, x) PROVE Places(n) # {}
    <3>1. PICK c \in Nat, k \in Nat : InUse(D, c, k) /\ Seg(D, c)[k].name = n
      BY <2>3 DEF Has
    <3>2. /\ c \in DOMAIN blocks /\ k \in DOMAIN blocks[c]
          /\ blocks[c][k].inum # 0 /\ blocks[c][k].name = n
      BY <1>3, <3>1, DirIs DEF InUse
    <3>3. [b |-> c, k |-> k] \in In(c)
      BY <1>1, <3>2
    <3> HIDE DEF In
    <3>4. QED
      BY <2>1, <3>2, <3>3
  <2>4. QED
    BY <2>2, <2>3
<1>4. QED
  BY <1>2, <1>3, DirIs

LEMMA LookupIs ==
  ASSUME NoWrap, DirInv, NEW n \in Names
  PROVE  \/ /\ \A x : ~ Has(D, n, x)
            /\ lookup_dent(n) = NotFound /\ InumAt(lookup_dent(n)) = 0
         \/ /\ At(D, lookup_dent(n), n, InumAt(lookup_dent(n)))
            /\ InumAt(lookup_dent(n)) # 0
<1> DEFINE P == Places(n)
<1>1. \A p \in P : /\ p = [b |-> p.b, k |-> p.k] /\ p # NotFound
                   /\ At(D, p, n, InumAt(p)) /\ InumAt(p) # 0
  BY PlacesAre
<1>2. CASE P = {}
  <2>1. lookup_dent(n) = NotFound
    BY <1>2 DEF lookup_dent
  <2>2. InumAt(lookup_dent(n)) = 0
    BY <2>1 DEF InumAt
  <2>3. QED
    BY <1>2, <2>1, <2>2, PlacesAre
<1>3. CASE P # {}
  <2>1. ASSUME NEW p \in P, NEW q \in P PROVE p = q
    <3>1. /\ p.b \in Nat /\ p.k \in Nat /\ InUse(D, p.b, p.k) /\ Seg(D, p.b)[p.k].name = n
          /\ q.b \in Nat /\ q.k \in Nat /\ InUse(D, q.b, q.k) /\ Seg(D, q.b)[q.k].name = n
      BY <1>1 DEF At
    <3>2. Once(D)
      BY DEF DirInv, Whole
    <3>3. p.b = q.b /\ p.k = q.k
      BY <3>1, <3>2 DEF Once
    <3>4. QED
      BY <1>1, <3>3
  <2>2. ASSUME NEW p \in P PROVE Before(p, p)
    <3>1. p.k \in Nat
      BY <1>1 DEF At
    <3>2. QED
      BY <3>1 DEF Before
  <2>3. \E p \in P : \A q \in P : Before(p, q)
    BY <1>3, <2>1, <2>2
  <2>4. lookup_dent(n) = CHOOSE p \in P : \A q \in P : Before(p, q)
    BY <1>3 DEF lookup_dent
  <2>5. lookup_dent(n) \in P
    BY <2>3, <2>4
  <2>6. QED
    BY <1>1, <2>5
<1>4. QED
  BY <1>2, <1>3

\* Inum(n) is the inode that n is seen with, or 0.
LEMMA InumIs ==
  ASSUME NoWrap, DirInv, NEW n \in Names
  PROVE  /\ Inum(n) \in Nat
         /\ Inum(n) = 0 => \A x : ~ Sees(D, n, x)
         /\ Inum(n) # 0 => \A x : Sees(D, n, x) <=> x = Inum(n)
<1> DEFINE p == lookup_dent(n)
           i == InumAt(p)
<1>1. /\ Once(D) /\ Named(D) /\ D.inline = inline
      /\ Self # 0 /\ Parent # 0 /\ Self \in Nat /\ Parent \in Nat /\ Dot # DotDot
  BY DirIs, Sizes DEF DirInv, Whole
<1>2. CASE inline /\ n \in {Dot, DotDot}
  <2>1. \A x : ~ Has(D, n, x)
    BY <1>1, <1>2 DEF Named
  <2>2. Inum(n) = IF n = Dot THEN Self ELSE Parent
    BY <1>1, <1>2 DEF Inum
  <2>3. \A x : Sees(D, n, x) <=> x = Inum(n)
    BY <1>1, <1>2, <2>1, <2>2 DEF Sees, DotsHave
  <2>4. QED
    BY <1>1, <2>2, <2>3
<1>3. CASE ~ (inline /\ n \in {Dot, DotDot})
  <2>1. Inum(n) = i
    BY <1>3 DEF Inum
  <2>2. \A x : Sees(D, n, x) <=> Has(D, n, x)
    BY <1>1, <1>3 DEF Sees, DotsHave
  <2>3. \/ (\A x : ~ Has(D, n, x)) /\ i = 0
        \/ At(D, p, n, i) /\ i # 0
    BY LookupIs
  <2> HIDE DEF p, i
  <2>4. ASSUME At(D, p, n, i), i # 0
        PROVE  i \in Nat /\ \A x : Has(D, n, x) <=> x = i
    <3>1. /\ p.b \in Nat /\ p.k \in Nat /\ InUse(D, p.b, p.k)
          /\ Seg(D, p.b)[p.k].name = n /\ Seg(D, p.b)[p.k].inum = i
      BY <2>4 DEF At
    <3>2. i \in Nat
      BY <3>1, SegIs DEF DirInv, Whole
    <3>3. Has(D, n, i)
      BY <3>1 DEF Has
    <3>4. ASSUME NEW x, Has(D, n, x) PROVE x = i
      BY <1>1, <3>1, <3>4 DEF Has, Once
    <3>5. QED
      BY <3>2, <3>3, <3>4
  <2>5. QED
    BY <2>1, <2>2, <2>3, <2>4
<1>4. QED
  BY <1>2, <1>3

-----------------------------------------------------------------------------
(* The steps.                                                               *)

LEMMA BecomesIs ==
  ASSUME NEW d, Whole(d), Len(d.blocks) < NBlocks, Becomes(d)
  PROVE  DirInv' /\ D' = d
<1>1. d = [inline |-> d.inline, area |-> d.area, blocks |-> d.blocks]
  BY DEF Whole, Sane
<1>2. D' = d /\ blocks' = d.blocks
  BY <1>1 DEF Becomes, D
<1>3. QED
  BY <1>2 DEF DirInv

LEMMA DirInit ==
  ASSUME Init
  PROVE  DirInv /\ \A m, x : Sees(D, m, x) <=> DotsHave(m, x)
<1>1. D.inline = TRUE /\ D.area = << >> /\ D.blocks = << >>
      /\ D = [inline |-> D.inline, area |-> D.area, blocks |-> D.blocks]
  BY DEF Init, D
<1>2. Records(D.area, AreaSize)
  BY <1>1, Sizes, NoRecords
<1>3. D.blocks \in Seq(Seq(Rec)) /\ DOMAIN D.blocks = {} /\ Len(blocks) = 0
  BY <1>1 DEF Init
<1>4. Sane(D)
  BY <1>1, <1>2, <1>3 DEF Sane
<1>5. \A b, k : ~ InUse(D, b, k)
  BY <1>1, <1>3 DEF InUse, Seg
<1>6. \A m, x : ~ Has(D, m, x)
  BY <1>5 DEF Has
<1>7. Once(D) /\ Named(D)
  BY <1>1, <1>5, <1>6 DEF Once, Named
<1>8. \A m, x : Sees(D, m, x) <=> DotsHave(m, x)
  BY <1>1, <1>6 DEF Sees
<1>9. QED
  BY <1>3, <1>4, <1>7, <1>8, Sizes DEF DirInv, Whole

\* A name with no inode gets one.
LEMMA AddStep ==
  ASSUME NoWrap, DirInv, NEW n \in Names, NEW i \in Files, Add(n, i)
  PROVE  /\ DirInv' /\ Inum(n) = 0
         /\ \A m, x : Sees(D', m, x) <=> Sees(D, m, x) \/ (m = n /\ x = i)
<1>1. Inum(n) = 0 /\ \A x : ~ Sees(D, n, x)
  BY InumIs DEF Add
<1>2. i \in Nat \ {0} /\ Whole(D)
  BY DentsAssumption DEF DirInv
<1>3. PICK e : e = new_dentry(D, n, i)
  OBVIOUS
<1>4. /\ Whole(e)
      /\ \A m, x : Sees(e, m, x) <=> Sees(D, m, x) \/ (m = n /\ x = i)
  BY <1>1, <1>2, <1>3, AddedIs
<1>5. Len(e.blocks) < NBlocks /\ Becomes(e)
  BY <1>3 DEF Add, Visible
<1>6. DirInv' /\ D' = e
  BY <1>4, <1>5, BecomesIs
<1>7. QED
  BY <1>1, <1>4, <1>6

\* What a lookup of a name with an inode comes to, when it is not a dot.
LEMMA Found ==
  ASSUME NoWrap, DirInv, NEW n \in Names, n \notin {Dot, DotDot}, Inum(n) # 0
  PROVE  At(D, lookup_dent(n), n, Inum(n))
<1>1. Inum(n) = InumAt(lookup_dent(n))
  BY DEF Inum
<1>2. QED
  BY <1>1, LookupIs

LEMMA DropStep ==
  ASSUME NoWrap, DirInv, NEW n \in Names, Drop(n)
  PROVE  /\ DirInv' /\ Inum(n) # 0 /\ n \notin {Dot, DotDot}
         /\ \A m, x : Sees(D', m, x) <=> Sees(D, m, x) /\ m # n
<1>1. Inum(n) # 0 /\ n # Dot /\ n # DotDot /\ n \notin {Dot, DotDot}
  BY DEF Drop
<1>2. At(D, lookup_dent(n), n, Inum(n)) /\ Whole(D)
  BY <1>1, Found DEF DirInv
<1>3. PICK e : e = Emptied(D, lookup_dent(n))
  OBVIOUS
<1>4. /\ Whole(e) /\ Len(e.blocks) = Len(D.blocks)
      /\ \A m, x : Sees(e, m, x) <=> Sees(D, m, x) /\ m # n
  BY <1>1, <1>2, <1>3, EmptiedIs
<1>5. Len(e.blocks) < NBlocks /\ Becomes(e)
  BY <1>3, <1>4, DirIs DEF Drop, DirInv
<1>6. DirInv' /\ D' = e
  BY <1>4, <1>5, BecomesIs
<1>7. QED
  BY <1>1, <1>4, <1>6

\* The old name and what the new one had are gone, and the new name is there.
LEMMA RenameStep ==
  ASSUME NoWrap, DirInv, NEW n \in Names, NEW m \in Names, Rename(n, m)
  PROVE  /\ DirInv' /\ Inum(n) # 0 /\ {n, m} \cap {Dot, DotDot} = {} /\ n # m
         /\ \A a, x : Sees(D', a, x) <=> \/ Sees(D, a, x) /\ a # n /\ a # m
                                         \/ a = m /\ x = Inum(n)
<1>1. /\ Inum(n) # 0 /\ n # m /\ n # Dot /\ n # DotDot /\ m # Dot /\ m # DotDot
      /\ n \notin {Dot, DotDot} /\ m \notin {Dot, DotDot} /\ {n, m} \cap {Dot, DotDot} = {}
  BY DEF Rename
<1>2. At(D, lookup_dent(n), n, Inum(n)) /\ Whole(D)
  BY <1>1, Found DEF DirInv
<1>3. PICK i : i = Inum(n)
  OBVIOUS
<1>4. i \in Nat \ {0}
  BY <1>1, <1>3, InumIs
<1>5. PICK f : f = Emptied(D, lookup_dent(m))
  OBVIOUS
<1>6. /\ Whole(f) /\ At(f, lookup_dent(n), n, i)
      /\ \A a, x : Sees(f, a, x) <=> Sees(D, a, x) /\ a # m
  <2>1. CASE Inum(m) = 0
    <3>1. \A x : ~ Sees(D, m, x)
      BY <2>1, InumIs
    <3>2. \A x : ~ Has(D, m, x)
      BY <3>1 DEF Sees
    <3>3. Inum(m) = InumAt(lookup_dent(m))
      BY <1>1 DEF Inum
    <3>4. lookup_dent(m) = NotFound
      BY <2>1, <3>3, LookupIs
    <3>5. f = D
      BY <1>5, <3>4 DEF Emptied
    <3>6. QED
      BY <1>2, <1>3, <3>1, <3>5
  <2>2. CASE Inum(m) # 0
    <3>1. At(D, lookup_dent(m), m, Inum(m))
      BY <1>1, <2>2, Found
    <3>2. /\ Whole(f)
          /\ \A a, x : Sees(f, a, x) <=> Sees(D, a, x) /\ a # m
      BY <1>1, <1>2, <1>5, <3>1, EmptiedIs
    <3>3. At(f, lookup_dent(n), n, i)
      BY <1>1, <1>2, <1>3, <1>5, <3>1, EmptiedIs
    <3>4. QED
      BY <3>2, <3>3
  <2>3. QED
    BY <2>1, <2>2
<1>7. PICK g : g = Emptied(f, lookup_dent(n))
  OBVIOUS
<1>8. /\ Whole(g)
      /\ \A a, x : Sees(g, a, x) <=> Sees(f, a, x) /\ a # n
  BY <1>1, <1>6, <1>7, EmptiedIs
<1>9. PICK e : e = new_dentry(g, m, i)
  OBVIOUS
<1>10. /\ Whole(e)
       /\ \A a, x : Sees(e, a, x) <=> Sees(g, a, x) \/ (a = m /\ x = i)
  <2>1. \A x : ~ Sees(g, m, x)
    BY <1>6, <1>8
  <2>2. QED
    BY <1>4, <1>8, <1>9, <2>1, AddedIs
<1>11. Len(e.blocks) < NBlocks /\ Becomes(e)
  BY <1>3, <1>5, <1>7, <1>9 DEF Rename, Visible
<1>12. DirInv' /\ D' = e
  BY <1>10, <1>11, BecomesIs
<1>13. \A a, x : Sees(D', a, x) <=> \/ Sees(D, a, x) /\ a # n /\ a # m
                                    \/ a = m /\ x = i
  BY <1>6, <1>8, <1>10, <1>12
<1>14. QED
  BY <1>1, <1>3, <1>12, <1>13

\* What InumIs says, of all names.
LookupsTrue ==
  \A n \in Names : /\ Inum(n) \in Nat
                   /\ Inum(n) = 0 => \A x : ~ Sees(D, n, x)
                   /\ Inum(n) # 0 => \A x : Sees(D, n, x) <=> x = Inum(n)

LEMMA DirStep ==
  ASSUME NoWrap, DirInv, [Next]_vars
  PROVE  DirInv'
<1>1. CASE UNCHANGED vars
  BY <1>1 DEF vars, DirInv, D
<1>2. ASSUME NEW n \in Names, NEW i \in Files, Add(n, i) PROVE DirInv'
  BY <1>2, AddStep
<1>3. ASSUME NEW n \in Names, Drop(n) PROVE DirInv'
  BY <1>3, DropStep
<1>4. ASSUME NEW n \in Names, NEW m \in Names, Rename(n, m) PROVE DirInv'
  BY <1>4, RenameStep
<1>5. QED
  BY <1>1, <1>2, <1>3, <1>4 DEF Next

(* DentsInvariant: the records are well-formed, every name has one entry in *)
(* use, the dots have theirs once the directory was converted, and no entry *)
(* is in the last block (new_dentry, unlink_dent, fs_rename).               *)
THEOREM DentsInvariant ==
  ASSUME NoWrap
  PROVE  Spec => []DirInv
<1>1. Init => DirInv
  BY DirInit
<1>2. DirInv /\ [Next]_vars => DirInv'
  BY DirStep
<1>3. QED
  BY <1>1, <1>2, PTL DEF Spec

(* DentsFit: whatever the lengths of the names are, a name never runs into  *)
(* the next entry, the next inode or the next block.                        *)
THEOREM DentsFit ==
  ASSUME NoWrap
  PROVE  Spec => []RecordsFit
<1>1. DirInv => RecordsFit
  <2>1. SUFFICES ASSUME DirInv PROVE RecordsFit
    OBVIOUS
  <2>2. Records(area, AreaSize) /\ \A b \in DOMAIN blocks : Records(blocks[b], BSize)
    BY <2>1, DirIs
  <2>3. \A ents \in ToSet(blocks) : \E b \in DOMAIN blocks : ents = blocks[b]
    BY DEF ToSet
  <2>4. \A ents \in {area} \union ToSet(blocks) : \E size : Records(ents, size)
    BY <2>2, <2>3
  <2>5. QED
    BY <2>2, <2>4 DEF Records, RecordsFit
<1>2. QED
  BY <1>1, DentsInvariant, PTL

\* The lines that ls prints are the entries in use, and the dots.
LEMMA LinesAre ==
  ASSUME NoWrap, DirInv
  PROVE  /\ \A line \in ls_dir : Sees(D, line.name, line.inum)
         /\ \A n, x : Sees(D, n, x) => \E line \in ls_dir : line.name = n /\ line.inum = x
         /\ \A line, other \in ls_dir : line.name = other.name => line = other
<1> DEFINE Line(b, k, n, x) == [b |-> b, k |-> k, name |-> n, inum |-> x]
           Entry(b, k) == Line(b, k, Seg(D, b)[k].name, Seg(D, b)[k].inum)
           Dot1 == Line(0, 0, Dot, Self)
           Dot2 == Line(0, 0, DotDot, Parent)
<1>1. ASSUME NEW b, NEW k, NEW n, NEW x
      PROVE  /\ Line(b, k, n, x).b = b /\ Line(b, k, n, x).k = k
             /\ Line(b, k, n, x).name = n /\ Line(b, k, n, x).inum = x
  OBVIOUS
<1>2. \A line \in ls_dir : \/ inline /\ line \in {Dot1, Dot2}
                           \/ \E b, k \in Nat : InUse(D, b, k) /\ line = Entry(b, k)
  <2>1. CASE inline
    <3>1. ASSUME NEW line \in Printed(0, area, InlineLoop(area))
          PROVE  \E b, k \in Nat : InUse(D, b, k) /\ line = Entry(b, k)
      <4>1. PICK k \in DOMAIN area : area[k].inum # 0 /\ line = Line(0, k, area[k].name, area[k].inum)
        BY DirIs DEF Printed
      <4>2. k \in Nat /\ 0 \in Nat /\ InUse(D, 0, k) /\ Seg(D, 0) = area
        BY <4>1, DirIs DEF InUse, Records
      <4>3. line = Entry(0, k)
        BY <4>1, <4>2
      <4> HIDE DEF Entry
      <4>4. QED
        BY <4>2, <4>3
    <3>2. ls_dir = {Dot1, Dot2} \union Printed(0, area, InlineLoop(area))
      BY <2>1 DEF ls_dir
    <3> HIDE DEF Dot1, Dot2, Entry
    <3>3. QED
      BY <2>1, <3>1, <3>2
  <2>2. CASE ~ inline
    <3>1. ASSUME NEW c \in DOMAIN blocks,
                 NEW line \in Printed(c, blocks[c], BlockLoop(blocks[c]))
          PROVE  \E b, k \in Nat : InUse(D, b, k) /\ line = Entry(b, k)
      <4>1. PICK k \in DOMAIN blocks[c] :
                   /\ blocks[c][k].inum # 0
                   /\ line = Line(c, k, blocks[c][k].name, blocks[c][k].inum)
        BY DirIs DEF Printed
      <4>2. k \in Nat /\ c \in Nat /\ InUse(D, c, k) /\ Seg(D, c) = blocks[c]
        BY <4>1, DirIs DEF InUse, Records
      <4>3. line = Entry(c, k)
        BY <4>1, <4>2
      <4> HIDE DEF Entry
      <4>4. QED
        BY <4>2, <4>3
    <3>2. ls_dir = UNION {Printed(b, blocks[b], BlockLoop(blocks[b])) : b \in DOMAIN blocks}
      BY <2>2 DEF ls_dir
    <3> HIDE DEF Dot1, Dot2, Entry
    <3>3. QED
      BY <3>1, <3>2
  <2>3. QED
    BY <2>1, <2>2
<1>3. inline => Dot1 \in ls_dir /\ Dot2 \in ls_dir
  BY DEF ls_dir
<1>4. ASSUME NEW b \in Nat, NEW k \in Nat, InUse(D, b, k) PROVE Entry(b, k) \in ls_dir
  <2>1. k \in DOMAIN Seg(D, b) /\ Seg(D, b)[k].inum # 0 /\ (IF inline THEN b = 0 ELSE b # 0)
    BY <1>4, DirIs, SegIs DEF InUse, DirInv, Whole
  <2>2. CASE inline
    <3>1. b = 0 /\ Seg(D, 0) = area /\ InlineLoop(area) = DOMAIN area
      BY <2>1, <2>2, DirIs
    <3>2. Entry(b, k) \in Printed(0, area, InlineLoop(area))
      BY <2>1, <3>1 DEF Printed
    <3> HIDE DEF Entry
    <3>3. QED
      BY <2>2, <3>2 DEF ls_dir
  <2>3. CASE ~ inline
    <3>1. b \in DOMAIN blocks /\ Seg(D, b) = blocks[b] /\ BlockLoop(blocks[b]) = DOMAIN blocks[b]
      BY <1>4, <2>1, <2>3, DirIs DEF InUse
    <3>2. Entry(b, k) \in Printed(b, blocks[b], BlockLoop(blocks[b]))
      BY <2>1, <3>1 DEF Printed
    <3> HIDE DEF Entry
    <3>3. QED
      BY <2>3, <3>1, <3>2 DEF ls_dir
  <2>4. QED
    BY <2>2, <2>3
<1>5. /\ Dot1.name = Dot /\ Dot1.inum = Self /\ Dot2.name = DotDot /\ Dot2.inum = Parent
      /\ \A b, k : Entry(b, k).name = Seg(D, b)[k].name /\ Entry(b, k).inum = Seg(D, b)[k].inum
  OBVIOUS
<1> HIDE DEF Dot1, Dot2, Entry
<1>6. D.inline = inline /\ Once(D) /\ Named(D) /\ Dot # DotDot
  BY DirIs, Sizes DEF DirInv, Whole
<1>7. \A line \in ls_dir : Sees(D, line.name, line.inum)
  BY <1>2, <1>5, <1>6 DEF Sees, DotsHave, Has
<1>8. ASSUME NEW n, NEW x, Sees(D, n, x)
      PROVE  \E line \in ls_dir : line.name = n /\ line.inum = x
  <2>1. CASE Has(D, n, x)
    BY <1>4, <1>5, <2>1 DEF Has
  <2>2. CASE inline /\ DotsHave(n, x)
    BY <1>3, <1>5, <2>2 DEF DotsHave
  <2>3. QED
    BY <1>6, <1>8, <2>1, <2>2 DEF Sees
<1>9. ASSUME NEW line \in ls_dir, NEW other \in ls_dir, line.name = other.name
      PROVE  line = other
  <2>1. ASSUME inline, NEW dot \in {Dot1, Dot2}, NEW b \in Nat, NEW k \in Nat, InUse(D, b, k)
        PROVE  dot.name # Entry(b, k).name
    <3>1. Has(D, Entry(b, k).name, Entry(b, k).inum)
      BY <1>5, <2>1 DEF Has
    <3>2. dot.name \in {Dot, DotDot}
      BY <1>5, <2>1
    <3>3. QED
      BY <1>6, <2>1, <3>1, <3>2 DEF Named
  <2>2. ASSUME NEW b \in Nat, NEW k \in Nat, InUse(D, b, k),
               NEW c \in Nat, NEW j \in Nat, InUse(D, c, j), Entry(b, k).name = Entry(c, j).name
        PROVE  Entry(b, k) = Entry(c, j)
    BY <1>5, <1>6, <2>2 DEF Once
  <2>3. QED
    BY <1>2, <1>5, <1>6, <1>9, <2>1, <2>2
<1>10. QED
  BY <1>7, <1>8, <1>9

(* DentsListed: ls prints every name that a lookup finds once, with that    *)
(* inode, and nothing else.                                                 *)
THEOREM DentsListed ==
  ASSUME NoWrap
  PROVE  Spec => []ListedOnce
<1>1. DirInv => ListedOnce
  <2>1. SUFFICES ASSUME DirInv, NEW n \in Names
                 PROVE  LET lines == {line \in ls_dir : line.name = n}
                        IN  IF Inum(n) = 0 THEN lines = {}
                            ELSE \E line \in lines : lines = {line} /\ line.inum = Inum(n)
    BY DEF ListedOnce
  <2> DEFINE lines == {line \in ls_dir : line.name = n}
  <2>2. /\ Inum(n) = 0 => \A x : ~ Sees(D, n, x)
        /\ Inum(n) # 0 => \A x : Sees(D, n, x) <=> x = Inum(n)
    BY <2>1, InumIs
  <2>3. CASE Inum(n) = 0
    BY <2>1, <2>2, <2>3, LinesAre
  <2>4. CASE Inum(n) # 0
    <3>1. PICK line \in ls_dir : line.name = n /\ line.inum = Inum(n)
      BY <2>1, <2>2, <2>4, LinesAre
    <3>2. \A other \in ls_dir : other.name = n => other = line
      BY <2>1, <3>1, LinesAre
    <3>3. line \in lines /\ lines = {line}
      BY <3>1, <3>2
    <3>4. QED
      BY <2>4, <3>1, <3>3
  <2>5. QED
    BY <2>3, <2>4
<1>2. QED
  BY <1>1, DentsInvariant, PTL

-----------------------------------------------------------------------------
(* The directory is a map.                                                  *)

Map == [n \in Names |-> Inum(n)]

AbsDots == [n \in {Dot, DotDot} |-> IF n = Dot THEN Self ELSE Parent]

LEMMA MapStart ==
  ASSUME Init, LookupsTrue, \A m, x : Sees(D, m, x) <=> DotsHave(m, x)
  PROVE  Map = [n \in Names |-> IF n \in DOMAIN AbsDots THEN AbsDots[n] ELSE 0]
<1>1. Dot # DotDot /\ Self # 0 /\ Parent # 0
  BY Sizes
<1>2. ASSUME NEW n \in Names
      PROVE  Inum(n) = IF n \in DOMAIN AbsDots THEN AbsDots[n] ELSE 0
  <2>1. /\ Inum(n) = 0 => \A x : ~ DotsHave(n, x)
        /\ Inum(n) # 0 => \A x : DotsHave(n, x) <=> x = Inum(n)
    BY DEF LookupsTrue
  <2>2. CASE n = Dot
    <3>1. DotsHave(n, Self) /\ AbsDots[n] = Self /\ n \in DOMAIN AbsDots
      BY <2>2 DEF DotsHave, AbsDots
    <3>2. QED
      BY <2>1, <3>1
  <2>3. CASE n = DotDot
    <3>1. DotsHave(n, Parent) /\ AbsDots[n] = Parent /\ n \in DOMAIN AbsDots
      BY <1>1, <2>3 DEF DotsHave, AbsDots
    <3>2. QED
      BY <2>1, <3>1
  <2>4. CASE n # Dot /\ n # DotDot
    <3>1. n \notin DOMAIN AbsDots /\ \A x : ~ DotsHave(n, x)
      BY <2>4 DEF DotsHave, AbsDots
    <3>2. QED
      BY <2>1, <3>1
  <2>5. QED
    BY <2>2, <2>3, <2>4
<1>3. QED
  BY <1>2 DEF Map

\* f is what is seen in d.
Fits(f, d) ==
  /\ f = [n \in Names |-> f[n]]
  /\ \A n \in Names : /\ f[n] = 0 => \A x : ~ Sees(d, n, x)
                      /\ f[n] # 0 => \A x : Sees(d, n, x) <=> x = f[n]

LEMMA MapFits ==
  ASSUME LookupsTrue
  PROVE  Fits(Map, D)
<1>1. Map = [n \in Names |-> Map[n]] /\ \A n \in Names : Map[n] = Inum(n)
  BY DEF Map
<1> HIDE DEF Map
<1>2. QED
  BY <1>1 DEF LookupsTrue, Fits

LEMMA FitsGiven ==
  ASSUME NEW f, NEW d, Fits(f, d), NEW n \in Names
  PROVE  /\ \A i : i # 0 /\ (\A x : Sees(d, n, x) <=> x = i) => f[n] = i
         /\ (\A x : ~ Sees(d, n, x)) => f[n] = 0
<1>1. ASSUME NEW i, i # 0, \A x : Sees(d, n, x) <=> x = i PROVE f[n] = i
  <2>1. Sees(d, n, i)
    BY <1>1
  <2>2. f[n] # 0
    BY <2>1 DEF Fits
  <2>3. QED
    BY <2>1, <2>2 DEF Fits
<1>2. ASSUME \A x : ~ Sees(d, n, x) PROVE f[n] = 0
  <2>1. f[n] # 0 => Sees(d, n, f[n])
    BY DEF Fits
  <2>2. QED
    BY <1>2, <2>1
<1>3. QED
  BY <1>1, <1>2

\* A name in which two directories do not differ has the same inode in both.
LEMMA FitsSame ==
  ASSUME NEW f, NEW g, NEW d, NEW e, Fits(f, d), Fits(g, e), NEW n \in Names,
         \A x : Sees(e, n, x) <=> Sees(d, n, x)
  PROVE  g[n] = f[n]
<1>1. CASE f[n] = 0
  <2>1. \A x : ~ Sees(e, n, x)
    BY <1>1 DEF Fits
  <2>2. QED
    BY <1>1, <2>1, FitsGiven
<1>2. CASE f[n] # 0
  <2>1. \A x : Sees(e, n, x) <=> x = f[n]
    BY <1>2 DEF Fits
  <2>2. QED
    BY <1>2, <2>1, FitsGiven
<1>3. QED
  BY <1>1, <1>2

LEMMA MapAdd ==
  ASSUME NEW f, NEW g, NEW d, NEW e, Fits(f, d), Fits(g, e),
         NEW n \in Names, NEW i, i # 0, f[n] = 0,
         \A m, x : Sees(e, m, x) <=> Sees(d, m, x) \/ (m = n /\ x = i)
  PROVE  g = [f EXCEPT ![n] = i]
<1>1. g[n] = i
  <2>1. \A x : Sees(e, n, x) <=> x = i
    BY DEF Fits
  <2>2. QED
    BY <2>1, FitsGiven
<1>2. \A m \in Names \ {n} : g[m] = f[m]
  BY FitsSame
<1>3. f = [m \in Names |-> f[m]] /\ g = [m \in Names |-> g[m]]
  BY DEF Fits
<1>4. QED
  BY <1>1, <1>2, <1>3

LEMMA MapDrop ==
  ASSUME NEW f, NEW g, NEW d, NEW e, Fits(f, d), Fits(g, e), NEW n \in Names,
         \A m, x : Sees(e, m, x) <=> Sees(d, m, x) /\ m # n
  PROVE  g = [f EXCEPT ![n] = 0]
<1>1. g[n] = 0
  BY FitsGiven
<1>2. \A m \in Names \ {n} : g[m] = f[m]
  BY FitsSame
<1>3. f = [m \in Names |-> f[m]] /\ g = [m \in Names |-> g[m]]
  BY DEF Fits
<1>4. QED
  BY <1>1, <1>2, <1>3

LEMMA MapRename ==
  ASSUME NEW f, NEW g, NEW d, NEW e, Fits(f, d), Fits(g, e),
         NEW n \in Names, NEW m \in Names, f[n] # 0, n # m,
         \A a, x : Sees(e, a, x) <=> \/ Sees(d, a, x) /\ a # n /\ a # m
                                     \/ a = m /\ x = f[n]
  PROVE  g = [f EXCEPT ![n] = 0, ![m] = f[n]]
<1>1. g[n] = 0
  <2>1. \A x : ~ Sees(e, n, x)
    OBVIOUS
  <2>2. QED
    BY <2>1, FitsGiven
<1>2. g[m] = f[n]
  <2>1. \A x : Sees(e, m, x) <=> x = f[n]
    OBVIOUS
  <2>2. QED
    BY <2>1, FitsGiven
<1>3. \A a \in Names \ {n, m} : g[a] = f[a]
  <2>1. ASSUME NEW a \in Names \ {n, m} PROVE \A x : Sees(e, a, x) <=> Sees(d, a, x)
    OBVIOUS
  <2>2. QED
    BY <2>1, FitsSame
<1>4. f = [a \in Names |-> f[a]] /\ g = [a \in Names |-> g[a]]
  BY DEF Fits
<1>5. QED
  BY <1>1, <1>2, <1>3, <1>4

LEMMA AbsStep ==
  ASSUME NoWrap, DirInv, LookupsTrue, LookupsTrue', [Next]_vars
  PROVE  Abs!Next \/ Map' = Map
<1>1. Fits(Map, D)
  BY MapFits
<1>2. Fits(Map', D')
  <2>1. Map' = [n \in Names |-> Map'[n]] /\ \A n \in Names : Map'[n] = Inum(n)'
    BY DEF Map
  <2> HIDE DEF Map
  <2>2. QED
    BY <2>1 DEF LookupsTrue, Fits
<1>3. /\ Map = [n \in Names |-> Inum(n)] /\ DOMAIN AbsDots = {Dot, DotDot}
      /\ AbsDots = [n \in {Dot, DotDot} |-> IF n = Dot THEN Self ELSE Parent]
      /\ \A n \in Names : Map[n] = Inum(n)
  BY DEF Map, AbsDots
<1>4. ASSUME NEW n \in Names, NEW i \in Files, Add(n, i) PROVE Abs!Next
  <2>1. /\ DirInv' /\ Inum(n) = 0
        /\ \A m, x : Sees(D', m, x) <=> Sees(D, m, x) \/ (m = n /\ x = i)
    BY <1>4, AddStep
  <2>2. i # 0 /\ Map[n] = 0
    BY <1>3, <2>1, DentsAssumption
  <2>3. Map' = [Map EXCEPT ![n] = i]
    BY <1>1, <1>2, <2>1, <2>2, MapAdd
  <2>4. Abs!Link(n, i)
    BY <2>2, <2>3 DEF Abs!Link, Abs!Free, Map
  <2>5. QED
    BY <2>4 DEF Abs!Next
<1>5. ASSUME NEW n \in Names, Drop(n) PROVE Abs!Next
  <2>1. /\ Inum(n) # 0 /\ n \notin {Dot, DotDot}
        /\ \A m, x : Sees(D', m, x) <=> Sees(D, m, x) /\ m # n
    BY <1>5, DropStep
  <2>2. Map[n] # 0 /\ Map' = [Map EXCEPT ![n] = 0]
    BY <1>1, <1>2, <1>3, <2>1, MapDrop
  <2>3. Abs!Unlink(n)
    BY <2>1, <2>2 DEF Abs!Unlink, Abs!Removable, Abs!Free, Map
  <2>4. QED
    BY <2>3 DEF Abs!Next
<1>6. ASSUME NEW n \in Names, NEW m \in Names, Rename(n, m) PROVE Abs!Next
  <2>1. /\ Inum(n) # 0 /\ {n, m} \cap {Dot, DotDot} = {} /\ n # m
        /\ \A a, x : Sees(D', a, x) <=> \/ Sees(D, a, x) /\ a # n /\ a # m
                                        \/ a = m /\ x = Inum(n)
    BY <1>6, RenameStep
  <2>2. Map[n] # 0 /\ Map[n] = Inum(n)
    BY <1>3, <2>1
  <2>3. Map' = [Map EXCEPT ![n] = 0, ![m] = Map[n]]
    BY <1>1, <1>2, <2>1, <2>2, MapRename
  <2>4. Abs!Rename(n, m)
    BY <2>1, <2>2, <2>3 DEF Abs!Rename, Abs!Removable, Abs!Free, Map
  <2>5. QED
    BY <2>4 DEF Abs!Next
<1>7. CASE UNCHANGED vars
  <2>1. D' = D
    BY <1>7 DEF vars, D
  <2>2. \A n \in Names : Map'[n] = Map[n]
    BY <1>1, <1>2, <2>1, FitsSame
  <2>3. QED
    BY <1>1, <1>2, <2>2 DEF Fits
<1>8. QED
  BY <1>4, <1>5, <1>6, <1>7 DEF Next

(* DentsImplementsDir: through lookups the directory is a map from names to *)
(* inodes, in which a call changes its own names and no other (fs_creat,    *)
(* fs_link, fs_unlink and fs_rename, in an inode, in blocks, and when one   *)
(* of them converts the directory).                                         *)
THEOREM DentsImplementsDir ==
  ASSUME NoWrap
  PROVE  Spec => ImplementsDir
<1>1. DirInv => LookupsTrue
  BY InumIs DEF LookupsTrue
<1>2. Init => Abs!Start
  <2>1. SUFFICES ASSUME Init PROVE Abs!Start
    OBVIOUS
  <2>2. DirInv /\ \A m, x : Sees(D, m, x) <=> DotsHave(m, x)
    BY <2>1, DirInit
  <2>3. Map = [n \in Names |-> IF n \in DOMAIN AbsDots THEN AbsDots[n] ELSE 0]
    BY <1>1, <2>1, <2>2, MapStart
  <2>4. QED
    BY <2>3 DEF Abs!Start, Map, AbsDots
<1>3. DirInv /\ LookupsTrue /\ LookupsTrue' /\ [Next]_vars => [Abs!Next]_Map
  BY AbsStep
<1>4. QED
  BY <1>1, <1>2, <1>3, DentsInvariant, PTL DEF Spec, ImplementsDir, Abs!Spec, Map
=============================================================================
