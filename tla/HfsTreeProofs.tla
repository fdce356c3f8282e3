---------------------------- MODULE HfsTreeProofs ---------------------------
(***************************************************************************)
(* The directories of the image form what the code takes them for: names   *)
(* lead to allocated inodes of the type they were made with, a directory   *)
(* has one name and its ".." leads to where that name is, link counts      *)
(* cover the names, and no two directories share a block.  For every       *)
(* number of inodes, inline slots and data blocks and every set of names,  *)
(* and for workloads that rename or remove directories, but not both.      *)
(* With no fs_rename the links of a directory count its subdirectories;    *)
(* with no fs_rmdir a descriptor on an inline entry keeps its file.        *)
(*                                                                         *)
(* The proof looks at an image through the set of entries inside each      *)
(* directory.  Every routine of fs.c is shown once to do one small thing   *)
(* to these sets, and the invariant is then a matter of the sets.          *)
(***************************************************************************)
EXTENDS HfsProofs, FiniteSetTheorems

-----------------------------------------------------------------------------
(* The views of an image.                                                  *)

DirsOf(img) == {d \in img.used : img.inode[d].type = "DIR"}

\* The live entries of a list, of a directory, and those that are not dots.
EntSet(s) == {s[k] : k \in Live(s)}
Inside(img, d) == EntSet(Ents(img, d))
Named(img, d) == {e \in Inside(img, d) : e.name \in Names}

\* ".." of d leads to p.
Up(img, d, p) ==
  IF img.inode[d].inline THEN img.inode[d].p_inum = p
  ELSE \E e \in Inside(img, d) : e.name = DotDot /\ e.inum = p

\* Where inode i is named.
NamesOf(img, i) ==
  {at \in Inum \X Names : /\ at[1] \in DirsOf(img)
                          /\ \E e \in Named(img, at[1]) : e.name = at[2] /\ e.inum = i}

-----------------------------------------------------------------------------
(* The invariant, in parts.                                                *)

\* An inode has a type if and only if its bit is set (bit 0 is set, but inode
\* 0 is never handed out), and the root is a directory.
Allocated(img) ==
  /\ img \in Image /\ NamesInv(img)
  /\ 0 \in img.used /\ img.inode[0].type = "UNUSED"
  /\ \A i \in Inum \ {0} : i \in img.used <=> img.inode[i].type # "UNUSED"
  /\ img.rootdir \in DirsOf(img)

\* A regular directory has a data block of its own.
Owned(img) ==
  \A d \in DirsOf(img) :
    IF img.inode[d].inline THEN img.inode[d].block = 0
    ELSE /\ img.inode[d].block \in img.bitmap
         /\ \A e \in DirsOf(img) \ {d} : img.inode[e].block # img.inode[d].block

\* A regular directory holds its ".".
Dotted(img) ==
  \A d \in DirsOf(img) :
    ~ img.inode[d].inline => \E e \in Inside(img, d) : e.name = Dot /\ e.inum = d

NoDangle(img) ==
  \A d \in DirsOf(img) : \A e \in Named(img, d) :
    e.inum \in img.used \ {0} /\ img.inode[e.inum].type = e.file_type

\* ".." of every directory leads to a directory, but for the inline directory
\* y that is being made.
HasUp(img, y) ==
  \A d \in DirsOf(img) :
    d # y \/ ~ img.inode[d].inline => \E p \in DirsOf(img) : Up(img, d, p)

\* A directory has one name.
OneName(img) ==
  \A c, d \in DirsOf(img) : \A e \in Named(img, c), f \in Named(img, d) :
    e.inum = f.inum /\ e.inum \in DirsOf(img) => c = d /\ e = f

\* ".." leads to where the name is, but for the directory x that is on the move.
Parents(img, x) ==
  \A c \in DirsOf(img) : \A e \in Named(img, c) :
    e.inum \in DirsOf(img) /\ e.inum # x => Up(img, e.inum, c)

Shape(img, x, y) ==
  /\ Allocated(img) /\ Owned(img) /\ Dotted(img)
  /\ NoDangle(img) /\ HasUp(img, y) /\ OneName(img) /\ Parents(img, x)

\* The counters of the superblock.
UsedOf(img, types) == {i \in img.used \ {0} : img.inode[i].type \in types}

Counters(img) ==
  /\ img.inode_used = Cardinality(img.used \ {0})
  /\ img.ndirectories = Cardinality(UsedOf(img, {"DIR"}))
  /\ img.nfiles = Cardinality(UsedOf(img, {"REG"}))

\* The links of an inode beyond its names: one or more of a directory, one of
\* S of a file.  Inode x has n more than it will have at the end of the call.
Spare(img, i, n) == img.inode[i].nlink - Cardinality(NamesOf(img, i)) - n

Lower(img, x, n, S) ==
  \A i \in img.used \ {0} :
    /\ IsFiniteSet(NamesOf(img, i))
    /\ Spare(img, i, IF i = x THEN n ELSE 0) \in
         IF img.inode[i].type = "DIR" THEN Nat \ {0} ELSE S

\* A link count never gets near NlinkMod: at most c for a directory, and the
\* bound of the workload for a file.
Upper(img, x, h, c) ==
  \A i \in img.used \ {0} :
    img.inode[i].nlink <=
      (IF img.inode[i].type = "DIR" THEN c ELSE MaxLinks + 1)
        + (IF i = x THEN h ELSE 0)

DirBound(img) == 1 + Cardinality(DirsOf(img))

TreeInv(img, S) ==
  /\ Shape(img, 0, 0) /\ Counters(img)
  /\ Lower(img, 0, 0, S) /\ Upper(img, 0, 0, DirBound(img))

-----------------------------------------------------------------------------
(* What a step may leave alone.                                            *)

\* new has the inodes and directories of old; what differs is link counts and
\* the entries inside.
SameInodes(new, old) ==
  /\ new \in Image /\ NamesInv(new)
  /\ new.used = old.used /\ new.bitmap = old.bitmap /\ new.rootdir = old.rootdir
  /\ new.inode_used = old.inode_used /\ new.ndirectories = old.ndirectories
  /\ new.nfiles = old.nfiles
  /\ \A i \in Inum : /\ new.inode[i].type = old.inode[i].type
                     /\ new.inode[i].inline = old.inode[i].inline
                     /\ new.inode[i].block = old.inode[i].block
                     /\ new.inode[i].p_inum = old.inode[i].p_inum

SameLinks(new, old) == \A i \in Inum : new.inode[i].nlink = old.inode[i].nlink

LEMMA DirsInum == \A img \in Image : DirsOf(img) \subseteq Inum
  BY DEF DirsOf, Image

LEMMA SameDirs ==
  ASSUME NEW old \in Image, NEW new \in Image, SameInodes(new, old)
  PROVE  DirsOf(new) = DirsOf(old)
  BY DEF SameInodes, DirsOf, Image

LEMMA SameCounters ==
  ASSUME NEW old \in Image, NEW new \in Image, SameInodes(new, old), Counters(old)
  PROVE  Counters(new)
<1>1. \A types : UsedOf(new, types) = UsedOf(old, types)
  BY DEF SameInodes, UsedOf, Image
<1>2. QED
  BY <1>1 DEF SameInodes, Counters

\* The bounds of directories: fewer than there are inodes.
LEMMA DirBoundType ==
  ASSUME NEW img \in Image, Allocated(img)
  PROVE  /\ IsFiniteSet(DirsOf(img)) /\ DirBound(img) \in Nat
         /\ DirBound(img) <= MaxInum + 1
<1>1. MaxInum \in Nat
  BY HfsImageAssumption
<1>2. IsFiniteSet(1 .. MaxInum) /\ Cardinality(1 .. MaxInum) = MaxInum
  BY <1>1, FS_Interval
<1>3. DirsOf(img) \in SUBSET (1 .. MaxInum)
  BY <1>1 DEF DirsOf, Allocated, Image, Inum
<1>4. IsFiniteSet(DirsOf(img)) /\ Cardinality(DirsOf(img)) <= MaxInum
  BY <1>2, <1>3, FS_Subset
<1>5. Cardinality(DirsOf(img)) \in Nat
  BY <1>4, FS_CardinalityType
<1>6. QED
  BY <1>1, <1>4, <1>5 DEF DirBound

\* The parts of the invariant that do not look inside directories.
LEMMA SameAllocated ==
  ASSUME NEW old, NEW new, SameInodes(new, old), Allocated(old)
  PROVE  /\ Allocated(new) /\ DirsOf(new) = DirsOf(old)
         /\ Owned(old) => Owned(new)
<1>1. old \in Image /\ new \in Image
  BY DEF SameInodes, Allocated
<1>2. DirsOf(new) = DirsOf(old)
  BY <1>1, SameDirs
<1>3. Allocated(new)
  BY <1>1, <1>2, ZeroInum DEF Allocated, SameInodes
<1>4. Owned(old) => Owned(new)
  BY <1>1, <1>2, DirsInum DEF Owned, SameInodes
<1>5. QED
  BY <1>2, <1>3, <1>4

\* An image that differs in link counts alone has the same shape.
LEMMA SameShape ==
  ASSUME NEW old, NEW new, NEW x, NEW y, SameInodes(new, old), Shape(old, x, y),
         \A d \in Inum : Inside(new, d) = Inside(old, d)
  PROVE  /\ Shape(new, x, y) /\ DirsOf(new) = DirsOf(old)
         /\ \A i : NamesOf(new, i) = NamesOf(old, i)
<1>1. old \in Image /\ new \in Image
  BY DEF SameInodes, Allocated, Shape
<1>2. Allocated(new) /\ Owned(new) /\ DirsOf(new) = DirsOf(old)
  BY SameAllocated DEF Shape
<1> DEFINE D == DirsOf(old)
<1>3. D \subseteq Inum
  BY <1>1, DirsInum
<1>4. \A d \in D : Inside(new, d) = Inside(old, d) /\ Named(new, d) = Named(old, d)
  BY <1>3 DEF Named
<1>5. \A d \in D : \A p : Up(new, d, p) <=> Up(old, d, p)
  BY <1>3, <1>4 DEF Up, SameInodes
<1>6. new.used = old.used /\ \A i \in Inum : /\ new.inode[i].type = old.inode[i].type
                                              /\ new.inode[i].inline = old.inode[i].inline
  BY DEF SameInodes
<1>7. Dotted(new)
  BY <1>2, <1>3, <1>4, <1>6 DEF Dotted, Shape
<1>8. NoDangle(new)
  <2>1. old.used \subseteq Inum
    BY <1>1 DEF Image
  <2>2. QED
    BY <1>2, <1>4, <1>6, <2>1 DEF NoDangle, Shape
<1>9. HasUp(new, y)
  BY <1>2, <1>3, <1>5, <1>6 DEF HasUp, Shape
<1>10. OneName(new)
  BY <1>2, <1>4 DEF OneName, Shape
<1>11. Parents(new, x)
  BY <1>2, <1>4, <1>5 DEF Parents, Shape
<1>12. \A i : NamesOf(new, i) = NamesOf(old, i)
  BY <1>2, <1>4 DEF NamesOf
<1>13. QED
  BY <1>2, <1>7, <1>8, <1>9, <1>10, <1>11, <1>12 DEF Shape

-----------------------------------------------------------------------------
(* Link counts.                                                            *)

\* What a change of a link count leaves alone.
LEMMA LinkSame ==
  ASSUME NEW img, NEW i \in Inum, NEW new \in {AddLink(img, i), DropLink(img, i)},
         Allocated(img)
  PROVE  /\ SameInodes(new, img)
         /\ \A d \in Inum : Ents(new, d) = Ents(img, d) /\ Inside(new, d) = Inside(img, d)
         /\ \A j \in Inum \ {i} : new.inode[j].nlink = img.inode[j].nlink
<1>1. img \in Image /\ new \in Image /\ NamesInv(new)
  BY AddLinkType, DropLinkType, LinkThins, ThinsKeeps DEF Allocated
<1>2. ASSUME NEW n, new = [img EXCEPT !.inode[i].nlink = n]
      PROVE  /\ SameInodes(new, img)
             /\ \A d \in Inum : Ents(new, d) = Ents(img, d)
             /\ \A j \in Inum \ {i} : new.inode[j].nlink = img.inode[j].nlink
  <2>1. /\ new.used = img.used /\ new.bitmap = img.bitmap
        /\ new.rootdir = img.rootdir /\ new.inode_used = img.inode_used
        /\ new.ndirectories = img.ndirectories /\ new.nfiles = img.nfiles
        /\ new.blocks = img.blocks
    BY <1>1, <1>2 DEF Image
  <2>2. \A j \in Inum : /\ new.inode[j].type = img.inode[j].type
                        /\ new.inode[j].inline = img.inode[j].inline
                        /\ new.inode[j].block = img.inode[j].block
                        /\ new.inode[j].p_inum = img.inode[j].p_inum
                        /\ new.inode[j].ents = img.inode[j].ents
    BY <1>1, <1>2 DEF Image, Inode
  <2>3. \A j \in Inum \ {i} : new.inode[j].nlink = img.inode[j].nlink
    BY <1>1, <1>2 DEF Image, Inode
  <2>4. \A d \in Inum : Ents(new, d) = Ents(img, d)
    BY <2>1, <2>2 DEF Ents
  <2>5. QED
    BY <1>1, <2>1, <2>2, <2>3, <2>4 DEF SameInodes
<1>3. /\ SameInodes(new, img)
      /\ \A d \in Inum : Ents(new, d) = Ents(img, d)
      /\ \A j \in Inum \ {i} : new.inode[j].nlink = img.inode[j].nlink
  BY <1>2 DEF AddLink, DropLink
<1>4. QED
  BY <1>3 DEF Inside

\* Below the bound, adding and dropping a link are what they seem.
LEMMA LinkPlain ==
  ASSUME NEW img \in Image, NEW i \in Inum
  PROVE  /\ img.inode[i].nlink \in Nat
         /\ img.inode[i].nlink + 1 < NlinkMod =>
              AddLink(img, i).inode[i].nlink = img.inode[i].nlink + 1
         /\ img.inode[i].nlink > 0 =>
              DropLink(img, i).inode[i].nlink = img.inode[i].nlink - 1
<1> DEFINE n == img.inode[i].nlink
<1>1. n \in 0 .. NlinkMod - 1 /\ NlinkMod \in Nat
  BY HfsImageAssumption DEF Image, Inode
<1>2. AddLink(img, i).inode[i].nlink = (n + 1) % NlinkMod
  BY DEF AddLink, Image, Inode
<1>3. DropLink(img, i).inode[i].nlink = (n + NlinkMod - 1) % NlinkMod
  BY DEF DropLink, Image, Inode
<1> HIDE DEF n
<1>4. n + 1 < NlinkMod => (n + 1) % NlinkMod = n + 1
  BY <1>1
<1>5. n > 0 => (n + NlinkMod - 1) % NlinkMod = n - 1
  BY <1>1
<1>6. n \in Nat
  BY <1>1
<1>7. QED
  BY <1>2, <1>3, <1>4, <1>5, <1>6 DEF n

\* q more links of x.
LEMMA LinkCounted ==
  ASSUME NEW img, NEW new, NEW x \in Inum, NEW y, NEW z, NEW S,
         NEW n \in Int, NEW h \in Int, NEW c \in Int, NEW q \in Int,
         Shape(img, y, z), Lower(img, x, n, S), Upper(img, x, h, c), SameInodes(new, img),
         \A d \in Inum : Inside(new, d) = Inside(img, d),
         \A j \in Inum \ {x} : new.inode[j].nlink = img.inode[j].nlink,
         new.inode[x].nlink = img.inode[x].nlink + q
  PROVE  Shape(new, y, z) /\ Lower(new, x, n + q, S) /\ Upper(new, x, h + q, c)
<1>1. img \in Image /\ img.used \subseteq Inum
  BY DEF Shape, Allocated, Image
<1>2. Shape(new, y, z) /\ \A i : NamesOf(new, i) = NamesOf(img, i)
  BY SameShape
<1>3. new.used = img.used /\ \A j \in Inum : new.inode[j].type = img.inode[j].type
  BY DEF SameInodes
<1>4. Lower(new, x, n + q, S)
  <2> SUFFICES ASSUME NEW i \in img.used \ {0}
               PROVE  /\ IsFiniteSet(NamesOf(img, i))
                      /\ new.inode[i].nlink - Cardinality(NamesOf(img, i))
                           - (IF i = x THEN n + q ELSE 0) \in
                             IF img.inode[i].type = "DIR" THEN Nat \ {0} ELSE S
    BY <1>1, <1>2, <1>3 DEF Lower, Spare
  <2>1. /\ IsFiniteSet(NamesOf(img, i))
        /\ img.inode[i].nlink - Cardinality(NamesOf(img, i)) - (IF i = x THEN n ELSE 0) \in
             IF img.inode[i].type = "DIR" THEN Nat \ {0} ELSE S
    BY DEF Lower, Spare
  <2>2. Cardinality(NamesOf(img, i)) \in Nat
    BY <2>1, FS_CardinalityType
  <2> DEFINE m == img.inode[i].nlink
             k == Cardinality(NamesOf(img, i))
  <2>3. new.inode[i].nlink - k - (IF i = x THEN n + q ELSE 0)
          = m - k - (IF i = x THEN n ELSE 0)
    <3>1. m \in Int /\ k \in Int
      BY <1>1, <2>2, LinkPlain
    <3>2. new.inode[i].nlink = IF i = x THEN m + q ELSE m
      BY <1>1
    <3> HIDE DEF m, k
    <3>3. QED
      BY <3>1, <3>2
  <2>4. QED
    BY <2>1, <2>3
<1>5. Upper(new, x, h + q, c)
  <2> SUFFICES ASSUME NEW i \in img.used \ {0}
               PROVE  new.inode[i].nlink <=
                        (IF img.inode[i].type = "DIR" THEN c ELSE MaxLinks + 1)
                          + (IF i = x THEN h + q ELSE 0)
    BY <1>1, <1>3 DEF Upper
  <2> DEFINE b == IF img.inode[i].type = "DIR" THEN c ELSE MaxLinks + 1
             m == img.inode[i].nlink
  <2>1. m <= b + (IF i = x THEN h ELSE 0) /\ b \in Int
    BY HfsAssumption DEF Upper
  <2>2. m \in Int
    BY <1>1, LinkPlain
  <2>3. new.inode[i].nlink = IF i = x THEN m + q ELSE m
    BY <1>1
  <2> HIDE DEF b, m
  <2>4. new.inode[i].nlink <= b + (IF i = x THEN h + q ELSE 0)
    BY <2>1, <2>2, <2>3
  <2>5. QED
    BY <2>4 DEF b
<1>6. QED
  BY <1>2, <1>4, <1>5

\* inode->nlink++ and inode->nlink--.
LEMMA LinkStep ==
  ASSUME NEW img, NEW x \in Inum, NEW y, NEW z, NEW S,
         NEW n \in Int, NEW h \in Int, NEW c \in Int,
         Shape(img, y, z), Lower(img, x, n, S), Upper(img, x, h, c)
  PROVE  /\ img.inode[x].nlink + 1 < NlinkMod =>
              LET new == AddLink(img, x)
              IN  Shape(new, y, z) /\ Lower(new, x, n + 1, S) /\ Upper(new, x, h + 1, c)
         /\ img.inode[x].nlink > 0 =>
              LET new == DropLink(img, x)
              IN  Shape(new, y, z) /\ Lower(new, x, n - 1, S) /\ Upper(new, x, h - 1, c)
<1>1. Allocated(img) /\ img \in Image
  BY DEF Shape, Allocated
<1>2. ASSUME NEW new \in {AddLink(img, x), DropLink(img, x)}, NEW q \in Int,
             new.inode[x].nlink = img.inode[x].nlink + q
      PROVE  Shape(new, y, z) /\ Lower(new, x, n + q, S) /\ Upper(new, x, h + q, c)
  <2>1. /\ SameInodes(new, img)
        /\ \A d \in Inum : Inside(new, d) = Inside(img, d)
        /\ \A j \in Inum \ {x} : new.inode[j].nlink = img.inode[j].nlink
    BY <1>1, LinkSame
  <2>2. QED
    BY <1>2, <2>1, LinkCounted
<1>3. n - 1 = n + (-1) /\ h - 1 = h + (-1)
  OBVIOUS
<1>4. img.inode[x].nlink - 1 = img.inode[x].nlink + (-1)
  BY <1>1, LinkPlain
<1>5. QED
  BY <1>1, <1>2, <1>3, <1>4, LinkPlain

-----------------------------------------------------------------------------
(* Lists of entries as sets.                                               *)

\* dent->inum = 0.
LEMMA ClearSlotSet ==
  ASSUME NEW s \in Seq(Dentry), Distinct(s), NEW k \in Live(s)
  PROVE  /\ EntSet(ClearSlot(s, k)) = EntSet(s) \ {s[k]}
         /\ Live(ClearSlot(s, k)) = Live(s) \ {k}
         /\ \A j \in 1 .. Len(s) : j # k => ClearSlot(s, k)[j] = s[j]
<1> DEFINE t == ClearSlot(s, k)
<1>1. k \in 1 .. Len(s) /\ s[k] \in Dentry
  BY DEF Live
<1>2. t = [s EXCEPT ![k] = [s[k] EXCEPT !.inum = 0]]
  BY <1>1 DEF ClearSlot
<1>3. Len(t) = Len(s) /\ t[k].inum = 0 /\ \A j \in 1 .. Len(s) : j # k => t[j] = s[j]
  BY <1>1, <1>2 DEF Dentry
<1> HIDE DEF t
<1>4. Live(t) = Live(s) \ {k}
  BY <1>3 DEF Live
<1>5. \A j \in Live(t) : t[j] = s[j]
  BY <1>3, <1>4 DEF Live
<1>6. \A j \in Live(s) : s[j] = s[k] => j = k
  BY DEF Distinct
<1>7. EntSet(t) = EntSet(s) \ {s[k]}
  BY <1>4, <1>5, <1>6 DEF EntSet
<1>8. QED
  BY <1>3, <1>4, <1>7 DEF t

\* A new entry, after the others or in the place of a dead one.
LEMMA AppendSet ==
  ASSUME NEW s \in Seq(Dentry), NEW e \in Dentry, e.inum # 0
  PROVE  EntSet(Append(s, e)) = EntSet(s) \union {e}
<1> DEFINE t == Append(s, e)
           n == Len(s) + 1
<1>1. Len(t) = n /\ t[n] = e /\ n \in Nat /\ \A j \in 1 .. Len(s) : t[j] = s[j]
  OBVIOUS
<1>2. Live(t) = Live(s) \union {n} /\ \A j \in Live(s) : t[j] = s[j]
  BY <1>1 DEF Live
<1> HIDE DEF t, n
<1>3. EntSet(t) = EntSet(s) \union {e}
  BY <1>1, <1>2 DEF EntSet
<1>4. QED
  BY <1>3 DEF t

LEMMA PutInSeqSet ==
  ASSUME NEW s \in Seq(Dentry), NEW e \in Dentry, e.inum # 0
  PROVE  EntSet(PutInSeq(s, e)) = EntSet(s) \union {e}
<1> DEFINE dead == 1 .. Len(s) \ Live(s)
           k == CHOOSE k \in dead : \A j \in dead : k <= j
<1>1. CASE Live(s) = 1 .. Len(s)
  BY <1>1, AppendSet DEF PutInSeq
<1>2. CASE Live(s) # 1 .. Len(s)
  <2> DEFINE t == [s EXCEPT ![k] = e]
  <2>1. dead \in SUBSET Nat /\ dead # {}
    BY <1>2 DEF Live
  <2>2. k \in dead
    <3> HIDE DEF dead
    <3>1. \E j \in dead : \A l \in dead : j <= l
      BY <2>1, NatMinimum
    <3>2. QED
      BY <3>1
  <2>3. PutInSeq(s, e) = t
    BY <1>2 DEF PutInSeq
  <2>4. k \in 1 .. Len(s) /\ k \notin Live(s)
    BY <2>2
  <2> HIDE DEF dead, k
  <2>5. Len(t) = Len(s) /\ t[k] = e /\ \A j \in 1 .. Len(s) : j # k => t[j] = s[j]
    BY <2>4
  <2> HIDE DEF t
  <2>6. Live(t) = Live(s) \union {k} /\ \A j \in Live(s) : t[j] = s[j]
    BY <2>4, <2>5 DEF Live
  <2>7. EntSet(t) = EntSet(s) \union {e}
    BY <2>5, <2>6 DEF EntSet
  <2>8. QED
    BY <2>3, <2>7
<1>3. QED
  BY <1>1, <1>2

\* Redirecting the entry called name.
LEMMA SetDotSet ==
  ASSUME NEW s \in Seq(Dentry), Distinct(s), NEW f \in EntSet(s), NEW i \in Inum \ {0}
  PROVE  /\ EntSet(SetDotInum(s, f.name, i))
              = (EntSet(s) \ {f}) \union {[f EXCEPT !.inum = i]}
         /\ f.inum = i => EntSet(SetDotInum(s, f.name, i)) = EntSet(s)
<1> DEFINE k == FindDent(s, f.name)
           t == [s EXCEPT ![k] = [s[k] EXCEPT !.inum = i]]
<1>1. SetDotInum(s, f.name, i) = t
  BY DEF SetDotInum
<1>2. PICK l \in Live(s) : f = s[l]
  BY DEF EntSet
<1>3. k # 0
  BY <1>2, FindNothing DEF Absent
<1>4. k \in Live(s) /\ s[k].name = f.name
  BY <1>3, FindDentResult
<1>5. k = l /\ s[k] = f
  BY <1>2, <1>4 DEF Distinct
<1> HIDE DEF k
<1>6. k \in 1 .. Len(s) /\ f \in Dentry
  BY <1>4, <1>5 DEF Live
<1> DEFINE g == [f EXCEPT !.inum = i]
<1>7. g.inum # 0 /\ (f.inum = i => g = f)
  BY <1>6 DEF Dentry
<1>8. Len(t) = Len(s) /\ t[k] = g /\ \A j \in 1 .. Len(s) : j # k => t[j] = s[j]
  BY <1>5, <1>6
<1> HIDE DEF t, g
<1>9. Live(t) = Live(s) /\ \A j \in Live(s) : j # k => t[j] = s[j] /\ s[j] # f
  BY <1>4, <1>5, <1>7, <1>8 DEF Live, Distinct
<1>10. EntSet(t) = (EntSet(s) \ {f}) \union {g}
  BY <1>4, <1>5, <1>8, <1>9 DEF EntSet
<1>11. f \in EntSet(s)
  OBVIOUS
<1>12. f.inum = i => EntSet(t) = EntSet(s)
  BY <1>7, <1>10, <1>11
<1>13. QED
  BY <1>1, <1>10, <1>12 DEF g

-----------------------------------------------------------------------------
(* Changes of what is inside a directory.                                  *)

\* All is as before, but for the names in d and ".." of u.
Kept(new, old, d, u) ==
  /\ new \in Image /\ NamesInv(new)
  /\ new.used = old.used /\ new.rootdir = old.rootdir
  /\ new.inode_used = old.inode_used /\ new.ndirectories = old.ndirectories
  /\ new.nfiles = old.nfiles
  /\ \A i \in Inum : new.inode[i].type = old.inode[i].type
  /\ Owned(new) /\ Dotted(new)
  /\ \A c \in DirsOf(old) \ {d} : /\ Named(new, c) = Named(old, c)
                                  /\ new.inode[c].inline = old.inode[c].inline
  /\ \A c \in DirsOf(old) \ {u} : \A p : Up(new, c, p) <=> Up(old, c, p)

LEMMA KeptAllocated ==
  ASSUME NEW old, NEW new, NEW d, NEW u, Kept(new, old, d, u), Allocated(old)
  PROVE  /\ Allocated(new) /\ DirsOf(new) = DirsOf(old)
         /\ \A types : UsedOf(new, types) = UsedOf(old, types)
         /\ Counters(old) => Counters(new)
<1>1. /\ old \in Image /\ new \in Image /\ new.used = old.used
      /\ \A i \in Inum : new.inode[i].type = old.inode[i].type
  BY DEF Kept, Allocated
<1>2. DirsOf(new) = DirsOf(old)
  BY <1>1 DEF DirsOf, Image
<1>3. \A types : UsedOf(new, types) = UsedOf(old, types)
  BY <1>1 DEF UsedOf, Image
<1>4. Counters(old) => Counters(new)
  BY <1>1, <1>3 DEF Kept, Counters
<1>5. Allocated(new)
  BY <1>1, <1>2, ZeroInum DEF Allocated, Kept
<1>6. QED
  BY <1>2, <1>3, <1>4, <1>5

LEMMA KeptTrans ==
  ASSUME NEW old, NEW mid, NEW new, NEW d, Kept(mid, old, d, 0), Kept(new, mid, d, 0),
         Allocated(old)
  PROVE  Kept(new, old, d, 0)
<1>1. DirsOf(mid) = DirsOf(old)
  BY KeptAllocated
<1>2. QED
  BY <1>1 DEF Kept

\* An entry of a directory is known by its name.
LEMMA NamedOnce ==
  ASSUME NEW img \in Image, NamesInv(img), NEW d \in Inum
  PROVE  /\ Distinct(Ents(img, d))
         /\ \A e, f \in Inside(img, d) : e.name = f.name => e = f
<1>1. Distinct(Ents(img, d))
  BY EmptyList DEF NamesInv, Ents, Image, Inode
<1>2. QED
  BY <1>1 DEF Distinct, Inside, EntSet

LEMMA InsideType ==
  ASSUME NEW img \in Image, NEW d \in Inum
  PROVE  Inside(img, d) \subseteq Dentry /\ \A e \in Inside(img, d) : e.inum # 0
<1>1. Ents(img, d) \in Seq(Dentry)
  BY EntsType
<1>2. QED
  BY <1>1 DEF Inside, EntSet, Live

\* An entry less.
LEMMA Removed ==
  ASSUME NEW old, NEW new, NEW x, NEW y, NEW d \in DirsOf(old) \ {y}, NEW e \in Named(old, d),
         Shape(old, x, y), Kept(new, old, d, 0), Named(new, d) = Named(old, d) \ {e}
  PROVE  /\ Shape(new, x, y)
         /\ <<d, e.name>> \in NamesOf(old, e.inum)
         /\ \A j : NamesOf(new, j) =
                     IF j = e.inum THEN NamesOf(old, j) \ {<<d, e.name>>} ELSE NamesOf(old, j)
<1> DEFINE D == DirsOf(old)
<1>1. old \in Image /\ D \subseteq Inum /\ 0 \notin D /\ NamesInv(old)
  BY DirsInum DEF Shape, Allocated, DirsOf
<1>2. Allocated(new) /\ DirsOf(new) = D
  BY KeptAllocated DEF Shape
<1>3. /\ \A c \in D \ {d} : Named(new, c) = Named(old, c)
      /\ \A c \in D : Named(new, c) \subseteq Named(old, c)
      /\ \A c \in D : \A p : Up(new, c, p) <=> Up(old, c, p)
      /\ new.used = old.used /\ \A i \in Inum : new.inode[i].type = old.inode[i].type
      /\ \A c \in D \ {d} : new.inode[c].inline = old.inode[c].inline
  BY <1>1 DEF Kept
<1>4. Owned(new) /\ Dotted(new)
  BY DEF Kept
<1>5. NoDangle(new)
  <2>1. old.used \subseteq Inum
    BY <1>1 DEF Image
  <2>2. QED
    BY <1>2, <1>3, <2>1 DEF NoDangle, Shape
<1>6. HasUp(new, y)
  BY <1>2, <1>3 DEF HasUp, Shape
<1>7. OneName(new)
  BY <1>2, <1>3 DEF OneName, Shape
<1>8. Parents(new, x)
  BY <1>2, <1>3 DEF Parents, Shape
<1>9. \A f \in Named(old, d) : f.name = e.name => f = e
  BY <1>1, NamedOnce DEF Named
<1>10. <<d, e.name>> \in NamesOf(old, e.inum)
  BY <1>1 DEF NamesOf, Named
<1>11. ASSUME NEW j
       PROVE  NamesOf(new, j) =
                IF j = e.inum THEN NamesOf(old, j) \ {<<d, e.name>>} ELSE NamesOf(old, j)
  <2>1. ASSUME NEW c \in D, NEW name \in Names
        PROVE  (\E f \in Named(new, c) : f.name = name /\ f.inum = j)
                 <=> /\ \E f \in Named(old, c) : f.name = name /\ f.inum = j
                     /\ ~ (j = e.inum /\ c = d /\ name = e.name)
    BY <1>3, <1>9
  <2>2. \A at \in Inum \X Names : at = <<d, e.name>> <=> at[1] = d /\ at[2] = e.name
    OBVIOUS
  <2>3. \A at \in Inum \X Names :
          at \in NamesOf(new, j) <=>
            at \in NamesOf(old, j) /\ ~ (j = e.inum /\ at = <<d, e.name>>)
    BY <1>2, <2>1, <2>2 DEF NamesOf
  <2>4. NamesOf(new, j) \subseteq Inum \X Names /\ NamesOf(old, j) \subseteq Inum \X Names
    BY DEF NamesOf
  <2>5. QED
    BY <2>3, <2>4
<1>12. QED
  BY <1>2, <1>4, <1>5, <1>6, <1>7, <1>8, <1>10, <1>11 DEF Shape

LosesName(new, old, x, y, d, e) ==
  /\ Shape(new, x, y)
  /\ <<d, e.name>> \in NamesOf(old, e.inum)
  /\ \A j : NamesOf(new, j) =
              IF j = e.inum THEN NamesOf(old, j) \ {<<d, e.name>>} ELSE NamesOf(old, j)

LEMMA RemovedLoses ==
  ASSUME NEW old, NEW new, NEW x, NEW y, NEW d \in DirsOf(old) \ {y}, NEW e \in Named(old, d),
         Shape(old, x, y), Kept(new, old, d, 0), Named(new, d) = Named(old, d) \ {e}
  PROVE  LosesName(new, old, x, y, d, e)
  BY Removed DEF LosesName

\* The entry at is a name of i in new, and the only one more than in old.
Adds(new, old, i, at) ==
  \A j : NamesOf(new, j) = IF j = i THEN NamesOf(old, j) \union {at} ELSE NamesOf(old, j)

\* An entry more: of the directory on the move if of any, which has no name.
LEMMA Added ==
  ASSUME NEW old, NEW new, NEW x, NEW y, NEW d \in DirsOf(old) \ {y}, NEW e \in Dentry,
         Shape(old, x, y), Kept(new, old, d, 0), Named(new, d) = Named(old, d) \union {e},
         e.name \in Names, \A f \in Named(old, d) : f.name # e.name,
         e.inum \in old.used \ {0}, e.file_type = old.inode[e.inum].type,
         e.inum \in DirsOf(old) => e.inum = x /\ NamesOf(old, x) = {}
  PROVE  /\ Shape(new, x, y)
         /\ <<d, e.name>> \notin NamesOf(old, e.inum)
         /\ Adds(new, old, e.inum, <<d, e.name>>)
<1> DEFINE D == DirsOf(old)
<1>1. old \in Image /\ D \subseteq Inum /\ 0 \notin D /\ NamesInv(old)
  BY DirsInum DEF Shape, Allocated, DirsOf
<1>2. Allocated(new) /\ DirsOf(new) = D
  BY KeptAllocated DEF Shape
<1>3. /\ \A c \in D \ {d} : Named(new, c) = Named(old, c)
      /\ \A c \in D : \A p : Up(new, c, p) <=> Up(old, c, p)
      /\ new.used = old.used /\ \A i \in Inum : new.inode[i].type = old.inode[i].type
      /\ \A c \in D \ {d} : new.inode[c].inline = old.inode[c].inline
  BY <1>1 DEF Kept
<1>4. Owned(new) /\ Dotted(new)
  BY DEF Kept
<1>5. \A c \in D : \A f \in Named(new, c) : f \in Named(old, c) \/ (c = d /\ f = e)
  BY <1>3
<1>6. NoDangle(new)
  <2>1. old.used \subseteq Inum
    BY <1>1 DEF Image
  <2>2. QED
    BY <1>2, <1>3, <1>5, <2>1 DEF NoDangle, Shape
<1>7. HasUp(new, y)
  BY <1>2, <1>3 DEF HasUp, Shape
<1>8. ASSUME e.inum \in D, NEW c \in D, NEW f \in Named(old, c) PROVE f.inum # e.inum
  <2>1. f.inum = x => <<c, f.name>> \in NamesOf(old, x)
    BY <1>1, <1>8 DEF NamesOf, Named
  <2>2. QED
    BY <1>8, <2>1
<1>9. OneName(new)
  <2> SUFFICES ASSUME NEW b \in D, NEW c \in D, NEW f \in Named(new, b), NEW g \in Named(new, c),
                      f.inum = g.inum, f.inum \in D
               PROVE  b = c /\ f = g
    BY <1>2 DEF OneName
  <2>1. f \in Named(old, b) \/ (b = d /\ f = e)
    BY <1>5
  <2>2. g \in Named(old, c) \/ (c = d /\ g = e)
    BY <1>5
  <2>3. CASE f \in Named(old, b) /\ g \in Named(old, c)
    BY <2>3 DEF OneName, Shape
  <2>4. QED
    BY <1>8, <2>1, <2>2, <2>3
<1>10. Parents(new, x)
  BY <1>2, <1>3, <1>5 DEF Parents, Shape
<1>11. <<d, e.name>> \notin NamesOf(old, e.inum)
  BY DEF NamesOf
<1>12. ASSUME NEW j
       PROVE  NamesOf(new, j) =
                IF j = e.inum THEN NamesOf(old, j) \union {<<d, e.name>>} ELSE NamesOf(old, j)
  <2>1. ASSUME NEW c \in D, NEW name \in Names
        PROVE  (\E f \in Named(new, c) : f.name = name /\ f.inum = j)
                 <=> \/ \E f \in Named(old, c) : f.name = name /\ f.inum = j
                     \/ j = e.inum /\ c = d /\ name = e.name
    BY <1>3
  <2>2. \A at \in Inum \X Names : at = <<d, e.name>> <=> at[1] = d /\ at[2] = e.name
    OBVIOUS
  <2>3. \A at \in Inum \X Names :
          at \in NamesOf(new, j) <=>
            at \in NamesOf(old, j) \/ (j = e.inum /\ at = <<d, e.name>>)
    BY <1>2, <2>1, <2>2 DEF NamesOf
  <2>4. /\ NamesOf(new, j) \subseteq Inum \X Names /\ NamesOf(old, j) \subseteq Inum \X Names
        /\ <<d, e.name>> \in Inum \X Names
    BY <1>1 DEF NamesOf
  <2>5. QED
    BY <2>3, <2>4
<1>13. QED
  BY <1>2, <1>4, <1>6, <1>7, <1>9, <1>10, <1>11, <1>12 DEF Shape, Adds

-----------------------------------------------------------------------------
(* Counting.                                                               *)

\* r more names and q more links of i.
LEMMA Recounted ==
  ASSUME NEW old, NEW new, NEW i \in Inum, NEW x, NEW S,
         NEW q \in Int, NEW r \in Int, NEW n \in Int, NEW m \in Int,
         old \in Image, Lower(old, x, n, S), new.used = old.used,
         \A j \in Inum : new.inode[j].type = old.inode[j].type,
         \A j \in Inum : new.inode[j].nlink = old.inode[j].nlink + (IF j = i THEN q ELSE 0),
         \A j \in old.used \ {0} :
           /\ IsFiniteSet(NamesOf(new, j))
           /\ Cardinality(NamesOf(new, j)) =
                Cardinality(NamesOf(old, j)) + (IF j = i THEN r ELSE 0),
         IF i = x THEN m = n + q - r ELSE m = n /\ q = r
  PROVE  Lower(new, x, m, S)
<1> SUFFICES ASSUME NEW j \in old.used \ {0}
             PROVE  /\ IsFiniteSet(NamesOf(new, j))
                    /\ Spare(new, j, IF j = x THEN m ELSE 0) \in
                         IF old.inode[j].type = "DIR" THEN Nat \ {0} ELSE S
  BY DEF Lower, Image
<1> DEFINE a == old.inode[j].nlink
           k == Cardinality(NamesOf(old, j))
           b == new.inode[j].nlink
           l == Cardinality(NamesOf(new, j))
<1>1. j \in Inum /\ a \in Int
  BY LinkPlain DEF Image
<1>2. k \in Int
  BY FS_CardinalityType DEF Lower
<1>3. b = a + (IF j = i THEN q ELSE 0) /\ l = k + (IF j = i THEN r ELSE 0)
  BY <1>1
<1>4. Spare(old, j, IF j = x THEN n ELSE 0) = a - k - (IF j = x THEN n ELSE 0)
  BY DEF Spare
<1>5. Spare(new, j, IF j = x THEN m ELSE 0) = b - l - (IF j = x THEN m ELSE 0)
  BY DEF Spare
<1> HIDE DEF a, b, k, l
<1>6. b - l - (IF j = x THEN m ELSE 0) = a - k - (IF j = x THEN n ELSE 0)
  BY <1>1, <1>2, <1>3
<1>7. QED
  BY <1>4, <1>5, <1>6 DEF Lower

\* q more links of i.
LEMMA UpperStep ==
  ASSUME NEW old, NEW new, NEW i \in Inum, NEW x,
         NEW q \in Int, NEW h \in Int, NEW g \in Int, NEW c \in Int,
         old \in Image, Upper(old, x, h, c), new.used \subseteq old.used,
         \A j \in new.used : new.inode[j].type = old.inode[j].type,
         \A j \in new.used :
           new.inode[j].nlink = old.inode[j].nlink + (IF j = i THEN q ELSE 0),
         IF i = x THEN g = h + q ELSE g = h /\ q <= 0
  PROVE  Upper(new, x, g, c)
<1> SUFFICES ASSUME NEW j \in new.used \ {0}
             PROVE  new.inode[j].nlink <=
                      (IF old.inode[j].type = "DIR" THEN c ELSE MaxLinks + 1)
                        + (IF j = x THEN g ELSE 0)
  BY DEF Upper
<1> DEFINE a == old.inode[j].nlink
           b == IF old.inode[j].type = "DIR" THEN c ELSE MaxLinks + 1
           l == new.inode[j].nlink
<1>1. a \in Int /\ b \in Int
  BY LinkPlain, HfsAssumption DEF Image
<1>2. l = a + (IF j = i THEN q ELSE 0)
  OBVIOUS
<1>3. a <= b + (IF j = x THEN h ELSE 0)
  BY DEF Upper
<1> HIDE DEF a, b, l
<1>4. l <= b + (IF j = x THEN g ELSE 0)
  BY <1>1, <1>2, <1>3
<1>5. QED
  BY <1>4 DEF b, l

\* Another inode is the one that is accounted for.
LEMMA Accounts ==
  ASSUME NEW img \in Image, NEW S, NEW x, NEW c \in Int
  PROVE  /\ Lower(img, 0, 0, S) <=> Lower(img, x, 0, S)
         /\ Upper(img, 0, 0, c) <=> Upper(img, x, 0, c)
<1>1. \A i : (IF i = x THEN 0 ELSE 0) = 0 /\ (IF i = 0 THEN 0 ELSE 0) = 0
  OBVIOUS
<1>2. QED
  BY <1>1 DEF Lower, Upper

\* A looser bound.
LEMMA UpperWeaken ==
  ASSUME NEW img \in Image, NEW x, NEW h \in Int, NEW g \in Int, NEW c \in Int, NEW e \in Int,
         Upper(img, x, h, c), c <= e, h <= g
  PROVE  Upper(img, x, g, e)
<1> SUFFICES ASSUME NEW i \in img.used \ {0}
             PROVE  img.inode[i].nlink <=
                      (IF img.inode[i].type = "DIR" THEN e ELSE MaxLinks + 1)
                        + (IF i = x THEN g ELSE 0)
  BY DEF Upper
<1>1. img.inode[i].nlink \in Int /\ MaxLinks \in Int
  BY LinkPlain, HfsAssumption DEF Image
<1>2. img.inode[i].nlink <=
        (IF img.inode[i].type = "DIR" THEN c ELSE MaxLinks + 1) + (IF i = x THEN h ELSE 0)
  BY DEF Upper
<1>3. QED
  BY <1>1, <1>2

-----------------------------------------------------------------------------
(* What the routines of fs.c do to what is inside a directory.             *)

\* The list of entries of d becomes t.
SetEnts(img, d, t) ==
  IF img.inode[d].inline THEN [img EXCEPT !.inode[d].ents = t]
  ELSE [img EXCEPT !.blocks[img.inode[d].block] = t]

\* new has the inodes of old, links included, in the same form.
SameTable(new, old) ==
  /\ new.used = old.used /\ new.bitmap = old.bitmap /\ new.rootdir = old.rootdir
  /\ new.inode_used = old.inode_used /\ new.ndirectories = old.ndirectories
  /\ new.nfiles = old.nfiles
  /\ \A i \in Inum : /\ new.inode[i].type = old.inode[i].type
                     /\ new.inode[i].inline = old.inode[i].inline
                     /\ new.inode[i].block = old.inode[i].block
                     /\ new.inode[i].p_inum = old.inode[i].p_inum
                     /\ new.inode[i].nlink = old.inode[i].nlink

\* It stays the list of d alone, because no other directory has the block.
LEMMA SetEntsIs ==
  ASSUME NEW img, NEW d \in DirsOf(img), NEW t \in Seq(Dentry), Allocated(img), Owned(img)
  PROVE  LET new == SetEnts(img, d, t)
         IN  /\ new \in Image /\ SameTable(new, img) /\ Ents(new, d) = t
             /\ \A c \in DirsOf(img) \ {d} : Ents(new, c) = Ents(img, c)
<1> DEFINE new == SetEnts(img, d, t)
           b == img.inode[d].block
<1>1. img \in Image /\ DirsOf(img) \subseteq Inum /\ d \in Inum
  BY DirsInum DEF Allocated
<1>2. CASE img.inode[d].inline
  <2>1. new = [img EXCEPT !.inode[d].ents = t]
    BY <1>2 DEF SetEnts
  <2>2. new \in Image
    BY <1>1, <2>1, EntsSet
  <2>3. /\ new.used = img.used /\ new.bitmap = img.bitmap
        /\ new.rootdir = img.rootdir /\ new.inode_used = img.inode_used
        /\ new.ndirectories = img.ndirectories /\ new.nfiles = img.nfiles
        /\ new.blocks = img.blocks
    BY <1>1, <2>1 DEF Image
  <2>4. \A j \in Inum : /\ new.inode[j].type = img.inode[j].type
                        /\ new.inode[j].inline = img.inode[j].inline
                        /\ new.inode[j].block = img.inode[j].block
                        /\ new.inode[j].p_inum = img.inode[j].p_inum
                        /\ new.inode[j].nlink = img.inode[j].nlink
                        /\ new.inode[j].ents = IF j = d THEN t ELSE img.inode[j].ents
    BY <1>1, <2>1 DEF Image, Inode
  <2> HIDE DEF new
  <2>5. Ents(new, d) = t /\ \A c \in DirsOf(img) \ {d} : Ents(new, c) = Ents(img, c)
    BY <1>1, <1>2, <2>3, <2>4 DEF Ents
  <2>6. QED
    BY <2>2, <2>3, <2>4, <2>5 DEF SameTable, new
<1>3. CASE ~ img.inode[d].inline
  <2>1. new = [img EXCEPT !.blocks[b] = t]
    BY <1>3 DEF SetEnts
  <2>2. b \in BlockNo
    BY <1>1, <1>3 DEF Owned, Image
  <2>3. new \in Image
    BY <1>1, <2>1, <2>2, BlockReplaced
  <2>4. /\ new.used = img.used /\ new.bitmap = img.bitmap
        /\ new.rootdir = img.rootdir /\ new.inode_used = img.inode_used
        /\ new.ndirectories = img.ndirectories /\ new.nfiles = img.nfiles
        /\ new.inode = img.inode
        /\ new.blocks[b] = t /\ \A c \in BlockNo \ {b} : new.blocks[c] = img.blocks[c]
    BY <1>1, <2>1, <2>2 DEF Image
  <2> HIDE DEF new
  <2>5. Ents(new, d) = t
    BY <1>3, <2>2, <2>4 DEF Ents, BlockNo
  <2>6. ASSUME NEW c \in DirsOf(img) \ {d} PROVE Ents(new, c) = Ents(img, c)
    <3>1. ~ img.inode[c].inline => img.inode[c].block \in BlockNo \ {b}
      BY <1>1, <1>3 DEF Owned, Image
    <3>2. QED
      BY <2>4, <3>1 DEF Ents
  <2>7. QED
    BY <2>3, <2>4, <2>5, <2>6 DEF SameTable, new
<1>4. QED
  BY <1>2, <1>3

\* As long as the dots stay, only the names in d change.
LEMMA SetEntsKeeps ==
  ASSUME NEW img, NEW x, NEW y, Shape(img, x, y), NEW d \in DirsOf(img),
         NEW t \in Seq(Dentry), NamesInv(SetEnts(img, d, t)),
         {e \in EntSet(t) : e.name \notin Names} = {e \in Inside(img, d) : e.name \notin Names}
  PROVE  LET new == SetEnts(img, d, t)
         IN  /\ Kept(new, img, d, 0) /\ SameLinks(new, img)
             /\ Named(new, d) = {e \in EntSet(t) : e.name \in Names}
<1> DEFINE new == SetEnts(img, d, t)
           D == DirsOf(img)
<1>1. /\ new \in Image /\ SameTable(new, img) /\ Ents(new, d) = t
      /\ \A c \in D \ {d} : Ents(new, c) = Ents(img, c)
  BY SetEntsIs DEF Shape
<1>2. img \in Image /\ D \subseteq Inum /\ NamesInv(new)
  BY DirsInum DEF Shape, Allocated
<1> HIDE DEF new
<1>3. Inside(new, d) = EntSet(t) /\ \A c \in D \ {d} : Inside(new, c) = Inside(img, c)
  BY <1>1 DEF Inside
<1>4. Named(new, d) = {e \in EntSet(t) : e.name \in Names}
      /\ \A c \in D \ {d} : Named(new, c) = Named(img, c)
  BY <1>3 DEF Named
<1>5. Dot \notin Names /\ DotDot \notin Names
  BY NamesAssumption
<1>6. \A c \in D : \A e : e.name \notin Names =>
        (e \in Inside(new, c) <=> e \in Inside(img, c))
  BY <1>3
<1>7. DirsOf(new) = D
  BY <1>1, <1>2 DEF DirsOf, SameTable, Image
<1>8. Owned(new)
  BY <1>1, <1>2, <1>7 DEF Owned, Shape, SameTable
<1>9. Dotted(new)
  BY <1>1, <1>2, <1>5, <1>6, <1>7 DEF Dotted, Shape, SameTable
<1>10. \A c \in D : \A p : Up(new, c, p) <=> Up(img, c, p)
  BY <1>1, <1>2, <1>5, <1>6 DEF Up, SameTable
<1>11. \A c \in D : new.inode[c].inline = img.inode[c].inline
  BY <1>1, <1>2 DEF SameTable
<1>12. Kept(new, img, d, 0)
  BY <1>1, <1>2, <1>4, <1>8, <1>9, <1>10, <1>11 DEF Kept, SameTable
<1>13. SameLinks(new, img)
  BY <1>1 DEF SameTable, SameLinks
<1>14. QED
  BY <1>4, <1>12, <1>13 DEF new

\* A live entry that p does not lead to is as before, and where it was.
Stays(new, old, p) ==
  \A c \in DirsOf(old), j \in Nat :
    j \in Live(Ents(old, c)) /\ EntPtr(old, c, j) # p =>
      /\ j \in Live(Ents(new, c)) /\ Ents(new, c)[j] = Ents(old, c)[j]
      /\ EntPtr(new, c, j) = EntPtr(old, c, j)

\* dent->inum = 0, in an entry that a search found.
LEMMA Cleared ==
  ASSUME NEW img, NEW x, NEW y, Shape(img, x, y), NEW d \in DirsOf(img),
         NEW k \in Live(Ents(img, d)), Ents(img, d)[k].name \in Names
  PROVE  LET p == EntPtr(img, d, k)
             new == ClearDentry(img, p)
             e == Ents(img, d)[k]
         IN  /\ Kept(new, img, d, 0) /\ SameLinks(new, img) /\ Stays(new, img, p)
             /\ e \in Named(img, d) /\ Named(new, d) = Named(img, d) \ {e}
<1> DEFINE s == Ents(img, d)
           p == EntPtr(img, d, k)
           new == ClearDentry(img, p)
           e == s[k]
           t == ClearSlot(s, k)
<1>1. img \in Image /\ d \in Inum /\ NamesInv(img) /\ s \in Seq(Dentry)
  BY DirsInum, EntsType DEF Shape, Allocated
<1>2. k \in 1 .. Len(s) /\ k \in Nat /\ Distinct(s)
  BY <1>1, NamedOnce DEF Live
<1>3. new = SetEnts(img, d, t)
  <2>1. CASE img.inode[d].inline
    BY <2>1 DEF ClearDentry, EntPtr, InlinePtr, SetEnts, Ents
  <2>2. CASE ~ img.inode[d].inline
    <3>1. img.inode[d].block # 0
      BY <1>2, <2>2 DEF Ents
    <3>2. s = img.blocks[img.inode[d].block]
      BY <2>2, <3>1 DEF Ents
    <3>3. new = [img EXCEPT !.blocks[img.inode[d].block]
                              = ClearSlot(img.blocks[img.inode[d].block], k)]
      BY <2>2 DEF ClearDentry, EntPtr, BlockPtr
    <3>4. QED
      BY <2>2, <3>2, <3>3 DEF SetEnts
  <2>3. QED
    BY <2>1, <2>2
<1>4. p \in Ptr
  BY <1>1, <1>2, EntPtrType
<1>5. NamesInv(new)
  BY <1>1, <1>4, ClearDentryType, ClearDentryThins, ThinsKeeps
<1>6. t \in Seq(Dentry)
  BY <1>1, <1>2, ClearSlotType
<1>7. /\ EntSet(t) = EntSet(s) \ {e} /\ Live(t) = Live(s) \ {k}
      /\ \A j \in 1 .. Len(s) : j # k => t[j] = s[j]
  BY <1>1, <1>2, ClearSlotSet
<1>8. EntSet(s) = Inside(img, d) /\ e \in EntSet(s)
  BY DEF Inside, EntSet
<1>9. Kept(new, img, d, 0) /\ SameLinks(new, img)
      /\ Named(new, d) = {f \in EntSet(t) : f.name \in Names}
  BY <1>3, <1>5, <1>6, <1>7, <1>8, SetEntsKeeps
<1>10. Named(new, d) = Named(img, d) \ {e} /\ e \in Named(img, d)
  BY <1>7, <1>8, <1>9 DEF Named
<1>11. Stays(new, img, p)
  <2>1. /\ SameTable(new, img) /\ Ents(new, d) = t
        /\ \A c \in DirsOf(img) \ {d} : Ents(new, c) = Ents(img, c)
    BY <1>3, <1>6, SetEntsIs DEF Shape
  <2>2. DirsOf(img) \subseteq Inum
    BY <1>1, DirsInum
  <2> HIDE DEF new, t
  <2> SUFFICES ASSUME NEW c \in DirsOf(img), NEW j \in Nat, j \in Live(Ents(img, c)),
                      EntPtr(img, c, j) # p
               PROVE  /\ j \in Live(Ents(new, c)) /\ Ents(new, c)[j] = Ents(img, c)[j]
                      /\ EntPtr(new, c, j) = EntPtr(img, c, j)
    BY DEF Stays
  <2>3. EntPtr(new, c, j) = EntPtr(img, c, j)
    BY <2>1, <2>2 DEF SameTable, EntPtr
  <2>4. CASE c = d
    <3>1. j # k /\ j \in 1 .. Len(s)
      BY <2>4 DEF Live
    <3>2. QED
      BY <1>7, <2>1, <2>3, <2>4, <3>1
  <2>5. CASE c # d
    BY <2>1, <2>3, <2>5
  <2>6. QED
    BY <2>4, <2>5
<1>12. QED
  BY <1>9, <1>10, <1>11

\* Whether a name is there.
LEMMA AbsentNamed ==
  ASSUME NEW img, NEW d, NEW name \in Names
  PROVE  Absent(Ents(img, d), name) <=> \A f \in Named(img, d) : f.name # name
  BY DEF Absent, Named, Inside, EntSet

\* alloc_inline_dentry and alloc_dentry_from_block.
LEMMA Placed ==
  ASSUME NEW img, NEW x, NEW y, Shape(img, x, y), NEW d \in DirsOf(img),
         NEW e \in Dentry, e.name \in Names, e.inum # 0, Absent(Ents(img, d), e.name)
  PROVE  LET new == IF img.inode[d].inline THEN AppendInline(img, d, e)
                    ELSE PutInBlock(img, d, e)
         IN  /\ Kept(new, img, d, 0) /\ SameLinks(new, img)
             /\ Named(new, d) = Named(img, d) \union {e}
<1> DEFINE s == Ents(img, d)
           new == IF img.inode[d].inline THEN AppendInline(img, d, e)
                  ELSE PutInBlock(img, d, e)
           t == IF img.inode[d].inline THEN Append(s, e) ELSE PutInSeq(s, e)
<1>1. img \in Image /\ d \in Inum /\ NamesInv(img) /\ s \in Seq(Dentry)
  BY DirsInum, EntsType DEF Shape, Allocated
<1>2. ~ img.inode[d].inline => s = img.blocks[img.inode[d].block]
  <2>1. ~ img.inode[d].inline => img.inode[d].block # 0
    BY <1>1 DEF Shape, Owned, Image, BlockNo
  <2>2. QED
    BY <2>1 DEF Ents
<1>3. new = SetEnts(img, d, t)
  <2>1. CASE img.inode[d].inline
    <3>1. s = img.inode[d].ents
      BY <2>1 DEF Ents
    <3>2. QED
      BY <2>1, <3>1 DEF AppendInline, SetEnts
  <2>2. CASE ~ img.inode[d].inline
    BY <1>2, <2>2 DEF PutInBlock, SetEnts
  <2>3. QED
    BY <2>1, <2>2
<1>4. t \in Seq(Dentry) /\ EntSet(t) = EntSet(s) \union {e}
  BY <1>1, PutInSeqType, AppendSet, PutInSeqSet
<1>5. NamesInv(new)
  <2>1. CASE img.inode[d].inline
    <3>1. Distinct(s) /\ Plain(s)
      BY <1>1, <2>1 DEF NamesInv, Ents
    <3>2. Distinct(t) /\ Plain(t)
      BY <1>1, <2>1, <3>1, AppendDistinct
    <3> HIDE DEF t
    <3>3. NamesInv([img EXCEPT !.inode[d].ents = t])
      BY <1>1, <3>2, EntsSetNames
    <3>4. QED
      BY <1>3, <2>1, <3>3 DEF SetEnts
  <2>2. CASE ~ img.inode[d].inline
    BY <1>1, <2>2, PutInBlockNames
  <2>3. QED
    BY <2>1, <2>2
<1>6. EntSet(s) = Inside(img, d)
  BY DEF Inside
<1> HIDE DEF new, t
<1>7. Kept(new, img, d, 0) /\ SameLinks(new, img)
      /\ Named(new, d) = {f \in EntSet(t) : f.name \in Names}
  BY <1>3, <1>4, <1>5, <1>6, SetEntsKeeps
<1>8. Named(new, d) = Named(img, d) \union {e}
  BY <1>4, <1>6, <1>7 DEF Named
<1>9. QED
  BY <1>7, <1>8 DEF new

\* What a conversion writes, as a set.
LEMMA ConvertedSet ==
  ASSUME NEW img \in Image, NEW d \in Inum \ {0}, img.inode[d].p_inum # 0
  PROVE  EntSet(ConvertedEnts(img, d)) =
           {DentryOf(img, d, Dot), DentryOf(img, img.inode[d].p_inum, DotDot)}
             \union {DentryOf(img, f.inum, f.name) : f \in EntSet(img.inode[d].ents)}
<1> DEFINE s == img.inode[d].ents
           t == ConvertedEnts(img, d)
           first == DentryOf(img, d, Dot)
           second == DentryOf(img, img.inode[d].p_inum, DotDot)
           E(f) == DentryOf(img, f.inum, f.name)
<1>1. PICK n \in Nat : \E g \in [1 .. n -> Live(s)] : Copied(img, d, t, n, g)
  BY ConvertedList
<1>2. PICK g \in [1 .. n -> Live(s)] : Copied(img, d, t, n, g)
  BY <1>1
<1>3. /\ Len(t) = n + 2 /\ t[1] = first /\ t[2] = second
      /\ \A k \in 1 .. n : t[k + 2] = E(s[g[k]])
      /\ \A j \in Live(t) : j \in {1, 2} \/ \E k \in 1 .. n : j = k + 2
      /\ {g[k] : k \in 1 .. n} = Live(s)
  BY <1>2 DEF Copied
<1>4. first.inum # 0 /\ second.inum # 0 /\ \A f : E(f).inum = f.inum
  BY DEF DentryOf
<1>5. \A k \in 1 .. n : s[g[k]].inum # 0
  BY DEF Live
<1> HIDE DEF t, first, second, E
<1>6. 1 \in Live(t) /\ 2 \in Live(t)
  BY <1>3, <1>4 DEF Live
<1>7. ASSUME NEW k \in 1 .. n PROVE k + 2 \in Live(t) /\ t[k + 2] = E(s[g[k]])
  <2>1. t[k + 2].inum # 0
    BY <1>3, <1>4, <1>5
  <2>2. k + 2 \in 1 .. Len(t)
    BY <1>3
  <2>3. QED
    BY <1>3, <2>1, <2>2 DEF Live
<1>8. ASSUME NEW e \in EntSet(t)
      PROVE  e \in {first, second} \union {E(f) : f \in EntSet(s)}
  <2>1. PICK j \in Live(t) : e = t[j]
    BY DEF EntSet
  <2>2. CASE j \in {1, 2}
    BY <1>3, <2>1, <2>2
  <2>3. CASE \E k \in 1 .. n : j = k + 2
    <3>1. PICK k \in 1 .. n : j = k + 2
      BY <2>3
    <3>2. s[g[k]] \in EntSet(s)
      BY DEF EntSet
    <3>3. QED
      BY <1>7, <2>1, <3>1, <3>2
  <2>4. QED
    BY <1>3, <2>2, <2>3
<1>9. ASSUME NEW f \in EntSet(s) PROVE E(f) \in EntSet(t)
  <2>1. PICK l \in Live(s) : f = s[l]
    BY DEF EntSet
  <2>2. PICK k \in 1 .. n : g[k] = l
    BY <1>3
  <2>3. QED
    BY <1>7, <2>1, <2>2 DEF EntSet
<1>10. first \in EntSet(t) /\ second \in EntSet(t)
  BY <1>3, <1>6 DEF EntSet
<1>11. EntSet(t) = {first, second} \union {E(f) : f \in EntSet(s)}
  BY <1>8, <1>9, <1>10
<1>12. QED
  BY <1>11 DEF t, first, second, E, s

\* convert_inline_directory: the names stay, p_inum turns into "..".
LEMMA ConvertKeeps ==
  ASSUME NEW img, NEW x, NEW y, Shape(img, x, y), NEW d \in DirsOf(img) \ {y},
         img.inode[d].inline, BlockAvailable(img)
  PROVE  LET new == ConvertInlineDirectory(img, d)
         IN  /\ Kept(new, img, d, 0) /\ SameLinks(new, img)
             /\ Named(new, d) = Named(img, d) /\ ~ new.inode[d].inline
<1> DEFINE b == FreeBlock(img)
           new == ConvertInlineDirectory(img, d)
           D == DirsOf(img)
           s == img.inode[d].ents
           p == img.inode[d].p_inum
           t == ConvertedEnts(img, d)
           first == DentryOf(img, d, Dot)
           second == DentryOf(img, p, DotDot)
<1>1. img \in Image /\ D \subseteq Inum /\ d \in Inum \ {0} /\ NamesInv(img) /\ 0 \notin D
  BY DirsInum DEF Shape, Allocated, DirsOf
<1>2. /\ b \in BlockNo \ img.bitmap /\ new \in Image /\ new.used = img.used
      /\ new.blocks[b] = t
      /\ \A c \in BlockNo \ {b} : new.blocks[c] = img.blocks[c]
      /\ new.inode[d] = [img.inode[d] EXCEPT !.inline = FALSE, !.p_inum = 0,
                                             !.ents = << >>, !.block = b]
      /\ \A i \in Inum \ {d} : new.inode[i] = img.inode[i]
      /\ new.bitmap = img.bitmap \union {b}
      /\ new.rootdir = img.rootdir /\ new.inode_used = img.inode_used
      /\ new.ndirectories = img.ndirectories /\ new.nfiles = img.nfiles
  BY ZenonT(40), <1>1, Converted
<1>3. p \in D
  <2>1. \E q \in D : Up(img, d, q)
    BY DEF Shape, HasUp
  <2>2. QED
    BY <2>1 DEF Up
<1>4. Distinct(s) /\ Plain(s) /\ Inside(img, d) = EntSet(s)
  BY <1>1 DEF NamesInv, Inside, Ents
<1>5. Distinct(t)
  BY <1>1, <1>4, ConvertedDistinct
<1>6. EntSet(t) = {first, second} \union {DentryOf(img, f.inum, f.name) : f \in EntSet(s)}
  BY <1>1, <1>3, ConvertedSet
<1> HIDE DEF new, b, t
<1>7. /\ new.inode[d].type = img.inode[d].type /\ new.inode[d].nlink = img.inode[d].nlink
      /\ ~ new.inode[d].inline /\ new.inode[d].block = b /\ new.inode[d].ents = << >>
  BY <1>1, <1>2 DEF Image, Inode
<1>8. /\ b \in BlockNo \ img.bitmap /\ new.used = img.used
      /\ new.blocks[b] = t /\ \A c \in BlockNo \ {b} : new.blocks[c] = img.blocks[c]
      /\ \A i \in Inum \ {d} : new.inode[i] = img.inode[i]
      /\ new.bitmap = img.bitmap \union {b}
  BY <1>2
<1>9. ASSUME NEW f \in EntSet(s) PROVE DentryOf(img, f.inum, f.name) = f
  <2>1. f.name \in Names /\ f \in Dentry
    BY <1>1, <1>4, InsideType DEF Plain, EntSet
  <2>2. img.inode[f.inum].type = f.file_type
    BY <1>4, <2>1 DEF Shape, NoDangle, Named
  <2> HIDE DEF s
  <2>3. QED
    BY <2>1, <2>2 DEF DentryOf, Dentry
<1>10. EntSet(t) = {first, second} \union EntSet(s)
  BY <1>6, <1>9
<1>11. first.name = Dot /\ first.inum = d /\ second.name = DotDot /\ second.inum = p
  BY DEF DentryOf
<1> HIDE DEF first, second
<1>12. Dot \notin Names /\ DotDot \notin Names /\ Dot # DotDot
  BY NamesAssumption DEF Dot, DotDot
<1>13. Ents(new, d) = t /\ \A c \in D \ {d} : Ents(new, c) = Ents(img, c)
  <2>1. Ents(new, d) = t
    BY <1>2, <1>7 DEF Ents, BlockNo
  <2>2. ASSUME NEW c \in D \ {d} PROVE Ents(new, c) = Ents(img, c)
    <3>1. ~ img.inode[c].inline => img.inode[c].block \in BlockNo \ {b}
      BY <1>1, <1>2 DEF Shape, Owned, Image
    <3>2. QED
      BY <1>1, <1>2, <3>1 DEF Ents
  <2>3. QED
    BY <2>1, <2>2
<1>14. Inside(new, d) = {first, second} \union EntSet(s)
       /\ \A c \in D \ {d} : Inside(new, c) = Inside(img, c)
  BY <1>10, <1>13 DEF Inside
<1>15. \A f \in EntSet(s) : f.name \in Names
  BY <1>4 DEF Plain, EntSet
<1>16. Named(new, d) = Named(img, d) /\ \A c \in D \ {d} : Named(new, c) = Named(img, c)
  BY <1>4, <1>11, <1>12, <1>14, <1>15 DEF Named
<1>17. /\ \A i \in Inum : /\ new.inode[i].type = img.inode[i].type
                          /\ new.inode[i].nlink = img.inode[i].nlink
       /\ \A i \in Inum \ {d} : /\ new.inode[i].inline = img.inode[i].inline
                                /\ new.inode[i].block = img.inode[i].block
                                /\ new.inode[i].p_inum = img.inode[i].p_inum
                                /\ new.inode[i].ents = img.inode[i].ents
  <2>1. ASSUME NEW i \in Inum, i # d PROVE new.inode[i] = img.inode[i]
    BY <1>8, <2>1
  <2>2. ASSUME NEW i \in Inum
        PROVE  new.inode[i].type = img.inode[i].type /\ new.inode[i].nlink = img.inode[i].nlink
    BY <1>7, <2>1
  <2>3. QED
    BY <2>1, <2>2
<1>18. DirsOf(new) = D
  BY <1>1, <1>2, <1>17 DEF DirsOf, Image
<1> HIDE DEF D
<1>1a. d \in D /\ Owned(img) /\ Dotted(img) /\ d # y
  BY DEF D, Shape
<1>19. Owned(new)
  <2> SUFFICES ASSUME NEW c \in D
               PROVE  IF new.inode[c].inline THEN new.inode[c].block = 0
                      ELSE /\ new.inode[c].block \in new.bitmap
                           /\ \A e \in D \ {c} : new.inode[e].block # new.inode[c].block
    BY <1>18 DEF Owned
  <2>1. \A e \in D : /\ IF img.inode[e].inline THEN img.inode[e].block = 0
                        ELSE /\ img.inode[e].block \in img.bitmap
                             /\ \A f \in D \ {e} : img.inode[f].block # img.inode[e].block
                     /\ img.inode[e].block # b
    <3>1. 0 \notin BlockNo
      BY DEF BlockNo
    <3>2. QED
      BY <1>1a, <1>8, <3>1 DEF Owned, D
  <2>2. CASE c = d
    <3>1. new.inode[c].block = b /\ ~ new.inode[c].inline /\ b \in new.bitmap
      BY <1>7, <1>8, <2>2
    <3>2. ASSUME NEW e \in D, e # c PROVE new.inode[e].block # b
      <4>1. e \in Inum \ {d}
        BY <1>1, <2>2, <3>2
      <4>2. QED
        BY <1>17, <2>1, <4>1
    <3>3. QED
      BY <3>1, <3>2
  <2>3. CASE c # d
    <3>1. c \in Inum \ {d}
      BY <1>1, <2>3
    <3>2. CASE img.inode[c].inline
      BY <1>17, <2>1, <3>1, <3>2
    <3>3. CASE ~ img.inode[c].inline
      <4>1. new.inode[c].block \in new.bitmap
        <5>1. img.inode[c].block \in img.bitmap /\ new.inode[c].block = img.inode[c].block
          BY <1>17, <2>1, <3>1, <3>3
        <5>2. QED
          BY <1>8, <5>1
      <4>2. ASSUME NEW e \in D \ {c} PROVE new.inode[e].block # new.inode[c].block
        <5>1. CASE e = d
          BY <1>7, <1>17, <2>1, <3>1, <5>1
        <5>2. CASE e # d
          BY <1>1, <1>17, <2>1, <3>1, <3>3, <5>2
        <5>3. QED
          BY <5>1, <5>2
      <4>3. QED
        BY <1>17, <3>1, <3>3, <4>1, <4>2
    <3>4. QED
      BY <3>2, <3>3
  <2>4. QED
    BY <2>2, <2>3
<1>20. Dotted(new)
  <2>1. \E e \in Inside(new, d) : e.name = Dot /\ e.inum = d
    BY <1>11, <1>14
  <2>2. ASSUME NEW c \in D, c # d, ~ new.inode[c].inline
        PROVE  \E e \in Inside(new, c) : e.name = Dot /\ e.inum = c
    <3>1. ~ img.inode[c].inline
      BY <1>1, <1>17, <2>2
    <3>2. \E e \in Inside(img, c) : e.name = Dot /\ e.inum = c
      BY <1>1a, <3>1 DEF Dotted, D
    <3>3. QED
      BY <1>14, <2>2, <3>2
  <2>3. QED
    BY <1>18, <2>1, <2>2 DEF Dotted
<1>21. \A c \in D : \A q : Up(new, c, q) <=> Up(img, c, q)
  <2>1. ASSUME NEW q PROVE Up(new, d, q) <=> Up(img, d, q)
    <3>1. \A e \in Inside(new, d) : e.name = DotDot <=> e = second
      BY <1>11, <1>12, <1>14, <1>15
    <3>2. QED
      BY <1>7, <1>11, <1>14, <3>1 DEF Up
  <2>2. ASSUME NEW c \in D, NEW q, c # d PROVE Up(new, c, q) <=> Up(img, c, q)
    BY <1>1, <1>14, <1>17, <2>2 DEF Up
  <2>3. QED
    BY <2>1, <2>2
<1>22. NamesInv(new)
  <2>1. ASSUME NEW i \in Inum
        PROVE  /\ Distinct(new.inode[i].ents) /\ Plain(new.inode[i].ents)
               /\ new.inode[i].type # "UNUSED" => i \in new.used
    <3>1. CASE i = d
      BY <1>1, <1>7, <1>8, <3>1, EmptyList DEF NamesInv
    <3>2. CASE i # d
      BY <1>1, <1>8, <1>17, <3>2 DEF NamesInv
    <3>3. QED
      BY <3>1, <3>2
  <2>2. ASSUME NEW c \in BlockNo PROVE Distinct(new.blocks[c])
    BY <1>1, <1>5, <1>8 DEF NamesInv
  <2>3. QED
    BY <2>1, <2>2 DEF NamesInv
<1>23. Kept(new, img, d, 0) /\ SameLinks(new, img)
  <2>1. SameLinks(new, img)
    BY <1>17 DEF SameLinks
  <2>2. Kept(new, img, d, 0)
    BY <1>1, <1>2, <1>16, <1>17, <1>18, <1>19, <1>20, <1>21, <1>22 DEF Kept, D
  <2>3. QED
    BY <2>1, <2>2
<1>24. QED
  BY <1>7, <1>16, <1>23 DEF new

-----------------------------------------------------------------------------
(* new_dentry.                                                             *)

\* As long as no name changes, neither does the shape.
LEMMA KeptSame ==
  ASSUME NEW old, NEW new, NEW x, NEW y, NEW d \in DirsOf(old) \ {y},
         Shape(old, x, y), Kept(new, old, d, 0), Named(new, d) = Named(old, d)
  PROVE  Shape(new, x, y)
<1> DEFINE D == DirsOf(old)
<1>1. old \in Image /\ D \subseteq Inum /\ 0 \notin D /\ NamesInv(old)
  BY DirsInum DEF Shape, Allocated, DirsOf
<1>2. Allocated(new) /\ DirsOf(new) = D
  BY KeptAllocated DEF Shape
<1>3. /\ \A c \in D : Named(new, c) = Named(old, c)
      /\ \A c \in D : \A p : Up(new, c, p) <=> Up(old, c, p)
      /\ new.used = old.used /\ \A i \in Inum : new.inode[i].type = old.inode[i].type
      /\ \A c \in D \ {d} : new.inode[c].inline = old.inode[c].inline
  BY <1>1 DEF Kept
<1>4. Owned(new) /\ Dotted(new)
  BY DEF Kept
<1>5. NoDangle(new)
  <2>1. old.used \subseteq Inum
    BY <1>1 DEF Image
  <2>2. QED
    BY <1>2, <1>3, <2>1 DEF NoDangle, Shape
<1>6. HasUp(new, y)
  BY <1>2, <1>3 DEF HasUp, Shape
<1>7. OneName(new)
  BY <1>2, <1>3 DEF OneName, Shape
<1>8. Parents(new, x)
  BY <1>2, <1>3 DEF Parents, Shape
<1>9. QED
  BY <1>2, <1>4, <1>5, <1>6, <1>7, <1>8 DEF Shape

\* new_dentry up to its nlink++.
PlaceDentry(img, d, e) ==
  IF ~ img.inode[d].inline THEN PutInBlock(img, d, e)
  ELSE IF ~ InlineFull(img, d) THEN AppendInline(img, d, e)
  ELSE PutInBlock(ConvertInlineDirectory(img, d), d, e)

LEMMA Entered ==
  ASSUME NEW img, NEW x, NEW y, Shape(img, x, y), NEW d \in DirsOf(img) \ {y}, Fits(img, d),
         NEW e \in Dentry, e.name \in Names, e.inum # 0, Absent(Ents(img, d), e.name)
  PROVE  LET new == PlaceDentry(img, d, e)
         IN  /\ Kept(new, img, d, 0) /\ SameLinks(new, img)
             /\ Named(new, d) = Named(img, d) \union {e}
<1> DEFINE new == PlaceDentry(img, d, e)
<1>1. CASE ~ img.inode[d].inline \/ ~ InlineFull(img, d)
  <2>1. new = IF img.inode[d].inline THEN AppendInline(img, d, e) ELSE PutInBlock(img, d, e)
    BY <1>1 DEF PlaceDentry
  <2> HIDE DEF new
  <2>2. QED
    BY <2>1, Placed DEF new
<1>2. CASE img.inode[d].inline /\ InlineFull(img, d)
  <2> DEFINE mid == ConvertInlineDirectory(img, d)
  <2>1. new = PutInBlock(mid, d, e)
    BY <1>2 DEF PlaceDentry
  <2>2. /\ Kept(mid, img, d, 0) /\ SameLinks(mid, img)
        /\ Named(mid, d) = Named(img, d) /\ ~ mid.inode[d].inline
    BY <1>2, ConvertKeeps DEF Fits
  <2> HIDE DEF mid, new
  <2>3. Shape(mid, x, y) /\ DirsOf(mid) = DirsOf(img)
    BY <2>2, KeptSame, KeptAllocated DEF Shape
  <2>4. Absent(Ents(mid, d), e.name)
    BY <2>2, AbsentNamed
  <2>5. Kept(new, mid, d, 0) /\ SameLinks(new, mid) /\ Named(new, d) = Named(mid, d) \union {e}
    BY <2>1, <2>2, <2>3, <2>4, Placed
  <2>6. Kept(new, img, d, 0)
    BY <2>2, <2>5, KeptTrans DEF Shape
  <2>7. QED
    BY <2>2, <2>5, <2>6 DEF SameLinks, new
<1>3. QED
  BY <1>1, <1>2

\* The workload keeps link counts away from NlinkMod.
LinksFit == MaxLinks + 2 < NlinkMod /\ MaxInum + 3 < NlinkMod

LEMMA Bounded ==
  ASSUME LinksFit, NEW img \in Image, NEW x \in img.used \ {0}, NEW h \in Int, NEW c \in Int,
         Upper(img, x, h, c), h <= 0, c <= MaxInum + 1
  PROVE  img.inode[x].nlink + 1 < NlinkMod
<1> DEFINE n == img.inode[x].nlink
           b == IF img.inode[x].type = "DIR" THEN c ELSE MaxLinks + 1
<1>1. n <= b + h
  BY DEF Upper
<1>2. n \in Int /\ MaxLinks \in Int /\ MaxInum \in Int /\ NlinkMod \in Int
  <2>1. MaxLinks \in Int
    BY HfsAssumption
  <2>2. MaxInum \in Int /\ NlinkMod \in Int
    BY HfsImageAssumption
  <2>3. n \in Int
    BY LinkPlain DEF Image
  <2>4. QED
    BY <2>1, <2>2, <2>3
<1>3. b \in Int /\ (b <= MaxLinks + 1 \/ b <= MaxInum + 1)
  BY <1>2
<1> HIDE DEF n, b
<1>4. n + 1 < NlinkMod
  BY <1>1, <1>2, <1>3 DEF LinksFit
<1>5. QED
  BY <1>4 DEF n

\* AddLink keeps everything but the count.
LEMMA LinkKeeps ==
  ASSUME NEW img, NEW i \in Inum, NEW new \in {AddLink(img, i), DropLink(img, i)},
         NEW x, NEW y, Shape(img, x, y)
  PROVE  /\ Shape(new, x, y) /\ DirsOf(new) = DirsOf(img) /\ new.used = img.used
         /\ new.rootdir = img.rootdir
         /\ \A j \in Inum : /\ new.inode[j].type = img.inode[j].type
                            /\ new.inode[j].inline = img.inode[j].inline
         /\ Counters(img) => Counters(new)
         /\ \A j : NamesOf(new, j) = NamesOf(img, j)
         /\ \A d \in Inum : Ents(new, d) = Ents(img, d) /\ Inside(new, d) = Inside(img, d)
<1>1. /\ SameInodes(new, img)
      /\ \A d \in Inum : Ents(new, d) = Ents(img, d) /\ Inside(new, d) = Inside(img, d)
  BY LinkSame DEF Shape
<1>2. Shape(new, x, y) /\ DirsOf(new) = DirsOf(img) /\ \A j : NamesOf(new, j) = NamesOf(img, j)
  BY <1>1, SameShape
<1>3. img \in Image /\ new \in Image
  BY <1>2 DEF Shape, Allocated
<1>4. Counters(img) => Counters(new)
  BY <1>1, <1>3, SameCounters
<1>5. QED
  BY <1>1, <1>2, <1>4 DEF SameInodes

\* new_dentry: a name more and a link more of x.
LEMMA NewName ==
  ASSUME LinksFit, NEW img, NEW x \in img.used \ {0}, NEW y, NEW d \in DirsOf(img) \ {y},
         NEW name \in Names, NEW S, NEW n \in Int, NEW h \in Int, NEW c \in Int,
         Shape(img, x, y), Lower(img, x, n, S), Upper(img, x, h, c),
         h <= 0, c <= MaxInum + 1, Fits(img, d), Absent(Ents(img, d), name),
         x \in DirsOf(img) => NamesOf(img, x) = {}
  PROVE  LET new == NewDentry(img, d, x, name)
         IN  /\ Shape(new, x, y) /\ Lower(new, x, n, S) /\ Upper(new, x, h + 1, c)
             /\ DirsOf(new) = DirsOf(img) /\ new.used = img.used
             /\ new.rootdir = img.rootdir
             /\ \A j \in Inum : new.inode[j].type = img.inode[j].type
             /\ \A j \in DirsOf(img) \ {d} : new.inode[j].inline = img.inode[j].inline
             /\ Counters(img) => Counters(new)
             /\ \A j : NamesOf(new, j) = IF j = x THEN NamesOf(img, j) \union {<<d, name>>}
                                         ELSE NamesOf(img, j)
<1> DEFINE e == DentryOf(img, x, name)
           mid == PlaceDentry(img, d, e)
           new == NewDentry(img, d, x, name)
<1>1. img \in Image /\ x \in Inum \ {0} /\ name \in Comp
  BY DEF Shape, Allocated, Image, Comp
<1>2. new = AddLink(mid, x)
  BY DEF NewDentry, PlaceDentry
<1>3. e \in Dentry /\ e.name = name /\ e.inum = x /\ e.file_type = img.inode[x].type
  BY <1>1, DentryOfType DEF DentryOf
<1> HIDE DEF e
<1>4. /\ Kept(mid, img, d, 0) /\ SameLinks(mid, img)
      /\ Named(mid, d) = Named(img, d) \union {e}
  BY <1>1, <1>3, Entered
<1> HIDE DEF mid, new
<1>5. /\ mid.used = img.used /\ mid.rootdir = img.rootdir
      /\ \A j \in Inum : /\ mid.inode[j].type = img.inode[j].type
                         /\ mid.inode[j].nlink = img.inode[j].nlink
      /\ \A j \in DirsOf(img) \ {d} : mid.inode[j].inline = img.inode[j].inline
  BY <1>4 DEF Kept, SameLinks
<1>6. \A f \in Named(img, d) : f.name # name
  BY AbsentNamed
<1>7. /\ Shape(mid, x, y) /\ <<d, name>> \notin NamesOf(img, x)
      /\ \A j : NamesOf(mid, j) = IF j = x THEN NamesOf(img, j) \union {<<d, name>>}
                                  ELSE NamesOf(img, j)
  <2>1. /\ e.name \in Names /\ \A f \in Named(img, d) : f.name # e.name
        /\ e.inum \in img.used \ {0} /\ e.file_type = img.inode[e.inum].type
        /\ e.inum \in DirsOf(img) => e.inum = x /\ NamesOf(img, x) = {}
    BY <1>3, <1>6
  <2>2. /\ Shape(mid, x, y) /\ <<d, e.name>> \notin NamesOf(img, e.inum)
        /\ Adds(mid, img, e.inum, <<d, e.name>>)
    <3>1. e \in Dentry /\ Kept(mid, img, d, 0) /\ Named(mid, d) = Named(img, d) \union {e}
      BY <1>3, <1>4
    <3>2. QED
      BY <3>1, <2>1, Added, ZenonT(60)
  <2>3. QED
    BY <1>3, <2>2 DEF Adds
<1>8. DirsOf(mid) = DirsOf(img) /\ (Counters(img) => Counters(mid))
  BY <1>4, KeptAllocated DEF Shape
<1>9. Lower(mid, x, n - 1, S)
  <2>1. ASSUME NEW j \in img.used \ {0}
        PROVE  /\ IsFiniteSet(NamesOf(mid, j))
               /\ Cardinality(NamesOf(mid, j)) =
                    Cardinality(NamesOf(img, j)) + (IF j = x THEN 1 ELSE 0)
    <3>1. IsFiniteSet(NamesOf(img, j))
      BY DEF Lower
    <3>2. Cardinality(NamesOf(img, j)) \in Nat
      BY <3>1, FS_CardinalityType
    <3>3. CASE j = x
      BY <1>7, <3>1, <3>3, FS_AddElement
    <3>4. CASE j # x
      BY <1>7, <3>1, <3>2, <3>4
    <3>5. QED
      BY <3>3, <3>4
  <2>2. \A j \in Inum : mid.inode[j].nlink = img.inode[j].nlink + (IF j = x THEN 0 ELSE 0)
    BY <1>1, <1>5, LinkPlain
  <2>3. n - 1 = n + 0 - 1 /\ n - 1 \in Int
    OBVIOUS
  <2>4. QED
    BY <1>1, <1>5, <2>1, <2>2, <2>3, Recounted
<1>10. Upper(mid, x, h, c)
  BY <1>1, <1>5 DEF Upper, Image
<1>11. mid \in Image /\ x \in mid.used \ {0}
  BY <1>5, <1>7 DEF Shape, Allocated
<1>12. mid.inode[x].nlink + 1 < NlinkMod
  BY <1>10, <1>11, Bounded
<1>13. Shape(new, x, y) /\ Lower(new, x, n, S) /\ Upper(new, x, h + 1, c)
  <2>1. n - 1 \in Int /\ n - 1 + 1 = n
    OBVIOUS
  <2>2. QED
    BY <1>1, <1>2, <1>7, <1>9, <1>10, <1>12, <2>1, LinkStep
<1>14. /\ DirsOf(new) = DirsOf(mid) /\ new.used = mid.used /\ new.rootdir = mid.rootdir
       /\ \A j \in Inum : /\ new.inode[j].type = mid.inode[j].type
                          /\ new.inode[j].inline = mid.inode[j].inline
       /\ Counters(mid) => Counters(new)
       /\ \A j : NamesOf(new, j) = NamesOf(mid, j)
  BY <1>1, <1>2, <1>7, LinkKeeps
<1>15. DirsOf(img) \subseteq Inum
  BY <1>1, DirsInum
<1>16. QED
  BY <1>5, <1>7, <1>8, <1>13, <1>14, <1>15 DEF new

-----------------------------------------------------------------------------
(* unlink_dent.                                                            *)

\* new is old with inode i, which is no directory, freed.
Freed(new, old, i) ==
  /\ new \in Image /\ NamesInv(new)
  /\ new.used = old.used \ {i} /\ new.bitmap = old.bitmap
  /\ new.rootdir = old.rootdir /\ new.blocks = old.blocks
  /\ \A j \in Inum \ {i} : new.inode[j] = old.inode[j]
  /\ new.inode[i].type = "UNUSED"
  /\ new.inode_used = old.inode_used - 1 /\ new.ndirectories = old.ndirectories
  /\ new.nfiles = IF old.inode[i].type = "REG" THEN old.nfiles - 1 ELSE old.nfiles

\* The sets of inodes are finite.
LEMMA UsedFinite ==
  ASSUME NEW img \in Image
  PROVE  IsFiniteSet(img.used \ {0}) /\ \A types : IsFiniteSet(UsedOf(img, types))
<1>1. MaxInum \in Nat
  BY HfsImageAssumption
<1>2. IsFiniteSet(0 .. MaxInum)
  BY <1>1, FS_Interval
<1>3. img.used \ {0} \in SUBSET (0 .. MaxInum)
  BY DEF Image, Inum
<1>4. \A types : UsedOf(img, types) \in SUBSET (0 .. MaxInum)
  BY <1>3 DEF UsedOf
<1>5. QED
  BY <1>2, <1>3, <1>4, FS_Subset

\* free_inode of an inode without a name.
LEMMA FreedKeeps ==
  ASSUME NEW old, NEW new, NEW i \in old.used \ {0}, NEW x, NEW y, NEW S,
         NEW n \in Int, NEW h \in Int, NEW c \in Int,
         Freed(new, old, i), old.inode[i].type # "DIR", NamesOf(old, i) = {},
         Shape(old, x, y), Counters(old), Lower(old, x, n, S), Upper(old, x, h, c)
  PROVE  /\ Shape(new, x, y) /\ Counters(new) /\ Lower(new, x, n, S) /\ Upper(new, x, h, c)
         /\ DirsOf(new) = DirsOf(old)
         /\ \A d \in DirsOf(old) : Ents(new, d) = Ents(old, d)
         /\ \A j : NamesOf(new, j) = NamesOf(old, j)
<1> DEFINE D == DirsOf(old)
<1>1. old \in Image /\ D \subseteq Inum /\ 0 \notin D /\ NamesInv(old) /\ old.used \subseteq Inum
  BY DirsInum DEF Shape, Allocated, DirsOf, Image
<1>2. /\ new \in Image /\ NamesInv(new) /\ new.used = old.used \ {i}
      /\ new.bitmap = old.bitmap /\ new.rootdir = old.rootdir /\ new.blocks = old.blocks
      /\ new.inode[i].type = "UNUSED"
  BY DEF Freed
<1>3. ASSUME NEW j \in Inum, j # i PROVE new.inode[j] = old.inode[j]
  BY <1>3 DEF Freed
<1>4. i \notin D /\ D \subseteq Inum \ {i}
  BY <1>1 DEF DirsOf
<1>5. DirsOf(new) = D
  BY <1>1, <1>2, <1>3 DEF DirsOf
<1>6. \A d \in D : new.inode[d] = old.inode[d]
  BY <1>3, <1>4
<1> HIDE DEF D
<1>7. \A d \in D : Ents(new, d) = Ents(old, d)
  BY <1>2, <1>6 DEF Ents
<1>8. \A d \in D : Inside(new, d) = Inside(old, d) /\ Named(new, d) = Named(old, d)
  BY <1>7 DEF Inside, Named
<1>9. \A d \in D : \A p : Up(new, d, p) <=> Up(old, d, p)
  BY <1>6, <1>8 DEF Up
<1>10. \A j : NamesOf(new, j) = NamesOf(old, j)
  BY <1>5, <1>8 DEF NamesOf, D
<1>11. ASSUME NEW d \in D, NEW e \in Named(old, d) PROVE e.inum # i
  <2>1. e.inum = i => <<d, e.name>> \in NamesOf(old, i)
    BY <1>1 DEF NamesOf, Named, D
  <2>2. QED
    BY <2>1
<1>12. Allocated(new)
  <2>1. 0 \in new.used /\ new.inode[0].type = "UNUSED"
    BY <1>2, <1>3, ZeroInum DEF Shape, Allocated
  <2>2. ASSUME NEW j \in Inum \ {0} PROVE j \in new.used <=> new.inode[j].type # "UNUSED"
    BY <1>2, <1>3 DEF Shape, Allocated
  <2>3. new.rootdir \in DirsOf(new)
    BY <1>2, <1>5 DEF Shape, Allocated, D
  <2>4. QED
    BY <1>2, <2>1, <2>2, <2>3 DEF Allocated
<1>13. Owned(new)
  BY <1>2, <1>5, <1>6 DEF Owned, Shape, D
<1>14. Dotted(new)
  BY <1>5, <1>6, <1>8 DEF Dotted, Shape, D
<1>15. NoDangle(new)
  <2> SUFFICES ASSUME NEW d \in D, NEW e \in Named(old, d)
               PROVE  e.inum \in new.used \ {0} /\ new.inode[e.inum].type = e.file_type
    BY <1>5, <1>8 DEF NoDangle
  <2>1. e.inum \in old.used \ {0} /\ old.inode[e.inum].type = e.file_type
    BY DEF NoDangle, Shape, D
  <2>2. QED
    BY <1>1, <1>2, <1>3, <1>11, <2>1
<1>16. HasUp(new, y)
  BY <1>5, <1>6, <1>9 DEF HasUp, Shape, D
<1>17. OneName(new)
  BY <1>5, <1>8 DEF OneName, Shape, D
<1>18. Parents(new, x)
  BY <1>5, <1>8, <1>9 DEF Parents, Shape, D
<1>19. Shape(new, x, y)
  BY <1>12, <1>13, <1>14, <1>15, <1>16, <1>17, <1>18 DEF Shape
<1>20. Lower(new, x, n, S) /\ Upper(new, x, h, c)
  <2>1. \A j \in new.used \ {0} : j \in old.used \ {0} /\ new.inode[j] = old.inode[j]
    BY <1>1, <1>2, <1>3
  <2>2. QED
    BY <1>10, <2>1 DEF Lower, Upper, Spare
<1>21. Counters(new)
  <2>1. new.used \ {0} = (old.used \ {0}) \ {i}
    BY <1>2
  <2>2. \A types : UsedOf(new, types) = UsedOf(old, types) \ {i}
    BY <1>1, <1>2, <1>3 DEF UsedOf
  <2>3. /\ IsFiniteSet(old.used \ {0}) /\ \A types : IsFiniteSet(UsedOf(old, types))
    BY <1>1, UsedFinite
  <2>4. Cardinality(new.used \ {0}) = Cardinality(old.used \ {0}) - 1
    <3>1. ASSUME NEW U, IsFiniteSet(U), i \in U PROVE Cardinality(U \ {i}) = Cardinality(U) - 1
      BY <3>1, FS_RemoveElement
    <3>2. Cardinality((old.used \ {0}) \ {i}) = Cardinality(old.used \ {0}) - 1
      BY <2>3, <3>1
    <3>3. QED
      BY <2>1, <3>2
  <2>5. UsedOf(new, {"DIR"}) = UsedOf(old, {"DIR"})
    BY ZenonT(40), <2>2 DEF UsedOf
  <2>6. Cardinality(UsedOf(new, {"REG"})) =
          IF old.inode[i].type = "REG" THEN Cardinality(UsedOf(old, {"REG"})) - 1
          ELSE Cardinality(UsedOf(old, {"REG"}))
    <3>1. CASE old.inode[i].type = "REG"
      <4>1. i \in UsedOf(old, {"REG"})
        BY <3>1 DEF UsedOf
      <4>2. QED
        BY <2>2, <2>3, <3>1, <4>1, FS_RemoveElement
    <3>2. CASE old.inode[i].type # "REG"
      <4>1. i \notin UsedOf(old, {"REG"})
        BY <3>2 DEF UsedOf
      <4>2. UsedOf(old, {"REG"}) \ {i} = UsedOf(old, {"REG"})
        BY <4>1
      <4>3. QED
        BY <2>2, <3>2, <4>2
    <3>3. QED
      BY <3>1, <3>2
  <2>7. QED
    BY <2>4, <2>5, <2>6 DEF Freed, Counters
<1>22. QED
  BY <1>5, <1>7, <1>10, <1>19, <1>20, <1>21 DEF D

\* The text of a link does not spell the number of a bit of the bitmap, so that
\* freeing the link clears none (free_inode takes the text for block numbers).
TextBeyond == \A w \in LinkWords : w = 0 \/ w + 1 \notin BlockNo

\* free_inode and the clearing of an entry do not get in each other's way.
LEMMA ClearFree ==
  ASSUME TextBeyond, NEW img \in Image, NEW d \in DirsOf(img), NEW i \in Inum, NEW k,
         img.inode[i].type # "DIR"
  PROVE  LET p == EntPtr(img, d, k)
             new == ClearDentry(FreeInode(img, i), p)
             old == ClearDentry(img, p)
         IN  new \in Image /\ NamesInv(new) => Freed(new, old, i)
<1> DEFINE p == EntPtr(img, d, k)
           F == FreeInode(img, i)
           new == ClearDentry(F, p)
           old == ClearDentry(img, p)
<1>1. d \in Inum /\ d # i
  BY DirsInum DEF DirsOf
<1>2. F \in Image
  BY FreeInodeType
<1>3. /\ F.used = img.used \ {i} /\ F.bitmap = img.bitmap
      /\ F.rootdir = img.rootdir /\ F.blocks = img.blocks
      /\ F.inode_used = img.inode_used - 1 /\ F.ndirectories = img.ndirectories
      /\ F.nfiles = IF img.inode[i].type = "REG" THEN img.nfiles - 1 ELSE img.nfiles
      /\ F.inode[i].type = "UNUSED"
  <2>1. ClearedBits(img.inode[i]) = {}
    <3>1. FreedNumbers(img.inode[i]) \in {LinkWords, {}}
      BY DEF FreedNumbers
    <3>2. \A b \in BlockNo : b - 1 \notin LinkWords \ {0}
      <4> SUFFICES ASSUME NEW b \in BlockNo, b - 1 \in LinkWords, b - 1 # 0 PROVE FALSE
        OBVIOUS
      <4>1. b \in Nat /\ (b - 1) + 1 = b
        BY HfsImageAssumption DEF BlockNo
      <4>2. QED
        BY <4>1 DEF TextBeyond
    <3>3. QED
      BY <3>1, <3>2 DEF ClearedBits
  <2>2. img.bitmap \ {} = img.bitmap
    OBVIOUS
  <2>3. QED
    BY <2>1, <2>2 DEF FreeInode, Image, Inode
<1>4. ASSUME NEW j \in Inum, j # i PROVE F.inode[j] = img.inode[j]
  BY <1>4 DEF FreeInode, Image
<1> HIDE DEF F
<1>5. ASSUME NEW g \in Image, NEW G, G = ClearDentry(g, p),
             p.at = "inline" \/ p.at = "block"
      PROVE  /\ G.used = g.used /\ G.bitmap = g.bitmap /\ G.rootdir = g.rootdir
             /\ G.inode_used = g.inode_used /\ G.ndirectories = g.ndirectories
             /\ G.nfiles = g.nfiles
  BY <1>5 DEF ClearDentry, Image
<1>6. CASE img.inode[d].inline
  <2>1. p.at = "inline" /\ p.inum = d /\ p.slot = k
    BY <1>6 DEF EntPtr, InlinePtr
  <2> HIDE DEF p
  <2>2. ASSUME NEW g \in Image, NEW G, G = ClearDentry(g, p)
        PROVE  /\ G.blocks = g.blocks
               /\ \A j \in Inum \ {d} : G.inode[j] = g.inode[j]
               /\ G.inode[d] = [g.inode[d] EXCEPT !.ents = ClearSlot(g.inode[d].ents, k)]
    <3>1. G = [g EXCEPT !.inode[d].ents = ClearSlot(g.inode[d].ents, k)]
      BY <2>1, <2>2 DEF ClearDentry
    <3>2. QED
      BY <1>1, <3>1 DEF Image
  <2> HIDE DEF new, old
  <2>3. new = ClearDentry(F, p) /\ old = ClearDentry(img, p)
    BY DEF new, old
  <2>4. F.inode[d] = img.inode[d]
    BY <1>1, <1>4
  <2>5. /\ new.blocks = F.blocks /\ \A j \in Inum \ {d} : new.inode[j] = F.inode[j]
        /\ new.inode[d] = [F.inode[d] EXCEPT !.ents = ClearSlot(F.inode[d].ents, k)]
    BY <1>2, <2>2 DEF new
  <2>6. /\ old.blocks = img.blocks /\ \A j \in Inum \ {d} : old.inode[j] = img.inode[j]
        /\ old.inode[d] = [img.inode[d] EXCEPT !.ents = ClearSlot(img.inode[d].ents, k)]
    BY <2>2 DEF old
  <2>7. new.inode[d] = old.inode[d] /\ new.blocks = old.blocks
    BY <1>3, <2>5, <2>6, <2>4
  <2>8. ASSUME NEW j \in Inum, j # d PROVE new.inode[j] = F.inode[j] /\ old.inode[j] = img.inode[j]
    BY <2>5, <2>6, <2>8
  <2>9. ASSUME NEW j \in Inum, j # i PROVE new.inode[j] = old.inode[j]
    BY <1>4, <2>7, <2>8, <2>9
  <2>10. new.inode[i].type = "UNUSED" /\ old.inode[i] = img.inode[i]
    BY <1>1, <1>3, <2>8
  <2>11. QED
    BY <1>2, <1>3, <1>5, <2>1, <2>3, <2>7, <2>9, <2>10 DEF Freed, new, old, p, F
<1>7. CASE ~ img.inode[d].inline
  <2> DEFINE b == img.inode[d].block
  <2>1. p.at = "block" /\ p.block = b /\ p.slot = k
    BY <1>7 DEF EntPtr, BlockPtr
  <2> HIDE DEF p, b
  <2>2. ASSUME NEW g \in Image, NEW G, G = ClearDentry(g, p)
        PROVE  /\ G.inode = g.inode
               /\ G.blocks = [g.blocks EXCEPT ![b] = ClearSlot(g.blocks[b], k)]
    <3>1. G = [g EXCEPT !.blocks[b] = ClearSlot(g.blocks[b], k)]
      BY <2>1, <2>2 DEF ClearDentry
    <3>2. QED
      BY <3>1 DEF Image
  <2> HIDE DEF new, old
  <2>3. new = ClearDentry(F, p) /\ old = ClearDentry(img, p)
    BY DEF new, old
  <2>4. new.inode = F.inode /\ new.blocks = [F.blocks EXCEPT ![b] = ClearSlot(F.blocks[b], k)]
    BY <1>2, <2>2 DEF new
  <2>5. /\ old.inode = img.inode
        /\ old.blocks = [img.blocks EXCEPT ![b] = ClearSlot(img.blocks[b], k)]
    BY <2>2 DEF old
  <2>6. new.blocks = old.blocks
    BY <1>3, <2>4, <2>5
  <2>7. new.inode = F.inode /\ old.inode = img.inode
    BY <2>4, <2>5
  <2>8. ASSUME NEW j \in Inum, j # i PROVE new.inode[j] = old.inode[j]
    BY <1>4, <2>7, <2>8
  <2>9. QED
    BY <1>2, <1>3, <1>5, <2>1, <2>3, <2>6, <2>7, <2>8 DEF Freed, new, old, p, F
<1>8. QED
  BY <1>6, <1>7

\* A pointer to an entry leads to that entry.
LEMMA DerefEnt ==
  ASSUME NEW img, NEW dm, NEW d, NEW k \in Live(Ents(img, d))
  PROVE  Deref(img, dm, EntPtr(img, d, k)) = Ents(img, d)[k]
<1>1. k \in 1 .. Len(Ents(img, d))
  BY DEF Live
<1>2. CASE img.inode[d].inline
  BY <1>1, <1>2 DEF Deref, EntPtr, InlinePtr, Ents, SlotAt
<1>3. CASE ~ img.inode[d].inline
  <2>1. img.inode[d].block # 0
    BY <1>1, <1>3 DEF Ents
  <2>2. QED
    BY <1>1, <1>3, <2>1 DEF Deref, EntPtr, BlockPtr, Ents, SlotAt
<1>4. QED
  BY <1>2, <1>3

\* new is img without the k-th entry of d and the link it counted.
Unlinks(new, img, x, y, d, k, S, n, h, c) ==
  LET e == Ents(img, d)[k]
  IN  /\ Shape(new, x, y) /\ Counters(new) /\ Lower(new, x, n, S)
      /\ Upper(new, x, IF e.inum = x THEN h - 1 ELSE h, c)
      /\ DirsOf(new) = DirsOf(img) /\ Stays(new, img, EntPtr(img, d, k))
      /\ \A b \in DirsOf(img) \ {d} : Named(new, b) = Named(img, b)
      /\ Named(new, d) = Named(img, d) \ {e}
      /\ new.rootdir = img.rootdir
      /\ x \in img.used /\ n > 0 => x \in new.used
      /\ \A j : NamesOf(new, j) = IF j = e.inum THEN NamesOf(img, j) \ {<<d, e.name>>}
                                  ELSE NamesOf(img, j)
      /\ \A j \in DirsOf(img) :
           new.inode[j].nlink = img.inode[j].nlink + (IF j = e.inum THEN -1 ELSE 0)

\* unlink_dent, of an entry that is not a dot.  S are the spare links a file
\* may have; the links promised to x (n) keep it from being freed.
LEMMA Unlinked ==
  ASSUME TextBeyond, NEW img, NEW x, NEW y, NEW d \in DirsOf(img) \ {y}, NEW k \in Live(Ents(img, d)),
         Ents(img, d)[k].name \in Names, NEW dm \in Inum, NEW S \in SUBSET Nat,
         NEW n \in Nat, NEW h \in Int, NEW c \in Int,
         Shape(img, x, y), Counters(img), Lower(img, x, n, S), Upper(img, x, h, c)
  PROVE  Unlinks(UnlinkDent(img, dm, EntPtr(img, d, k)), img, x, y, d, k, S, n, h, c)
<1> DEFINE p == EntPtr(img, d, k)
           e == Ents(img, d)[k]
           i == e.inum
           X == DropLink(img, i)
           mid == ClearDentry(X, p)
           new == UnlinkDent(img, dm, p)
           g == IF i = x THEN h - 1 ELSE h
<1> SUFFICES /\ Shape(new, x, y) /\ Counters(new) /\ Lower(new, x, n, S)
             /\ Upper(new, x, IF e.inum = x THEN h - 1 ELSE h, c)
             /\ DirsOf(new) = DirsOf(img) /\ Stays(new, img, p)
             /\ \A b \in DirsOf(img) \ {d} : Named(new, b) = Named(img, b)
             /\ Named(new, d) = Named(img, d) \ {e}
             /\ new.rootdir = img.rootdir
             /\ x \in img.used /\ n > 0 => x \in new.used
             /\ \A j : NamesOf(new, j) = IF j = e.inum THEN NamesOf(img, j) \ {<<d, e.name>>}
                                         ELSE NamesOf(img, j)
             /\ \A j \in DirsOf(img) :
                  new.inode[j].nlink = img.inode[j].nlink + (IF j = e.inum THEN -1 ELSE 0)
  BY DEF Unlinks
<1>1. img \in Image /\ d \in Inum /\ DirsOf(img) \subseteq Inum /\ NamesInv(img)
  BY DirsInum DEF Shape, Allocated
<1>2. e \in Inside(img, d) /\ e \in Named(img, d)
  BY DEF Inside, EntSet, Named
<1>3. i \in Inum \ {0} /\ i \in img.used \ {0}
  <2>1. i \in img.used \ {0}
    BY <1>2 DEF Shape, NoDangle
  <2>2. QED
    BY <1>1, <2>1 DEF Image
<1>4. e.name \notin {Dot, DotDot}
  BY NamesAssumption
<1>5. new = ClearDentry(IF X.inode[i].nlink = 0 THEN FreeInode(X, i) ELSE X, p)
  BY <1>4, DerefEnt DEF UnlinkDent
<1>6. <<d, e.name>> \in NamesOf(img, i)
  BY <1>1, <1>2 DEF NamesOf
<1>7. img.inode[i].nlink > 0 /\ IsFiniteSet(NamesOf(img, i))
  <2> DEFINE m == IF i = x THEN n ELSE 0
             l == img.inode[i].nlink
             q == Cardinality(NamesOf(img, i))
  <2>1. IsFiniteSet(NamesOf(img, i)) /\ l - q - m \in IF img.inode[i].type = "DIR" THEN Nat \ {0} ELSE S
    BY <1>3 DEF Lower, Spare
  <2>2. l - q - m \in Nat
    BY <2>1
  <2>3. q \in Nat /\ q # 0
    BY <1>6, <2>1, FS_CardinalityType, FS_EmptySet
  <2>4. l \in Int /\ m \in Nat
    BY <1>1, <1>3, LinkPlain
  <2> HIDE DEF l, q, m
  <2>5. l > 0
    BY <2>2, <2>3, <2>4
  <2>6. QED
    BY <2>1, <2>5 DEF l
<1> HIDE DEF e, p
<1>8. /\ Shape(X, x, y) /\ DirsOf(X) = DirsOf(img) /\ X.used = img.used
      /\ X.rootdir = img.rootdir /\ Counters(X)
      /\ \A j \in Inum : X.inode[j].type = img.inode[j].type
      /\ \A j : NamesOf(X, j) = NamesOf(img, j)
      /\ \A b \in Inum : Ents(X, b) = Ents(img, b) /\ Inside(X, b) = Inside(img, b)
  BY <1>3, LinkKeeps
<1>9. /\ X.inode[i].nlink = img.inode[i].nlink - 1
      /\ \A j \in Inum \ {i} : X.inode[j].nlink = img.inode[j].nlink
      /\ \A b \in Inum : X.inode[b].inline = img.inode[b].inline /\ X.inode[b].block = img.inode[b].block
  <2>1. /\ SameInodes(X, img)
        /\ \A j \in Inum \ {i} : X.inode[j].nlink = img.inode[j].nlink
    BY <1>3, LinkSame DEF Shape
  <2>2. X.inode[i].nlink = img.inode[i].nlink - 1
    BY <1>1, <1>3, <1>7, LinkPlain
  <2>3. QED
    BY <2>1, <2>2 DEF SameInodes
<1> HIDE DEF X
<1>10. \A b \in Inum : \A j : EntPtr(X, b, j) = EntPtr(img, b, j)
  BY <1>9 DEF EntPtr
<1>11. \A b \in Inum : Named(X, b) = Named(img, b)
  BY <1>8 DEF Named
<1>12. /\ Kept(mid, X, d, 0) /\ SameLinks(mid, X) /\ Stays(mid, X, p)
       /\ e \in Named(X, d) /\ Named(mid, d) = Named(X, d) \ {e}
  <2>1. k \in Live(Ents(X, d)) /\ Ents(X, d)[k] = e /\ e.name \in Names /\ p = EntPtr(X, d, k)
        /\ d \in DirsOf(X)
    BY <1>1, <1>8, <1>10 DEF e, p
  <2> HIDE DEF mid
  <2>2. QED
    BY <1>8, <2>1, Cleared DEF mid
<1> HIDE DEF mid
<1>13. /\ Shape(mid, x, y)
       /\ \A j : NamesOf(mid, j) = IF j = i THEN NamesOf(img, j) \ {<<d, e.name>>}
                                   ELSE NamesOf(img, j)
  <2>1. /\ Shape(mid, x, y)
        /\ \A j : NamesOf(mid, j) = IF j = i THEN NamesOf(X, j) \ {<<d, e.name>>}
                                    ELSE NamesOf(X, j)
    <3>1. /\ d \in DirsOf(X) \ {y} /\ e \in Named(X, d) /\ Shape(X, x, y)
          /\ Kept(mid, X, d, 0) /\ Named(mid, d) = Named(X, d) \ {e}
      BY <1>8, <1>12
    <3> HIDE DEF i
    <3>2. /\ Shape(mid, x, y) /\ <<d, e.name>> \in NamesOf(X, e.inum)
          /\ \A j : NamesOf(mid, j) = IF j = e.inum THEN NamesOf(X, j) \ {<<d, e.name>>}
                                      ELSE NamesOf(X, j)
      <4>1. LosesName(mid, X, x, y, d, e)
        BY <3>1, RemovedLoses
      <4>2. QED
        BY <4>1 DEF LosesName
    <3>3. QED
      BY <3>2 DEF i
  <2>2. QED
    BY <1>8, <2>1
<1>14. DirsOf(mid) = DirsOf(img) /\ Counters(mid)
  BY <1>8, <1>12, KeptAllocated DEF Shape
<1>15. /\ mid.used = img.used /\ mid.rootdir = img.rootdir /\ mid \in Image
       /\ \A j \in Inum : mid.inode[j].type = img.inode[j].type
       /\ \A j \in Inum : mid.inode[j].nlink = img.inode[j].nlink + (IF j = i THEN -1 ELSE 0)
  <2>1. /\ mid.used = X.used /\ mid.rootdir = X.rootdir /\ mid \in Image
        /\ \A j \in Inum : mid.inode[j].type = X.inode[j].type /\ mid.inode[j].nlink = X.inode[j].nlink
    BY <1>12 DEF Kept, SameLinks
  <2>2. ASSUME NEW j \in Inum
        PROVE  X.inode[j].nlink = img.inode[j].nlink + (IF j = i THEN -1 ELSE 0)
    <3>1. img.inode[j].nlink \in Nat
      BY <1>1, LinkPlain
    <3>2. CASE j = i
      BY <1>9, <3>1, <3>2
    <3>3. CASE j # i
      BY <1>9, <3>1, <3>3
    <3>4. QED
      BY <3>2, <3>3
  <2>3. QED
    BY <1>8, <2>1, <2>2
<1>16. Stays(mid, img, p)
  BY <1>1, <1>8, <1>10, <1>12 DEF Stays
<1>17. Named(mid, d) = Named(img, d) \ {e} /\ \A b \in DirsOf(img) \ {d} : Named(mid, b) = Named(img, b)
  <2>1. \A b \in DirsOf(img) \ {d} : Named(mid, b) = Named(X, b)
    BY <1>8, <1>12 DEF Kept
  <2>2. QED
    BY <1>1, <1>11, <1>12, <2>1
<1>18. Lower(mid, x, n, S)
  <2>1. ASSUME NEW j \in img.used \ {0}
        PROVE  /\ IsFiniteSet(NamesOf(mid, j))
               /\ Cardinality(NamesOf(mid, j)) =
                    Cardinality(NamesOf(img, j)) + (IF j = i THEN -1 ELSE 0)
    <3>1. IsFiniteSet(NamesOf(img, j)) /\ Cardinality(NamesOf(img, j)) \in Nat
      BY FS_CardinalityType DEF Lower
    <3>2. CASE j = i
      <4>1. NamesOf(mid, i) = NamesOf(img, i) \ {<<d, e.name>>}
        BY <1>13
      <4>2. ASSUME NEW U, IsFiniteSet(U), NEW u \in U
            PROVE  IsFiniteSet(U \ {u}) /\ Cardinality(U \ {u}) = Cardinality(U) - 1
        BY <4>2, FS_RemoveElement
      <4>3. /\ IsFiniteSet(NamesOf(mid, i))
            /\ Cardinality(NamesOf(mid, i)) = Cardinality(NamesOf(img, i)) - 1
        BY <1>6, <3>1, <3>2, <4>1, <4>2
      <4>4. Cardinality(NamesOf(img, i)) - 1 = Cardinality(NamesOf(img, i)) + (-1)
        BY <3>1, <3>2
      <4>5. QED
        BY <3>2, <4>3, <4>4
    <3>3. CASE j # i
      BY <1>13, <3>1, <3>3
    <3>4. QED
      BY <3>2, <3>3
  <2>2. IF i = x THEN n = n + (-1) - (-1) ELSE n = n /\ -1 = -1
    OBVIOUS
  <2>3. n \in Int /\ -1 \in Int
    OBVIOUS
  <2>4. QED
    BY SMTT(30), <1>1, <1>3, <1>15, <2>1, <2>2, <2>3, Recounted
<1>19. Upper(mid, x, g, c)
  <2> DEFINE q == -1
  <2>1. g \in Int /\ q \in Int /\ IF i = x THEN g = h + q ELSE g = h /\ q <= 0
    OBVIOUS
  <2> HIDE DEF g
  <2>2. /\ mid.used \subseteq img.used
        /\ \A j \in mid.used : mid.inode[j].type = img.inode[j].type
        /\ \A j \in mid.used :
             mid.inode[j].nlink = img.inode[j].nlink + (IF j = i THEN q ELSE 0)
    BY <1>1, <1>15 DEF Image
  <2> HIDE DEF i, q
  <2>3. i \in Inum /\ img \in Image
    BY <1>1, <1>3
  <2>4. QED
    BY <2>1, <2>2, <2>3, UpperStep
<1>20. CASE X.inode[i].nlink # 0
  <2>1. new = mid
    BY <1>5, <1>20 DEF mid
  <2>2. QED
    BY <1>1, <1>13, <1>14, <1>15, <1>16, <1>17, <1>18, <1>19, <2>1 DEF e, p
<1>21. CASE X.inode[i].nlink = 0
  <2>1. mid.inode[i].nlink = 0
    BY <1>12, <1>21, <1>3 DEF SameLinks
  <2>2. /\ IsFiniteSet(NamesOf(mid, i)) /\ Cardinality(NamesOf(mid, i)) = 0
        /\ mid.inode[i].type # "DIR" /\ (i = x => n = 0)
    <3> DEFINE m == IF i = x THEN n ELSE 0
               q == Cardinality(NamesOf(mid, i))
    <3>1. IsFiniteSet(NamesOf(mid, i))
          /\ 0 - q - m \in IF mid.inode[i].type = "DIR" THEN Nat \ {0} ELSE S
      BY <1>3, <1>15, <1>18, <2>1 DEF Lower, Spare
    <3>2. q \in Nat /\ m \in Nat
      BY <3>1, FS_CardinalityType
    <3> HIDE DEF q, m
    <3>3. q = 0 /\ m = 0 /\ mid.inode[i].type # "DIR"
      <4>1. 0 - q - m \in Nat
        BY <3>1
      <4>2. q = 0 /\ m = 0
        BY <3>2, <4>1
      <4>3. 0 - q - m = 0
        BY <4>2
      <4>4. QED
        BY <3>1, <4>2, <4>3
    <3>4. QED
      BY <3>1, <3>3 DEF q, m
  <2>3. NamesOf(mid, i) = {}
    BY <2>2, FS_EmptySet
  <2>4. X.inode[i].type # "DIR" /\ X \in Image
    BY <1>3, <1>8, <1>15, <2>2 DEF Shape, Allocated
  <2>5. new = ClearDentry(FreeInode(X, i), p)
    BY <1>5, <1>21
  <2>6. new \in Image /\ NamesInv(new)
    <3>1. p \in Ptr
      <4>1. k \in Nat \ {0}
        BY DEF Live
      <4>2. k \in Live(Ents(img, d))
        OBVIOUS
      <4>3. QED
        BY <1>1, <4>1, <4>2, EntPtrType DEF p, Live
    <3>2. QED
      BY <1>1, <3>1, UnlinkDentType, UnlinkDentThins, ThinsKeeps
  <2> HIDE DEF new
  <2>7. Freed(new, mid, i)
    <3>1. d \in DirsOf(X) /\ p = EntPtr(X, d, k)
      BY <1>1, <1>8, <1>10 DEF p
    <3>2. QED
      BY <1>3, <2>4, <2>5, <2>6, <3>1, ClearFree DEF mid
  <2>8. /\ Shape(new, x, y) /\ Counters(new) /\ Lower(new, x, n, S) /\ Upper(new, x, g, c)
        /\ DirsOf(new) = DirsOf(mid)
        /\ \A b \in DirsOf(mid) : Ents(new, b) = Ents(mid, b)
        /\ \A j : NamesOf(new, j) = NamesOf(mid, j)
    <3>1. g \in Int /\ n \in Int
      OBVIOUS
    <3> HIDE DEF g
    <3>2. i \in mid.used \ {0}
      BY <1>3, <1>15
    <3>3. QED
      BY <1>13, <1>14, <1>18, <1>19, <2>2, <2>3, <2>7, <3>1, <3>2, FreedKeeps
  <2>9. new.rootdir = img.rootdir /\ (x \in img.used /\ n > 0 => x \in new.used)
    BY <1>15, <2>2, <2>7 DEF Freed
  <2>10. \A b \in DirsOf(img) : Named(new, b) = Named(mid, b)
    BY <1>14, <2>8 DEF Named, Inside
  <2>11. Stays(new, img, p)
    <3>1. \A b \in DirsOf(img) : i # b
      <4>1. i \notin DirsOf(img)
        BY <1>3, <1>15, <2>2 DEF DirsOf
      <4>2. QED
        BY <4>1
    <3>2. \A b \in DirsOf(img) : new.inode[b] = mid.inode[b]
      BY <1>1, <2>7, <3>1 DEF Freed
    <3>3. \A b \in DirsOf(img) : \A j : EntPtr(new, b, j) = EntPtr(mid, b, j)
      BY <3>2 DEF EntPtr
    <3>4. QED
      BY <1>14, <1>16, <2>8, <3>3 DEF Stays
  <2>12. \A j \in DirsOf(img) : new.inode[j].nlink = mid.inode[j].nlink
    <3>1. i \notin DirsOf(img)
      BY <1>3, <1>15, <2>2 DEF DirsOf
    <3>2. QED
      BY <1>1, <2>7, <3>1 DEF Freed
  <2>13. \A j \in DirsOf(img) :
           new.inode[j].nlink = img.inode[j].nlink + (IF j = i THEN -1 ELSE 0)
    BY <1>1, <1>15, <2>12
  <2>14. QED
    BY <1>13, <1>14, <1>15, <1>17, <2>8, <2>9, <2>10, <2>11, <2>13 DEF e, p, new
<1>22. QED
  BY <1>20, <1>21

-----------------------------------------------------------------------------
(* alloc_inode.                                                            *)

LEMMA TakenFields ==
  ASSUME NEW img \in Image, NEW i \in Inum, NEW type \in Types
  PROVE  LET new == AllocInode(img, i, type)
         IN  /\ new.used = img.used \union {i} /\ new.bitmap = img.bitmap
             /\ new.rootdir = img.rootdir
             /\ new.inode[i].type = type /\ new.inode[i].inline = (type = "DIR")
             /\ new.inode[i].nlink = 0 /\ new.inode[i].block = 0
             /\ new.inode[i].ents = << >>
             /\ new.inode_used = img.inode_used + 1
             /\ new.ndirectories = (IF type = "DIR" THEN img.ndirectories + 1
                                    ELSE img.ndirectories)
             /\ new.nfiles = (IF type = "REG" THEN img.nfiles + 1 ELSE img.nfiles)
  BY DEF AllocInode, ZeroInode, Image

\* A new inode has no name and, if it is a directory, no entry.
LEMMA Taken ==
  ASSUME NEW img, NEW i \in Inum \ {0}, i \notin img.used, NEW type \in Types \ {"UNUSED"},
         NEW S, 0 \in S, NEW c \in Int, c >= 2,
         Shape(img, 0, 0), Counters(img), Lower(img, 0, 0, S), Upper(img, 0, 0, c)
  PROVE  LET new == AllocInode(img, i, type)
             isDir == type = "DIR"
         IN  /\ Shape(new, i, i) /\ Counters(new)
             /\ Lower(new, i, IF isDir THEN -1 ELSE 0, S)
             /\ Upper(new, i, IF isDir THEN -2 ELSE -1, c)
             /\ DirsOf(new) = DirsOf(img) \union (IF isDir THEN {i} ELSE {})
             /\ new.used = img.used \union {i} /\ new.rootdir = img.rootdir
             /\ \A d \in DirsOf(img) : Ents(new, d) = Ents(img, d)
             /\ \A j : NamesOf(new, j) = NamesOf(img, j)
             /\ NamesOf(new, i) = {}
             /\ new.inode[i].type = type /\ new.inode[i].inline = isDir
<1> DEFINE new == AllocInode(img, i, type)
           isDir == type = "DIR"
           D == DirsOf(img)
           E == IF isDir THEN {i} ELSE {}
<1>1. /\ img \in Image /\ D \subseteq Inum /\ 0 \notin D /\ NamesInv(img)
      /\ img.used \subseteq Inum /\ i \notin D
  BY DirsInum DEF Shape, Allocated, DirsOf, Image
<1>2. /\ new \in Image /\ NamesInv(new)
      /\ \A d \in Inum \ {i} : new.inode[d] = img.inode[d] /\ Ents(new, d) = Ents(img, d)
  BY <1>1, AllocInodeType, AllocInodeNames
<1>3. /\ new.used = img.used \union {i} /\ new.bitmap = img.bitmap
      /\ new.rootdir = img.rootdir
      /\ new.inode[i].type = type /\ new.inode[i].inline = isDir
      /\ new.inode[i].nlink = 0 /\ new.inode[i].block = 0
      /\ new.inode[i].ents = << >>
      /\ new.inode_used = img.inode_used + 1
      /\ new.ndirectories = (IF isDir THEN img.ndirectories + 1 ELSE img.ndirectories)
      /\ new.nfiles = (IF type = "REG" THEN img.nfiles + 1 ELSE img.nfiles)
  BY <1>1, TakenFields
<1> HIDE DEF new
<1>4. ASSUME NEW j \in Inum, j # i PROVE new.inode[j] = img.inode[j]
  BY <1>2, <1>4
<1>5. DirsOf(new) = D \union E
  <2>1. \A j : j \in DirsOf(new) <=> j \in D \/ j \in E
    BY <1>1, <1>3, <1>4 DEF DirsOf
  <2>2. QED
    BY <2>1
<1> HIDE DEF D
<1>6. ASSUME NEW d \in D
      PROVE  /\ new.inode[d] = img.inode[d] /\ Ents(new, d) = Ents(img, d)
             /\ Inside(new, d) = Inside(img, d) /\ Named(new, d) = Named(img, d)
             /\ \A p : Up(new, d, p) <=> Up(img, d, p)
  <2>1. new.inode[d] = img.inode[d] /\ Ents(new, d) = Ents(img, d)
    BY <1>1, <1>2
  <2>2. QED
    BY <2>1 DEF Inside, Named, Up
<1>7. ASSUME NEW d \in E
      PROVE  /\ Inside(new, d) = {} /\ Named(new, d) = {}
             /\ new.inode[d].inline /\ new.inode[d].block = 0 /\ d = i
  <2>1. d = i /\ isDir
    OBVIOUS
  <2>2. Ents(new, d) = << >>
    BY <1>3, <2>1 DEF Ents
  <2>3. Inside(new, d) = {}
    BY <2>2 DEF Inside, EntSet, Live
  <2>4. QED
    BY <1>3, <2>1, <2>3 DEF Named
<1>8. \A j : NamesOf(new, j) = NamesOf(img, j)
  <2> TAKE j
  <2>1. \A at \in Inum \X Names : at \in NamesOf(new, j) <=> at \in NamesOf(img, j)
    BY <1>1, <1>5, <1>6, <1>7 DEF NamesOf, D
  <2>2. NamesOf(new, j) \subseteq Inum \X Names /\ NamesOf(img, j) \subseteq Inum \X Names
    BY DEF NamesOf
  <2>3. QED
    BY <2>1, <2>2
<1>9. NamesOf(img, i) = {}
  <2>1. \A d \in D : \A e \in Named(img, d) : e.inum # i
    BY DEF Shape, NoDangle, D
  <2>2. QED
    BY <2>1 DEF NamesOf, D
<1>10. Allocated(new)
  <2>1. 0 \in new.used /\ new.inode[0].type = "UNUSED"
    BY <1>3, <1>4, ZeroInum DEF Shape, Allocated
  <2>2. ASSUME NEW j \in Inum \ {0} PROVE j \in new.used <=> new.inode[j].type # "UNUSED"
    BY <1>3, <1>4 DEF Shape, Allocated
  <2>3. new.rootdir \in DirsOf(new)
    BY <1>3, <1>5 DEF Shape, Allocated, D
  <2>4. QED
    BY <1>2, <2>1, <2>2, <2>3 DEF Allocated
<1>11. Owned(new)
  <2> SUFFICES ASSUME NEW d \in D \union E
               PROVE  IF new.inode[d].inline THEN new.inode[d].block = 0
                      ELSE /\ new.inode[d].block \in new.bitmap
                           /\ \A e \in (D \union E) \ {d} : new.inode[e].block # new.inode[d].block
    BY <1>5 DEF Owned
  <2>1. CASE d \in E
    BY <1>7, <2>1
  <2>2. CASE d \in D /\ img.inode[d].inline
    BY <1>6, <2>2 DEF Owned, Shape, D
  <2>3. CASE d \in D /\ ~ img.inode[d].inline
    <3>1. /\ new.inode[d].block = img.inode[d].block /\ img.inode[d].block \in img.bitmap
          /\ \A e \in D \ {d} : img.inode[e].block # img.inode[d].block
          /\ ~ new.inode[d].inline
      BY <1>6, <2>3 DEF Owned, Shape, D
    <3>2. img.inode[d].block # 0
      BY <1>1, <3>1 DEF Image, BlockNo
    <3>3. \A e \in D \ {d} : new.inode[e].block # new.inode[d].block
      BY <1>6, <3>1
    <3>4. \A e \in E : new.inode[e].block # new.inode[d].block
      BY <1>7, <3>1, <3>2
    <3>5. QED
      BY <1>3, <3>1, <3>3, <3>4
  <2>4. QED
    BY <2>1, <2>2, <2>3
<1>12. Dotted(new)
  BY <1>5, <1>6, <1>7 DEF Dotted, Shape, D
<1>13. NoDangle(new)
  <2> SUFFICES ASSUME NEW d \in D, NEW e \in Named(img, d)
               PROVE  e.inum \in new.used \ {0} /\ new.inode[e.inum].type = e.file_type
    BY <1>5, <1>6, <1>7 DEF NoDangle
  <2>1. e.inum \in img.used \ {0} /\ img.inode[e.inum].type = e.file_type
    BY DEF NoDangle, Shape, D
  <2>2. QED
    BY <1>1, <1>3, <1>4, <2>1
<1>14. HasUp(new, i)
  <2> SUFFICES ASSUME NEW d \in D \union E, d # i \/ ~ new.inode[d].inline
               PROVE  \E p \in D \union E : Up(new, d, p)
    BY <1>5 DEF HasUp
  <2>1. d \in D
    BY <1>7
  <2>2. \E p \in D : Up(img, d, p)
    BY <1>1, <2>1 DEF HasUp, Shape, D
  <2>3. QED
    BY <1>6, <2>1, <2>2
<1>15. OneName(new)
  <2> SUFFICES ASSUME NEW b \in D, NEW d \in D, NEW e \in Named(img, b), NEW f \in Named(img, d),
                      e.inum = f.inum, e.inum \in D \union E
               PROVE  b = d /\ e = f
    BY <1>5, <1>6, <1>7 DEF OneName
  <2>1. e.inum # i
    BY DEF Shape, NoDangle, D
  <2>2. e.inum \in D
    BY <1>7, <2>1
  <2>3. QED
    BY <2>2 DEF OneName, Shape, D
<1>16. Parents(new, i)
  <2> SUFFICES ASSUME NEW d \in D, NEW e \in Named(img, d), e.inum \in D \union E, e.inum # i
               PROVE  Up(new, e.inum, d)
    BY <1>5, <1>6, <1>7 DEF Parents
  <2>1. e.inum \in D /\ e.inum # 0
    BY <1>1, <1>7
  <2>2. Up(img, e.inum, d)
    BY <2>1 DEF Parents, Shape, D
  <2>3. QED
    BY <1>6, <2>1, <2>2
<1>17. Shape(new, i, i)
  BY <1>10, <1>11, <1>12, <1>13, <1>14, <1>15, <1>16 DEF Shape
<1>18. Lower(new, i, IF isDir THEN -1 ELSE 0, S)
  <2> DEFINE n == IF isDir THEN -1 ELSE 0
  <2> SUFFICES ASSUME NEW j \in new.used \ {0}
               PROVE  /\ IsFiniteSet(NamesOf(new, j))
                      /\ new.inode[j].nlink - Cardinality(NamesOf(new, j))
                           - (IF j = i THEN n ELSE 0) \in
                           IF new.inode[j].type = "DIR" THEN Nat \ {0} ELSE S
    BY DEF Lower, Spare
  <2>1. CASE j = i
    <3>1. NamesOf(new, j) = {}
      BY <1>8, <1>9, <2>1
    <3>2. IsFiniteSet(NamesOf(new, j)) /\ Cardinality(NamesOf(new, j)) = 0
      BY <3>1, FS_EmptySet
    <3>3. new.inode[j].nlink = 0 /\ new.inode[j].type = type
      BY <1>3, <2>1
    <3>4. (0 - 0 - n) \in IF isDir THEN Nat \ {0} ELSE S
      OBVIOUS
    <3> HIDE DEF n
    <3>5. QED
      BY <2>1, <3>2, <3>3, <3>4
  <2>2. CASE j # i
    <3>1. j \in img.used \ {0} /\ new.inode[j] = img.inode[j] /\ NamesOf(new, j) = NamesOf(img, j)
      BY <1>1, <1>3, <1>4, <1>8, <2>2
    <3>2. /\ IsFiniteSet(NamesOf(img, j))
          /\ img.inode[j].nlink - Cardinality(NamesOf(img, j)) - (IF j = 0 THEN 0 ELSE 0) \in
               IF img.inode[j].type = "DIR" THEN Nat \ {0} ELSE S
      BY <3>1 DEF Lower, Spare
    <3>3. QED
      BY <2>2, <3>1, <3>2
  <2>3. QED
    BY <2>1, <2>2
<1>19. Upper(new, i, IF isDir THEN -2 ELSE -1, c)
  <2> DEFINE h == IF isDir THEN -2 ELSE -1
  <2> SUFFICES ASSUME NEW j \in new.used \ {0}
               PROVE  new.inode[j].nlink <=
                        (IF new.inode[j].type = "DIR" THEN c ELSE MaxLinks + 1)
                          + (IF j = i THEN h ELSE 0)
    BY DEF Upper
  <2>1. CASE j = i
    <3>1. new.inode[j].nlink = 0 /\ new.inode[j].type = type
      BY <1>3, <2>1
    <3>2. MaxLinks \in Nat
      BY HfsAssumption
    <3>3. 0 <= (IF isDir THEN c ELSE MaxLinks + 1) + h
      BY <3>2
    <3> HIDE DEF h
    <3>4. QED
      BY <2>1, <3>1, <3>3
  <2>2. CASE j # i
    <3>1. j \in img.used \ {0} /\ new.inode[j] = img.inode[j]
      BY <1>1, <1>3, <1>4, <2>2
    <3>2. img.inode[j].nlink <=
            (IF img.inode[j].type = "DIR" THEN c ELSE MaxLinks + 1) + (IF j = 0 THEN 0 ELSE 0)
      BY <3>1 DEF Upper
    <3>3. QED
      BY <2>2, <3>1, <3>2
  <2>3. QED
    BY <2>1, <2>2
<1>20. Counters(new)
  <2>1. new.used \ {0} = (img.used \ {0}) \union {i} /\ i \notin img.used \ {0}
    BY <1>3
  <2>2. ASSUME NEW t
        PROVE  /\ UsedOf(new, {t}) = UsedOf(img, {t}) \union (IF type = t THEN {i} ELSE {})
               /\ i \notin UsedOf(img, {t})
    BY <1>1, <1>3, <1>4 DEF UsedOf
  <2>3. /\ IsFiniteSet(img.used \ {0}) /\ \A types : IsFiniteSet(UsedOf(img, types))
    BY <1>1, UsedFinite
  <2>4. ASSUME NEW U, IsFiniteSet(U), i \notin U PROVE Cardinality(U \union {i}) = Cardinality(U) + 1
    BY <2>4, FS_AddElement
  <2>5. Cardinality(new.used \ {0}) = Cardinality(img.used \ {0}) + 1
    BY <2>1, <2>3, <2>4
  <2>6. ASSUME NEW t
        PROVE  Cardinality(UsedOf(new, {t})) =
                 IF type = t THEN Cardinality(UsedOf(img, {t})) + 1
                 ELSE Cardinality(UsedOf(img, {t}))
    <3>1. CASE type = t
      BY <2>2, <2>3, <2>4, <3>1
    <3>2. CASE type # t
      <4>1. UsedOf(img, {t}) \union {} = UsedOf(img, {t})
        OBVIOUS
      <4>2. QED
        BY <2>2, <3>2, <4>1
    <3>3. QED
      BY <3>1, <3>2
  <2>7. new.inode_used = Cardinality(new.used \ {0})
    BY <1>3, <2>5 DEF Counters
  <2>8. new.ndirectories = Cardinality(UsedOf(new, {"DIR"}))
    <3>1. img.ndirectories = Cardinality(UsedOf(img, {"DIR"}))
      BY DEF Counters
    <3>2. new.ndirectories = IF type = "DIR" THEN img.ndirectories + 1 ELSE img.ndirectories
      BY <1>3
    <3>3. QED
      BY <2>6, <3>1, <3>2
  <2>9. new.nfiles = Cardinality(UsedOf(new, {"REG"}))
    <3>1. img.nfiles = Cardinality(UsedOf(img, {"REG"}))
      BY DEF Counters
    <3>2. new.nfiles = IF type = "REG" THEN img.nfiles + 1 ELSE img.nfiles
      BY <1>3
    <3>3. QED
      BY <2>6, <3>1, <3>2
  <2>10. QED
    BY <2>7, <2>8, <2>9 DEF Counters
<1>21. QED
  BY <1>3, <1>5, <1>6, <1>8, <1>9, <1>17, <1>18, <1>19, <1>20 DEF new, D

-----------------------------------------------------------------------------
(* The parent of a directory.                                              *)

\* The same names, links and types: the same accounts.
LEMMA SameAccounts ==
  ASSUME NEW old, NEW new, NEW x, NEW S, NEW n, NEW h, NEW c, old \in Image,
         new.used = old.used, SameLinks(new, old),
         \A j \in Inum : new.inode[j].type = old.inode[j].type,
         \A j : NamesOf(new, j) = NamesOf(old, j)
  PROVE  /\ Lower(old, x, n, S) => Lower(new, x, n, S)
         /\ Upper(old, x, h, c) => Upper(new, x, h, c)
<1>1. \A j \in old.used : /\ new.inode[j].type = old.inode[j].type
                          /\ new.inode[j].nlink = old.inode[j].nlink
  BY DEF SameLinks, Image
<1>2. QED
  BY <1>1 DEF Lower, Upper, Spare

\* What leads up from i is replaced: p_inum, or the entry "..".
LEMMA Redirected ==
  ASSUME NEW img, NEW x, NEW y, Shape(img, x, y), NEW i \in DirsOf(img),
         NEW parent \in DirsOf(img), i # y \/ img.inode[i].inline
  PROVE  LET new == UpdateDirInode(img, i, parent)
         IN  /\ Kept(new, img, 0, i) /\ SameLinks(new, img)
             /\ \A p : Up(new, i, p) <=> p = parent
<1> DEFINE D == DirsOf(img)
           new == UpdateDirInode(img, i, parent)
<1>1. /\ img \in Image /\ D \subseteq Inum /\ 0 \notin D /\ NamesInv(img)
      /\ i \in Inum \ {0} /\ parent \in Inum \ {0} /\ img.inode[i].type = "DIR"
  BY DirsInum DEF Shape, Allocated, DirsOf
<1>2. new \in Image /\ NamesInv(new)
  BY <1>1, UpdateDirInodeType, UpdateDirInodeThins, ThinsKeeps
<1>3. CASE img.inode[i].inline
  <2>1. new = [img EXCEPT !.inode[i].p_inum = parent]
    BY <1>1, <1>3 DEF UpdateDirInode
  <2> HIDE DEF new
  <2>2. /\ new.used = img.used /\ new.bitmap = img.bitmap /\ new.rootdir = img.rootdir
        /\ new.inode_used = img.inode_used /\ new.ndirectories = img.ndirectories
        /\ new.nfiles = img.nfiles /\ new.blocks = img.blocks
    BY <1>1, <2>1 DEF Image
  <2>3. \A j \in Inum : /\ new.inode[j].type = img.inode[j].type
                        /\ new.inode[j].inline = img.inode[j].inline
                        /\ new.inode[j].block = img.inode[j].block
                        /\ new.inode[j].ents = img.inode[j].ents
                        /\ new.inode[j].nlink = img.inode[j].nlink
    BY <1>1, <2>1 DEF Image, Inode
  <2>4. new.inode[i].p_inum = parent /\ \A j \in Inum \ {i} : new.inode[j].p_inum = img.inode[j].p_inum
    BY <1>1, <2>1 DEF Image, Inode
  <2>5. DirsOf(new) = D
    BY <1>1, <2>2, <2>3 DEF DirsOf, Image
  <2> HIDE DEF D
  <2>6. \A d \in D : Inside(new, d) = Inside(img, d) /\ Named(new, d) = Named(img, d)
    BY <1>1, <2>2, <2>3 DEF Inside, Named, Ents
  <2>7. Owned(new)
    BY <1>1, <2>2, <2>3, <2>5 DEF Owned, Shape, D
  <2>8. Dotted(new)
    BY <1>1, <2>3, <2>5, <2>6 DEF Dotted, Shape, D
  <2>9. \A d \in D \ {i} : \A p : Up(new, d, p) <=> Up(img, d, p)
    BY <1>1, <2>3, <2>4, <2>6 DEF Up
  <2>10. \A p : Up(new, i, p) <=> p = parent
    BY <1>1, <1>3, <2>3, <2>4 DEF Up
  <2>11. Kept(new, img, 0, i) /\ SameLinks(new, img)
    <3>1. SameLinks(new, img)
      BY <2>3 DEF SameLinks
    <3>2. QED
      BY <1>1, <1>2, <2>2, <2>3, <2>6, <2>7, <2>8, <2>9, <3>1 DEF Kept, D
  <2>12. QED
    BY <2>10, <2>11 DEF new
<1>4. CASE ~ img.inode[i].inline
  <2> DEFINE b == img.inode[i].block
             s == img.blocks[b]
             s1 == SetDotInum(s, Dot, i)
             t == SetDotInum(s1, DotDot, parent)
  <2>1. b \in BlockNo
    BY <1>1, <1>4 DEF Shape, Owned, Image
  <2>2. Ents(img, i) = s /\ s \in Seq(Dentry) /\ Distinct(s)
    <3>1. b # 0
      BY <2>1 DEF BlockNo
    <3>2. QED
      BY <1>1, <1>4, <2>1, <3>1 DEF Ents, Image, NamesInv
  <2>3. new = SetEnts(img, i, t)
    BY <1>1, <1>4 DEF UpdateDirInode, SetEnts
  <2>4. PICK f1 \in EntSet(s) : f1.name = Dot /\ f1.inum = i
    BY <1>1, <1>4, <2>2 DEF Shape, Dotted, Inside
  <2>5. PICK f2 \in EntSet(s) : f2.name = DotDot
    <3>1. \E p \in D : Up(img, i, p)
      BY <1>4 DEF Shape, HasUp
    <3>2. QED
      BY <1>4, <2>2, <3>1 DEF Up, Inside
  <2> HIDE DEF s, s1, t
  <2>6. s1 \in Seq(Dentry) /\ EntSet(s1) = EntSet(s)
    BY <1>1, <2>2, <2>4, SetDotSet, SetDotInumType DEF s1
  <2>7. Distinct(s1)
    BY <1>1, <2>2, SetDotThins, ThinnerKeeps DEF s1
  <2>8. EntSet(t) = (EntSet(s) \ {f2}) \union {[f2 EXCEPT !.inum = parent]} /\ t \in Seq(Dentry)
    BY <1>1, <2>5, <2>6, <2>7, SetDotSet, SetDotInumType DEF t
  <2>9. \A e, f \in EntSet(s) : e.name = f.name => e = f
    BY <2>2 DEF Distinct, EntSet
  <2> DEFINE dots == [f2 EXCEPT !.inum = parent]
  <2>10. dots.name = DotDot /\ dots.inum = parent
    <3>1. f2 \in Dentry
      BY <2>2 DEF EntSet, Live
    <3>2. QED
      BY <2>5, <3>1 DEF Dentry
  <2> HIDE DEF dots, new
  <2>11. Dot \notin Names /\ DotDot \notin Names /\ Dot # DotDot
    BY NamesAssumption DEF Dot, DotDot
  <2>12. EntSet(t) = (EntSet(s) \ {f2}) \union {dots}
    BY <2>8 DEF dots
  <2>13. /\ SameTable(new, img) /\ Ents(new, i) = t
         /\ \A c \in D \ {i} : Ents(new, c) = Ents(img, c)
    BY <2>3, <2>8, SetEntsIs DEF Shape
  <2>14. /\ new.used = img.used /\ new.bitmap = img.bitmap /\ new.rootdir = img.rootdir
         /\ new.inode_used = img.inode_used /\ new.ndirectories = img.ndirectories
         /\ new.nfiles = img.nfiles
         /\ \A j \in Inum : /\ new.inode[j].type = img.inode[j].type
                            /\ new.inode[j].inline = img.inode[j].inline
                            /\ new.inode[j].block = img.inode[j].block
                            /\ new.inode[j].p_inum = img.inode[j].p_inum
                            /\ new.inode[j].nlink = img.inode[j].nlink
    BY <2>13 DEF SameTable
  <2>15. DirsOf(new) = D
    BY <1>1, <2>14 DEF DirsOf, Image
  <2> HIDE DEF D
  <2>16. /\ Inside(new, i) = EntSet(t) /\ Inside(img, i) = EntSet(s)
         /\ \A d \in D \ {i} : Inside(new, d) = Inside(img, d)
    BY <2>2, <2>13 DEF Inside
  <2>17. \A d \in D : Named(new, d) = Named(img, d)
    <3>1. Named(new, i) = Named(img, i)
      BY <2>5, <2>10, <2>11, <2>12, <2>16 DEF Named
    <3>2. QED
      BY <2>16, <3>1 DEF Named
  <2>18. Owned(new)
    BY <1>1, <2>14, <2>15 DEF Owned, Shape, D
  <2>19. Dotted(new)
    <3>1. f1 \in Inside(new, i)
      BY <2>4, <2>5, <2>11, <2>12, <2>16
    <3>2. ASSUME NEW d \in D \ {i}, ~ new.inode[d].inline
          PROVE  \E e \in Inside(new, d) : e.name = Dot /\ e.inum = d
      <4>1. \E e \in Inside(img, d) : e.name = Dot /\ e.inum = d
        BY <1>1, <2>14, <3>2 DEF Shape, Dotted, D
      <4>2. QED
        BY <2>16, <4>1
    <3>3. QED
      BY <2>4, <2>15, <3>1, <3>2 DEF Dotted
  <2>20. \A d \in D \ {i} : \A p : Up(new, d, p) <=> Up(img, d, p)
    BY <1>1, <2>14, <2>16 DEF Up
  <2>21. \A p : Up(new, i, p) <=> p = parent
    <3>1. \A e \in Inside(new, i) : e.name = DotDot <=> e = dots
      BY <2>5, <2>9, <2>10, <2>12, <2>16
    <3>2. dots \in Inside(new, i)
      BY <2>12, <2>16
    <3>3. ~ new.inode[i].inline
      BY <1>1, <1>4, <2>14
    <3>4. QED
      BY <2>10, <3>1, <3>2, <3>3 DEF Up
  <2>22. SameLinks(new, img)
    BY <2>14 DEF SameLinks
  <2>23. Kept(new, img, 0, i)
    BY <1>1, <1>2, <2>14, <2>17, <2>18, <2>19, <2>20 DEF Kept, D
  <2>24. QED
    BY <2>21, <2>22, <2>23 DEF new
<1>5. QED
  BY <1>3, <1>4

\* No inode is left on the move.
LEMMA AtRest ==
  ASSUME NEW img, NEW x, NEW y, Shape(img, x, y), x \notin DirsOf(img), y \notin DirsOf(img)
  PROVE  Shape(img, 0, 0)
<1>1. 0 \notin DirsOf(img)
  BY DEF Shape, Allocated, DirsOf
<1>2. HasUp(img, 0)
  BY DEF HasUp, Shape
<1>3. Parents(img, 0)
  BY DEF Parents, Shape
<1>4. QED
  BY <1>2, <1>3 DEF Shape

\* A moved directory gets its new parent.
LEMMA Reparented ==
  ASSUME NEW img, NEW y, NEW i \in DirsOf(img), Shape(img, i, y), y \in {0, i},
         NEW parent \in DirsOf(img), i # y \/ img.inode[i].inline,
         \A c \in DirsOf(img) : \A e \in Named(img, c) : e.inum = i => c = parent
  PROVE  LET new == UpdateDirInode(img, i, parent)
         IN  /\ Shape(new, 0, 0) /\ DirsOf(new) = DirsOf(img) /\ new.used = img.used
             /\ SameLinks(new, img) /\ \A j \in Inum : new.inode[j].type = img.inode[j].type
             /\ Counters(img) => Counters(new)
             /\ \A j : NamesOf(new, j) = NamesOf(img, j)
<1> DEFINE D == DirsOf(img)
           new == UpdateDirInode(img, i, parent)
<1>1. img \in Image /\ D \subseteq Inum /\ 0 \notin D
  BY DirsInum DEF Shape, Allocated, DirsOf
<1>2. /\ Kept(new, img, 0, i) /\ SameLinks(new, img)
      /\ \A p : Up(new, i, p) <=> p = parent
  BY Redirected
<1> HIDE DEF new
<1>3. /\ Allocated(new) /\ DirsOf(new) = D /\ (Counters(img) => Counters(new))
  BY <1>2, KeptAllocated DEF Shape
<1> HIDE DEF D
<1>4. /\ new.used = img.used /\ \A j \in Inum : new.inode[j].type = img.inode[j].type
      /\ Owned(new) /\ Dotted(new)
      /\ \A c \in D : Named(new, c) = Named(img, c) /\ new.inode[c].inline = img.inode[c].inline
      /\ \A c \in D \ {i} : \A p : Up(new, c, p) <=> Up(img, c, p)
  BY <1>1, <1>2 DEF Kept, D
<1>5. NoDangle(new)
  <2>1. img.used \subseteq Inum
    BY <1>1 DEF Image
  <2>2. QED
    BY <1>3, <1>4, <2>1 DEF NoDangle, Shape, D
<1>6. HasUp(new, 0)
  <2> SUFFICES ASSUME NEW c \in D PROVE \E p \in D : Up(new, c, p)
    BY <1>3 DEF HasUp
  <2>1. CASE c = i
    BY <1>2, <2>1 DEF D
  <2>2. CASE c # i
    <3>1. \E p \in D : Up(img, c, p)
      BY <1>1, <2>2 DEF HasUp, Shape, D
    <3>2. QED
      BY <1>4, <2>2, <3>1
  <2>3. QED
    BY <2>1, <2>2
<1>7. OneName(new)
  BY <1>3, <1>4 DEF OneName, Shape, D
<1>8. Parents(new, 0)
  <2> SUFFICES ASSUME NEW c \in D, NEW e \in Named(img, c), e.inum \in D
               PROVE  Up(new, e.inum, c)
    BY <1>3, <1>4 DEF Parents
  <2>1. CASE e.inum = i
    BY <1>2, <2>1 DEF D
  <2>2. CASE e.inum # i
    <3>1. Up(img, e.inum, c)
      BY <2>2 DEF Parents, Shape, D
    <3>2. QED
      BY <1>4, <2>2, <3>1
  <2>3. QED
    BY <2>1, <2>2
<1>9. \A j : NamesOf(new, j) = NamesOf(img, j)
  BY <1>3, <1>4 DEF NamesOf, D
<1>10. Shape(new, 0, 0)
  BY <1>3, <1>4, <1>5, <1>6, <1>7, <1>8 DEF Shape
<1>11. QED
  BY <1>2, <1>3, <1>4, <1>9, <1>10 DEF new, D

\* The names that lead to an inode, entry by entry.
LEMMA NamesAre ==
  ASSUME NEW img, Allocated(img), NEW i
  PROVE  \A c \in DirsOf(img) : \A e \in Named(img, c) :
           e.inum = i <=> <<c, e.name>> \in NamesOf(img, i)
<1>1. img \in Image /\ DirsOf(img) \subseteq Inum /\ NamesInv(img)
  BY DirsInum DEF Allocated
<1> TAKE c \in DirsOf(img)
<1> TAKE e \in Named(img, c)
<1>2. e.name \in Names /\ c \in Inum
  BY <1>1 DEF Named
<1>3. \A f \in Named(img, c) : f.name = e.name => f = e
  BY <1>1, <1>2, NamedOnce DEF Named
<1>4. QED
  BY <1>2, <1>3 DEF NamesOf

\* A link more of a directory than it has subdirectories named.
LEMMA Raised ==
  ASSUME NEW img \in Image, NEW d \in DirsOf(img), NEW S, NEW c \in Int
  PROVE  /\ Lower(img, d, 1, S) => Lower(img, 0, 0, S)
         /\ Upper(img, d, 1, c) => Upper(img, 0, 0, c + 1)
<1>1. ASSUME Lower(img, d, 1, S), NEW i \in img.used \ {0}
      PROVE  /\ IsFiniteSet(NamesOf(img, i))
             /\ Spare(img, i, IF i = 0 THEN 0 ELSE 0) \in
                  IF img.inode[i].type = "DIR" THEN Nat \ {0} ELSE S
  <2> DEFINE l == img.inode[i].nlink
             k == Cardinality(NamesOf(img, i))
  <2>1. /\ IsFiniteSet(NamesOf(img, i))
        /\ l - k - (IF i = d THEN 1 ELSE 0) \in
             IF img.inode[i].type = "DIR" THEN Nat \ {0} ELSE S
    BY <1>1 DEF Lower, Spare
  <2>2. l \in Nat /\ k \in Nat
    BY <2>1, LinkPlain, FS_CardinalityType DEF Image
  <2>3. i = d => img.inode[i].type = "DIR"
    BY DEF DirsOf
  <2> HIDE DEF l, k
  <2>4. l - k - 0 \in IF img.inode[i].type = "DIR" THEN Nat \ {0} ELSE S
    <3>1. CASE i = d
      <4>1. l - k - 1 \in Nat \ {0}
        BY <2>1, <2>3, <3>1
      <4>2. l - k - 0 \in Nat \ {0}
        BY <2>2, <4>1
      <4>3. QED
        BY <2>3, <3>1, <4>2
    <3>2. CASE i # d
      BY <2>1, <3>2
    <3>3. QED
      BY <3>1, <3>2
  <2>5. QED
    BY <2>1, <2>4 DEF l, k, Spare
<1>2. ASSUME Upper(img, d, 1, c), NEW i \in img.used \ {0}
      PROVE  img.inode[i].nlink <=
               (IF img.inode[i].type = "DIR" THEN c + 1 ELSE MaxLinks + 1)
                 + (IF i = 0 THEN 0 ELSE 0)
  <2> DEFINE l == img.inode[i].nlink
  <2>1. l <= (IF img.inode[i].type = "DIR" THEN c ELSE MaxLinks + 1) + (IF i = d THEN 1 ELSE 0)
    BY <1>2 DEF Upper
  <2>2. l \in Nat /\ MaxLinks \in Nat
    BY LinkPlain, HfsAssumption DEF Image
  <2>3. i = d => img.inode[i].type = "DIR"
    BY DEF DirsOf
  <2> HIDE DEF l
  <2>4. l <= (IF img.inode[i].type = "DIR" THEN c + 1 ELSE MaxLinks + 1)
    BY <2>1, <2>2, <2>3
  <2>5. QED
    BY <2>2, <2>4 DEF l
<1>3. QED
  BY <1>1, <1>2 DEF Lower, Upper

-----------------------------------------------------------------------------
(* do_creat.                                                               *)

LEMMA MadeFile ==
  ASSUME LinksFit, NEW img, NEW S \in SUBSET Nat, 0 \in S, TreeInv(img, S),
         NEW d \in DirsOf(img), NEW i \in Inum \ {0}, i \notin img.used,
         NEW type \in {"REG", "SYM"}, NEW name \in Names,
         Fits(AllocInode(img, i, type), d), Absent(Ents(img, d), name)
  PROVE  LET new == DoCreat(img, d, i, name, type)
         IN  TreeInv(new, S) /\ new.inode[i].type = type /\ i \in new.used
<1> DEFINE new == DoCreat(img, d, i, name, type)
           A == AllocInode(img, i, type)
           c == DirBound(img)
<1>1. /\ img \in Image /\ DirsOf(img) \subseteq Inum /\ Allocated(img)
      /\ Shape(img, 0, 0) /\ Counters(img) /\ Lower(img, 0, 0, S) /\ Upper(img, 0, 0, c)
  BY DirsInum DEF TreeInv, Shape, Allocated
<1>2. c \in Nat /\ c <= MaxInum + 1 /\ c >= 2
  <2>1. IsFiniteSet(DirsOf(img)) /\ DirsOf(img) # {}
    BY <1>1, DirBoundType DEF Allocated
  <2>2. Cardinality(DirsOf(img)) \in Nat \ {0}
    BY <2>1, FS_CardinalityType, FS_EmptySet
  <2>3. QED
    BY <1>1, <2>2, DirBoundType DEF DirBound
<1>3. type \in Types \ {"UNUSED"} /\ type # "DIR"
  BY DEF Types
<1>4. new = NewDentry(A, d, i, name)
  BY <1>3 DEF DoCreat
<1> HIDE DEF c
<1>5. /\ Shape(A, i, i) /\ Counters(A) /\ Lower(A, i, 0, S) /\ Upper(A, i, -1, c)
      /\ DirsOf(A) = DirsOf(img)
      /\ A.used = img.used \union {i}
      /\ \A b \in DirsOf(img) : Ents(A, b) = Ents(img, b)
      /\ A.inode[i].type = type
  <2>1. c \in Int
    BY <1>2
  <2>2. LET isDir == type = "DIR"
        IN  /\ Shape(A, i, i) /\ Counters(A)
            /\ Lower(A, i, IF isDir THEN -1 ELSE 0, S)
            /\ Upper(A, i, IF isDir THEN -2 ELSE -1, c)
            /\ DirsOf(A) = DirsOf(img) \union (IF isDir THEN {i} ELSE {})
            /\ A.used = img.used \union {i} /\ A.rootdir = img.rootdir
            /\ \A b \in DirsOf(img) : Ents(A, b) = Ents(img, b)
            /\ \A j : NamesOf(A, j) = NamesOf(img, j)
            /\ NamesOf(A, i) = {}
            /\ A.inode[i].type = type /\ A.inode[i].inline = isDir
    BY <1>1, <1>2, <1>3, <2>1, Taken
  <2>3. DirsOf(img) \union {} = DirsOf(img)
    OBVIOUS
  <2>4. QED
    BY <1>3, <2>2, <2>3
<1> HIDE DEF A, new
<1>6. i \notin DirsOf(img) /\ i \in A.used \ {0} /\ d \in DirsOf(A) \ {i}
  BY <1>5 DEF DirsOf
<1>7. /\ Shape(new, i, i) /\ Lower(new, i, 0, S) /\ Upper(new, i, 0, c)
      /\ DirsOf(new) = DirsOf(A) /\ new.used = A.used
      /\ \A j \in Inum : new.inode[j].type = A.inode[j].type
      /\ Counters(new)
  <2> DEFINE h == -1
             n == 0
  <2>1. /\ h \in Int /\ h <= 0 /\ n \in Int /\ c \in Int /\ h + 1 = 0 /\ c <= MaxInum + 1
        /\ Upper(A, i, h, c) /\ Lower(A, i, n, S)
    BY <1>2, <1>5
  <2>2. Fits(A, d) /\ Absent(Ents(A, d), name) /\ (i \in DirsOf(A) => NamesOf(A, i) = {})
    BY <1>5, <1>6 DEF A
  <2> HIDE DEF h, n
  <2>3. LET G == NewDentry(A, d, i, name)
        IN  /\ Shape(G, i, i) /\ Lower(G, i, n, S) /\ Upper(G, i, h + 1, c)
            /\ DirsOf(G) = DirsOf(A) /\ G.used = A.used
            /\ G.rootdir = A.rootdir
            /\ \A j \in Inum : G.inode[j].type = A.inode[j].type
            /\ \A j \in DirsOf(A) \ {d} : G.inode[j].inline = A.inode[j].inline
            /\ Counters(A) => Counters(G)
            /\ \A j : NamesOf(G, j) = IF j = i THEN NamesOf(A, j) \union {<<d, name>>}
                                       ELSE NamesOf(A, j)
    BY <1>5, <1>6, <2>1, <2>2, NewName
  <2>4. QED
    BY <1>4, <1>5, <2>1, <2>3 DEF n
<1>8. Shape(new, 0, 0)
  BY <1>5, <1>6, <1>7, AtRest
<1>9. DirBound(new) = c
  BY <1>5, <1>7 DEF DirBound, c
<1>10. new \in Image /\ c \in Int
  BY <1>2, <1>7 DEF Shape, Allocated
<1>11. Lower(new, 0, 0, S) /\ Upper(new, 0, 0, c)
  BY <1>7, <1>10, Accounts
<1>12. QED
  BY <1>5, <1>6, <1>7, <1>8, <1>9, <1>11 DEF TreeInv, new

LEMMA MadeDir ==
  ASSUME LinksFit, NEW img, NEW S \in SUBSET Nat, 0 \in S, TreeInv(img, S),
         NEW d \in DirsOf(img), NEW i \in Inum \ {0}, i \notin img.used, NEW name \in Names,
         Fits(AllocInode(img, i, "DIR"), d), Absent(Ents(img, d), name)
  PROVE  TreeInv(DoCreat(img, d, i, name, "DIR"), S)
<1> DEFINE A == AllocInode(img, i, "DIR")
           B == NewDentry(A, d, i, name)
           C == [B EXCEPT !.inode[i].p_inum = d]
           E == AddLink(C, i)
           F == AddLink(E, d)
           c == DirBound(img)
<1>1. /\ img \in Image /\ DirsOf(img) \subseteq Inum /\ Allocated(img)
      /\ Shape(img, 0, 0) /\ Counters(img) /\ Lower(img, 0, 0, S) /\ Upper(img, 0, 0, c)
  BY DirsInum DEF TreeInv, Shape, Allocated
<1>2. c \in Nat /\ c <= MaxInum + 1 /\ c >= 2
  <2>1. IsFiniteSet(DirsOf(img)) /\ DirsOf(img) # {}
    BY <1>1, DirBoundType DEF Allocated
  <2>2. Cardinality(DirsOf(img)) \in Nat \ {0}
    BY <2>1, FS_CardinalityType, FS_EmptySet
  <2>3. QED
    BY <1>1, <2>2, DirBoundType DEF DirBound
<1>3. DoCreat(img, d, i, name, "DIR") = F
  BY DEF DoCreat, InitDirInode
<1> HIDE DEF c
<1>4. /\ Shape(A, i, i) /\ Counters(A) /\ Lower(A, i, -1, S) /\ Upper(A, i, -2, c)
      /\ DirsOf(A) = DirsOf(img) \union {i}
      /\ A.used = img.used \union {i}
      /\ \A b \in DirsOf(img) : Ents(A, b) = Ents(img, b)
      /\ NamesOf(A, i) = {}
      /\ A.inode[i].type = "DIR" /\ A.inode[i].inline = TRUE
  <2>1. c \in Int /\ "DIR" \in Types \ {"UNUSED"}
    BY <1>2 DEF Types
  <2>2. LET isDir == "DIR" = "DIR"
        IN  /\ Shape(A, i, i) /\ Counters(A)
            /\ Lower(A, i, IF isDir THEN -1 ELSE 0, S)
            /\ Upper(A, i, IF isDir THEN -2 ELSE -1, c)
            /\ DirsOf(A) = DirsOf(img) \union (IF isDir THEN {i} ELSE {})
            /\ A.used = img.used \union {i} /\ A.rootdir = img.rootdir
            /\ \A b \in DirsOf(img) : Ents(A, b) = Ents(img, b)
            /\ \A j : NamesOf(A, j) = NamesOf(img, j)
            /\ NamesOf(A, i) = {}
            /\ A.inode[i].type = "DIR" /\ A.inode[i].inline = isDir
    BY <1>1, <1>2, <2>1, Taken
  <2>3. QED
    BY <2>2
<1> HIDE DEF A
<1>5. i \notin DirsOf(img) /\ i \in A.used \ {0} /\ d \in DirsOf(A) \ {i} /\ i \in DirsOf(A)
  BY <1>4 DEF DirsOf
<1>6. /\ Shape(B, i, i) /\ Lower(B, i, -1, S) /\ Upper(B, i, -1, c)
      /\ DirsOf(B) = DirsOf(A) /\ B.used = A.used
      /\ \A j \in Inum : B.inode[j].type = A.inode[j].type
      /\ B.inode[i].inline
      /\ Counters(B)
      /\ NamesOf(B, i) = {<<d, name>>}
  <2> DEFINE h == -2
             n == -1
  <2>1. /\ h \in Int /\ h <= 0 /\ n \in Int /\ c \in Int /\ h + 1 = -1 /\ c <= MaxInum + 1
        /\ Upper(A, i, h, c) /\ Lower(A, i, n, S)
    BY <1>2, <1>4
  <2>2. Fits(A, d) /\ Absent(Ents(A, d), name) /\ (i \in DirsOf(A) => NamesOf(A, i) = {})
    BY <1>4, <1>5 DEF A
  <2> HIDE DEF h, n
  <2>3. LET G == NewDentry(A, d, i, name)
        IN  /\ Shape(G, i, i) /\ Lower(G, i, n, S) /\ Upper(G, i, h + 1, c)
            /\ DirsOf(G) = DirsOf(A) /\ G.used = A.used
            /\ G.rootdir = A.rootdir
            /\ \A j \in Inum : G.inode[j].type = A.inode[j].type
            /\ \A j \in DirsOf(A) \ {d} : G.inode[j].inline = A.inode[j].inline
            /\ Counters(A) => Counters(G)
            /\ \A j : NamesOf(G, j) = IF j = i THEN NamesOf(A, j) \union {<<d, name>>}
                                       ELSE NamesOf(A, j)
    BY <1>4, <1>5, <2>1, <2>2, NewName
  <2>4. NamesOf(B, i) = {<<d, name>>}
    <3>1. NamesOf(B, i) = NamesOf(A, i) \union {<<d, name>>}
      BY <2>3
    <3>2. QED
      BY <1>4, <3>1
  <2>5. B.inode[i].inline
    BY <1>4, <1>5, <2>3
  <2>6. QED
    BY <1>4, <2>1, <2>3, <2>4, <2>5 DEF n
<1> HIDE DEF B
<1>7. i \in DirsOf(B) /\ d \in DirsOf(B)
  BY <1>5, <1>6
<1>8. C = UpdateDirInode(B, i, d)
  <2>1. B.inode[i].type = "DIR"
    BY <1>4, <1>6
  <2>2. QED
    BY <1>6, <2>1 DEF UpdateDirInode
<1>9. \A b \in DirsOf(B) : \A e \in Named(B, b) : e.inum = i => b = d
  <2>1. \A b \in DirsOf(B) : \A e \in Named(B, b) :
          e.inum = i <=> <<b, e.name>> \in NamesOf(B, i)
    BY <1>6, NamesAre DEF Shape
  <2>2. \A b, m : <<b, m>> \in {<<d, name>>} => b = d
    OBVIOUS
  <2>3. QED
    BY <1>6, <2>1, <2>2
<1> HIDE DEF C
<1>10. /\ Shape(C, 0, 0) /\ DirsOf(C) = DirsOf(B) /\ C.used = B.used
       /\ SameLinks(C, B) /\ \A j \in Inum : C.inode[j].type = B.inode[j].type
       /\ (Counters(B) => Counters(C))
       /\ \A j : NamesOf(C, j) = NamesOf(B, j)
  BY <1>6, <1>7, <1>8, <1>9, Reparented
<1>11. /\ B \in Image /\ C \in Image /\ c \in Int /\ -1 \in Int /\ 0 \in Int
       /\ i \in C.used \ {0}
  BY <1>2, <1>5, <1>6, <1>10 DEF Shape, Allocated
<1>12. Lower(C, i, -1, S) /\ Upper(C, i, -1, c)
  BY <1>6, <1>10, <1>11, SameAccounts
<1>13. C.inode[i].nlink + 1 < NlinkMod
  BY <1>2, <1>11, <1>12, Bounded
<1>14. Shape(E, 0, 0) /\ Lower(E, i, 0, S) /\ Upper(E, i, 0, c)
  <2> DEFINE m == -1
  <2>1. m \in Int /\ m + 1 = 0 /\ Lower(C, i, m, S) /\ Upper(C, i, m, c)
    BY <1>12
  <2> HIDE DEF m
  <2>2. LET G == AddLink(C, i)
        IN  Shape(G, 0, 0) /\ Lower(G, i, m + 1, S) /\ Upper(G, i, m + 1, c)
    BY <1>10, <1>11, <1>13, <2>1, LinkStep
  <2>3. QED
    BY <2>1, <2>2
<1>15. DirsOf(E) = DirsOf(C) /\ E.used = C.used /\ (Counters(C) => Counters(E))
  BY <1>10, LinkKeeps
<1> HIDE DEF E
<1>16. E \in Image /\ d \in Inum /\ d \in E.used \ {0} /\ d \in DirsOf(E)
  <2>1. E \in Image
    BY <1>14 DEF Shape, Allocated
  <2>2. d \in DirsOf(E)
    BY <1>7, <1>10, <1>15
  <2>3. E.inode[d].type = "DIR" /\ d \in E.used /\ E.inode[0].type = "UNUSED"
    BY <1>14, <2>2 DEF DirsOf, Shape, Allocated
  <2>4. QED
    BY <1>1, <2>1, <2>2, <2>3
<1>17. Lower(E, d, 0, S) /\ Upper(E, d, 0, c)
  BY <1>11, <1>14, <1>16, Accounts
<1>18. E.inode[d].nlink + 1 < NlinkMod
  BY <1>2, <1>11, <1>16, <1>17, Bounded
<1>19. Shape(F, 0, 0) /\ Lower(F, d, 1, S) /\ Upper(F, d, 1, c)
  <2> DEFINE m == 0
  <2>1. m \in Int /\ m + 1 = 1 /\ Lower(E, d, m, S) /\ Upper(E, d, m, c)
    BY <1>17
  <2> HIDE DEF m
  <2>2. LET G == AddLink(E, d)
        IN  Shape(G, 0, 0) /\ Lower(G, d, m + 1, S) /\ Upper(G, d, m + 1, c)
    BY <1>11, <1>14, <1>16, <1>18, <2>1, LinkStep
  <2>3. QED
    BY <2>1, <2>2
<1>20. DirsOf(F) = DirsOf(E) /\ (Counters(E) => Counters(F))
  BY <1>14, <1>16, LinkKeeps
<1> HIDE DEF F
<1>21. F \in Image /\ d \in DirsOf(F)
  BY <1>16, <1>19, <1>20 DEF Shape, Allocated
<1>22. Lower(F, 0, 0, S) /\ Upper(F, 0, 0, c + 1)
  BY <1>11, <1>19, <1>21, Raised
<1>23. DirBound(F) = c + 1
  <2>1. DirsOf(F) = DirsOf(img) \union {i}
    BY <1>4, <1>6, <1>10, <1>15, <1>20
  <2>2. IsFiniteSet(DirsOf(img))
    BY <1>1, DirBoundType
  <2>3. Cardinality(DirsOf(F)) = Cardinality(DirsOf(img)) + 1
    <3>1. ASSUME NEW U, IsFiniteSet(U), i \notin U PROVE Cardinality(U \union {i}) = Cardinality(U) + 1
      BY <3>1, FS_AddElement
    <3>2. QED
      BY <1>5, <2>1, <2>2, <3>1
  <2>4. Cardinality(DirsOf(img)) \in Nat
    BY <2>2, FS_CardinalityType
  <2>5. QED
    BY <2>3, <2>4 DEF DirBound, c
<1>24. Counters(F)
  BY <1>6, <1>10, <1>15, <1>20
<1>25. QED
  BY <1>3, <1>19, <1>22, <1>23, <1>24 DEF TreeInv

-----------------------------------------------------------------------------
(* What do_lookup finds in such an image.                                  *)

\* The directory is one; a name is found at its entry, "." and ".." lead to
\* directories, and what is not found is a name the directory does not hold.
Knows(img, found, name) ==
  /\ found.dent # Null => found.pi > 0
  /\ found.pi > 0 =>
       /\ found.pi \in DirsOf(img)
       /\ found.dent = Null => name \in Names /\ Absent(Ents(img, found.pi), name)
       /\ found.dent # Null /\ name \in Names =>
            \E k \in Live(Ents(img, found.pi)) :
              /\ found.dent = EntPtr(img, found.pi, k)
              /\ Ents(img, found.pi)[k].name = name
       /\ found.dent # Null /\ name \notin Names =>
            Deref(img, found.dummy, found.dent).inum \in DirsOf(img)
       /\ found.dent # Null /\ name = DotDot =>
            Deref(img, found.dummy, found.dent).name = DotDot

\* The dots of a regular directory are entries that lead to directories.
LEMMA DotsInside ==
  ASSUME NEW img, Shape(img, 0, 0), NEW d \in DirsOf(img), ~ img.inode[d].inline,
         NEW c \in {Dot, DotDot}
  PROVE  /\ ~ Absent(Ents(img, d), c)
         /\ \A k \in Live(Ents(img, d)) : Ents(img, d)[k].name = c =>
              Ents(img, d)[k].inum \in DirsOf(img)
<1>1. img \in Image /\ NamesInv(img) /\ d \in Inum /\ d # 0
  <2>1. img \in Image /\ NamesInv(img) /\ d \in Inum
    BY DirsInum DEF Shape, Allocated
  <2>2. d # 0
    BY DEF Shape, Allocated, DirsOf
  <2>3. QED
    BY <2>1, <2>2
<1>2. \E e \in Inside(img, d) : e.name = c /\ e.inum \in DirsOf(img)
  <2>1. \E e \in Inside(img, d) : e.name = Dot /\ e.inum = d
    BY DEF Shape, Dotted
  <2>2. \E p \in DirsOf(img) : \E e \in Inside(img, d) : e.name = DotDot /\ e.inum = p
    BY <1>1 DEF Shape, HasUp, Up
  <2>3. QED
    BY <2>1, <2>2
<1>3. PICK e \in Inside(img, d) : e.name = c /\ e.inum \in DirsOf(img)
  BY <1>2
<1>4. PICK k \in Live(Ents(img, d)) : e = Ents(img, d)[k]
  BY DEF Inside, EntSet
<1>5. Distinct(Ents(img, d))
  BY <1>1, NamedOnce
<1>6. \A j \in Live(Ents(img, d)) : Ents(img, d)[j].name = c => j = k
  BY <1>3, <1>4, <1>5 DEF Distinct
<1>7. QED
  BY <1>3, <1>4, <1>6 DEF Absent

\* The last turn of the loop of do_lookup.
LEMMA LastStepKnows ==
  ASSUME NEW img, Shape(img, 0, 0), NEW at \in Found, NEW c \in Comp
  PROVE  Knows(img, LookupStep(img, at, c, TRUE), c)
<1> DEFINE iprev == Deref(img, at.dummy, at.prev).inum
           inline == img.inode[iprev].inline
           k == FindDent(Ents(img, iprev), c)
           dent == IF inline /\ c = Dot THEN at.prev
                   ELSE IF inline /\ c = DotDot THEN DummyPtr
                   ELSE IF k = 0 THEN Null ELSE EntPtr(img, iprev, k)
           new == LookupStep(img, at, c, TRUE)
<1>1. img \in Image /\ at.prev \in Ptr /\ at.dummy \in Inum
  BY DEF Found, Shape, Allocated
<1>2. iprev \in Inum
  BY <1>1, DerefType DEF Dentry
<1>3. Says(img, new, c)
  BY <1>1, LastStepSays
<1>4. CASE img.inode[iprev].type # "DIR"
  <2>1. new.pi = Uninit /\ new.dent = Null
    BY <1>4 DEF LookupStep, Found
  <2> HIDE DEF new
  <2>2. ~ (new.pi > 0)
    BY <2>1 DEF Uninit
  <2>3. Knows(img, new, c)
    BY <2>1, <2>2 DEF Knows
  <2>4. QED
    BY <2>3 DEF new
<1>5. CASE img.inode[iprev].type = "DIR"
  <2>1. /\ new.pi = iprev /\ new.dent = dent
        /\ new.dummy = IF inline /\ c = DotDot THEN img.inode[iprev].p_inum ELSE at.dummy
    BY <1>5 DEF LookupStep
  <2>2. iprev \in DirsOf(img) /\ iprev > 0
    BY <1>2, <1>5 DEF DirsOf, Shape, Allocated, Inum
  <2>3. Dot \notin Names /\ DotDot \notin Names /\ Dot # DotDot
    BY NamesAssumption DEF Dot, DotDot
  <2>4. c \in Names \/ c = Dot \/ c = DotDot
    BY DEF Comp
  <2>5. k = 0 => Absent(Ents(img, iprev), c)
    BY <1>1, <1>2, EntsType, FindNothing
  <2>6. k # 0 => k \in Live(Ents(img, iprev)) /\ Ents(img, iprev)[k].name = c
    BY <1>1, <1>2, EntsType, FindDentResult
  <2>7. Deref(img, at.dummy, at.prev).inum = iprev
    OBVIOUS
  <2>8. ASSUME inline, c = DotDot
        PROVE  /\ Deref(img, new.dummy, new.dent).inum \in DirsOf(img)
               /\ Deref(img, new.dummy, new.dent).name = DotDot
    <3>1. img.inode[iprev].p_inum \in DirsOf(img)
      BY <2>2, <2>8 DEF Shape, HasUp, Up
    <3>2. new.dent = DummyPtr /\ new.dummy = img.inode[iprev].p_inum
      BY <2>1, <2>3, <2>8
    <3> HIDE DEF new, iprev
    <3>3. QED
      BY <3>1, <3>2 DEF Deref, DummyPtr
  <2>9. ASSUME inline, c = Dot PROVE Deref(img, new.dummy, new.dent).inum \in DirsOf(img)
    BY <2>1, <2>2, <2>3, <2>7, <2>9
  <2>10. ASSUME ~ inline, c \notin Names
         PROVE  /\ k # 0
                /\ Deref(img, new.dummy, new.dent).inum \in DirsOf(img)
                /\ Deref(img, new.dummy, new.dent).name = c
    <3>1. k # 0 /\ Ents(img, iprev)[k].inum \in DirsOf(img)
      BY <2>2, <2>4, <2>5, <2>6, <2>10, DotsInside
    <3>2. new.dent = EntPtr(img, iprev, k)
      BY <2>1, <2>10, <3>1
    <3>3. Deref(img, new.dummy, EntPtr(img, iprev, k)) = Ents(img, iprev)[k]
      <4>1. k \in Live(Ents(img, iprev))
        BY <2>6, <3>1
      <4> HIDE DEF new, iprev, k
      <4>2. QED
        BY <4>1, DerefEnt
    <3>4. QED
      BY <2>6, <3>1, <3>2, <3>3
  <2>11. new.pi > 0 /\ new.pi \in DirsOf(img)
    BY <2>1, <2>2
  <2> HIDE DEF new, iprev, k, inline
  <2>12. ASSUME new.dent = Null PROVE c \in Names /\ Absent(Ents(img, new.pi), c)
    <3>1. Absent(Ents(img, new.pi), c) /\ (img.inode[new.pi].inline => c \in Names)
      BY <1>3, <2>11, <2>12 DEF Says
    <3>2. k = 0
      BY <1>1, <2>1, <2>6, <2>12, PlainPtr, EntPtrType DEF EntPtr, InlinePtr, BlockPtr, Null,
         DummyPtr, Ptr, SlotPtr, RootPtr
    <3>3. QED
      BY <2>1, <2>10, <3>1, <3>2 DEF inline
  <2>13. ASSUME new.dent # Null, c \in Names
         PROVE  \E j \in Live(Ents(img, new.pi)) :
                  new.dent = EntPtr(img, new.pi, j) /\ Ents(img, new.pi)[j].name = c
    <3>1. k # 0 /\ new.dent = EntPtr(img, iprev, k)
      BY <2>1, <2>3, <2>13
    <3>2. QED
      BY <2>1, <2>6, <3>1
  <2>14. ASSUME new.dent # Null, c \notin Names
         PROVE  Deref(img, new.dummy, new.dent).inum \in DirsOf(img)
    BY <2>4, <2>8, <2>9, <2>10, <2>14
  <2>15. ASSUME new.dent # Null, c = DotDot
         PROVE  Deref(img, new.dummy, new.dent).name = DotDot
    BY <2>3, <2>8, <2>10, <2>15
  <2>16. Knows(img, new, c)
    BY <2>11, <2>12, <2>13, <2>14, <2>15 DEF Knows
  <2>17. QED
    BY <2>16 DEF new
<1>6. QED
  BY <1>4, <1>5

\* do_lookup.
LEMMA LookupFromKnows ==
  ASSUME NEW img, Shape(img, 0, 0), NEW path \in Path, NEW start \in Found,
         start.pi = 0, start.dent = Null
  PROVE  LET found == LookupFrom(img, path, start)
         IN  /\ found.dent # Null \/ found.pi > 0 => path.comp # << >>
             /\ path.comp # << >> => Knows(img, found, Filename(path))
<1>1. CASE path.comp = << >>
  BY <1>1 DEF LookupFrom
<1>2. CASE Len(path.comp) = 1 /\ path.comp # << >> /\ path.comp[1] \in Comp
  <2>1. /\ LookupFrom(img, path, start) = LookupStep(img, start, path.comp[1], TRUE)
        /\ Filename(path) = path.comp[1]
    BY <1>2 DEF LookupFrom, Filename
  <2>2. QED
    BY <1>2, <2>1, LastStepKnows
<1>3. CASE /\ Len(path.comp) = 2 /\ path.comp # << >>
           /\ path.comp[1] \in Comp /\ path.comp[2] \in Comp
  <2> DEFINE mid == LookupStep(img, start, path.comp[1], FALSE)
  <2>1. mid \in Found
    BY <1>3, LookupStepType DEF Shape, Allocated
  <2>2. mid.done => mid.pi \in {0, Uninit} /\ mid.dent = Null
    BY DEF LookupStep, Found
  <2>3. Len(path.comp) # 1 /\ Filename(path) = path.comp[2]
    BY <1>3 DEF Filename
  <2>4. LookupFrom(img, path, start) = LookupSecond(img, path, mid)
    BY ONLY <1>3, <2>3 DEF LookupFrom
  <2> HIDE DEF mid
  <2>5. CASE mid.done
    <3>1. LookupFrom(img, path, start) = mid
      BY <2>4, <2>5 DEF LookupSecond
    <3>2. ~ (mid.pi > 0)
      BY <2>2, <2>5 DEF Uninit
    <3>3. Knows(img, mid, Filename(path))
      BY <2>2, <2>5, <3>2 DEF Knows
    <3>4. QED
      BY <1>3, <3>1, <3>3
  <2>6. CASE ~ mid.done
    <3>1. LookupFrom(img, path, start) = LookupStep(img, mid, path.comp[2], TRUE)
      BY <2>4, <2>6 DEF LookupSecond
    <3>2. QED
      BY <1>3, <2>1, <2>3, <3>1, LastStepKnows
  <2>7. QED
    BY <2>5, <2>6
<1>4. QED
  BY <1>1, <1>2, <1>3, PathCases

LEMMA LookupKnows ==
  ASSUME TypeOK, Shape(image, 0, 0), NEW path \in Path, NEW dm \in Inum,
         NEW found \in {Lookup(path), LookupAfter(path, dm)},
         found.dent # Null \/ found.pi > 0
  PROVE  path.comp # << >> /\ Filename(path) \in Comp /\ Knows(image, found, Filename(path))
<1>1. /\ LookupStart(path) \in Found /\ LookupStart(path).pi = 0
      /\ LookupStart(path).dent = Null
  BY PlainPtr, ZeroInum DEF TypeOK, LookupStart, Found
<1>2. /\ [LookupStart(path) EXCEPT !.dummy = dm] \in Found
      /\ [LookupStart(path) EXCEPT !.dummy = dm].pi = 0
      /\ [LookupStart(path) EXCEPT !.dummy = dm].dent = Null
  BY <1>1 DEF Found
<1>3. path.comp # << >> /\ Knows(image, found, Filename(path))
  BY <1>1, <1>2, LookupFromKnows DEF Lookup, LookupAfter
<1>4. Filename(path) \in Comp
  BY <1>3, FilenameType DEF Knows
<1>5. QED
  BY <1>3, <1>4

-----------------------------------------------------------------------------
(* The links of directories, where fs_rename moves none.                    *)

\* The subdirectories of d, as its entries tell.
Subs(img, d) == {e \in Named(img, d) : e.file_type = "DIR"}

\* The root has no name.
Rootless(img) == NamesOf(img, img.rootdir) = {}

\* A directory in the tree has two links and one for each subdirectory; one
\* that fs_rmdir cut off has one less.
Exact(img) ==
  /\ Rootless(img)
  /\ \A d \in DirsOf(img) :
       img.inode[d].nlink = Cardinality(Subs(img, d))
                              + (IF d = img.rootdir \/ NamesOf(img, d) # {} THEN 2 ELSE 1)

ExactKept(new, old) ==
  (Rootless(old) => Rootless(new)) /\ (Exact(old) => Exact(new))

LEMMA SubsFinite ==
  ASSUME NEW img \in Image, NEW d \in Inum
  PROVE  /\ IsFiniteSet(Named(img, d)) /\ IsFiniteSet(Subs(img, d))
         /\ Cardinality(Subs(img, d)) \in Nat
<1> DEFINE s == Ents(img, d)
           f == [k \in Live(s) |-> s[k]]
<1>1. s \in Seq(Dentry)
  BY EntsType
<1>2. Live(s) \in SUBSET (1 .. Len(s)) /\ Len(s) \in Nat
  BY <1>1 DEF Live
<1>3. IsFiniteSet(Live(s))
  <2>1. IsFiniteSet(1 .. Len(s))
    BY <1>2, FS_Interval
  <2>2. QED
    BY <1>2, <2>1, FS_Subset
<1>4. f \in Surjection(Live(s), EntSet(s))
  BY DEF Surjection, EntSet
<1> HIDE DEF f
<1>5. IsFiniteSet(Inside(img, d))
  BY <1>3, <1>4, FS_Surjection DEF Inside
<1>6. Named(img, d) \in SUBSET Inside(img, d) /\ Subs(img, d) \in SUBSET Inside(img, d)
  BY DEF Named, Subs
<1>7. IsFiniteSet(Named(img, d)) /\ IsFiniteSet(Subs(img, d))
  BY <1>5, <1>6, FS_Subset
<1>8. QED
  BY <1>7, FS_CardinalityType

\* A directory on the move may as well be at rest.
LEMMA Loose ==
  ASSUME NEW img, NEW x, NEW y, Shape(img, 0, y) PROVE Shape(img, x, y)
<1>1. 0 \notin DirsOf(img)
  BY DEF Shape, Allocated, DirsOf
<1>2. Parents(img, x)
  BY <1>1 DEF Shape, Parents
<1>3. QED
  BY <1>2 DEF Shape

\* A call that makes, moves or removes no directory.
LEMMA ExactSame ==
  ASSUME NEW old, NEW new, old.rootdir \in DirsOf(old),
         DirsOf(new) = DirsOf(old), new.rootdir = old.rootdir,
         \A d \in DirsOf(old) : /\ Subs(new, d) = Subs(old, d)
                                /\ NamesOf(new, d) = NamesOf(old, d)
                                /\ new.inode[d].nlink = old.inode[d].nlink
  PROVE  ExactKept(new, old)
  BY DEF Exact, ExactKept, Rootless

\* new_dentry, entry by entry.
LEMMA EntryMade ==
  ASSUME NEW img, NEW x \in img.used \ {0}, NEW y, NEW d \in DirsOf(img) \ {y},
         NEW name \in Names, Shape(img, x, y), Fits(img, d), Absent(Ents(img, d), name)
  PROVE  LET new == NewDentry(img, d, x, name)
             e == DentryOf(img, x, name)
         IN  /\ new \in Image /\ new.rootdir = img.rootdir /\ DirsOf(new) = DirsOf(img)
             /\ \A c \in DirsOf(img) \ {d} : new.inode[c].inline = img.inode[c].inline
             /\ Named(new, d) = Named(img, d) \union {e} /\ e \notin Named(img, d)
             /\ e.name = name /\ e.inum = x /\ e.file_type = img.inode[x].type
             /\ \A c \in DirsOf(img) \ {d} : Named(new, c) = Named(img, c)
             /\ \A j \in Inum \ {x} : new.inode[j].nlink = img.inode[j].nlink
             /\ img.inode[x].nlink + 1 < NlinkMod =>
                  new.inode[x].nlink = img.inode[x].nlink + 1
<1> DEFINE e == DentryOf(img, x, name)
           mid == PlaceDentry(img, d, e)
           new == NewDentry(img, d, x, name)
<1>1. /\ img \in Image /\ x \in Inum \ {0} /\ name \in Comp /\ DirsOf(img) \subseteq Inum
  BY DirsInum DEF Shape, Allocated, Image, Comp
<1>2. new = AddLink(mid, x)
  BY DEF NewDentry, PlaceDentry
<1>3. e \in Dentry /\ e.name = name /\ e.inum = x /\ e.file_type = img.inode[x].type
  BY <1>1, DentryOfType DEF DentryOf
<1> HIDE DEF e
<1>4. /\ Kept(mid, img, d, 0) /\ SameLinks(mid, img)
      /\ Named(mid, d) = Named(img, d) \union {e}
  BY <1>1, <1>3, Entered
<1> HIDE DEF mid, new
<1>5. /\ mid \in Image /\ Allocated(mid) /\ DirsOf(mid) = DirsOf(img)
      /\ mid.rootdir = img.rootdir
      /\ \A c \in DirsOf(img) \ {d} : /\ Named(mid, c) = Named(img, c)
                                       /\ mid.inode[c].inline = img.inode[c].inline
  BY <1>4, KeptAllocated DEF Kept, Shape
<1>6. e \notin Named(img, d)
  BY <1>3, AbsentNamed
<1>7. /\ SameInodes(new, mid)
      /\ \A c \in Inum : Inside(new, c) = Inside(mid, c)
      /\ \A j \in Inum \ {x} : new.inode[j].nlink = mid.inode[j].nlink
  BY <1>1, <1>2, <1>5, LinkSame
<1>8. \A c \in Inum : Named(new, c) = Named(mid, c)
  BY <1>7 DEF Named
<1>9. \A j \in Inum : mid.inode[j].nlink = img.inode[j].nlink
  BY <1>4 DEF SameLinks
<1>10. img.inode[x].nlink + 1 < NlinkMod => new.inode[x].nlink = img.inode[x].nlink + 1
  BY <1>1, <1>2, <1>5, <1>9, LinkPlain
<1>11. /\ new \in Image /\ new.rootdir = img.rootdir /\ DirsOf(new) = DirsOf(img)
       /\ \A c \in DirsOf(img) \ {d} : new.inode[c].inline = img.inode[c].inline
  BY <1>1, <1>5, <1>7, SameDirs DEF SameInodes
<1>12. QED
  BY <1>1, <1>3, <1>4, <1>5, <1>6, <1>7, <1>8, <1>9, <1>10, <1>11 DEF new, e

\* alloc_inode, entry by entry.
LEMMA InodeTaken ==
  ASSUME NEW img \in Image, NEW i \in Inum \ {0}, i \notin img.used,
         NEW type \in Types \ {"UNUSED"}
  PROVE  LET new == AllocInode(img, i, type)
         IN  /\ new.inode[i].nlink = 0 /\ Named(new, i) = {}
             /\ \A j \in Inum \ {i} : new.inode[j].nlink = img.inode[j].nlink
<1> DEFINE new == AllocInode(img, i, type)
<1>1. /\ new.inode[i].nlink = 0 /\ new.inode[i].ents = << >> /\ new.inode[i].block = 0
  BY TakenFields
<1>2. \A j \in Inum \ {i} : new.inode[j].nlink = img.inode[j].nlink
  BY DEF AllocInode, Image
<1> HIDE DEF new
<1>3. Ents(new, i) = << >>
  BY <1>1 DEF Ents
<1>4. Named(new, i) = {}
  BY <1>3 DEF Named, Inside, EntSet, Live
<1>5. QED
  BY <1>1, <1>2, <1>4 DEF new

\* init_dir_inode, entry by entry.
LEMMA DirInited ==
  ASSUME NEW img \in Image, NEW i \in Inum, NEW d \in Inum, i # d, img.inode[i].inline,
         img.inode[i].nlink + 1 < NlinkMod, img.inode[d].nlink + 1 < NlinkMod
  PROVE  LET new == InitDirInode(img, i, d)
         IN  /\ new.rootdir = img.rootdir /\ DirsOf(new) = DirsOf(img)
             /\ \A c \in Inum : Named(new, c) = Named(img, c)
             /\ new.inode[i].nlink = img.inode[i].nlink + 1
             /\ new.inode[d].nlink = img.inode[d].nlink + 1
             /\ \A j \in Inum \ {i, d} : new.inode[j].nlink = img.inode[j].nlink
<1> DEFINE C == [img EXCEPT !.inode[i].p_inum = d]
           E == AddLink(C, i)
           F == AddLink(E, d)
<1>1. InitDirInode(img, i, d) = F
  BY DEF InitDirInode
<1>2. C \in Image
  BY ParentSet
<1>3. /\ C.rootdir = img.rootdir /\ C.used = img.used /\ C.blocks = img.blocks
      /\ \A j \in Inum : /\ C.inode[j].nlink = img.inode[j].nlink
                         /\ C.inode[j].ents = img.inode[j].ents
                         /\ C.inode[j].inline = img.inode[j].inline
                         /\ C.inode[j].type = img.inode[j].type
                         /\ C.inode[j].block = img.inode[j].block
  BY DEF Image, Inode
<1> HIDE DEF C
<1>4. ASSUME NEW X \in Image, NEW a \in Inum
      PROVE  LET Y == AddLink(X, a)
             IN  /\ Y \in Image /\ Y.rootdir = X.rootdir /\ Y.used = X.used /\ Y.blocks = X.blocks
                 /\ \A j \in Inum : /\ Y.inode[j].ents = X.inode[j].ents
                                    /\ Y.inode[j].inline = X.inode[j].inline
                                    /\ Y.inode[j].type = X.inode[j].type
                                    /\ Y.inode[j].block = X.inode[j].block
                 /\ \A j \in Inum \ {a} : Y.inode[j].nlink = X.inode[j].nlink
                 /\ X.inode[a].nlink + 1 < NlinkMod =>
                      Y.inode[a].nlink = X.inode[a].nlink + 1
  <2> DEFINE Y == AddLink(X, a)
  <2>1. Y \in Image
    BY AddLinkType
  <2>2. /\ Y.rootdir = X.rootdir /\ Y.used = X.used /\ Y.blocks = X.blocks
        /\ \A j \in Inum : /\ Y.inode[j].ents = X.inode[j].ents
                           /\ Y.inode[j].inline = X.inode[j].inline
                           /\ Y.inode[j].type = X.inode[j].type
                           /\ Y.inode[j].block = X.inode[j].block
        /\ \A j \in Inum \ {a} : Y.inode[j].nlink = X.inode[j].nlink
    <3> DEFINE w == [X.inode[a] EXCEPT !.nlink = (X.inode[a].nlink + 1) % NlinkMod]
    <3>1. Y = [X EXCEPT !.inode = [X.inode EXCEPT ![a] = w]]
      BY DEF AddLink
    <3>2. /\ Y.rootdir = X.rootdir /\ Y.used = X.used /\ Y.blocks = X.blocks
          /\ Y.inode = [X.inode EXCEPT ![a] = w]
      BY <3>1 DEF Image
    <3> HIDE DEF Y
    <3>3. X.inode \in [Inum -> Inode]
      BY DEF Image
    <3>4. \A j \in Inum \ {a} : Y.inode[j] = X.inode[j]
      BY <3>2, <3>3
    <3>5. /\ Y.inode[a].ents = X.inode[a].ents /\ Y.inode[a].inline = X.inode[a].inline
          /\ Y.inode[a].type = X.inode[a].type /\ Y.inode[a].block = X.inode[a].block
      BY <3>2, <3>3 DEF Inode
    <3>6. QED
      BY <3>2, <3>4, <3>5
  <2>3. X.inode[a].nlink + 1 < NlinkMod => Y.inode[a].nlink = X.inode[a].nlink + 1
    BY LinkPlain
  <2>4. QED
    BY <2>1, <2>2, <2>3
<1>5. /\ E \in Image /\ E.rootdir = C.rootdir /\ E.used = C.used /\ E.blocks = C.blocks
      /\ \A j \in Inum : /\ E.inode[j].ents = C.inode[j].ents
                         /\ E.inode[j].inline = C.inode[j].inline
                         /\ E.inode[j].type = C.inode[j].type
                         /\ E.inode[j].block = C.inode[j].block
      /\ \A j \in Inum \ {i} : E.inode[j].nlink = C.inode[j].nlink
      /\ E.inode[i].nlink = C.inode[i].nlink + 1
  BY <1>2, <1>3, <1>4
<1> HIDE DEF E
<1>6. /\ F \in Image /\ F.rootdir = E.rootdir /\ F.used = E.used /\ F.blocks = E.blocks
      /\ \A j \in Inum : /\ F.inode[j].ents = E.inode[j].ents
                         /\ F.inode[j].inline = E.inode[j].inline
                         /\ F.inode[j].type = E.inode[j].type
                         /\ F.inode[j].block = E.inode[j].block
      /\ \A j \in Inum \ {d} : F.inode[j].nlink = E.inode[j].nlink
      /\ F.inode[d].nlink = E.inode[d].nlink + 1
  BY <1>3, <1>4, <1>5
<1> HIDE DEF F
<1>7. \A c \in Inum : Ents(F, c) = Ents(img, c)
  BY <1>3, <1>5, <1>6 DEF Ents
<1>8. \A c \in Inum : Named(F, c) = Named(img, c)
  BY <1>7 DEF Named, Inside
<1>9. DirsOf(F) = DirsOf(img)
  BY <1>3, <1>5, <1>6 DEF DirsOf, Image
<1>10. QED
  BY <1>1, <1>3, <1>5, <1>6, <1>8, <1>9

\* The bound of directories is two at least: there is a root.
LEMMA BoundTwo ==
  ASSUME NEW img \in Image, Allocated(img)
  PROVE  DirBound(img) \in Int /\ DirBound(img) >= 2 /\ DirBound(img) <= MaxInum + 1
<1>1. IsFiniteSet(DirsOf(img)) /\ DirsOf(img) # {}
  BY DirBoundType DEF Allocated
<1>2. Cardinality(DirsOf(img)) \in Nat \ {0}
  BY <1>1, FS_CardinalityType, FS_EmptySet
<1>3. QED
  BY <1>2, DirBoundType DEF DirBound

\* A call that makes or removes an entry e of a file.
LEMMA FileEntry ==
  ASSUME NEW old, NEW new, NEW d, NEW e, old.rootdir \in DirsOf(old),
         DirsOf(new) = DirsOf(old), new.rootdir = old.rootdir,
         e.inum \notin DirsOf(old), e.file_type # "DIR",
         Named(new, d) \in {Named(old, d) \union {e}, Named(old, d) \ {e}},
         \A c \in DirsOf(old) \ {d} : Named(new, c) = Named(old, c),
         \A c \in DirsOf(old) : new.inode[c].nlink = old.inode[c].nlink
  PROVE  ExactKept(new, old)
<1>1. \A c \in DirsOf(old) : Subs(new, c) = Subs(old, c)
  BY DEF Subs
<1>2. \A c \in DirsOf(old) : \A f : f.inum \in DirsOf(old) =>
        (f \in Named(new, c) <=> f \in Named(old, c))
  OBVIOUS
<1>3. \A c \in DirsOf(old) : NamesOf(new, c) = NamesOf(old, c)
  BY <1>2 DEF NamesOf
<1>4. QED
  BY <1>1, <1>3, ExactSame

\* fs_creat and the second half of fs_symlink.
LEMMA MadeFileExact ==
  ASSUME NEW img, NEW S \in SUBSET Nat, 0 \in S, TreeInv(img, S),
         NEW d \in DirsOf(img), NEW i \in Inum \ {0}, i \notin img.used,
         NEW type \in {"REG", "SYM"}, NEW name \in Names,
         Fits(AllocInode(img, i, type), d), Absent(Ents(img, d), name)
  PROVE  ExactKept(DoCreat(img, d, i, name, type), img)
<1> DEFINE new == DoCreat(img, d, i, name, type)
           A == AllocInode(img, i, type)
           c == DirBound(img)
<1>1. /\ img \in Image /\ DirsOf(img) \subseteq Inum /\ Allocated(img)
      /\ Shape(img, 0, 0) /\ Counters(img) /\ Lower(img, 0, 0, S) /\ Upper(img, 0, 0, c)
  BY DirsInum DEF TreeInv, Shape, Allocated
<1>2. c \in Int /\ c >= 2
  BY <1>1, BoundTwo
<1>3. type \in Types \ {"UNUSED"} /\ type # "DIR"
  BY DEF Types
<1>4. new = NewDentry(A, d, i, name)
  BY <1>3 DEF DoCreat
<1> HIDE DEF c, new
<1>5. /\ Shape(A, i, i) /\ A.rootdir = img.rootdir /\ DirsOf(A) = DirsOf(img)
      /\ A.used = img.used \union {i}
      /\ \A b \in DirsOf(img) : Ents(A, b) = Ents(img, b)
      /\ A.inode[i].type = type
  <2> DEFINE isDir == type = "DIR"
  <2>1. /\ Shape(A, i, i)
        /\ DirsOf(A) = DirsOf(img) \union (IF isDir THEN {i} ELSE {})
        /\ A.used = img.used \union {i} /\ A.rootdir = img.rootdir
        /\ \A b \in DirsOf(img) : Ents(A, b) = Ents(img, b)
        /\ A.inode[i].type = type
    BY SMTT(30), <1>1, <1>2, <1>3, Taken
  <2>2. QED
    BY <1>3, <2>1
<1>6. \A j \in Inum \ {i} : A.inode[j].nlink = img.inode[j].nlink
  BY <1>1, <1>3, InodeTaken
<1> HIDE DEF A
<1>7. i \notin DirsOf(img) /\ i \in A.used \ {0} /\ d \in DirsOf(A) \ {i}
  BY <1>5 DEF DirsOf
<1> DEFINE e == DentryOf(A, i, name)
<1>8. /\ new.rootdir = A.rootdir /\ DirsOf(new) = DirsOf(A)
      /\ Named(new, d) = Named(A, d) \union {e}
      /\ e.inum = i /\ e.file_type = type
      /\ \A b \in DirsOf(A) \ {d} : Named(new, b) = Named(A, b)
      /\ \A j \in Inum \ {i} : new.inode[j].nlink = A.inode[j].nlink
  <2>1. Fits(A, d) /\ Absent(Ents(A, d), name)
    BY <1>5 DEF A
  <2>2. QED
    BY <1>4, <1>5, <1>7, <2>1, EntryMade
<1> HIDE DEF e
<1>9. \A b \in DirsOf(img) : Named(A, b) = Named(img, b)
  BY <1>5 DEF Named, Inside
<1>10. img.rootdir \in DirsOf(img)
  BY <1>1 DEF Allocated
<1>11. ExactKept(new, img)
  <2>1. Named(new, d) = Named(img, d) \union {e}
    BY <1>8, <1>9
  <2>2. /\ DirsOf(new) = DirsOf(img) /\ new.rootdir = img.rootdir
        /\ e.inum \notin DirsOf(img) /\ e.file_type # "DIR"
        /\ Named(new, d) \in {Named(img, d) \union {e}, Named(img, d) \ {e}}
        /\ \A b \in DirsOf(img) \ {d} : Named(new, b) = Named(img, b)
        /\ \A b \in DirsOf(img) : new.inode[b].nlink = img.inode[b].nlink
    BY <1>1, <1>3, <1>5, <1>6, <1>7, <1>8, <1>9, <2>1
  <2>3. QED
    BY <1>10, <2>2, FileEntry
<1>12. QED
  BY <1>11 DEF new

\* fs_mkdir.
LEMMA MadeDirExact ==
  ASSUME LinksFit, NEW img, NEW S \in SUBSET Nat, 0 \in S, TreeInv(img, S),
         NEW d \in DirsOf(img), NEW i \in Inum \ {0}, i \notin img.used, NEW name \in Names,
         Fits(AllocInode(img, i, "DIR"), d), Absent(Ents(img, d), name)
  PROVE  ExactKept(DoCreat(img, d, i, name, "DIR"), img)
<1> DEFINE A == AllocInode(img, i, "DIR")
           B == NewDentry(A, d, i, name)
           F == InitDirInode(B, i, d)
           c == DirBound(img)
<1>1. /\ img \in Image /\ DirsOf(img) \subseteq Inum /\ Allocated(img)
      /\ Shape(img, 0, 0) /\ Counters(img) /\ Lower(img, 0, 0, S) /\ Upper(img, 0, 0, c)
  BY DirsInum DEF TreeInv, Shape, Allocated
<1>2. c \in Int /\ c >= 2 /\ c <= MaxInum + 1
  BY <1>1, BoundTwo
<1>3. DoCreat(img, d, i, name, "DIR") = F
  BY DEF DoCreat
<1>4. d \in Inum /\ d \in img.used \ {0} /\ d # i /\ i \notin DirsOf(img)
      /\ img.rootdir \in DirsOf(img)
  BY <1>1 DEF DirsOf, Allocated
<1>5. img.inode[d].nlink + 1 < NlinkMod
  <2> DEFINE h == 0
  <2>1. h \in Int /\ h <= 0 /\ Upper(img, 0, h, c)
    BY <1>1
  <2>2. Upper(img, d, h, c)
    BY <1>1, <1>2, Accounts
  <2> HIDE DEF h, c
  <2>3. QED
    BY <1>1, <1>2, <1>4, <2>1, <2>2, Bounded
<1> HIDE DEF c
<1>6. "DIR" \in Types \ {"UNUSED"}
  BY DEF Types
<1>7. /\ Shape(A, i, i) /\ A.rootdir = img.rootdir /\ DirsOf(A) = DirsOf(img) \union {i}
      /\ A.used = img.used \union {i}
      /\ \A b \in DirsOf(img) : Ents(A, b) = Ents(img, b)
      /\ A.inode[i].type = "DIR" /\ A.inode[i].inline
  <2> DEFINE isDir == "DIR" = "DIR"
  <2>1. /\ Shape(A, i, i)
        /\ DirsOf(A) = DirsOf(img) \union (IF isDir THEN {i} ELSE {})
        /\ A.used = img.used \union {i} /\ A.rootdir = img.rootdir
        /\ \A b \in DirsOf(img) : Ents(A, b) = Ents(img, b)
        /\ A.inode[i].type = "DIR" /\ A.inode[i].inline = isDir
    BY SMTT(30), <1>1, <1>2, <1>6, Taken
  <2>2. QED
    BY <2>1
<1>8. /\ A.inode[i].nlink = 0 /\ Named(A, i) = {}
      /\ \A j \in Inum \ {i} : A.inode[j].nlink = img.inode[j].nlink
  BY <1>1, <1>6, InodeTaken
<1> HIDE DEF A
<1>9. i \in A.used \ {0} /\ d \in DirsOf(A) \ {i} /\ i \in DirsOf(A)
  BY <1>4, <1>7
<1>10. 2 < NlinkMod /\ 0 + 1 < NlinkMod
  BY HfsImageAssumption DEF LinksFit
<1> DEFINE e == DentryOf(A, i, name)
<1>11. /\ B \in Image /\ B.rootdir = A.rootdir /\ DirsOf(B) = DirsOf(A)
       /\ B.inode[i].inline
       /\ Named(B, d) = Named(A, d) \union {e} /\ e \notin Named(A, d)
       /\ e.name = name /\ e.inum = i /\ e.file_type = "DIR"
       /\ \A b \in DirsOf(A) \ {d} : Named(B, b) = Named(A, b)
       /\ \A j \in Inum \ {i} : B.inode[j].nlink = A.inode[j].nlink
       /\ B.inode[i].nlink = 1
  <2>1. Fits(A, d) /\ Absent(Ents(A, d), name)
    BY <1>7 DEF A
  <2> HIDE DEF B
  <2>2. /\ B \in Image /\ B.rootdir = A.rootdir /\ DirsOf(B) = DirsOf(A)
        /\ \A b \in DirsOf(A) \ {d} : B.inode[b].inline = A.inode[b].inline
        /\ Named(B, d) = Named(A, d) \union {e} /\ e \notin Named(A, d)
        /\ e.name = name /\ e.inum = i /\ e.file_type = A.inode[i].type
        /\ \A b \in DirsOf(A) \ {d} : Named(B, b) = Named(A, b)
        /\ \A j \in Inum \ {i} : B.inode[j].nlink = A.inode[j].nlink
        /\ A.inode[i].nlink + 1 < NlinkMod => B.inode[i].nlink = A.inode[i].nlink + 1
    BY <1>7, <1>9, <2>1, EntryMade DEF B
  <2>3. QED
    BY <1>4, <1>7, <1>8, <1>9, <1>10, <2>2
<1> HIDE DEF B, e
<1>12. B.inode[i].nlink + 1 < NlinkMod /\ B.inode[d].nlink + 1 < NlinkMod
  BY <1>4, <1>5, <1>8, <1>10, <1>11
<1>13. /\ F.rootdir = B.rootdir /\ DirsOf(F) = DirsOf(B)
       /\ \A b \in Inum : Named(F, b) = Named(B, b)
       /\ F.inode[i].nlink = B.inode[i].nlink + 1
       /\ F.inode[d].nlink = B.inode[d].nlink + 1
       /\ \A j \in Inum \ {i, d} : F.inode[j].nlink = B.inode[j].nlink
  BY <1>4, <1>11, <1>12, DirInited
<1> HIDE DEF F
<1>14. \A b \in DirsOf(img) : Named(A, b) = Named(img, b)
  BY <1>7 DEF Named, Inside
<1>15. /\ DirsOf(F) = DirsOf(img) \union {i} /\ F.rootdir = img.rootdir
       /\ Named(F, i) = {} /\ Named(F, d) = Named(img, d) \union {e} /\ e \notin Named(img, d)
       /\ \A b \in DirsOf(img) \ {d} : Named(F, b) = Named(img, b)
       /\ F.inode[i].nlink = 2 /\ F.inode[d].nlink = img.inode[d].nlink + 1
       /\ \A j \in Inum \ {i, d} : F.inode[j].nlink = img.inode[j].nlink
  BY <1>1, <1>4, <1>7, <1>8, <1>9, <1>11, <1>13, <1>14
<1>16. \A b \in DirsOf(F) : \A f : f.inum # i =>
         (f \in Named(F, b) <=> b \in DirsOf(img) /\ f \in Named(img, b))
  BY <1>4, <1>11, <1>15
<1>17. \A b \in DirsOf(img) : NamesOf(F, b) = NamesOf(img, b)
  BY <1>4, <1>15, <1>16 DEF NamesOf
<1>18. NamesOf(F, i) # {}
  <2>1. <<d, name>> \in NamesOf(F, i)
    BY <1>4, <1>11, <1>15 DEF NamesOf
  <2>2. QED
    BY <2>1
<1>19. Cardinality(Subs(F, i)) = 0
  <2>1. Subs(F, i) = {}
    BY <1>15 DEF Subs
  <2>2. QED
    BY <2>1, FS_EmptySet
<1>20. Cardinality(Subs(F, d)) = Cardinality(Subs(img, d)) + 1
  <2>1. Subs(F, d) = Subs(img, d) \union {e} /\ e \notin Subs(img, d)
    BY <1>11, <1>15 DEF Subs
  <2>2. IsFiniteSet(Subs(img, d))
    BY <1>1, <1>4, SubsFinite
  <2>3. QED
    BY <2>1, <2>2, FS_AddElement
<1>21. \A b \in DirsOf(img) \ {d} : Subs(F, b) = Subs(img, b)
  BY <1>15 DEF Subs
<1>22. Cardinality(Subs(img, d)) \in Nat
  BY <1>1, <1>4, SubsFinite
<1>23. Rootless(img) => Rootless(F)
  BY <1>4, <1>15, <1>17 DEF Rootless
<1>24. ASSUME Exact(img), NEW b \in DirsOf(F)
       PROVE  F.inode[b].nlink = Cardinality(Subs(F, b))
                + (IF b = F.rootdir \/ NamesOf(F, b) # {} THEN 2 ELSE 1)
  <2>1. CASE b = i
    BY <1>15, <1>18, <1>19, <2>1
  <2>2. CASE b = d
    <3>1. img.inode[d].nlink = Cardinality(Subs(img, d))
            + (IF d = img.rootdir \/ NamesOf(img, d) # {} THEN 2 ELSE 1)
      BY <1>24 DEF Exact
    <3>2. QED
      BY <1>15, <1>17, <1>20, <1>22, <2>2, <3>1
  <2>3. CASE b \notin {i, d}
    <3>1. b \in DirsOf(img) /\ b \in Inum
      BY <1>1, <1>15, <2>3
    <3>2. QED
      BY <1>15, <1>17, <1>21, <1>24, <2>3, <3>1 DEF Exact
  <2>4. QED
    BY <2>1, <2>2, <2>3
<1>25. QED
  BY <1>3, <1>23, <1>24 DEF Exact, ExactKept

\* The entries and links of the directories are all that matters.
LEMMA ExactEnts ==
  ASSUME NEW old, NEW new, Allocated(old), DirsOf(new) = DirsOf(old),
         new.rootdir = old.rootdir,
         \A d \in DirsOf(old) : /\ Ents(new, d) = Ents(old, d)
                                /\ new.inode[d].nlink = old.inode[d].nlink
  PROVE  ExactKept(new, old)
<1>1. \A d \in DirsOf(old) : Named(new, d) = Named(old, d)
  BY DEF Named, Inside
<1>2. \A d \in DirsOf(old) : Subs(new, d) = Subs(old, d) /\ NamesOf(new, d) = NamesOf(old, d)
  BY <1>1 DEF Subs, NamesOf
<1>3. QED
  BY <1>2, ExactSame DEF Allocated

\* fs_unlink.
LEMMA UnlinkedExact ==
  ASSUME TextBeyond, NEW img, NEW S \in SUBSET Nat, TreeInv(img, S), NEW dm \in Inum,
         NEW d \in DirsOf(img), NEW k \in Live(Ents(img, d)), Ents(img, d)[k].name \in Names,
         img.inode[Ents(img, d)[k].inum].type # "DIR"
  PROVE  ExactKept(UnlinkDent(img, dm, EntPtr(img, d, k)), img)
<1> DEFINE e == Ents(img, d)[k]
           new == UnlinkDent(img, dm, EntPtr(img, d, k))
           c == DirBound(img)
<1>1. /\ img \in Image /\ Allocated(img) /\ NoDangle(img)
      /\ Shape(img, 0, 0) /\ Counters(img) /\ Lower(img, 0, 0, S) /\ Upper(img, 0, 0, c)
  BY DEF TreeInv, Shape, Allocated
<1>2. c \in Int /\ d \in DirsOf(img) \ {0} /\ img.rootdir \in DirsOf(img)
  BY <1>1, BoundTwo DEF Allocated, DirsOf
<1> HIDE DEF c
<1>3. Unlinks(new, img, 0, 0, d, k, S, 0, 0, c)
  <2> DEFINE z == 0
  <2>1. /\ z \in Nat /\ z \in Int /\ d \in DirsOf(img) \ {z} /\ Shape(img, z, z)
        /\ Lower(img, z, z, S) /\ Upper(img, z, z, c)
    BY <1>1, <1>2
  <2> HIDE DEF z, new
  <2>2. Unlinks(new, img, z, z, d, k, S, z, z, c)
    BY <1>1, <1>2, <2>1, Unlinked DEF new
  <2>3. QED
    BY <2>2 DEF z
<1> HIDE DEF new
<1>4. /\ DirsOf(new) = DirsOf(img) /\ new.rootdir = img.rootdir
      /\ Named(new, d) = Named(img, d) \ {e}
      /\ \A b \in DirsOf(img) \ {d} : Named(new, b) = Named(img, b)
      /\ \A j \in DirsOf(img) :
           new.inode[j].nlink = img.inode[j].nlink + (IF j = e.inum THEN -1 ELSE 0)
  BY <1>3 DEF Unlinks
<1>5. e \in Named(img, d)
  BY DEF Named, Inside, EntSet
<1> HIDE DEF e
<1>6. e.inum \notin DirsOf(img) /\ e.file_type # "DIR"
  BY <1>1, <1>5 DEF NoDangle, DirsOf, e
<1>7. \A j \in DirsOf(img) : img.inode[j].nlink \in Nat
  BY <1>1, LinkPlain, DirsInum
<1>8. \A j \in DirsOf(img) : new.inode[j].nlink = img.inode[j].nlink
  BY <1>4, <1>6, <1>7
<1>9. ExactKept(new, img)
  <2>1. /\ img.rootdir \in DirsOf(img)
        /\ Named(new, d) \in {Named(img, d) \union {e}, Named(img, d) \ {e}}
    BY <1>1, <1>2, <1>4 DEF Allocated
  <2>2. QED
    BY <1>4, <1>6, <1>8, <2>1, FileEntry
<1>10. QED
  BY <1>9 DEF new

\* fs_link.
LEMMA LinkedExact ==
  ASSUME NEW img, NEW S, TreeInv(img, S), NEW i \in img.used \ {0},
         img.inode[i].type # "DIR",
         NEW d \in DirsOf(img), NEW name \in Names, Absent(Ents(img, d), name), Fits(img, d)
  PROVE  ExactKept(NewDentry(img, d, i, name), img)
<1> DEFINE new == NewDentry(img, d, i, name)
           e == DentryOf(img, i, name)
<1>1. /\ img \in Image /\ Shape(img, 0, 0) /\ Allocated(img) /\ DirsOf(img) \subseteq Inum
      /\ d \in DirsOf(img) \ {0} /\ i \notin DirsOf(img)
  BY DirsInum DEF TreeInv, Shape, Allocated, DirsOf
<1>2. Shape(img, i, 0)
  BY <1>1, Loose
<1>3. /\ new.rootdir = img.rootdir /\ DirsOf(new) = DirsOf(img)
      /\ Named(new, d) = Named(img, d) \union {e}
      /\ e.inum = i /\ e.file_type = img.inode[i].type
      /\ \A b \in DirsOf(img) \ {d} : Named(new, b) = Named(img, b)
      /\ \A j \in Inum \ {i} : new.inode[j].nlink = img.inode[j].nlink
  BY <1>1, <1>2, EntryMade
<1> HIDE DEF new, e
<1>4. \A b \in DirsOf(img) : new.inode[b].nlink = img.inode[b].nlink
  BY <1>1, <1>3
<1>5. ExactKept(new, img)
  <2>1. /\ img.rootdir \in DirsOf(img)
        /\ Named(new, d) \in {Named(img, d) \union {e}, Named(img, d) \ {e}}
    BY <1>1, <1>3 DEF Allocated
  <2>2. e.inum \notin DirsOf(img) /\ e.file_type # "DIR"
    BY <1>1, <1>3
  <2>3. QED
    BY <1>3, <1>4, <2>1, <2>2, FileEntry
<1>6. QED
  BY <1>5 DEF new

LEMMA StrayExact ==
  ASSUME NEW img, Allocated(img), NEW i \in Inum, img.inode[i].type # "DIR"
  PROVE  ExactKept(AddLink(img, i), img)
<1>1. /\ SameInodes(AddLink(img, i), img)
      /\ \A d \in Inum : Ents(AddLink(img, i), d) = Ents(img, d)
      /\ \A j \in Inum \ {i} : AddLink(img, i).inode[j].nlink = img.inode[j].nlink
  BY LinkSame
<1>2. img \in Image /\ AddLink(img, i) \in Image /\ DirsOf(img) \subseteq Inum \ {i}
  BY <1>1, DirsInum DEF Allocated, SameInodes, DirsOf
<1>3. DirsOf(AddLink(img, i)) = DirsOf(img) /\ AddLink(img, i).rootdir = img.rootdir
  BY <1>1, <1>2, SameDirs DEF SameInodes
<1>4. QED
  BY <1>1, <1>2, <1>3, ExactEnts

\* The flag fs_symlink sets.
LEMMA InlinedExact ==
  ASSUME NEW img, Allocated(img), NEW j \in Inum, img.inode[j].type # "DIR"
  PROVE  ExactKept([img EXCEPT !.inode[j].inline = TRUE], img)
<1> DEFINE new == [img EXCEPT !.inode[j].inline = TRUE]
<1>1. img \in Image /\ DirsOf(img) \subseteq Inum \ {j}
  BY DirsInum DEF Allocated, DirsOf
<1>2. /\ new.used = img.used /\ new.rootdir = img.rootdir /\ new.blocks = img.blocks
      /\ \A i \in Inum \ {j} : new.inode[i] = img.inode[i]
      /\ new.inode[j].type = img.inode[j].type
  BY <1>1 DEF Image, Inode
<1> HIDE DEF new
<1>3. DirsOf(new) = DirsOf(img)
  BY <1>1, <1>2 DEF DirsOf, Image
<1>4. \A d \in DirsOf(img) : /\ Ents(new, d) = Ents(img, d)
                             /\ new.inode[d].nlink = img.inode[d].nlink
  BY <1>1, <1>2 DEF Ents
<1>5. ExactKept(new, img)
  BY <1>2, <1>3, <1>4, ExactEnts
<1>6. QED
  BY <1>5 DEF new

\* A directory has one name at most.
LEMMA NamesOne ==
  ASSUME NEW img, OneName(img), NEW x \in DirsOf(img)
  PROVE  /\ \A at, bt \in NamesOf(img, x) : at = bt
         /\ Cardinality(NamesOf(img, x)) = IF NamesOf(img, x) = {} THEN 0 ELSE 1
<1>1. ASSUME NEW at \in NamesOf(img, x), NEW bt \in NamesOf(img, x) PROVE at = bt
  <2>1. /\ at = <<at[1], at[2]>> /\ bt = <<bt[1], bt[2]>>
        /\ at[1] \in DirsOf(img) /\ bt[1] \in DirsOf(img)
    BY DEF NamesOf
  <2>2. PICK e \in Named(img, at[1]) : e.name = at[2] /\ e.inum = x
    BY DEF NamesOf
  <2>3. PICK f \in Named(img, bt[1]) : f.name = bt[2] /\ f.inum = x
    BY DEF NamesOf
  <2>4. at[1] = bt[1] /\ e = f
    BY <2>1, <2>2, <2>3 DEF OneName
  <2>5. QED
    BY <2>1, <2>2, <2>3, <2>4
<1>2. CASE NamesOf(img, x) = {}
  BY <1>1, <1>2, FS_EmptySet
<1>3. CASE NamesOf(img, x) # {}
  <2>1. PICK at \in NamesOf(img, x) : TRUE
    BY <1>3
  <2>2. NamesOf(img, x) = {at}
    BY <1>1, <2>1
  <2>3. \A v : Cardinality({v}) = 1
    BY FS_Singleton
  <2>4. Cardinality(NamesOf(img, x)) = 1
    BY <2>2, <2>3
  <2>5. QED
    BY <1>1, <1>3, <2>4
<1>4. QED
  BY <1>2, <1>3

\* fs_rmdir: the directory loses its name and one link, and stays where it is;
\* the one it was in loses a link.
LEMMA CutOff ==
  ASSUME TextBeyond, NEW img, NEW S \in SUBSET Nat, TreeInv(img, S), Exact(img), NEW dm \in Inum,
         NEW d \in DirsOf(img), NEW k \in Live(Ents(img, d)), Ents(img, d)[k].name \in Names,
         img.inode[Ents(img, d)[k].inum].type = "DIR"
  PROVE  LET new == DropLink(UnlinkDent(img, dm, EntPtr(img, d, k)), d)
         IN  TreeInv(new, S) /\ Exact(new)
<1> DEFINE e == Ents(img, d)[k]
           x == e.inum
           mid == UnlinkDent(img, dm, EntPtr(img, d, k))
           new == DropLink(mid, d)
           c == DirBound(img)
           Has(j, b) == IF j = b THEN 1 ELSE 0
           Base(m, b) == IF b = m.rootdir \/ NamesOf(m, b) # {} THEN 2 ELSE 1
<1>1. /\ img \in Image /\ Allocated(img) /\ NoDangle(img) /\ OneName(img)
      /\ Shape(img, 0, 0) /\ Counters(img) /\ Lower(img, 0, 0, S) /\ Upper(img, 0, 0, c)
  BY DEF TreeInv, Shape, Allocated
<1>2. c \in Int /\ d \in DirsOf(img) \ {0} /\ img.rootdir \in DirsOf(img)
  BY <1>1, BoundTwo DEF Allocated, DirsOf
<1> HIDE DEF c
<1>3. Unlinks(mid, img, 0, 0, d, k, S, 0, 0, c)
  <2> DEFINE z == 0
  <2>1. /\ z \in Nat /\ z \in Int /\ d \in DirsOf(img) \ {z} /\ Shape(img, z, z)
        /\ Lower(img, z, z, S) /\ Upper(img, z, z, c)
    BY <1>1, <1>2
  <2> HIDE DEF z, mid
  <2>2. Unlinks(mid, img, z, z, d, k, S, z, z, c)
    BY <1>1, <1>2, <2>1, Unlinked DEF mid
  <2>3. QED
    BY <2>2 DEF z
<1> HIDE DEF mid
<1>4. e \in Named(img, d)
  BY DEF Named, Inside, EntSet
<1> HIDE DEF e
<1>5. x \in DirsOf(img) \ {0} /\ e.file_type = "DIR" /\ e \in Subs(img, d)
  BY <1>1, <1>4 DEF NoDangle, DirsOf, Subs, e
<1> HIDE DEF x
<1>6. /\ Shape(mid, 0, 0) /\ Counters(mid) /\ Lower(mid, 0, 0, S) /\ Upper(mid, 0, 0, c)
      /\ DirsOf(mid) = DirsOf(img) /\ mid.rootdir = img.rootdir
      /\ Named(mid, d) = Named(img, d) \ {e}
      /\ \A b \in DirsOf(img) \ {d} : Named(mid, b) = Named(img, b)
      /\ \A j : NamesOf(mid, j) = IF j = x THEN NamesOf(img, j) \ {<<d, e.name>>}
                                  ELSE NamesOf(img, j)
      /\ \A j \in DirsOf(img) : mid.inode[j].nlink = img.inode[j].nlink + (IF j = x THEN -1 ELSE 0)
  BY <1>3, <1>5 DEF Unlinks, x, e
<1>7. <<d, e.name>> \in NamesOf(img, x)
  BY <1>1, <1>2, <1>4, DirsInum DEF NamesOf, Named, x
<1>8. NamesOf(img, x) = {<<d, e.name>>} /\ NamesOf(mid, x) = {}
  BY <1>1, <1>5, <1>6, <1>7, NamesOne
<1>9. x # img.rootdir /\ NamesOf(mid, mid.rootdir) = {}
  BY <1>6, <1>7 DEF Exact, Rootless
<1>10. \A b \in DirsOf(img) : Cardinality(Subs(mid, b)) \in Nat
                              /\ Cardinality(Subs(img, b)) = Cardinality(Subs(mid, b)) + Has(d, b)
  <2> SUFFICES ASSUME NEW b \in DirsOf(img)
               PROVE  Cardinality(Subs(mid, b)) \in Nat
                      /\ Cardinality(Subs(img, b)) = Cardinality(Subs(mid, b)) + Has(d, b)
    OBVIOUS
  <2>1. mid \in Image /\ b \in Inum
    BY <1>1, <1>6, DirsInum DEF Shape, Allocated
  <2>2. /\ Cardinality(Subs(mid, b)) \in Nat /\ IsFiniteSet(Subs(img, b))
        /\ Cardinality(Subs(img, b)) \in Nat
    BY <1>1, <2>1, SubsFinite
  <2>3. CASE b = d
    <3>1. Subs(mid, d) = Subs(img, d) \ {e}
      BY <1>6 DEF Subs
    <3> DEFINE s == Subs(img, d)
    <3>2. IsFiniteSet(s) /\ e \in s /\ Subs(mid, d) = s \ {e}
      BY <1>5, <2>2, <2>3, <3>1
    <3> HIDE DEF s
    <3>3. Cardinality(s \ {e}) = Cardinality(s) - 1
      BY <3>2, FS_RemoveElement
    <3>4. Cardinality(Subs(mid, d)) = Cardinality(Subs(img, d)) - 1
      BY <3>2, <3>3 DEF s
    <3>5. QED
      BY <2>2, <2>3, <3>4
  <2>4. CASE b # d
    <3>1. Subs(mid, b) = Subs(img, b)
      BY <1>6, <2>4 DEF Subs
    <3>2. QED
      BY <2>2, <2>4, <3>1
  <2>5. QED
    BY <2>3, <2>4
<1>11. \A b \in DirsOf(img) : Base(img, b) = Base(mid, b) + Has(x, b) /\ Base(mid, b) \in {1, 2}
  <2> SUFFICES ASSUME NEW b \in DirsOf(img)
               PROVE  Base(img, b) = Base(mid, b) + Has(x, b) /\ Base(mid, b) \in {1, 2}
    OBVIOUS
  <2>1. CASE b = x
    <3>1. NamesOf(img, b) # {} /\ NamesOf(mid, b) = {} /\ b # mid.rootdir
      BY <1>6, <1>8, <1>9, <2>1
    <3>2. QED
      BY <2>1, <3>1
  <2>2. CASE b # x
    <3>1. NamesOf(img, b) = NamesOf(mid, b) /\ img.rootdir = mid.rootdir
      BY <1>6, <2>2
    <3>2. QED
      BY <2>2, <3>1
  <2>3. QED
    BY <2>1, <2>2
<1>12. \A b \in DirsOf(img) :
         mid.inode[b].nlink = Cardinality(Subs(mid, b)) + Base(mid, b) + Has(d, b)
  <2> SUFFICES ASSUME NEW b \in DirsOf(img)
               PROVE  mid.inode[b].nlink = Cardinality(Subs(mid, b)) + Base(mid, b) + Has(d, b)
    OBVIOUS
  <2>1. img.inode[b].nlink = Cardinality(Subs(img, b)) + Base(img, b)
    BY DEF Exact
  <2>2. mid.inode[b].nlink = img.inode[b].nlink - Has(x, b)
    <3>1. img.inode[b].nlink \in Nat
      BY <1>1, LinkPlain, DirsInum
    <3>2. QED
      BY <1>6, <3>1
  <2> DEFINE t == Base(mid, b)
             u == Cardinality(Subs(mid, b))
  <2>3. /\ Cardinality(Subs(img, b)) = u + Has(d, b) /\ Base(img, b) = t + Has(x, b)
        /\ u \in Nat /\ t \in {1, 2}
    BY <1>10, <1>11
  <2> HIDE DEF t, u, Base
  <2>4. mid.inode[b].nlink = u + t + Has(d, b)
    BY <2>1, <2>2, <2>3
  <2>5. QED
    BY <2>4 DEF t, u
<1>13. mid \in Image /\ d \in Inum /\ mid.inode[d].nlink \in Nat /\ mid.inode[d].nlink > 0
  <2>1. mid \in Image /\ d \in Inum
    BY <1>1, <1>6, DirsInum DEF Shape, Allocated
  <2>2. Cardinality(Subs(mid, d)) \in Nat /\ Base(mid, d) \in {1, 2} /\ Has(d, d) = 1
    BY <1>10, <1>11
  <2>3. mid.inode[d].nlink = Cardinality(Subs(mid, d)) + Base(mid, d) + Has(d, d)
    BY <1>12
  <2> HIDE DEF Has, Base
  <2>4. QED
    BY <2>1, <2>2, <2>3
<1>14. Shape(new, 0, 0) /\ Lower(new, d, -1, S) /\ Upper(new, d, -1, c)
  <2> DEFINE z == 0
             m == -1
  <2>1. z \in Int /\ Shape(mid, z, z) /\ Lower(mid, d, z, S) /\ Upper(mid, d, z, c) /\ z - 1 = m
    BY <1>2, <1>6, <1>13, Accounts
  <2> HIDE DEF z, m
  <2>2. Shape(new, z, z) /\ Lower(new, d, z - 1, S) /\ Upper(new, d, z - 1, c)
    BY <1>2, <1>13, <2>1, LinkStep
  <2>3. QED
    BY <2>1, <2>2 DEF z, m
<1>15. /\ DirsOf(new) = DirsOf(img) /\ new.rootdir = img.rootdir /\ Counters(new)
  <2>1. Shape(mid, 0, 0)
    BY <1>6
  <2>2. QED
    BY <1>6, <1>13, <2>1, LinkKeeps
<1>16. /\ \A b \in Inum : Inside(new, b) = Inside(mid, b)
       /\ \A j \in Inum \ {d} : new.inode[j].nlink = mid.inode[j].nlink
       /\ new.inode[d].nlink = mid.inode[d].nlink - 1
  <2>1. Allocated(mid)
    BY <1>6 DEF Shape
  <2>2. QED
    BY <1>13, <2>1, LinkSame, LinkPlain
<1> HIDE DEF new
<1>17. \A b \in DirsOf(img) : b \in Inum /\ Subs(new, b) = Subs(mid, b)
                              /\ Named(new, b) = Named(mid, b)
  BY <1>1, <1>16, DirsInum DEF Subs, Named
<1>18. \A b : NamesOf(new, b) = NamesOf(mid, b)
  BY <1>6, <1>15, <1>17 DEF NamesOf
<1>19. \A b \in DirsOf(img) : Base(new, b) = Base(mid, b)
  BY <1>6, <1>15, <1>18
<1>20. \A b \in DirsOf(img) : new.inode[b].nlink = Cardinality(Subs(new, b)) + Base(new, b)
  <2> SUFFICES ASSUME NEW b \in DirsOf(img)
               PROVE  new.inode[b].nlink = Cardinality(Subs(new, b)) + Base(new, b)
    OBVIOUS
  <2> DEFINE t == Base(mid, b)
             u == Cardinality(Subs(mid, b))
  <2>1. /\ mid.inode[b].nlink = u + t + Has(d, b) /\ u \in Nat /\ t \in {1, 2}
        /\ b \in Inum /\ Subs(new, b) = Subs(mid, b) /\ Base(new, b) = t
    BY <1>10, <1>11, <1>12, <1>17, <1>19
  <2> HIDE DEF t, Base
  <2>2. new.inode[b].nlink = u + t
    BY <1>16, <2>1
  <2>3. QED
    BY <2>1, <2>2
<1>21. Exact(new)
  BY <1>6, <1>9, <1>15, <1>18, <1>20 DEF Exact, Rootless
<1>22. Upper(new, 0, 0, c)
  <2> DEFINE z == 0
             m == -1
  <2>1. z \in Int /\ m \in Int /\ m <= z /\ c <= c /\ Upper(new, d, m, c) /\ new \in Image
    BY <1>2, <1>14 DEF Shape, Allocated
  <2> HIDE DEF z, m
  <2>2. Upper(new, d, z, c)
    BY <1>2, <2>1, UpperWeaken
  <2>3. QED
    BY <1>2, <2>1, <2>2, Accounts DEF z
<1>23. Lower(new, 0, 0, S)
  <2> SUFFICES ASSUME NEW i \in new.used \ {0}
               PROVE  /\ IsFiniteSet(NamesOf(new, i))
                      /\ Spare(new, i, 0) \in
                           IF new.inode[i].type = "DIR" THEN Nat \ {0} ELSE S
    BY DEF Lower
  <2>1. /\ IsFiniteSet(NamesOf(new, i))
        /\ Spare(new, i, IF i = d THEN -1 ELSE 0) \in
             IF new.inode[i].type = "DIR" THEN Nat \ {0} ELSE S
    BY <1>14 DEF Lower
  <2>2. CASE i # d
    BY <2>1, <2>2
  <2>3. CASE i = d
    <3>1. new.inode[d].type = "DIR" /\ d \in DirsOf(new)
      BY <1>15 DEF DirsOf
    <3>2. Cardinality(NamesOf(new, d)) = IF NamesOf(new, d) = {} THEN 0 ELSE 1
      BY <1>14, <3>1, NamesOne DEF Shape
    <3>3. new.inode[d].nlink = Cardinality(Subs(new, d)) + Base(new, d)
      BY <1>20
    <3>4. Cardinality(Subs(new, d)) \in Nat
      BY <1>10, <1>17
    <3>5. Base(new, d) \in {1, 2} /\ (NamesOf(new, d) # {} => Base(new, d) = 2)
      OBVIOUS
    <3> DEFINE t == Base(new, d)
               s == Cardinality(Subs(new, d))
    <3> HIDE DEF t, s
    <3>6. new.inode[d].nlink - Cardinality(NamesOf(new, d)) - 0 \in Nat \ {0}
      BY <3>2, <3>3, <3>4, <3>5 DEF t, s
    <3>7. QED
      BY <2>1, <2>3, <3>1, <3>6 DEF Spare
  <2>4. QED
    BY <2>2, <2>3
<1>24. TreeInv(new, S)
  BY <1>14, <1>15, <1>22, <1>23 DEF TreeInv, DirBound, c
<1>25. QED
  BY <1>21, <1>24 DEF new, mid

-----------------------------------------------------------------------------
(* The calls.                                                              *)

\* fs_creat and fs_mkdir.
LEMMA CreateTree ==
  ASSUME LinksFit, TypeOK, NEW S \in SUBSET Nat, 0 \in S, TreeInv(image, S),
         NEW path \in Path, NEW type \in {"REG", "DIR"}, Create(path, type)
  PROVE  TreeInv(image', S) /\ ExactKept(image', image)
<1> DEFINE found == Lookup(path)
           i == FreeInum(image)
           name == Filename(path)
<1>1. image \in Image /\ Shape(image, 0, 0)
  BY DEF TreeInv, TypeOK
<1>2. \/ image' = image
      \/ /\ found.dent = Null /\ found.pi > 0 /\ i # 0
         /\ Fits(AllocInode(image, i, type), found.pi)
         /\ image' = DoCreat(image, found.pi, i, name, type)
  BY DEF Create, RefuseCreate, Fail, Done, Crash
<1>3. ASSUME found.pi > 0 PROVE Knows(image, found, name)
  BY <1>1, <1>3, LookupKnows, ZeroInum
<1>4. i # 0 => i \in Inum \ {0} /\ i \notin image.used
  BY <1>1, FreeInumUnused
<1> HIDE DEF found, i, name
<1>5. ASSUME found.dent = Null, found.pi > 0, i # 0,
             Fits(AllocInode(image, i, type), found.pi)
      PROVE  /\ TreeInv(DoCreat(image, found.pi, i, name, type), S)
             /\ ExactKept(DoCreat(image, found.pi, i, name, type), image)
  <2>1. found.pi \in DirsOf(image) /\ name \in Names /\ Absent(Ents(image, found.pi), name)
    BY <1>3, <1>5 DEF Knows
  <2>2. CASE type = "DIR"
    BY <1>4, <1>5, <2>1, <2>2, MadeDir, MadeDirExact
  <2>3. CASE type = "REG"
    BY <1>4, <1>5, <2>1, <2>3, MadeFile, MadeFileExact
  <2>4. QED
    BY <2>2, <2>3
<1>6. QED
  BY <1>2, <1>5 DEF ExactKept

\* fs_unlink.
LEMMA UnlinkTree ==
  ASSUME TextBeyond, TypeOK, NEW S \in SUBSET Nat, TreeInv(image, S), NEW path \in Path, Unlink(path)
  PROVE  TreeInv(image', S) /\ ExactKept(image', image)
<1> DEFINE found == Lookup(path)
           i == Deref(image, found.dummy, found.dent).inum
           name == Filename(path)
           new == UnlinkDent(image, found.dummy, found.dent)
           c == DirBound(image)
<1>1. /\ image \in Image /\ Shape(image, 0, 0) /\ Counters(image)
      /\ Lower(image, 0, 0, S) /\ Upper(image, 0, 0, c)
  BY DEF TreeInv, TypeOK
<1>2. \/ image' = image
      \/ found.dent # Null /\ image.inode[i].type # "DIR" /\ image' = new
  BY DEF Unlink, Fail, Done
<1>3. ASSUME found.dent # Null PROVE Knows(image, found, name)
  BY <1>1, <1>3, LookupKnows, ZeroInum
<1>4. found.dummy \in Inum
  BY LookupType, ZeroInum, FoundType
<1>5. c \in Int /\ 0 \in Nat /\ 0 \in Int
  BY <1>1, DirBoundType DEF Shape
<1> HIDE DEF found, name, c
<1>6. ASSUME found.dent # Null, image.inode[i].type # "DIR"
      PROVE  TreeInv(new, S) /\ ExactKept(new, image)
  <2>1. name \in Names
    <3>1. i \notin DirsOf(image)
      BY <1>6 DEF DirsOf
    <3>2. QED
      BY <1>3, <1>6, <3>1 DEF Knows
  <2>2. PICK k \in Live(Ents(image, found.pi)) :
          found.dent = EntPtr(image, found.pi, k) /\ Ents(image, found.pi)[k].name = name
    BY <1>3, <1>6, <2>1 DEF Knows
  <2> DEFINE d == found.pi
             e == Ents(image, d)[k]
             dm == found.dummy
             x == 0
             n == 0
             h == 0
  <2>3. d \in DirsOf(image) \ {x}
    BY <1>1, <1>3, <1>6 DEF Knows, Shape, Allocated, DirsOf
  <2>4. e.inum # x
    BY DEF Live
  <2>5. new = UnlinkDent(image, dm, EntPtr(image, d, k))
    BY <2>2
  <2>6. /\ d \in DirsOf(image) \ {x} /\ k \in Live(Ents(image, d))
        /\ Ents(image, d)[k].name \in Names /\ dm \in Inum
        /\ n \in Nat /\ h \in Int /\ c \in Int
        /\ Shape(image, x, x) /\ Counters(image) /\ Lower(image, x, n, S)
        /\ Upper(image, x, h, c)
    BY <1>1, <1>4, <1>5, <2>1, <2>2, <2>3
  <2>7. image.inode[e.inum].type # "DIR"
    BY <1>6, <2>2, DerefEnt
  <2>8. ExactKept(new, image)
    BY <2>2, <2>5, <2>6, <2>7, UnlinkedExact
  <2> HIDE DEF d, dm, x, n, h, new
  <2>9. Unlinks(new, image, x, x, d, k, S, n, h, c)
    BY <2>5, <2>6, Unlinked
  <2>10. /\ Shape(new, x, x) /\ Counters(new) /\ Lower(new, x, n, S) /\ Upper(new, x, h, c)
        /\ DirsOf(new) = DirsOf(image)
    BY <2>4, <2>9 DEF Unlinks
  <2>11. /\ Shape(new, 0, 0) /\ Counters(new) /\ Lower(new, 0, 0, S) /\ Upper(new, 0, 0, c)
        /\ DirsOf(new) = DirsOf(image)
    BY <2>10 DEF x, n, h
  <2>12. TreeInv(new, S)
    BY <2>11 DEF TreeInv, DirBound, c
  <2>13. QED
    BY <2>8, <2>12 DEF new
<1>7. QED
  BY <1>2, <1>6 DEF ExactKept

\* A link too many is a spare one, where there may be any number.
LEMMA Spared ==
  ASSUME NEW img \in Image, NEW i \in Inum, img.inode[i].type # "DIR",
         Lower(img, i, 1, Nat)
  PROVE  Lower(img, 0, 0, Nat)
<1> SUFFICES ASSUME NEW j \in img.used \ {0}
             PROVE  /\ IsFiniteSet(NamesOf(img, j))
                    /\ Spare(img, j, IF j = 0 THEN 0 ELSE 0) \in
                         IF img.inode[j].type = "DIR" THEN Nat \ {0} ELSE Nat
  BY DEF Lower
<1>1. /\ IsFiniteSet(NamesOf(img, j))
      /\ Spare(img, j, IF j = i THEN 1 ELSE 0) \in
           IF img.inode[j].type = "DIR" THEN Nat \ {0} ELSE Nat
  BY DEF Lower
<1>2. Cardinality(NamesOf(img, j)) \in Nat /\ img.inode[j].nlink \in Int
  BY <1>1, FS_CardinalityType DEF Image, Inode
<1>3. QED
  BY <1>1, <1>2 DEF Spare

\* The entry fs_link makes.
LEMMA LinkedTree ==
  ASSUME LinksFit, NEW img, NEW S, TreeInv(img, S), NEW i \in img.used \ {0},
         img.inode[i].type # "DIR", img.inode[i].nlink < MaxLinks,
         NEW d \in DirsOf(img), NEW name \in Names, Absent(Ents(img, d), name), Fits(img, d)
  PROVE  TreeInv(NewDentry(img, d, i, name), S)
<1> DEFINE new == NewDentry(img, d, i, name)
           c == DirBound(img)
<1>1. /\ img \in Image /\ i \in Inum /\ Shape(img, 0, 0) /\ Counters(img)
      /\ Lower(img, 0, 0, S) /\ Upper(img, 0, 0, c)
  BY DEF TreeInv, Shape, Allocated, Image
<1>2. c \in Int /\ c <= MaxInum + 1
  BY <1>1, DirBoundType DEF Shape
<1>3. Shape(img, i, 0)
  BY <1>1, Loose
<1> HIDE DEF c
<1>4. Lower(img, i, 0, S)
  BY <1>1, <1>2, Accounts
<1>5. i \notin DirsOf(img) /\ d \in DirsOf(img) \ {0} /\ 0 \notin DirsOf(img)
  BY <1>1 DEF DirsOf, Shape, Allocated
<1> DEFINE h == -2
           n == 0
<1>6. Upper(img, i, h, c)
  <2>1. MaxLinks \in Nat
    BY HfsAssumption
  <2>2. \A j \in img.used \ {0} : img.inode[j].nlink \in Int
    BY <1>1 DEF Image, Inode
  <2>3. QED
    BY <1>1, <1>2, <2>1, <2>2 DEF Upper
<1>7. h \in Int /\ h <= 0 /\ n \in Int /\ h + 1 <= 0 /\ h + 1 \in Int /\ Lower(img, i, n, S)
  BY <1>4
<1> HIDE DEF h, n
<1>8. LET G == NewDentry(img, d, i, name)
      IN  /\ Shape(G, i, 0) /\ Lower(G, i, n, S) /\ Upper(G, i, h + 1, c)
          /\ DirsOf(G) = DirsOf(img) /\ G.used = img.used
          /\ G.rootdir = img.rootdir
          /\ \A j \in Inum : G.inode[j].type = img.inode[j].type
          /\ \A j \in DirsOf(img) \ {d} : G.inode[j].inline = img.inode[j].inline
          /\ Counters(img) => Counters(G)
          /\ \A j : NamesOf(G, j) = IF j = i THEN NamesOf(img, j) \union {<<d, name>>}
                                    ELSE NamesOf(img, j)
  BY <1>2, <1>3, <1>5, <1>6, <1>7, NewName
<1> HIDE DEF new
<1>9. /\ Shape(new, i, 0) /\ Lower(new, i, n, S) /\ Upper(new, i, h + 1, c)
      /\ DirsOf(new) = DirsOf(img) /\ Counters(new)
  BY <1>1, <1>8 DEF new
<1>10. Shape(new, 0, 0)
  BY <1>5, <1>9, AtRest
<1>11. new \in Image /\ 0 \in Int
  BY <1>10 DEF Shape, Allocated
<1>12. Upper(new, i, 0, c)
  BY <1>2, <1>7, <1>9, <1>11, UpperWeaken
<1>13. Lower(new, 0, 0, S) /\ Upper(new, 0, 0, c)
  BY <1>2, <1>9, <1>11, <1>12, Accounts DEF n
<1>14. TreeInv(new, S)
  BY <1>9, <1>10, <1>13 DEF TreeInv, DirBound, c
<1>15. QED
  BY <1>14 DEF new

\* What is left of fs_link when the new path leads through a file.
LEMMA StrayLink ==
  ASSUME LinksFit, NEW img, TreeInv(img, Nat), NEW i \in img.used \ {0},
         img.inode[i].type # "DIR", img.inode[i].nlink < MaxLinks
  PROVE  TreeInv(AddLink(img, i), Nat)
<1> DEFINE new == AddLink(img, i)
           c == DirBound(img)
<1>1. /\ img \in Image /\ i \in Inum /\ Shape(img, 0, 0) /\ Counters(img)
      /\ Lower(img, 0, 0, Nat) /\ Upper(img, 0, 0, c)
  BY DEF TreeInv, Shape, Allocated, Image
<1>2. c \in Int /\ c <= MaxInum + 1
  BY <1>1, DirBoundType DEF Shape
<1> HIDE DEF c
<1>3. Lower(img, i, 0, Nat)
  BY <1>1, <1>2, Accounts
<1> DEFINE h == -2
           n == 0
<1>4. Upper(img, i, h, c)
  <2>1. MaxLinks \in Nat
    BY HfsAssumption
  <2>2. \A j \in img.used \ {0} : img.inode[j].nlink \in Int
    BY <1>1 DEF Image, Inode
  <2>3. QED
    BY <1>1, <1>2, <2>1, <2>2 DEF Upper
<1>5. h \in Int /\ h <= 0 /\ n \in Int /\ h + 1 <= 0 /\ h + 1 \in Int /\ n + 1 = 1
      /\ Lower(img, i, n, Nat)
  BY <1>3
<1> HIDE DEF h, n
<1>6. img.inode[i].nlink + 1 < NlinkMod
  BY <1>1, <1>2, <1>4, <1>5, Bounded
<1>7. LET G == AddLink(img, i)
      IN  Shape(G, 0, 0) /\ Lower(G, i, n + 1, Nat) /\ Upper(G, i, h + 1, c)
  BY <1>1, <1>2, <1>4, <1>5, <1>6, LinkStep
<1>8. /\ DirsOf(new) = DirsOf(img) /\ Counters(new)
      /\ new.inode[i].type = img.inode[i].type
  BY <1>1, LinkKeeps
<1> HIDE DEF new
<1>9. Shape(new, 0, 0) /\ Lower(new, i, 1, Nat) /\ Upper(new, i, h + 1, c)
  BY <1>5, <1>7 DEF new
<1>10. new \in Image /\ 0 \in Int
  BY <1>9 DEF Shape, Allocated
<1>11. Upper(new, i, 0, c)
  BY <1>2, <1>5, <1>9, <1>10, UpperWeaken
<1>12. Upper(new, 0, 0, c)
  BY <1>2, <1>10, <1>11, Accounts
<1>13. Lower(new, 0, 0, Nat)
  BY <1>1, <1>8, <1>9, <1>10, Spared
<1>14. TreeInv(new, Nat)
  BY <1>8, <1>9, <1>12, <1>13 DEF TreeInv, DirBound, c
<1>15. QED
  BY <1>14 DEF new

\* The entry a name was found at.
LEMMA FoundEntry ==
  ASSUME NEW img, Shape(img, 0, 0), NEW found, NEW name \in Names, Knows(img, found, name),
         found.dent # Null
  PROVE  \E k \in Live(Ents(img, found.pi)) :
           LET e == Ents(img, found.pi)[k]
           IN  /\ found.dent = EntPtr(img, found.pi, k) /\ e.name = name
               /\ \A dm : Deref(img, dm, found.dent) = e
               /\ e \in Named(img, found.pi)
               /\ e.inum \in img.used \ {0} /\ img.inode[e.inum].type = e.file_type
<1>1. found.pi \in DirsOf(img)
  BY DEF Knows
<1>2. PICK k \in Live(Ents(img, found.pi)) :
        found.dent = EntPtr(img, found.pi, k) /\ Ents(img, found.pi)[k].name = name
  BY DEF Knows
<1> DEFINE e == Ents(img, found.pi)[k]
<1>3. \A dm : Deref(img, dm, EntPtr(img, found.pi, k)) = e
  BY DerefEnt
<1>4. e \in Named(img, found.pi)
  BY <1>2 DEF Named, Inside, EntSet
<1>5. e.inum \in img.used \ {0} /\ img.inode[e.inum].type = e.file_type
  BY <1>1, <1>4 DEF Shape, NoDangle
<1>6. QED
  BY <1>2, <1>3, <1>4, <1>5

\* What is no directory was found at a name.
LEMMA FoundFile ==
  ASSUME NEW img, Shape(img, 0, 0), NEW found, NEW name, Knows(img, found, name),
         found.dent # Null,
         img.inode[Deref(img, found.dummy, found.dent).inum].type # "DIR"
  PROVE  name \in Names /\ Deref(img, found.dummy, found.dent).inum \in img.used \ {0}
<1>1. Deref(img, found.dummy, found.dent).inum \notin DirsOf(img)
  BY DEF DirsOf
<1>2. name \in Names
  BY <1>1 DEF Knows
<1>3. QED
  BY <1>2, FoundEntry

\* A pathname of one component does not lead through a file.
LEMMA NotThroughFile ==
  ASSUME TypeOK, Shape(image, 0, 0), NEW path \in Path, path.abs, Len(path.comp) <= 1,
         NEW dm \in Inum
  PROVE  LookupAfter(path, dm).pi # Uninit
<1> DEFINE start == [LookupStart(path) EXCEPT !.dummy = dm]
<1>1. start.prev = RootPtr /\ start.pi = 0
  BY DEF LookupStart
<1>2. Deref(image, start.dummy, RootPtr).inum = image.rootdir
  BY DEF Deref, RootPtr
<1>3. image.inode[image.rootdir].type = "DIR" /\ image.rootdir \in Inum
  BY DirsInum DEF Shape, Allocated, DirsOf, TypeOK
<1>4. CASE path.comp = << >>
  BY <1>1, <1>4 DEF LookupAfter, LookupFrom, Uninit
<1>5. CASE Len(path.comp) = 1 /\ path.comp # << >>
  <2>1. LookupAfter(path, dm) = LookupStep(image, start, path.comp[1], TRUE)
    BY <1>5 DEF LookupAfter, LookupFrom
  <2> HIDE DEF start
  <2>2. LookupStep(image, start, path.comp[1], TRUE).pi = image.rootdir
    BY <1>1, <1>2, <1>3 DEF LookupStep
  <2>3. image.rootdir # Uninit
    BY <1>3, ZeroInum DEF Uninit
  <2>4. QED
    BY <2>1, <2>2, <2>3
<1>6. QED
  BY <1>4, <1>5, PathCases

\* fs_rmdir.
LEMMA RmdirTree ==
  ASSUME TextBeyond, TypeOK, NEW S \in SUBSET Nat, TreeInv(image, S), Exact(image), NEW path \in Path,
         path.comp # << >> => Filename(path) \in Names, Rmdir(path)
  PROVE  TreeInv(image', S) /\ Exact(image')
<1> DEFINE found == Lookup(path)
           i == Deref(image, found.dummy, found.dent).inum
           name == Filename(path)
           new == DropLink(UnlinkDent(image, found.dummy, found.dent), found.pi)
<1>1. Shape(image, 0, 0)
  BY DEF TreeInv
<1>2. \/ image' = image
      \/ found.dent # Null /\ image.inode[i].type = "DIR" /\ image' = new
  BY DEF Rmdir, Fail, Done
<1>3. found.dummy \in Inum
  BY LookupType, ZeroInum, FoundType
<1>4. ASSUME found.dent # Null PROVE name \in Names /\ Knows(image, found, name)
  BY <1>1, <1>4, LookupKnows, ZeroInum
<1> HIDE DEF found, name
<1>5. ASSUME found.dent # Null, image.inode[i].type = "DIR"
      PROVE  TreeInv(new, S) /\ Exact(new)
  <2>1. PICK k \in Live(Ents(image, found.pi)) :
          /\ found.dent = EntPtr(image, found.pi, k) /\ Ents(image, found.pi)[k].name = name
          /\ Deref(image, found.dummy, found.dent) = Ents(image, found.pi)[k]
    BY <1>4, <1>5, DerefEnt DEF Knows
  <2>2. found.pi \in DirsOf(image)
    BY <1>4, <1>5 DEF Knows
  <2>3. /\ Ents(image, found.pi)[k].name \in Names
        /\ image.inode[Ents(image, found.pi)[k].inum].type = "DIR"
    BY <1>4, <1>5, <2>1
  <2>4. QED
    BY <1>3, <2>1, <2>2, <2>3, CutOff
<1>6. QED
  BY <1>2, <1>5

\* fs_link.
LEMMA LinkTree ==
  ASSUME LinksFit, TypeOK, NEW S, TreeInv(image, S), NEW old \in Path, NEW new \in Path,
         Link(old, new), S = Nat \/ (new.abs /\ Len(new.comp) <= 1)
  PROVE  TreeInv(image', S) /\ ExactKept(image', image)
<1> DEFINE source == Lookup(old)
           i == Deref(image, source.dummy, source.dent).inum
           target == LookupAfter(new, source.dummy)
           dir == target.pi
           name == Filename(new)
<1>1. image \in Image /\ Shape(image, 0, 0)
  BY DEF TreeInv, TypeOK
<1>2. source \in Found /\ source.dummy \in Inum
  BY LookupType, FoundType, ZeroInum
<1>3. \/ image' = image
      \/ /\ source.dent # Null /\ image.inode[i].type # "DIR"
         /\ image.inode[i].nlink < MaxLinks
         /\ \/ dir = Uninit /\ image' = AddLink(image, i)
            \/ /\ target.dent = Null /\ dir > 0 /\ Fits(image, dir)
               /\ image' = NewDentry(image, dir, i, name)
  BY DEF Link, Fail, Done, Crash
<1>4. ASSUME dir > 0 PROVE Knows(image, target, name)
  BY <1>1, <1>2, <1>4, LookupKnows
<1>5. ASSUME source.dent # Null PROVE Knows(image, source, Filename(old))
  BY <1>1, <1>5, LookupKnows, ZeroInum
<1>6. dir = Uninit => S = Nat
  BY <1>1, <1>2, NotThroughFile
<1> HIDE DEF source, target, name
<1>7. source.dent # Null /\ image.inode[i].type # "DIR" => i \in image.used \ {0}
  BY <1>1, <1>5, FoundFile
<1> HIDE DEF i
<1>8. ASSUME source.dent # Null, image.inode[i].type # "DIR", image.inode[i].nlink < MaxLinks,
             dir = Uninit
      PROVE  TreeInv(AddLink(image, i), S) /\ ExactKept(AddLink(image, i), image)
  <2>1. Allocated(image) /\ i \in Inum
    BY <1>1, <1>7, <1>8 DEF Shape, Image
  <2>2. QED
    BY <1>6, <1>7, <1>8, <2>1, StrayLink, StrayExact
<1>9. ASSUME source.dent # Null, image.inode[i].type # "DIR", image.inode[i].nlink < MaxLinks,
             target.dent = Null, dir > 0, Fits(image, dir)
      PROVE  /\ TreeInv(NewDentry(image, dir, i, name), S)
             /\ ExactKept(NewDentry(image, dir, i, name), image)
  <2>1. dir \in DirsOf(image) /\ name \in Names /\ Absent(Ents(image, dir), name)
    BY <1>4, <1>9 DEF Knows
  <2> HIDE DEF dir
  <2>2. QED
    BY <1>7, <1>9, <2>1, LinkedTree, LinkedExact
<1>10. QED
  BY <1>3, <1>8, <1>9 DEF ExactKept

\* An inode that gets no name.
LEMMA TakenTree ==
  ASSUME NEW img, NEW S, 0 \in S, TreeInv(img, S), NEW i \in Inum \ {0}, i \notin img.used
  PROVE  LET new == AllocInode(img, i, "SYM")
         IN  /\ TreeInv(new, S) /\ DirsOf(new) = DirsOf(img)
             /\ \A d \in DirsOf(img) : Ents(new, d) = Ents(img, d)
<1> DEFINE new == AllocInode(img, i, "SYM")
           c == DirBound(img)
<1>1. /\ img \in Image /\ Shape(img, 0, 0) /\ Counters(img)
      /\ Lower(img, 0, 0, S) /\ Upper(img, 0, 0, c) /\ DirsOf(img) # {}
  BY DEF TreeInv, Shape, Allocated
<1>2. c \in Int /\ c >= 2
  <2>1. IsFiniteSet(DirsOf(img)) /\ DirsOf(img) # {}
    BY <1>1, DirBoundType DEF Shape
  <2>2. Cardinality(DirsOf(img)) \in Nat \ {0}
    BY <2>1, FS_CardinalityType, FS_EmptySet
  <2>3. QED
    BY <2>2 DEF DirBound
<1> HIDE DEF c
<1>3. /\ Shape(new, i, i) /\ Counters(new) /\ Lower(new, i, 0, S) /\ Upper(new, i, -1, c)
      /\ DirsOf(new) = DirsOf(img)
      /\ \A d \in DirsOf(img) : Ents(new, d) = Ents(img, d)
  <2>1. "SYM" \in Types \ {"UNUSED"}
    BY DEF Types
  <2>2. LET isDir == "SYM" = "DIR"
        IN  /\ Shape(new, i, i) /\ Counters(new)
            /\ Lower(new, i, IF isDir THEN -1 ELSE 0, S)
            /\ Upper(new, i, IF isDir THEN -2 ELSE -1, c)
            /\ DirsOf(new) = DirsOf(img) \union (IF isDir THEN {i} ELSE {})
            /\ new.used = img.used \union {i} /\ new.rootdir = img.rootdir
            /\ \A d \in DirsOf(img) : Ents(new, d) = Ents(img, d)
            /\ \A j : NamesOf(new, j) = NamesOf(img, j)
            /\ NamesOf(new, i) = {}
            /\ new.inode[i].type = "SYM" /\ new.inode[i].inline = isDir
    BY SMTT(30), <1>1, <1>2, <2>1, Taken
  <2>3. DirsOf(img) \union {} = DirsOf(img)
    OBVIOUS
  <2>4. QED
    BY <2>2, <2>3
<1> HIDE DEF new
<1>4. i \notin DirsOf(new)
  BY <1>3 DEF DirsOf
<1>5. Shape(new, 0, 0)
  BY <1>3, <1>4, AtRest
<1> DEFINE h == -1
<1>6. new \in Image /\ 0 \in Int /\ h \in Int /\ h <= 0 /\ c <= c /\ Upper(new, i, h, c)
  BY <1>2, <1>3, <1>5 DEF Shape, Allocated
<1> HIDE DEF h
<1>7. Upper(new, i, 0, c)
  BY <1>2, <1>6, UpperWeaken
<1>8. Lower(new, 0, 0, S) /\ Upper(new, 0, 0, c)
  BY <1>2, <1>3, <1>6, <1>7, Accounts
<1>9. TreeInv(new, S)
  BY <1>3, <1>5, <1>8 DEF TreeInv, DirBound, c
<1>10. QED
  BY <1>3, <1>9 DEF new

\* The inode fs_symlink takes and forgets.
LEMMA TakenExact ==
  ASSUME NEW img, NEW S, 0 \in S, TreeInv(img, S),
         NEW i \in Inum \ {0}, i \notin img.used
  PROVE  ExactKept(AllocInode(img, i, "SYM"), img)
<1> DEFINE new == AllocInode(img, i, "SYM")
<1>1. /\ DirsOf(new) = DirsOf(img) /\ \A d \in DirsOf(img) : Ents(new, d) = Ents(img, d)
  BY TakenTree
<1>2. img \in Image /\ Allocated(img) /\ "SYM" \in Types \ {"UNUSED"}
      /\ DirsOf(img) \subseteq Inum \ {i}
  BY DirsInum DEF TreeInv, Shape, Allocated, Types, DirsOf
<1>3. \A j \in Inum \ {i} : new.inode[j].nlink = img.inode[j].nlink
  BY <1>2, InodeTaken
<1>4. new.rootdir = img.rootdir
  BY <1>2, TakenFields
<1>5. QED
  BY <1>1, <1>2, <1>3, <1>4, ExactEnts

\* The inline flag of an inode that is no directory.
LEMMA InlinedTree ==
  ASSUME NEW img, NEW S, TreeInv(img, S), NEW j \in Inum, img.inode[j].type # "DIR"
  PROVE  TreeInv([img EXCEPT !.inode[j].inline = TRUE], S)
<1> DEFINE new == [img EXCEPT !.inode[j].inline = TRUE]
           root == img.rootdir
<1>1. img \in Image /\ NamesInv(img) /\ Shape(img, 0, 0) /\ DirsOf(img) \subseteq Inum
  BY DirsInum DEF TreeInv, Shape, Allocated
<1>2. /\ new \in Image /\ new.used = img.used /\ new.bitmap = img.bitmap
      /\ new.blocks = img.blocks /\ new.rootdir = img.rootdir
      /\ new.inode_used = img.inode_used /\ new.ndirectories = img.ndirectories
      /\ new.nfiles = img.nfiles
  <2>1. [img.inode[j] EXCEPT !.inline = TRUE] \in Inode
    <3>1. img.inode[j] \in Inode
      BY <1>1 DEF Image
    <3>2. QED
      BY <3>1 DEF Inode
  <2>2. new \in Image
    <3>1. [img EXCEPT !.inode[j] = [img.inode[j] EXCEPT !.inline = TRUE]] \in Image
      BY <1>1, <2>1, InodeReplaced
    <3>2. QED
      BY <3>1
  <2>3. /\ new.used = img.used /\ new.bitmap = img.bitmap
        /\ new.blocks = img.blocks /\ new.rootdir = img.rootdir
        /\ new.inode_used = img.inode_used /\ new.ndirectories = img.ndirectories
        /\ new.nfiles = img.nfiles
    BY <1>1 DEF Image
  <2>4. QED
    BY <2>2, <2>3
<1>3. \A i \in Inum : /\ new.inode[i].type = img.inode[i].type
                      /\ new.inode[i].ents = img.inode[i].ents
                      /\ new.inode[i].nlink = img.inode[i].nlink
                      /\ i # j => new.inode[i] = img.inode[i]
  BY <1>1 DEF Image, Inode
<1> HIDE DEF new
<1>4. NamesInv(new)
  BY <1>1, <1>2, <1>3 DEF NamesInv
<1>5. DirsOf(new) = DirsOf(img) /\ \A d \in DirsOf(img) : new.inode[d] = img.inode[d]
  BY <1>1, <1>2, <1>3 DEF DirsOf, Image
<1>6. \A d \in DirsOf(img) : Inside(new, d) = Inside(img, d) /\ Named(new, d) = Named(img, d)
  BY <1>2, <1>5 DEF Inside, Ents, Named
<1>7. \A d \in DirsOf(img) : \A p : Up(new, d, p) <=> Up(img, d, p)
  BY <1>5, <1>6 DEF Up
<1>8. Owned(new) /\ Dotted(new)
  BY <1>1, <1>2, <1>5, <1>6 DEF Shape, Owned, Dotted
<1>9. Kept(new, img, root, 0)
  BY <1>1, <1>2, <1>3, <1>4, <1>5, <1>6, <1>7, <1>8 DEF Kept
<1>10. root \in DirsOf(img) \ {0}
  BY <1>1 DEF Shape, Allocated, DirsOf
<1>11. Shape(new, 0, 0) /\ (Counters(img) => Counters(new))
  BY <1>1, <1>6, <1>9, <1>10, KeptSame, KeptAllocated DEF Shape
<1>12. \A i : NamesOf(new, i) = NamesOf(img, i)
  BY <1>5, <1>6 DEF NamesOf
<1>13. SameLinks(new, img)
  BY <1>3 DEF SameLinks
<1>14. \A n, h, c : /\ Lower(img, 0, n, S) => Lower(new, 0, n, S)
                    /\ Upper(img, 0, h, c) => Upper(new, 0, h, c)
  BY <1>1, <1>2, <1>3, <1>12, <1>13, SameAccounts
<1>15. TreeInv(new, S)
  BY <1>5, <1>11, <1>14 DEF TreeInv, DirBound
<1>16. QED
  BY <1>15 DEF new

\* fs_symlink.
LEMMA SymlinkTree ==
  ASSUME LinksFit, TypeOK, NEW S \in SUBSET Nat, 0 \in S, TreeInv(image, S),
         NEW path \in Path, Symlink(path)
  PROVE  TreeInv(image', S) /\ ExactKept(image', image)
<1> DEFINE found == Lookup(path)
           name == Filename(path)
           i == FreeInum(image)
           first == AllocInode(image, i, "SYM")
           j == FreeInum(first)
           made == DoCreat(first, found.pi, j, name, "SYM")
<1>1. image \in Image /\ Shape(image, 0, 0)
  BY DEF TreeInv, TypeOK
<1>2. \/ image' = image
      \/ i # 0 /\ image' = first
      \/ /\ found.dent = Null /\ found.pi > 0 /\ i # 0 /\ j # 0
         /\ Fits(AllocInode(first, j, "SYM"), found.pi)
         /\ image' = [made EXCEPT !.inode[j].inline = TRUE]
  BY DEF Symlink, Fail, Done
<1>3. ASSUME found.pi > 0 PROVE Knows(image, found, name)
  BY <1>1, <1>3, LookupKnows, ZeroInum
<1>4. i # 0 => i \in Inum \ {0} /\ i \notin image.used
  BY <1>1, FreeInumUnused
<1> HIDE DEF found, name, i
<1>5. i # 0 => /\ TreeInv(first, S) /\ DirsOf(first) = DirsOf(image)
               /\ \A d \in DirsOf(image) : Ents(first, d) = Ents(image, d)
               /\ ExactKept(first, image)
  BY <1>4, TakenTree, TakenExact
<1>6. i # 0 /\ j # 0 => j \in Inum \ {0} /\ j \notin first.used
  BY <1>5, FreeInumUnused DEF TreeInv, Shape, Allocated
<1> HIDE DEF first, j
<1>7. ASSUME found.dent = Null, found.pi > 0, i # 0, j # 0,
             Fits(AllocInode(first, j, "SYM"), found.pi)
      PROVE  /\ TreeInv([made EXCEPT !.inode[j].inline = TRUE], S)
             /\ ExactKept([made EXCEPT !.inode[j].inline = TRUE], image)
  <2>1. /\ found.pi \in DirsOf(first) /\ name \in Names
        /\ Absent(Ents(first, found.pi), name)
    BY <1>3, <1>5, <1>7 DEF Knows
  <2>2. TreeInv(made, S) /\ made.inode[j].type = "SYM"
    BY <1>5, <1>6, <1>7, <2>1, MadeFile
  <2>3. ExactKept(made, first)
    BY <1>5, <1>6, <1>7, <2>1, MadeFileExact
  <2> HIDE DEF made
  <2>4. Allocated(made)
    BY <2>2 DEF TreeInv, Shape
  <2>5. QED
    BY <1>5, <1>6, <1>7, <2>2, <2>3, <2>4, InlinedTree, InlinedExact DEF ExactKept
<1>8. QED
  BY <1>2, <1>5, <1>7 DEF ExactKept

-----------------------------------------------------------------------------
(* fs_rename, in three steps.                                              *)

\* fs_rename from entry k of directory a to name in d: newdent is the entry
\* of that name, another one than the k-th of a, or Null.
Moves(img, a, k, d, name, newdent) ==
  /\ a \in DirsOf(img) /\ k \in Live(Ents(img, a)) /\ Ents(img, a)[k].name \in Names
  /\ d \in DirsOf(img) /\ name \in Names
  /\ newdent # EntPtr(img, a, k)
  /\ IF newdent = Null THEN Absent(Ents(img, d), name)
     ELSE \E m \in Live(Ents(img, d)) :
            newdent = EntPtr(img, d, m) /\ Ents(img, d)[m].name = name

\* The name at is gone; every other name leads where it led.
Loses(new, old, at) ==
  new.rootdir = old.rootdir /\ \A j : NamesOf(new, j) = NamesOf(old, j) \ {at}

LEMMA Unnamed ==
  ASSUME NEW img, NEW new, NEW x, NEW y, NEW d \in DirsOf(img), NEW k \in Live(Ents(img, d)),
         NEW S, NEW n, NEW h, NEW c, Allocated(img), Ents(img, d)[k].name \in Names,
         Unlinks(new, img, x, y, d, k, S, n, h, c)
  PROVE  Loses(new, img, <<d, Ents(img, d)[k].name>>)
<1> DEFINE e == Ents(img, d)[k]
<1>1. /\ new.rootdir = img.rootdir
      /\ \A j : NamesOf(new, j) = IF j = e.inum THEN NamesOf(img, j) \ {<<d, e.name>>}
                                  ELSE NamesOf(img, j)
  BY DEF Unlinks
<1>2. e \in Named(img, d)
  BY DEF Named, Inside, EntSet
<1> HIDE DEF e
<1>3. \A j : e.inum = j <=> <<d, e.name>> \in NamesOf(img, j)
  BY <1>2, NamesAre
<1>4. \A j : NamesOf(new, j) = NamesOf(img, j) \ {<<d, e.name>>}
  BY <1>1, <1>3
<1>5. QED
  BY <1>1, <1>4 DEF Loses, e

\* The entry at the new path, if there is one, is unlinked.
LEMMA Overwritten ==
  ASSUME TextBeyond, NEW img, NEW S \in SUBSET Nat, TreeInv(img, S), NEW dm \in Inum,
         NEW a, NEW k, NEW d, NEW name, NEW newdent, Moves(img, a, k, d, name, newdent)
  PROVE  LET over == IF newdent = Null THEN img ELSE UnlinkDent(img, dm, newdent)
             e == Ents(img, a)[k]
             i == e.inum
         IN  /\ Shape(over, i, 0) /\ Counters(over) /\ Lower(over, i, 0, S)
             /\ Upper(over, i, 0, DirBound(img)) /\ DirsOf(over) = DirsOf(img)
             /\ k \in Live(Ents(over, a)) /\ Ents(over, a)[k] = e
             /\ EntPtr(over, a, k) = EntPtr(img, a, k)
             /\ Absent(Ents(over, d), name) /\ Loses(over, img, <<d, name>>)
<1> DEFINE over == IF newdent = Null THEN img ELSE UnlinkDent(img, dm, newdent)
           e == Ents(img, a)[k]
           i == e.inum
           c == DirBound(img)
<1>1. /\ img \in Image /\ Shape(img, i, 0) /\ Counters(img) /\ c \in Int /\ 0 \in Int
      /\ NamesInv(img) /\ DirsOf(img) \subseteq Inum
  BY Loose, DirsInum, DirBoundType DEF TreeInv, Shape, Allocated
<1> HIDE DEF i, e, c
<1>2. Lower(img, i, 0, S) /\ Upper(img, i, 0, c)
  BY <1>1, Accounts DEF TreeInv, c
<1>3. a \in DirsOf(img) /\ d \in DirsOf(img) \ {0} /\ k \in Live(Ents(img, a)) /\ name \in Names
  BY <1>1 DEF Moves, Shape, Allocated, DirsOf
<1>4. CASE newdent = Null
  <2>1. over = img /\ Absent(Ents(img, d), name)
    BY <1>4 DEF Moves
  <2>2. \A j : <<d, name>> \notin NamesOf(img, j)
    BY <1>3, <2>1, AbsentNamed DEF NamesOf
  <2>3. Loses(over, img, <<d, name>>)
    BY <2>1, <2>2 DEF Loses
  <2>4. QED
    BY <1>1, <1>2, <1>3, <1>4, <2>1, <2>3 DEF c, e, i
<1>5. CASE newdent # Null
  <2>1. PICK m \in Live(Ents(img, d)) :
          newdent = EntPtr(img, d, m) /\ Ents(img, d)[m].name = name
    BY <1>5 DEF Moves
  <2> DEFINE f == Ents(img, d)[m]
             h == 0
             n == 0
  <2>2. h \in Int /\ n \in Nat /\ Lower(img, i, n, S) /\ Upper(img, i, h, c)
        /\ Ents(img, d)[m].name \in Names
    BY <1>2, <1>3, <2>1
  <2> HIDE DEF h, n
  <2>3. Unlinks(UnlinkDent(img, dm, EntPtr(img, d, m)), img, i, 0, d, m, S, n, h, c)
    BY <1>1, <1>3, <2>2, Unlinked
  <2>4. over = UnlinkDent(img, dm, EntPtr(img, d, m))
    BY <1>5, <2>1
  <2> HIDE DEF over
  <2>5. /\ Shape(over, i, 0) /\ Counters(over) /\ Lower(over, i, n, S)
        /\ Upper(over, i, IF f.inum = i THEN h - 1 ELSE h, c)
        /\ DirsOf(over) = DirsOf(img) /\ Stays(over, img, newdent)
        /\ Named(over, d) = Named(img, d) \ {f}
    BY <2>1, <2>3, <2>4 DEF Unlinks
  <2>6. over \in Image
    BY <2>5 DEF Shape, Allocated
  <2>7. Upper(over, i, 0, c)
    <3> DEFINE g == IF f.inum = i THEN h - 1 ELSE h
    <3>1. g \in Int /\ g <= 0 /\ 0 \in Int /\ Upper(over, i, g, c) /\ c <= c
      BY <1>1, <2>2, <2>5 DEF h
    <3> HIDE DEF g
    <3>2. QED
      BY <1>1, <2>6, <3>1, UpperWeaken
  <2>8. /\ k \in Live(Ents(over, a)) /\ Ents(over, a)[k] = e
        /\ EntPtr(over, a, k) = EntPtr(img, a, k)
    <3>1. EntPtr(img, a, k) # newdent /\ k \in Nat
      BY <1>3 DEF Moves, Live
    <3>2. QED
      BY <1>3, <2>5, <3>1 DEF Stays, e
  <2>9. Absent(Ents(over, d), name)
    <3>1. f \in Named(img, d) /\ f.name = name
      BY <1>3, <2>1 DEF Named, Inside, EntSet, f
    <3>2. \A g \in Named(img, d) : g.name = name => g = f
      BY <1>1, <1>3, <3>1, NamedOnce DEF Named
    <3>3. \A g \in Named(over, d) : g.name # name
      BY <2>5, <3>2
    <3>4. QED
      BY <1>3, <3>3, AbsentNamed
  <2>10. Lower(over, i, 0, S)
    BY <2>5 DEF n
  <2>11. Loses(over, img, <<d, name>>)
    <3>1. Allocated(img) /\ d \in DirsOf(img)
      BY <1>1, <1>3 DEF Shape
    <3>2. Loses(over, img, <<d, Ents(img, d)[m].name>>)
      BY <2>2, <2>3, <2>4, <3>1, Unnamed
    <3>3. QED
      BY <2>1, <3>2
  <2>12. QED
    BY <2>5, <2>7, <2>8, <2>9, <2>10, <2>11 DEF over, e, i, c
<1>6. QED
  BY <1>4, <1>5

\* What the moved entry's unlink leaves: the extra link of i is its spare one.
Lifts(new, img, i, d, name, S, c) ==
  /\ Shape(new, i, 0) /\ Counters(new) /\ Lower(new, i, 1, S) /\ Upper(new, i, 0, c)
  /\ DirsOf(new) = DirsOf(img) /\ i \in new.used \ {0}
  /\ Absent(Ents(new, d), name)
  /\ i \in DirsOf(img) => NamesOf(new, i) = {}

\* The old entry is unlinked under an extra link.
LEMMA Lifted ==
  ASSUME TextBeyond, LinksFit, NEW img, NEW S \in SUBSET Nat, NEW dm \in Inum,
         NEW a \in DirsOf(img), NEW k \in Live(Ents(img, a)), Ents(img, a)[k].name \in Names,
         NEW d \in DirsOf(img), NEW name \in Names, Absent(Ents(img, d), name),
         NEW i, i = Ents(img, a)[k].inum, NEW c \in Int, c <= MaxInum + 1,
         Shape(img, i, 0), Counters(img), Lower(img, i, 0, S), Upper(img, i, 0, c)
  PROVE  LET new == UnlinkDent(AddLink(img, i), dm, EntPtr(img, a, k))
         IN  Lifts(new, img, i, d, name, S, c) /\ Loses(new, img, <<a, Ents(img, a)[k].name>>)
<1> DEFINE linked == AddLink(img, i)
           new == UnlinkDent(AddLink(img, i), dm, EntPtr(img, a, k))
           e == Ents(img, a)[k]
<1>1. /\ img \in Image /\ Allocated(img) /\ DirsOf(img) \subseteq Inum /\ 0 \notin DirsOf(img)
  BY DirsInum DEF Shape, Allocated, DirsOf
<1>2. e \in Named(img, a)
  BY DEF Named, Inside, EntSet
<1>3. i \in img.used \ {0} /\ i \in Inum
  BY <1>1, <1>2 DEF Shape, NoDangle, Image
<1> DEFINE h == 0
           n == 0
<1>4. h \in Int /\ n \in Int /\ h <= 0 /\ h + 1 = 1 /\ n + 1 = 1 /\ 1 \in Int /\ 1 \in Nat
      /\ Lower(img, i, n, S) /\ Upper(img, i, h, c)
  OBVIOUS
<1> HIDE DEF h, n
<1>5. img.inode[i].nlink + 1 < NlinkMod
  BY <1>1, <1>3, <1>4, Bounded
<1>6. LET G == AddLink(img, i)
      IN  Shape(G, i, 0) /\ Lower(G, i, n + 1, S) /\ Upper(G, i, h + 1, c)
  BY <1>3, <1>4, <1>5, LinkStep
<1>7. /\ DirsOf(linked) = DirsOf(img) /\ linked.used = img.used /\ Counters(linked)
      /\ \A b \in Inum : Ents(linked, b) = Ents(img, b) /\ Inside(linked, b) = Inside(img, b)
  BY <1>3, LinkKeeps
<1>8. EntPtr(linked, a, k) = EntPtr(img, a, k)
  BY <1>1, <1>3, LinkSame DEF SameInodes, EntPtr
<1>9. Shape(linked, i, 0) /\ Lower(linked, i, 1, S) /\ Upper(linked, i, 1, c)
  BY <1>4, <1>6
<1> HIDE DEF linked
<1>10. /\ a \in DirsOf(linked) \ {0} /\ k \in Live(Ents(linked, a))
       /\ Ents(linked, a)[k] = e /\ Ents(linked, a)[k].name \in Names
  BY <1>1, <1>7
<1>11. Unlinks(UnlinkDent(linked, dm, EntPtr(linked, a, k)), linked, i, 0, a, k, S, 1, 1, c)
  BY <1>4, <1>7, <1>9, <1>10, Unlinked
<1>12. new = UnlinkDent(linked, dm, EntPtr(linked, a, k))
  BY <1>8 DEF linked
<1> HIDE DEF new
<1>13. linked.rootdir = img.rootdir /\ \A j : NamesOf(linked, j) = NamesOf(img, j)
  BY <1>3, LinkKeeps DEF linked
<1>14. Loses(new, img, <<a, e.name>>)
  <2>1. Allocated(linked) /\ a \in DirsOf(linked) /\ Ents(linked, a)[k].name = e.name
    BY <1>9, <1>10 DEF Shape
  <2>2. Loses(new, linked, <<a, Ents(linked, a)[k].name>>)
    BY <1>10, <1>11, <1>12, <2>1, Unnamed
  <2>3. QED
    BY <1>13, <2>1, <2>2 DEF Loses
<1> HIDE DEF e
<1>15. e.inum = i
  BY DEF e
<1>16. /\ Shape(new, i, 0) /\ Counters(new) /\ Lower(new, i, 1, S)
       /\ Upper(new, i, 0, c)
       /\ DirsOf(new) = DirsOf(img)
       /\ \A b \in DirsOf(linked) \ {a} : Named(new, b) = Named(linked, b)
       /\ Named(new, a) = Named(linked, a) \ {e}
       /\ i \in linked.used => i \in new.used
       /\ NamesOf(new, i) = NamesOf(linked, i) \ {<<a, e.name>>}
  BY <1>7, <1>10, <1>11, <1>12, <1>15 DEF Unlinks
<1>17. Absent(Ents(new, d), name)
  <2>1. Named(linked, d) = Named(img, d)
    BY <1>1, <1>7 DEF Named
  <2>2. Named(new, d) \subseteq Named(img, d)
    BY <1>7, <1>16, <2>1
  <2>3. QED
    BY <2>2, AbsentNamed
<1>18. ASSUME i \in DirsOf(img) PROVE NamesOf(new, i) = {}
  <2>1. e \in Named(linked, a)
    BY <1>1, <1>2, <1>7 DEF Named
  <2>2. ASSUME NEW at \in NamesOf(linked, i) PROVE at = <<a, e.name>>
    <3>1. at[1] \in DirsOf(linked) /\ at = <<at[1], at[2]>>
      BY DEF NamesOf
    <3>2. PICK f \in Named(linked, at[1]) : f.name = at[2] /\ f.inum = i
      BY DEF NamesOf
    <3>3. at[1] = a /\ f = e
      BY <1>7, <1>9, <1>10, <1>15, <1>18, <2>1, <3>1, <3>2 DEF Shape, OneName
    <3>4. QED
      BY <3>1, <3>2, <3>3
  <2>3. QED
    BY <1>16, <2>2
<1>19. i \in new.used \ {0}
  BY <1>3, <1>7, <1>16
<1>20. Lifts(new, img, i, d, name, S, c)
  BY <1>16, <1>17, <1>18, <1>19 DEF Lifts
<1>21. QED
  BY <1>20, <1>14 DEF new, e

\* Inode i has one name more, and no other has.
Gains(new, old, i, at) ==
  /\ new.rootdir = old.rootdir /\ DirsOf(new) = DirsOf(old)
  /\ \A j : NamesOf(new, j) = NamesOf(old, j) \union IF j = i THEN {at} ELSE {}

\* The new entry is made, the extra link dropped and ".." set.
LEMMA Settled ==
  ASSUME LinksFit, NEW img, NEW S \in SUBSET Nat, NEW i \in img.used \ {0},
         NEW d \in DirsOf(img), NEW name \in Names, Absent(Ents(img, d), name), Fits(img, d),
         i \in DirsOf(img) => NamesOf(img, i) = {},
         NEW c \in Int, c <= MaxInum + 1, c = DirBound(img),
         Shape(img, i, 0), Counters(img), Lower(img, i, 1, S), Upper(img, i, 0, c)
  PROVE  LET new == UpdateDirInode(DropLink(NewDentry(img, d, i, name), i), i, d)
         IN  TreeInv(new, S) /\ Gains(new, img, i, <<d, name>>)
<1> DEFINE made == NewDentry(img, d, i, name)
           moved == DropLink(made, i)
           final == UpdateDirInode(moved, i, d)
<1>1. /\ img \in Image /\ i \in Inum /\ 0 \notin DirsOf(img) /\ DirsOf(img) \subseteq Inum
  BY DirsInum DEF Shape, Allocated, DirsOf, Image
<1> DEFINE At(j) == IF j = i THEN NamesOf(img, j) \union {<<d, name>>} ELSE NamesOf(img, j)
<1>2. /\ Shape(made, i, 0) /\ Lower(made, i, 1, S) /\ Upper(made, i, 1, c)
      /\ DirsOf(made) = DirsOf(img) /\ made.used = img.used /\ Counters(made)
      /\ made.rootdir = img.rootdir /\ \A j : NamesOf(made, j) = At(j)
  <2> DEFINE h == 0
             n == 1
  <2>1. h \in Int /\ h <= 0 /\ n \in Int /\ h + 1 = 1
        /\ Lower(img, i, n, S) /\ Upper(img, i, h, c) /\ d \in DirsOf(img) \ {0}
    BY <1>1
  <2> HIDE DEF h, n
  <2>2. LET G == NewDentry(img, d, i, name)
        IN  /\ Shape(G, i, 0) /\ Lower(G, i, n, S) /\ Upper(G, i, h + 1, c)
            /\ DirsOf(G) = DirsOf(img) /\ G.used = img.used
            /\ G.rootdir = img.rootdir
            /\ \A j \in Inum : G.inode[j].type = img.inode[j].type
            /\ \A j \in DirsOf(img) \ {d} : G.inode[j].inline = img.inode[j].inline
            /\ Counters(img) => Counters(G)
            /\ \A j : NamesOf(G, j) = IF j = i THEN NamesOf(img, j) \union {<<d, name>>}
                                      ELSE NamesOf(img, j)
    BY <2>1, NewName
  <2>3. QED
    BY <2>1, <2>2 DEF n
<1> HIDE DEF made
<1>3. made.inode[i].nlink > 0
  <2>1. /\ IsFiniteSet(NamesOf(made, i))
        /\ Spare(made, i, 1) \in IF made.inode[i].type = "DIR" THEN Nat \ {0} ELSE S
    BY <1>2 DEF Lower
  <2>2. Cardinality(NamesOf(made, i)) \in Nat /\ made.inode[i].nlink \in Int
    BY <1>1, <1>2, <2>1, FS_CardinalityType DEF Shape, Allocated, Image, Inode
  <2>3. Spare(made, i, 1) \in Nat
    BY <2>1
  <2>4. QED
    BY <2>2, <2>3 DEF Spare
<1>4. Shape(moved, i, 0) /\ Lower(moved, i, 0, S) /\ Upper(moved, i, 0, c)
  <2> DEFINE h == 1
             n == 1
  <2>1. h \in Int /\ n \in Int /\ h - 1 = 0 /\ n - 1 = 0
        /\ Lower(made, i, n, S) /\ Upper(made, i, h, c)
    BY <1>2
  <2> HIDE DEF h, n
  <2>2. LET G == DropLink(made, i)
        IN  Shape(G, i, 0) /\ Lower(G, i, n - 1, S) /\ Upper(G, i, h - 1, c)
    BY <1>1, <1>2, <1>3, <2>1, LinkStep
  <2>3. QED
    BY <2>1, <2>2
<1>5. /\ DirsOf(moved) = DirsOf(img) /\ moved.used = img.used /\ Counters(moved)
      /\ moved.rootdir = img.rootdir /\ \A j : NamesOf(moved, j) = At(j)
  <2>1. /\ DirsOf(moved) = DirsOf(made) /\ moved.used = made.used /\ Counters(moved)
        /\ moved.rootdir = made.rootdir
        /\ \A j : NamesOf(moved, j) = NamesOf(made, j)
    BY <1>1, <1>2, LinkKeeps
  <2>2. QED
    BY <1>2, <2>1
<1> HIDE DEF moved
<1>6. moved \in Image /\ Allocated(moved)
  BY <1>4 DEF Shape, Allocated
<1>7. /\ \A j : NamesOf(final, j) = At(j)
      /\ Shape(final, 0, 0) /\ DirsOf(final) = DirsOf(img) /\ Counters(final)
      /\ Lower(final, i, 0, S) /\ Upper(final, i, 0, c)
  <2>1. CASE i \notin DirsOf(img)
    <3>1. moved.inode[i].type # "DIR"
      BY <1>5, <2>1 DEF DirsOf
    <3>2. final = moved
      BY <3>1 DEF UpdateDirInode
    <3>3. Shape(moved, 0, 0)
      BY <1>1, <1>4, <1>5, <2>1, AtRest
    <3>4. QED
      BY <1>4, <1>5, <3>2, <3>3
  <2>2. CASE i \in DirsOf(img)
    <3>1. \A b \in DirsOf(moved) : \A e \in Named(moved, b) :
            e.inum = i <=> <<b, e.name>> \in NamesOf(moved, i)
      BY <1>6, NamesAre
    <3>2. \A b, m : <<b, m>> \in NamesOf(moved, i) => b = d
      BY <1>5, <2>2
    <3>3. \A b \in DirsOf(moved) : \A e \in Named(moved, b) : e.inum = i => b = d
      BY <3>1, <3>2
    <3>4. i \in DirsOf(moved) /\ d \in DirsOf(moved) /\ i # 0 /\ 0 \in {0, i}
      BY <1>5, <2>2
    <3>5. LET G == UpdateDirInode(moved, i, d)
          IN  /\ Shape(G, 0, 0) /\ DirsOf(G) = DirsOf(moved) /\ G.used = moved.used
              /\ SameLinks(G, moved) /\ \A j \in Inum : G.inode[j].type = moved.inode[j].type
              /\ Counters(moved) => Counters(G)
              /\ \A j : NamesOf(G, j) = NamesOf(moved, j)
      BY <1>4, <3>3, <3>4, Reparented
    <3> HIDE DEF final
    <3>6. /\ Shape(final, 0, 0) /\ DirsOf(final) = DirsOf(moved) /\ final.used = moved.used
          /\ SameLinks(final, moved)
          /\ \A j \in Inum : final.inode[j].type = moved.inode[j].type
          /\ Counters(moved) => Counters(final)
          /\ \A j : NamesOf(final, j) = NamesOf(moved, j)
      BY <3>5 DEF final
    <3>7. Lower(final, i, 0, S) /\ Upper(final, i, 0, c)
      BY <1>4, <1>6, <3>6, SameAccounts
    <3>8. QED
      BY <1>5, <3>6, <3>7
  <2>3. QED
    BY <2>1, <2>2
<1>8. final.rootdir = img.rootdir
  BY <1>5, <1>6 DEF UpdateDirInode, Image
<1> HIDE DEF final
<1>9. final \in Image
  BY <1>7 DEF Shape, Allocated
<1>10. Lower(final, 0, 0, S) /\ Upper(final, 0, 0, c)
  BY <1>7, <1>9, Accounts
<1>11. DirBound(final) = c
  BY <1>7 DEF DirBound
<1>12. TreeInv(final, S)
  BY <1>7, <1>10, <1>11 DEF TreeInv
<1>13. QED
  BY <1>7, <1>12, <1>8 DEF final, moved, made, Gains

\* new is img with entry k of a under name in d.
Renames(new, img, a, k, d, name) ==
  LET e == Ents(img, a)[k]
  IN  /\ new.rootdir = img.rootdir /\ DirsOf(new) = DirsOf(img)
      /\ \A j : NamesOf(new, j) = (NamesOf(img, j) \ {<<a, e.name>>, <<d, name>>})
                                    \union IF j = e.inum THEN {<<d, name>>} ELSE {}

\* The image fs_rename makes.
LEMMA RenamedTree ==
  ASSUME TextBeyond, LinksFit, NEW img, NEW S \in SUBSET Nat, TreeInv(img, S), NEW dm \in Inum,
         NEW a, NEW k, NEW d, NEW name, NEW newdent, Moves(img, a, k, d, name, newdent),
         Fits(BeforeMove(img, dm, EntPtr(img, a, k), newdent), d)
  PROVE  LET new == Renamed(img, dm, EntPtr(img, a, k), newdent, d, name)
         IN  TreeInv(new, S) /\ Renames(new, img, a, k, d, name)
<1> DEFINE over == IF newdent = Null THEN img ELSE UnlinkDent(img, dm, newdent)
           i == Ents(img, a)[k].inum
           p == EntPtr(img, a, k)
           c == DirBound(img)
           un == UnlinkDent(AddLink(over, i), dm, p)
<1>1. /\ a \in DirsOf(img) /\ k \in Live(Ents(img, a)) /\ Ents(img, a)[k].name \in Names
      /\ d \in DirsOf(img) /\ name \in Names
  BY DEF Moves
<1>2. Deref(img, dm, p) = Ents(img, a)[k]
  BY <1>1, DerefEnt
<1>3. /\ BeforeMove(img, dm, p, newdent) = un
      /\ Renamed(img, dm, p, newdent, d, name)
           = UpdateDirInode(DropLink(NewDentry(un, d, i, name), i), i, d)
  BY <1>2 DEF BeforeMove, Renamed
<1>4. /\ Shape(over, i, 0) /\ Counters(over) /\ Lower(over, i, 0, S)
      /\ Upper(over, i, 0, c) /\ DirsOf(over) = DirsOf(img)
      /\ k \in Live(Ents(over, a)) /\ Ents(over, a)[k] = Ents(img, a)[k]
      /\ EntPtr(over, a, k) = p
      /\ Absent(Ents(over, d), name) /\ Loses(over, img, <<d, name>>)
  BY Overwritten
<1>5. c \in Int /\ c <= MaxInum + 1
  BY DirBoundType DEF TreeInv, Shape, Allocated
<1> HIDE DEF over, c
<1>6. i = Ents(over, a)[k].inum /\ Ents(over, a)[k].name \in Names
  BY <1>1, <1>4
<1>7. Fits(un, d)
  BY <1>3
<1> HIDE DEF i, p
<1> DEFINE m == Ents(img, a)[k].name
<1>8. /\ Lifts(UnlinkDent(AddLink(over, i), dm, EntPtr(over, a, k)), over, i, d, name, S, c)
      /\ Loses(UnlinkDent(AddLink(over, i), dm, EntPtr(over, a, k)), over, <<a, m>>)
  <2>1. /\ a \in DirsOf(over) /\ k \in Live(Ents(over, a)) /\ Ents(over, a)[k].name \in Names
        /\ d \in DirsOf(over) /\ name \in Names /\ Absent(Ents(over, d), name)
        /\ i = Ents(over, a)[k].inum /\ c \in Int /\ c <= MaxInum + 1
        /\ Shape(over, i, 0) /\ Counters(over) /\ Lower(over, i, 0, S) /\ Upper(over, i, 0, c)
    BY <1>1, <1>4, <1>5, <1>6
  <2>2. m = Ents(over, a)[k].name
    BY <1>4
  <2> HIDE DEF un, m
  <2>3. QED
    BY <2>1, <2>2, Lifted
<1>9. /\ Shape(un, i, 0) /\ Counters(un) /\ Lower(un, i, 1, S) /\ Upper(un, i, 0, c)
      /\ DirsOf(un) = DirsOf(img) /\ i \in un.used \ {0}
      /\ Absent(Ents(un, d), name)
      /\ i \in DirsOf(un) => NamesOf(un, i) = {}
      /\ Loses(un, over, <<a, m>>)
  BY <1>4, <1>8 DEF Lifts
<1> HIDE DEF un, m
<1>10. c = DirBound(un)
  BY <1>9 DEF c, DirBound
<1> DEFINE new == UpdateDirInode(DropLink(NewDentry(un, d, i, name), i), i, d)
<1>11. TreeInv(new, S) /\ Gains(new, un, i, <<d, name>>)
  <2>1. d \in DirsOf(un) /\ name \in Names
    BY <1>1, <1>9
  <2>2. QED
    BY <1>5, <1>7, <1>9, <1>10, <2>1, Settled
<1> HIDE DEF new
<1>12. \A j : NamesOf(new, j) = (NamesOf(img, j) \ {<<a, m>>, <<d, name>>})
                                   \union IF j = i THEN {<<d, name>>} ELSE {}
  BY <1>4, <1>9, <1>11 DEF Loses, Gains
<1>13. Renames(new, img, a, k, d, name)
  BY <1>4, <1>9, <1>11, <1>12 DEF Renames, Loses, Gains, i, m
<1>14. QED
  BY <1>3, <1>11, <1>13 DEF p, new

\* What fs_rename does to the image when it goes ahead.
LEMMA RenameIs ==
  ASSUME TextBeyond, LinksFit, TypeOK, NEW S \in SUBSET Nat, TreeInv(image, S),
         NEW old \in Path, NEW new \in Path,
         old.comp # << >> => Filename(old) # Dot,
         new.comp # << >> => Filename(new) \in Names,
         NEW source, source = Lookup(old), NEW target, target = LookupAfter(new, source.dummy),
         MayRename(source, target),
         Fits(BeforeMove(image, target.dummy, source.dent, target.dent), target.pi)
  PROVE  LET after == Renamed(image, target.dummy, source.dent, target.dent, target.pi,
                              Filename(new))
         IN  /\ TreeInv(after, S)
             /\ \E k \in Live(Ents(image, source.pi)) :
                  /\ Moves(image, source.pi, k, target.pi, Filename(new), target.dent)
                  /\ source.dent = EntPtr(image, source.pi, k)
                  /\ Deref(image, source.dummy, source.dent) = Ents(image, source.pi)[k]
                  /\ Ents(image, source.pi)[k].name = Filename(old)
                  /\ Renames(after, image, source.pi, k, target.pi, Filename(new))
<1> DEFINE name == Filename(new)
           from == Filename(old)
           a == source.pi
           d == target.pi
           newdent == target.dent
           dm == target.dummy
<1>1. image \in Image /\ Shape(image, 0, 0)
  BY DEF TreeInv, TypeOK
<1>2. source \in Found /\ source.dummy \in Inum
  BY LookupType, FoundType, ZeroInum
<1>3. target \in Found /\ target.dummy \in Inum
  BY <1>2, LookupType, FoundType
<1>4. /\ source.dent # Null /\ target.pi > 0 /\ target.dent # source.dent
      /\ Deref(image, source.dummy, source.dent).name \notin {Dot, DotDot}
  BY DEF MayRename
<1>5. name \in Names /\ Knows(image, target, name)
  BY <1>1, <1>2, <1>4, LookupKnows
<1>6. from \in Comp /\ from # Dot /\ Knows(image, source, from)
  BY <1>1, <1>4, LookupKnows, ZeroInum
<1> HIDE DEF name, from
<1>7. from \in Names
  <2>1. from # DotDot
    BY <1>4, <1>6 DEF Knows
  <2>2. QED
    BY <1>6, <2>1 DEF Comp
<1>8. a \in DirsOf(image)
  BY <1>4, <1>6 DEF Knows
<1>9. PICK k \in Live(Ents(image, a)) :
        source.dent = EntPtr(image, a, k) /\ Ents(image, a)[k].name = from
  BY <1>4, <1>6, <1>7 DEF Knows
<1>10. /\ d \in DirsOf(image)
       /\ newdent = Null => Absent(Ents(image, d), name)
       /\ newdent # Null => \E m \in Live(Ents(image, d)) :
                              newdent = EntPtr(image, d, m) /\ Ents(image, d)[m].name = name
  BY <1>4, <1>5 DEF Knows
<1>11. Moves(image, a, k, d, name, newdent)
  BY <1>4, <1>5, <1>7, <1>8, <1>9, <1>10 DEF Moves
<1>12. dm \in Inum /\ Fits(BeforeMove(image, dm, EntPtr(image, a, k), newdent), d)
  BY <1>3, <1>9
<1>13. Deref(image, source.dummy, source.dent) = Ents(image, a)[k]
  BY <1>9, DerefEnt
<1> HIDE DEF a, d, newdent, dm
<1>14. LET after == Renamed(image, dm, EntPtr(image, a, k), newdent, d, name)
       IN  TreeInv(after, S) /\ Renames(after, image, a, k, d, name)
  BY <1>11, <1>12, RenamedTree
<1>15. QED
  BY <1>9, <1>11, <1>13, <1>14 DEF a, d, newdent, dm, name, from

\* fs_rename.
LEMMA RenameTree ==
  ASSUME TextBeyond, LinksFit, TypeOK, NEW S \in SUBSET Nat, TreeInv(image, S),
         NEW old \in Path, NEW new \in Path, Rename(old, new),
         old.comp # << >> => Filename(old) # Dot,
         new.comp # << >> => Filename(new) \in Names
  PROVE  TreeInv(image', S) /\ (Rootless(image) => Rootless(image'))
<1> DEFINE source == Lookup(old)
           target == LookupAfter(new, source.dummy)
           name == Filename(new)
<1>1. \/ image' = image
      \/ /\ MayRename(source, target)
         /\ Fits(BeforeMove(image, target.dummy, source.dent, target.dent), target.pi)
         /\ image' = Renamed(image, target.dummy, source.dent, target.dent,
                             target.pi, name)
  BY DEF Rename, Fail, Done
<1>2. ASSUME MayRename(source, target),
             Fits(BeforeMove(image, target.dummy, source.dent, target.dent), target.pi)
      PROVE  LET after == Renamed(image, target.dummy, source.dent, target.dent,
                                  target.pi, name)
             IN  /\ TreeInv(after, S)
                 /\ \E k \in Live(Ents(image, source.pi)) :
                      /\ Moves(image, source.pi, k, target.pi, name, target.dent)
                      /\ Renames(after, image, source.pi, k, target.pi, name)
  <2> HIDE DEF source, target
  <2>1. source = Lookup(old) /\ target = LookupAfter(new, source.dummy)
    BY DEF source, target
  <2>2. QED
    BY <1>2, <2>1, RenameIs
<1>3. Allocated(image)
  BY DEF TreeInv, Shape
<1> HIDE DEF source, target, name
<1>4. ASSUME NEW after, NEW k \in Live(Ents(image, source.pi)), Rootless(image),
             Moves(image, source.pi, k, target.pi, name, target.dent),
             Renames(after, image, source.pi, k, target.pi, name)
      PROVE  Rootless(after)
  <2> DEFINE e == Ents(image, source.pi)[k]
             i == e.inum
  <2>1. e \in Named(image, source.pi) /\ source.pi \in DirsOf(image)
    BY <1>4 DEF Moves, Named, Inside, EntSet
  <2>2. <<source.pi, e.name>> \in NamesOf(image, i)
    BY <1>3, <2>1, NamesAre
  <2>3. i # image.rootdir
    BY <1>4, <2>2 DEF Rootless
  <2>4. QED
    BY <1>4, <2>3 DEF Renames, Rootless
<1>5. QED
  BY <1>1, <1>2, <1>4

-----------------------------------------------------------------------------
(* A new image.                                                            *)

\* The root directory and nothing else.
LEMMA NewImageIs ==
  ASSUME LinksFit
  PROVE  /\ NewImage.used = {0, 1} /\ NewImage.bitmap = {} /\ NewImage.rootdir = 1
         /\ NewImage.inode_used = 1 /\ NewImage.ndirectories = 1 /\ NewImage.nfiles = 0
         /\ NewImage.inode[1].type = "DIR" /\ NewImage.inode[1].inline
         /\ NewImage.inode[1].p_inum = 1 /\ NewImage.inode[1].ents = << >>
         /\ NewImage.inode[1].nlink = 2 /\ NewImage.inode[1].block = 0
         /\ \A i \in Inum \ {1} : NewImage.inode[i].type = "UNUSED"
<1> DEFINE E == EmptyImage
           A == AllocInode(E, 1, "DIR")
           B == [A EXCEPT !.inode[1].p_inum = 1]
           C == AddLink(B, 1)
           D == AddLink(C, 1)
<1>1. NlinkMod \in Nat /\ NlinkMod > 3 /\ 1 \in Inum
  BY HfsImageAssumption DEF LinksFit, Inum
<1>2. 1 % NlinkMod = 1 /\ 2 % NlinkMod = 2
  BY <1>1
<1>3. /\ A.used = {0, 1} /\ A.bitmap = {} /\ A.inode_used = 1 /\ A.ndirectories = 1
      /\ A.nfiles = 0
      /\ A.inode = [E.inode EXCEPT ![1] =
                      [ZeroInode EXCEPT !.type = "DIR", !.inline = TRUE]]
      /\ DOMAIN A = DOMAIN E
  <2>1. /\ E.used = {0} /\ E.bitmap = {} /\ E.inode_used = 0 /\ E.ndirectories = 0
        /\ E.nfiles = 0 /\ E \in Image
    BY EmptyImageType DEF EmptyImage
  <2> HIDE DEF E
  <2>2. /\ A.used = E.used \union {1} /\ A.bitmap = E.bitmap /\ A.inode_used = E.inode_used + 1
        /\ A.ndirectories = E.ndirectories + 1 /\ A.nfiles = E.nfiles
        /\ DOMAIN A = DOMAIN E
    BY <2>1 DEF AllocInode, Image
  <2>3. A.inode = [E.inode EXCEPT ![1] = [ZeroInode EXCEPT !.type = "DIR", !.inline = TRUE]]
    BY <2>1 DEF AllocInode, Image
  <2> HIDE DEF A
  <2>4. QED
    BY <2>1, <2>2, <2>3
<1>4. A.inode = [i \in Inum |-> IF i = 1 THEN [ZeroInode EXCEPT !.type = "DIR", !.inline = TRUE]
                                ELSE ZeroInode]
  <2>1. E.inode = [i \in Inum |-> ZeroInode]
    BY DEF EmptyImage
  <2> HIDE DEF E, A
  <2>2. QED
    BY <1>3, <2>1
<1>5. DOMAIN E = {"inode", "used", "blocks", "bitmap", "rootdir", "inode_used",
                  "inline_inodes", "ndirectories", "nfiles"}
  BY DEF EmptyImage
<1> HIDE DEF E
<1> HIDE DEF A
<1>6. /\ B.used = A.used /\ B.bitmap = A.bitmap /\ B.inode_used = A.inode_used
      /\ B.ndirectories = A.ndirectories /\ B.nfiles = A.nfiles
      /\ B.inode = [A.inode EXCEPT ![1].p_inum = 1] /\ DOMAIN B = DOMAIN A
  BY <1>3, <1>5
<1> HIDE DEF B
<1>7. /\ C.used = B.used /\ C.bitmap = B.bitmap /\ C.inode_used = B.inode_used
      /\ C.ndirectories = B.ndirectories /\ C.nfiles = B.nfiles
      /\ C.inode = [B.inode EXCEPT ![1].nlink = (@ + 1) % NlinkMod] /\ DOMAIN C = DOMAIN B
  BY <1>3, <1>5, <1>6 DEF AddLink
<1> HIDE DEF C
<1>8. /\ D.used = C.used /\ D.bitmap = C.bitmap /\ D.inode_used = C.inode_used
      /\ D.ndirectories = C.ndirectories /\ D.nfiles = C.nfiles
      /\ D.inode = [C.inode EXCEPT ![1].nlink = (@ + 1) % NlinkMod] /\ DOMAIN D = DOMAIN C
  BY <1>3, <1>5, <1>6, <1>7 DEF AddLink
<1>9. NewImage = [D EXCEPT !.rootdir = 1]
  BY DEF NewImage, InitDirInode, D, C, B, A, E
<1> HIDE DEF D
<1>10. /\ NewImage.used = D.used /\ NewImage.bitmap = D.bitmap /\ NewImage.inode = D.inode
       /\ NewImage.inode_used = D.inode_used /\ NewImage.ndirectories = D.ndirectories
       /\ NewImage.nfiles = D.nfiles /\ NewImage.rootdir = 1
  BY <1>3, <1>5, <1>6, <1>7, <1>8, <1>9
<1>11. /\ A.inode[1].type = "DIR" /\ A.inode[1].inline /\ A.inode[1].ents = << >>
       /\ A.inode[1].nlink = 0 /\ A.inode[1].block = 0
       /\ DOMAIN A.inode[1] = DOMAIN ZeroInode
       /\ \A i \in Inum \ {1} : A.inode[i].type = "UNUSED"
       /\ DOMAIN A.inode = Inum
  <2> DEFINE z == [ZeroInode EXCEPT !.type = "DIR", !.inline = TRUE]
  <2>1. /\ z.type = "DIR" /\ z.inline /\ z.ents = << >> /\ z.nlink = 0 /\ z.block = 0
        /\ DOMAIN z = DOMAIN ZeroInode /\ ZeroInode.type = "UNUSED"
    BY DEF ZeroInode
  <2>2. /\ A.inode[1] = z /\ DOMAIN A.inode = Inum
        /\ \A i \in Inum \ {1} : A.inode[i] = ZeroInode
    BY <1>1, <1>4
  <2> HIDE DEF z
  <2>3. QED
    BY <2>1, <2>2
<1>12. /\ B.inode[1].type = "DIR" /\ B.inode[1].inline /\ B.inode[1].ents = << >>
       /\ B.inode[1].nlink = 0 /\ B.inode[1].block = 0 /\ B.inode[1].p_inum = 1
       /\ DOMAIN B.inode[1] = DOMAIN ZeroInode
       /\ \A i \in Inum \ {1} : B.inode[i].type = "UNUSED"
       /\ DOMAIN B.inode = Inum
  BY <1>1, <1>6, <1>11 DEF ZeroInode
<1>13. /\ C.inode[1].type = "DIR" /\ C.inode[1].inline /\ C.inode[1].ents = << >>
       /\ C.inode[1].nlink = 1 /\ C.inode[1].block = 0 /\ C.inode[1].p_inum = 1
       /\ DOMAIN C.inode[1] = DOMAIN ZeroInode
       /\ \A i \in Inum \ {1} : C.inode[i].type = "UNUSED"
       /\ DOMAIN C.inode = Inum
  BY <1>1, <1>2, <1>7, <1>12 DEF ZeroInode
<1>14. /\ D.inode[1].type = "DIR" /\ D.inode[1].inline /\ D.inode[1].ents = << >>
       /\ D.inode[1].nlink = 2 /\ D.inode[1].block = 0 /\ D.inode[1].p_inum = 1
       /\ \A i \in Inum \ {1} : D.inode[i].type = "UNUSED"
  BY <1>1, <1>2, <1>8, <1>13 DEF ZeroInode
<1>15. /\ D.used = {0, 1} /\ D.bitmap = {} /\ D.inode_used = 1 /\ D.ndirectories = 1
       /\ D.nfiles = 0
  BY <1>3, <1>6, <1>7, <1>8
<1> HIDE DEF NewImage
<1>16. NewImage.inode = D.inode
  BY <1>10
<1>17. QED
  BY <1>10, <1>14, <1>15, <1>16

LEMMA NewImageTree ==
  ASSUME LinksFit, NEW S, 0 \in S PROVE TreeInv(NewImage, S)
<1> DEFINE N == NewImage
<1>1. /\ N.used = {0, 1} /\ N.bitmap = {} /\ N.rootdir = 1
      /\ N.inode_used = 1 /\ N.ndirectories = 1 /\ N.nfiles = 0
      /\ N.inode[1].type = "DIR" /\ N.inode[1].inline
      /\ N.inode[1].p_inum = 1 /\ N.inode[1].ents = << >>
      /\ N.inode[1].nlink = 2 /\ N.inode[1].block = 0
      /\ \A i \in Inum \ {1} : N.inode[i].type = "UNUSED"
  BY NewImageIs
<1>2. N \in Image /\ NamesInv(N) /\ 0 \in Inum /\ 1 \in Inum
  BY NewImageType, NewImageNames, HfsImageAssumption DEF Inum
<1> HIDE DEF N
<1>3. N.used \ {0} = {1} /\ N.inode[0].type = "UNUSED"
  BY <1>1, <1>2
<1>4. DirsOf(N) = {1} /\ UsedOf(N, {"DIR"}) = {1} /\ UsedOf(N, {"REG"}) = {}
  BY <1>1, <1>3 DEF DirsOf, UsedOf
<1>5. Inside(N, 1) = {} /\ Named(N, 1) = {}
  BY <1>1 DEF Named, Inside, Ents, EntSet, Live
<1>6. \A i : NamesOf(N, i) = {}
  BY <1>4, <1>5 DEF NamesOf
<1>7. IsFiniteSet({}) /\ Cardinality({}) = 0 /\ Cardinality({1}) = 1
  BY FS_EmptySet, FS_Singleton
<1>8. Allocated(N)
  BY <1>1, <1>2, <1>4 DEF Allocated
<1>9. Owned(N) /\ Dotted(N) /\ HasUp(N, 0)
  BY <1>1, <1>4 DEF Owned, Dotted, HasUp, Up
<1>10. NoDangle(N) /\ OneName(N) /\ Parents(N, 0)
  BY <1>4, <1>5 DEF NoDangle, OneName, Parents
<1>11. Counters(N)
  BY <1>1, <1>3, <1>4, <1>7 DEF Counters
<1>12. \A i \in N.used \ {0} : i = 1
  BY <1>3
<1>13. Lower(N, 0, 0, S)
  <2>1. IsFiniteSet(NamesOf(N, 1)) /\ Cardinality(NamesOf(N, 1)) = 0
    BY <1>6, <1>7
  <2>2. Spare(N, 1, 0) = 2
    <3>1. N.inode[1].nlink - Cardinality(NamesOf(N, 1)) - 0 = 2
      BY <1>1, <2>1
    <3>2. QED
      BY <3>1 DEF Spare
  <2>3. /\ IsFiniteSet(NamesOf(N, 1)) /\ Spare(N, 1, 0) \in Nat \ {0}
        /\ N.inode[1].type = "DIR"
    BY <1>1, <2>1, <2>2
  <2>4. \A i \in N.used \ {0} : /\ IsFiniteSet(NamesOf(N, i)) /\ Spare(N, i, 0) \in Nat \ {0}
                                /\ N.inode[i].type = "DIR"
    BY <1>12, <2>3
  <2>5. QED
    BY <2>4 DEF Lower
<1>14. DirBound(N) = 2
  BY <1>4, <1>7 DEF DirBound
<1>15. Upper(N, 0, 0, DirBound(N))
  BY <1>1, <1>12, <1>14 DEF Upper
<1>16. QED
  BY <1>8, <1>9, <1>10, <1>11, <1>13, <1>15 DEF TreeInv, Shape, N

LEMMA NewImageExact ==
  ASSUME LinksFit PROVE Exact(NewImage)
<1> DEFINE N == NewImage
<1>1. /\ N.used = {0, 1} /\ N.rootdir = 1 /\ N.inode[1].type = "DIR" /\ N.inode[1].inline
      /\ N.inode[1].ents = << >> /\ N.inode[1].nlink = 2
      /\ \A i \in Inum \ {1} : N.inode[i].type = "UNUSED"
  BY NewImageIs
<1>2. 0 \in Inum
  BY ZeroInum
<1> HIDE DEF N
<1>3. DirsOf(N) = {1}
  BY <1>1, <1>2 DEF DirsOf
<1>4. Named(N, 1) = {} /\ Subs(N, 1) = {}
  BY <1>1 DEF Subs, Named, Inside, Ents, EntSet, Live
<1>5. NamesOf(N, 1) = {}
  BY <1>3, <1>4 DEF NamesOf
<1>6. Cardinality(Subs(N, 1)) = 0
  BY <1>4, FS_EmptySet
<1>7. \A d \in DirsOf(N) :
        N.inode[d].nlink = Cardinality(Subs(N, d))
                             + (IF d = N.rootdir \/ NamesOf(N, d) # {} THEN 2 ELSE 1)
  BY <1>1, <1>3, <1>6
<1>8. QED
  BY <1>1, <1>5, <1>7 DEF Exact, Rootless, N

-----------------------------------------------------------------------------
(* The invariant.                                                          *)

\* The workloads of the theorems rename or remove directories, not both:
\* fs_rename leaves the link counts of the parents as they are, and a later
\* fs_rmdir can then free a directory that is not empty.  No path ends in a
\* dot where the entry that is found would be the dot itself.
RenamesOnly ==
  /\ "rmdir" \notin Calls
  /\ \A pair \in Pairs["rename"] : pair[1].comp # << >> => Filename(pair[1]) # Dot
  /\ RenamesToNames

RmdirOnly ==
  /\ "rename" \notin Calls
  /\ \A p \in Args["rmdir"] : p.comp # << >> => Filename(p) \in Names

TreeWorkload == LinksFit /\ TextBeyond /\ (RenamesOnly \/ RmdirOnly)

\* No link is made to a path that can lead through a file, where fs_link
\* counts a link without making an entry.
LinksStayInRoot == \A pair \in Pairs["link"] : pair[2].abs /\ Len(pair[2].comp) <= 1

\* What the theorems about pathnames and link counts need beyond TreeInv.
Linked(img) == Rootless(img) /\ (RmdirOnly => Exact(img))

LEMMA TreeStep ==
  ASSUME TreeWorkload, NEW S \in SUBSET Nat, 0 \in S, S = Nat \/ LinksStayInRoot,
         TypeOK, TreeInv(image, S), Linked(image), [Next]_vars
  PROVE  TreeInv(image', S) /\ Linked(image')
<1> DEFINE Holds == TreeInv(image', S) /\ Linked(image')
<1>1. /\ \A c \in AllCalls : Args[c] \subseteq Path
      /\ \A c \in {"link", "rename"} : Pairs[c] \subseteq Path \X Path
  BY HfsAssumption
<1>2. LinksFit /\ TextBeyond
  BY DEF TreeWorkload
<1>3. ASSUME NEW p \in Args["creat"], Creat(p) PROVE Holds
  <2>1. p \in Path /\ Create(p, "REG")
    BY <1>1, <1>3 DEF Creat, AllCalls
  <2>2. QED
    BY <1>2, <2>1, CreateTree DEF Linked, ExactKept
<1>4. ASSUME NEW p \in Args["mkdir"], Mkdir(p) PROVE Holds
  <2>1. p \in Path /\ Create(p, "DIR")
    BY <1>1, <1>4 DEF Mkdir, AllCalls
  <2>2. QED
    BY <1>2, <2>1, CreateTree DEF Linked, ExactKept
<1>5. ASSUME NEW p \in Args["unlink"], Unlink(p) PROVE Holds
  BY <1>1, <1>2, <1>5, UnlinkTree DEF AllCalls, Linked, ExactKept
<1>6. ASSUME NEW p \in Args["rmdir"], Rmdir(p) PROVE Holds
  <2>1. p \in Path /\ "rmdir" \in Calls
    BY <1>1, <1>6 DEF AllCalls, Rmdir, Issued
  <2>2. RmdirOnly
    BY <2>1 DEF TreeWorkload, RenamesOnly
  <2>3. p.comp # << >> => Filename(p) \in Names
    BY <2>2 DEF RmdirOnly
  <2>4. QED
    BY <1>2, <1>6, <2>1, <2>2, <2>3, RmdirTree DEF Linked, Exact
<1>7. ASSUME NEW p \in Args["symlink"], Symlink(p) PROVE Holds
  BY <1>1, <1>2, <1>7, SymlinkTree DEF AllCalls, Linked, ExactKept
<1>8. ASSUME NEW p \in Pairs["link"], Link(p[1], p[2]) PROVE Holds
  <2>1. p[1] \in Path /\ p[2] \in Path
    BY <1>1
  <2>2. S = Nat \/ (p[2].abs /\ Len(p[2].comp) <= 1)
    BY DEF LinksStayInRoot
  <2>3. QED
    BY <1>2, <1>8, <2>1, <2>2, LinkTree DEF Linked, ExactKept
<1>9. ASSUME NEW p \in Pairs["rename"], Rename(p[1], p[2]) PROVE Holds
  <2>1. p[1] \in Path /\ p[2] \in Path /\ "rename" \in Calls
    BY <1>1, <1>9 DEF Rename, Issued
  <2>2. ~ RmdirOnly /\ RenamesOnly
    BY <2>1 DEF TreeWorkload, RmdirOnly
  <2>3. /\ p[1].comp # << >> => Filename(p[1]) # Dot
        /\ p[2].comp # << >> => Filename(p[2]) \in Names
    BY <2>2 DEF RenamesOnly, RenamesToNames
  <2>4. QED
    BY <1>2, <1>9, <2>1, <2>2, <2>3, RenameTree DEF Linked
<1>10. ASSUME NEW p \in Args["stat"], Stat(p) PROVE Holds
  BY <1>10 DEF Stat
<1>11. ASSUME NEW p \in Args["chdir"], Chdir(p) PROVE Holds
  BY <1>11 DEF Chdir, Fail
<1>12. ASSUME NEW p \in Args["open"], Open(p) PROVE Holds
  BY <1>12 DEF Open, Fail
<1>13. ASSUME NEW fd \in Fds, Close(fd) PROVE Holds
  BY <1>13 DEF Close
<1>14. ASSUME Reset PROVE Holds
  BY <1>2, <1>14, NewImageTree, NewImageExact DEF Reset, Linked, Exact
<1>15. ASSUME Unmount PROVE Holds
  BY <1>15 DEF Unmount
<1>16. ASSUME Mount PROVE Holds
  BY <1>16 DEF Mount
<1>17. ASSUME UNCHANGED vars PROVE Holds
  BY <1>17 DEF vars
<1> HIDE DEF Holds
<1>18. Holds
  BY <1>3, <1>4, <1>5, <1>6, <1>7, <1>8, <1>9, <1>10, <1>11, <1>12, <1>13, <1>14,
     <1>15, <1>16, <1>17 DEF Next
<1>19. QED
  BY <1>18 DEF Holds

\* As much as most theorems need: the invariant with any spare links.
LEMMA TreeShape ==
  ASSUME TreeWorkload
  PROVE  Spec => [](TypeOK /\ TreeInv(image, Nat) /\ Linked(image))
<1> DEFINE Inv == TreeInv(image, Nat) /\ Linked(image)
<1>1. Init => Inv
  BY NewImageTree, NewImageExact DEF Init, TreeWorkload, Linked, Exact
<1>2. TypeOK /\ Inv /\ [Next]_vars => Inv'
  <2>1. Nat \in SUBSET Nat /\ 0 \in Nat
    OBVIOUS
  <2>2. QED
    BY <2>1, TreeStep
<1> HIDE DEF Inv
<1>3. Spec => [](TypeOK /\ Inv)
  BY <1>1, <1>2, TypeCorrect, PTL DEF Spec
<1>4. QED
  BY <1>3 DEF Inv

-----------------------------------------------------------------------------
(* The properties.                                                         *)

\* An entry of Entries is a member of Named, and each member is one entry.
LEMMA EntriesNamed ==
  ASSUME TypeOK, NamesInv(image), NEW d \in Inum
  PROVE  /\ \A k \in Entries(d) : Entry(d, k) \in Named(image, d)
         /\ \A e \in Named(image, d) : \E k \in Entries(d) : Entry(d, k) = e
         /\ \A j, k \in Entries(d) : Entry(d, j).name = Entry(d, k).name => j = k
<1>1. Distinct(Ents(image, d))
  BY NamedOnce DEF TypeOK
<1>2. QED
  BY <1>1 DEF Entries, Entry, Named, Inside, EntSet, Distinct

LEMMA DirsAre == Dirs = DirsOf(image)
  BY DEF Dirs, DirsOf

\* No call leaves an entry that names a free inode, or one of another type.
THEOREM NoDanglingEntryCorrect ==
  ASSUME TreeWorkload PROVE Spec => []NoDanglingEntry
<1>1. TypeOK /\ TreeInv(image, Nat) => NoDanglingEntry
  <2> SUFFICES ASSUME TypeOK, TreeInv(image, Nat), NEW d \in Dirs, NEW k \in Entries(d)
               PROVE  /\ Entry(d, k).inum \in image.used
                      /\ image.inode[Entry(d, k).inum].type = Entry(d, k).file_type
    BY DEF NoDanglingEntry
  <2>1. d \in DirsOf(image) /\ d \in Inum /\ NoDangle(image) /\ NamesInv(image)
    BY DirsAre, DirsInum DEF TreeInv, Shape, Allocated
  <2>2. Entry(d, k) \in Named(image, d)
    BY <2>1, EntriesNamed
  <2>3. QED
    BY <2>1, <2>2 DEF NoDangle
<1>2. QED
  BY <1>1, TreeShape, PTL

\* No call lets two directories share a data block, or uses one that is free.
THEOREM BlocksExclusiveCorrect ==
  ASSUME TreeWorkload PROVE Spec => []BlocksExclusive
<1>1. TypeOK /\ TreeInv(image, Nat) => BlocksExclusive
  BY DirsAre DEF TreeInv, Shape, Owned, BlocksExclusive
<1>2. QED
  BY <1>1, TreeShape, PTL

\* Every call counts what it does to the inode table in the superblock.
THEOREM CountersAgreeCorrect ==
  ASSUME TreeWorkload PROVE Spec => []CountersAgree
<1>1. TypeOK /\ TreeInv(image, Nat) => CountersAgree
  BY DEF TreeInv, Counters, CountersAgree, UsedOf
<1>2. QED
  BY <1>1, TreeShape, PTL

\* Where NamedAt says inode i is named, and by which entry.
LEMMA NamedAtIs ==
  ASSUME TypeOK, TreeInv(image, Nat), NEW i
  PROVE  \A at \in NamedAt(i) :
           /\ at = <<at[1], at[2]>> /\ at[1] \in DirsOf(image) /\ at[2] \in Entries(at[1])
           /\ Entry(at[1], at[2]) \in Named(image, at[1]) /\ Entry(at[1], at[2]).inum = i
<1> SUFFICES ASSUME NEW at \in NamedAt(i)
             PROVE  /\ at = <<at[1], at[2]>> /\ at[1] \in DirsOf(image)
                    /\ at[2] \in Entries(at[1])
                    /\ Entry(at[1], at[2]) \in Named(image, at[1])
                    /\ Entry(at[1], at[2]).inum = i
  OBVIOUS
<1>1. PICK d \in Dirs : at \in {<<d, k>> : k \in {j \in Entries(d) : Entry(d, j).inum = i}}
  BY DEF NamedAt
<1>2. PICK k \in Entries(d) : Entry(d, k).inum = i /\ at = <<d, k>>
  BY <1>1
<1>3. d \in DirsOf(image) /\ d \in Inum /\ NamesInv(image)
  BY DirsAre, DirsInum DEF TreeInv, Shape, Allocated, TypeOK
<1>4. Entry(d, k) \in Named(image, d)
  BY <1>3, EntriesNamed
<1>5. QED
  BY <1>2, <1>3, <1>4

\* There are as many entries as there are names.
LEMMA NamedAtCount ==
  ASSUME TypeOK, TreeInv(image, Nat), NEW i \in image.used \ {0}
  PROVE  /\ Cardinality(NamedAt(i)) = Cardinality(NamesOf(image, i))
         /\ Cardinality(NamedAt(i)) \in Nat /\ IsFiniteSet(NamedAt(i))
<1> DEFINE f == [at \in NamedAt(i) |-> <<at[1], Entry(at[1], at[2]).name>>]
           T == NamesOf(image, i)
<1>1. IsFiniteSet(T)
  BY DEF TreeInv, Lower
<1>2. NamesInv(image) /\ DirsOf(image) \subseteq Inum
  BY DirsInum DEF TreeInv, Shape, Allocated
<1>3. \A at \in NamedAt(i) :
        /\ at = <<at[1], at[2]>> /\ at[1] \in DirsOf(image) /\ at[2] \in Entries(at[1])
        /\ Entry(at[1], at[2]) \in Named(image, at[1]) /\ Entry(at[1], at[2]).inum = i
  BY NamedAtIs
<1>4. \A at \in NamedAt(i) : f[at] \in T
  BY <1>2, <1>3 DEF NamesOf, Named
<1>5. \A at, bt \in NamedAt(i) : f[at] = f[bt] => at = bt
  <2> SUFFICES ASSUME NEW at \in NamedAt(i), NEW bt \in NamedAt(i), f[at] = f[bt]
               PROVE  at = bt
    OBVIOUS
  <2>1. at[1] = bt[1] /\ Entry(at[1], at[2]).name = Entry(bt[1], bt[2]).name
    OBVIOUS
  <2>2. at[2] = bt[2]
    BY <1>2, <1>3, <2>1, EntriesNamed
  <2>3. QED
    BY <1>3, <2>1, <2>2
<1>6. ASSUME NEW t \in T PROVE \E at \in NamedAt(i) : f[at] = t
  <2>1. t[1] \in DirsOf(image) /\ t = <<t[1], t[2]>>
    BY DEF NamesOf
  <2>2. PICK e \in Named(image, t[1]) : e.name = t[2] /\ e.inum = i
    BY DEF NamesOf
  <2>3. PICK k \in Entries(t[1]) : Entry(t[1], k) = e
    BY <1>2, <2>1, EntriesNamed
  <2>4. <<t[1], k>> \in NamedAt(i)
    BY <2>1, <2>2, <2>3, DirsAre DEF NamedAt
  <2>5. f[<<t[1], k>>] = t
    BY <2>1, <2>2, <2>3, <2>4
  <2>6. QED
    BY <2>4, <2>5
<1>7. f \in [NamedAt(i) -> T]
  BY <1>4
<1> HIDE DEF f, T
<1>8. f \in Injection(NamedAt(i), T) /\ f \in Surjection(NamedAt(i), T)
  BY <1>5, <1>6, <1>7 DEF Injection, Surjection, IsInjective
<1>9. IsFiniteSet(NamedAt(i)) /\ Cardinality(NamedAt(i)) = Cardinality(T)
  BY <1>1, <1>8, FS_Injection
<1>10. QED
  BY <1>9, FS_CardinalityType DEF T

\* No call leaves an inode with fewer links than names, so that none is freed
\* under a name.
THEOREM NlinkCoversNamesCorrect ==
  ASSUME TreeWorkload PROVE Spec => []NlinkCoversNames
<1>1. TypeOK /\ TreeInv(image, Nat) => NlinkCoversNames
  <2> SUFFICES ASSUME TypeOK, TreeInv(image, Nat), NEW i \in image.used \ {0}
               PROVE  image.inode[i].nlink >= Cardinality(NamedAt(i))
    BY DEF NlinkCoversNames
  <2>1. /\ Cardinality(NamedAt(i)) = Cardinality(NamesOf(image, i))
        /\ Cardinality(NamedAt(i)) \in Nat
    BY NamedAtCount
  <2>2. Spare(image, i, 0) \in Nat /\ image.inode[i].nlink \in Int
    BY DEF TreeInv, Lower, TypeOK, Image, Inode
  <2>3. QED
    BY <2>1, <2>2 DEF Spare
<1>2. QED
  BY <1>1, TreeShape, PTL

\* As long as no link is made through a file, the link count of a file is the
\* number of its names after every call.
THEOREM NlinkCountsNamesCorrect ==
  ASSUME TreeWorkload, LinksStayInRoot PROVE Spec => []NlinkCountsNames
<1>1. Spec => [](TypeOK /\ TreeInv(image, {0}))
  <2> DEFINE Inv == TreeInv(image, {0}) /\ Linked(image)
  <2>1. Init => Inv
    BY NewImageTree, NewImageExact DEF Init, TreeWorkload, Linked, Exact
  <2>2. TypeOK /\ Inv /\ [Next]_vars => Inv'
    <3>1. {0} \in SUBSET Nat /\ 0 \in {0}
      OBVIOUS
    <3>2. QED
      BY <3>1, TreeStep
  <2> HIDE DEF Inv
  <2>3. Spec => [](TypeOK /\ Inv)
    BY <2>1, <2>2, TypeCorrect, PTL DEF Spec
  <2>4. QED
    BY <2>3 DEF Inv
<1>2. TypeOK /\ TreeInv(image, {0}) /\ TreeInv(image, Nat) => NlinkCountsNames
  <2> SUFFICES ASSUME TypeOK, TreeInv(image, {0}), TreeInv(image, Nat),
                      NEW i \in image.used \ {0}, image.inode[i].type # "DIR"
               PROVE  image.inode[i].nlink = Cardinality(NamedAt(i))
    BY DEF NlinkCountsNames
  <2>1. /\ Cardinality(NamedAt(i)) = Cardinality(NamesOf(image, i))
        /\ Cardinality(NamedAt(i)) \in Nat
    BY NamedAtCount
  <2>2. Spare(image, i, 0) = 0 /\ image.inode[i].nlink \in Int
    BY DEF TreeInv, Lower, TypeOK, Image, Inode
  <2>3. QED
    BY <2>1, <2>2 DEF Spare
<1>3. QED
  BY <1>1, <1>2, TreeShape, PTL

\* With no fs_rename, every call keeps the link count of a directory in the
\* tree at two and one for each of its subdirectories.
THEOREM DirNlinkCorrect ==
  ASSUME LinksFit, TextBeyond, RmdirOnly PROVE Spec => []DirNlink
<1>1. RmdirOnly /\ TypeOK /\ TreeInv(image, Nat) /\ Linked(image) => DirNlink
  <2> SUFFICES ASSUME TypeOK, TreeInv(image, Nat), Exact(image), NEW i \in Dirs,
                      i = image.rootdir \/ NamedAt(i) # {}
               PROVE  image.inode[i].nlink =
                        2 + Cardinality({k \in Entries(i) : Entry(i, k).file_type = "DIR"})
    BY DEF DirNlink, Linked
  <2>1. /\ i \in DirsOf(image) /\ i \in Inum /\ i \in image.used \ {0}
        /\ NamesInv(image) /\ image \in Image
    BY DirsAre, DirsInum DEF TreeInv, Shape, Allocated, DirsOf, TypeOK
  <2>2. i = image.rootdir \/ NamesOf(image, i) # {}
    <3>1. Cardinality(NamedAt(i)) = Cardinality(NamesOf(image, i)) /\ IsFiniteSet(NamedAt(i))
      BY <2>1, NamedAtCount
    <3>2. IsFiniteSet(NamesOf(image, i))
      BY <2>1 DEF TreeInv, Lower
    <3>3. QED
      BY <3>1, <3>2, FS_EmptySet
  <2>3. image.inode[i].nlink = Cardinality(Subs(image, i)) + 2
    BY <2>1, <2>2 DEF Exact
  <2> DEFINE K == {k \in Entries(i) : Entry(i, k).file_type = "DIR"}
             f == [k \in K |-> Entry(i, k)]
             T == Subs(image, i)
  <2>4. /\ \A k \in K : Entry(i, k) \in T
        /\ \A j, k \in K : Entry(i, j) = Entry(i, k) => j = k
        /\ \A e \in T : \E k \in K : Entry(i, k) = e
    BY <2>1, EntriesNamed DEF Subs
  <2>5. f \in Injection(K, T) /\ f \in Surjection(K, T)
    BY <2>4 DEF Injection, Surjection, IsInjective
  <2>6. IsFiniteSet(T) /\ Cardinality(T) \in Nat
    BY <2>1, SubsFinite
  <2> HIDE DEF f, K, T
  <2>7. Cardinality(K) = Cardinality(T)
    BY <2>5, <2>6, FS_Injection
  <2>8. QED
    BY <2>3, <2>6, <2>7 DEF K, T
<1>2. TreeWorkload
  BY DEF TreeWorkload
<1>3. QED
  BY <1>1, <1>2, TreeShape, PTL

\* The one entry of its name is the one dir_lookup finds.
LEMMA FindsIt ==
  ASSUME NEW img \in Image, NamesInv(img), NEW d \in Inum, NEW e \in Inside(img, d)
  PROVE  LET k == FindDent(Ents(img, d), e.name)
         IN  k # 0 /\ k \in Live(Ents(img, d)) /\ Ents(img, d)[k] = e
<1> DEFINE k == FindDent(Ents(img, d), e.name)
<1>1. PICK j \in Live(Ents(img, d)) : e = Ents(img, d)[j]
  BY DEF Inside, EntSet
<1>2. Ents(img, d) \in Seq(Dentry)
  BY EntsType
<1>3. k # 0
  BY <1>1, <1>2, FindNothing DEF Absent
<1>4. k \in Live(Ents(img, d)) /\ Ents(img, d)[k].name = e.name
  BY <1>2, <1>3, FindDentResult
<1> HIDE DEF k
<1>5. Ents(img, d)[k] = e
  BY <1>4, NamedOnce DEF Inside, EntSet
<1>6. QED
  BY <1>3, <1>4, <1>5 DEF k

\* ".." of a directory is what Up says.
LEMMA ParentIs ==
  ASSUME TypeOK, TreeInv(image, Nat), NEW d \in DirsOf(image), NEW p, Up(image, d, p)
  PROVE  Parent(d) = p
<1>1. image \in Image /\ NamesInv(image) /\ d \in Inum
  BY DirsInum DEF TypeOK, TreeInv, Shape, Allocated
<1>2. CASE image.inode[d].inline
  BY <1>2 DEF Up, Parent
<1>3. CASE ~ image.inode[d].inline
  <2>1. PICK e \in Inside(image, d) : e.name = DotDot /\ e.inum = p
    BY <1>3 DEF Up
  <2>2. LET k == FindDent(Ents(image, d), DotDot)
        IN  k # 0 /\ Ents(image, d)[k] = e
    BY <1>1, <2>1, FindsIt
  <2>3. QED
    BY <1>3, <2>1, <2>2 DEF Parent, Entry
<1>4. QED
  BY <1>2, <1>3

\* No call gives a directory a second name, or leaves its ".." behind when it
\* moves or is converted.
THEOREM ParentAgreesCorrect ==
  ASSUME TreeWorkload PROVE Spec => []ParentAgrees
<1>1. TypeOK /\ TreeInv(image, Nat) => ParentAgrees
  <2> SUFFICES ASSUME TypeOK, TreeInv(image, Nat), NEW i \in Dirs
               PROVE  /\ Cardinality(NamedAt(i)) <= 1
                      /\ \A at \in NamedAt(i) : Parent(i) = at[1]
    BY DEF ParentAgrees
  <2>1. /\ i \in DirsOf(image) /\ i # 0 /\ DirsOf(image) \subseteq Inum /\ NamesInv(image)
        /\ OneName(image) /\ Parents(image, 0)
    BY DirsAre, DirsInum DEF TreeInv, Shape, Allocated, DirsOf
  <2>2. \A at \in NamedAt(i) :
          /\ at = <<at[1], at[2]>> /\ at[1] \in DirsOf(image) /\ at[2] \in Entries(at[1])
          /\ Entry(at[1], at[2]) \in Named(image, at[1]) /\ Entry(at[1], at[2]).inum = i
    BY NamedAtIs
  <2>3. ASSUME NEW at \in NamedAt(i), NEW bt \in NamedAt(i) PROVE at = bt
    <3>1. at[1] = bt[1] /\ Entry(at[1], at[2]) = Entry(bt[1], bt[2])
      BY <2>1, <2>2 DEF OneName
    <3>2. at[2] = bt[2]
      BY <2>1, <2>2, <3>1, EntriesNamed
    <3>3. QED
      BY <2>2, <3>1, <3>2
  <2>4. Cardinality(NamedAt(i)) <= 1
    <3>1. CASE NamedAt(i) = {}
      BY <3>1, FS_EmptySet
    <3>2. CASE NamedAt(i) # {}
      <4>1. PICK at \in NamedAt(i) : TRUE
        BY <3>2
      <4>2. NamedAt(i) = {at}
        BY <2>3, <4>1
      <4>3. \A x : Cardinality({x}) = 1
        BY FS_Singleton
      <4>4. Cardinality(NamedAt(i)) = 1
        BY <4>2, <4>3
      <4>5. QED
        BY <4>4
    <3>3. QED
      BY <3>1, <3>2
  <2>5. ASSUME NEW at \in NamedAt(i) PROVE Parent(i) = at[1]
    <3>1. Up(image, i, at[1])
      BY <2>1, <2>2 DEF Parents
    <3>2. QED
      BY <2>1, <3>1, ParentIs
  <2>6. QED
    BY <2>4, <2>5
<1>2. QED
  BY <1>1, TreeShape, PTL

\* What one turn of the loop of do_lookup makes of at in a directory d.
Turned(new, img, at, c, last, d) ==
  LET k == FindDent(Ents(img, d), c)
      dent == IF img.inode[d].inline /\ c = Dot THEN at.prev
              ELSE IF img.inode[d].inline /\ c = DotDot THEN DummyPtr
              ELSE IF k = 0 THEN Null ELSE EntPtr(img, d, k)
  IN  /\ new.dent = dent
      /\ ~ last /\ dent # Null => new.prev = dent
      /\ new.done = (dent = Null)
      /\ new.dummy = IF img.inode[d].inline /\ c = DotDot THEN img.inode[d].p_inum
                     ELSE at.dummy

LEMMA StepFrom ==
  ASSUME NEW img, NEW at, NEW c, NEW last \in BOOLEAN, NEW d,
         d = Deref(img, at.dummy, at.prev).inum, img.inode[d].type = "DIR",
         at \in Found
  PROVE  Turned(LookupStep(img, at, c, last), img, at, c, last, d)
  BY DEF LookupStep, Turned

\* Where "." and ".." lead from a directory at a pathname of one component.
Leads(img, at, i) == Deref(img, at.dummy, at.dent).inum = i

LEMMA DotsFrom ==
  ASSUME NEW img, Shape(img, 0, 0), NEW at \in Found, NEW i \in DirsOf(img), NEW p,
         Deref(img, at.dummy, at.prev).inum = i, Up(img, i, p), NEW c \in {Dot, DotDot},
         \A dm : Deref(img, dm, at.prev).inum = i
  PROVE  Leads(img, LookupStep(img, at, c, TRUE), IF c = Dot THEN i ELSE p)
<1> DEFINE new == LookupStep(img, at, c, TRUE)
           k == FindDent(Ents(img, i), c)
<1>1. img \in Image /\ NamesInv(img) /\ i \in Inum
  BY DirsInum DEF Shape, Allocated
<1>2. img.inode[i].type = "DIR" /\ Dot # DotDot /\ TRUE \in BOOLEAN
  BY DEF DirsOf, Dot, DotDot
<1>3. /\ new.dent = IF img.inode[i].inline /\ c = Dot THEN at.prev
                    ELSE IF img.inode[i].inline /\ c = DotDot THEN DummyPtr
                    ELSE IF k = 0 THEN Null ELSE EntPtr(img, i, k)
      /\ new.dummy = IF img.inode[i].inline /\ c = DotDot THEN img.inode[i].p_inum
                     ELSE at.dummy
  <2>1. i = Deref(img, at.dummy, at.prev).inum /\ img.inode[i].type = "DIR"
    BY <1>2
  <2>2. Turned(LookupStep(img, at, c, TRUE), img, at, c, TRUE, i)
    BY <1>2, <2>1, StepFrom
  <2> HIDE DEF new
  <2>3. Turned(new, img, at, c, TRUE, i)
    BY <2>2 DEF new
  <2>4. QED
    BY <2>3 DEF Turned
<1> HIDE DEF new
<1>4. CASE img.inode[i].inline /\ c = Dot
  <2>1. new.dent = at.prev
    BY <1>3, <1>4
  <2>2. Deref(img, new.dummy, new.dent).inum = i
    BY <2>1
  <2>3. QED
    BY <1>4, <2>2 DEF new, Leads
<1>5. CASE img.inode[i].inline /\ c = DotDot
  <2>1. new.dent = DummyPtr /\ new.dummy = p
    BY <1>2, <1>3, <1>5 DEF Up
  <2>2. Deref(img, new.dummy, new.dent).inum = p
    BY <2>1 DEF Deref, DummyPtr
  <2>3. QED
    BY <1>2, <1>5, <2>2 DEF new, Leads
<1>6. CASE ~ img.inode[i].inline
  <2>1. \E e \in Inside(img, i) : e.name = c /\ e.inum = IF c = Dot THEN i ELSE p
    <3>1. \E e \in Inside(img, i) : e.name = Dot /\ e.inum = i
      BY <1>6 DEF Shape, Dotted
    <3>2. \E e \in Inside(img, i) : e.name = DotDot /\ e.inum = p
      BY <1>6 DEF Up
    <3>3. QED
      BY <1>2, <3>1, <3>2
  <2>2. PICK e \in Inside(img, i) : e.name = c /\ e.inum = IF c = Dot THEN i ELSE p
    BY <2>1
  <2>3. k # 0 /\ k \in Live(Ents(img, i)) /\ Ents(img, i)[k] = e
    BY <1>1, <2>2, FindsIt
  <2>4. new.dent = EntPtr(img, i, k)
    BY <1>3, <1>6, <2>3
  <2> HIDE DEF k
  <2>5. Deref(img, new.dummy, new.dent) = e
    BY <2>3, <2>4, DerefEnt
  <2>6. QED
    BY <2>2, <2>5 DEF new, Leads
<1>7. QED
  BY <1>4, <1>5, <1>6

\* From every directory of the root, "." leads to itself and ".." to the root,
\* after any conversion and rename.
THEOREM DotsResolveCorrect ==
  ASSUME TreeWorkload PROVE Spec => []DotsResolve
<1>1. TypeOK /\ TreeInv(image, Nat) => DotsResolve
  <2> SUFFICES ASSUME TypeOK, TreeInv(image, Nat), NEW c \in Names
               PROVE  LET path == [abs |-> TRUE, comp |-> <<c>>]
                          i == Deref(image, dummy,
                                     LookupFrom(image, path, LookupStart(path)).dent).inum
                      IN  i # 0 /\ image.inode[i].type = "DIR"
                          => /\ ResolvesTo(image, [abs |-> TRUE, comp |-> <<c, Dot>>], i)
                             /\ ResolvesTo(image, [abs |-> TRUE, comp |-> <<c, DotDot>>],
                                           image.rootdir)
    BY DEF DotsResolve
  <2> DEFINE path == [abs |-> TRUE, comp |-> <<c>>]
             start == LookupStart(path)
             first == LookupStep(image, start, c, TRUE)
             mid == LookupStep(image, start, c, FALSE)
             r == image.rootdir
             k == FindDent(Ents(image, r), c)
             e == Ents(image, r)[k]
             i == Deref(image, dummy, LookupFrom(image, path, start).dent).inum
  <2>1. /\ image \in Image /\ Shape(image, 0, 0) /\ r \in DirsOf(image) /\ r \in Inum
        /\ image.inode[r].type = "DIR" /\ 0 \notin DirsOf(image)
    BY DirsInum DEF TypeOK, TreeInv, Shape, Allocated, DirsOf
  <2>2. /\ start \in Found /\ start.prev = RootPtr /\ start.dummy = dummy
        /\ c \in Comp /\ c # Dot /\ c # DotDot
    BY PlainPtr, ZeroInum, NamesAssumption DEF TypeOK, LookupStart, Found, Comp
  <2>3. r = Deref(image, start.dummy, start.prev).inum
    BY <2>2 DEF Deref, RootPtr
  <2>4. LookupFrom(image, path, start) = first
    BY DEF LookupFrom
  <2> HIDE DEF start
  <2>5. first.dent = IF k = 0 THEN Null ELSE EntPtr(image, r, k)
    <3> HIDE DEF r
    <3>1. Turned(first, image, start, c, TRUE, r)
      BY <2>1, <2>2, <2>3, StepFrom
    <3> HIDE DEF first
    <3>2. QED
      BY <2>2, <3>1 DEF Turned
  <2>6. ASSUME k # 0
        PROVE  /\ mid.dent = EntPtr(image, r, k) /\ mid.prev = EntPtr(image, r, k)
               /\ mid.done = FALSE /\ mid \in Found
    <3>1. EntPtr(image, r, k) # Null
      BY DEF EntPtr, InlinePtr, BlockPtr, Null
    <3>2. /\ mid.dent = IF k = 0 THEN Null ELSE EntPtr(image, r, k)
          /\ mid.dent # Null => mid.prev = mid.dent
          /\ mid.done = (mid.dent = Null)
      <4> HIDE DEF r
      <4>1. Turned(mid, image, start, c, FALSE, r)
        BY <2>1, <2>2, <2>3, StepFrom
      <4> HIDE DEF mid
      <4>2. QED
        BY <2>2, <4>1 DEF Turned
    <3>3. mid \in Found
      BY <2>1, <2>2, LookupStepType
    <3>4. QED
      BY <2>6, <3>1, <3>2, <3>3
  <2>7. ASSUME NEW q, q \in {Dot, DotDot}
        PROVE  LET qath == [abs |-> TRUE, comp |-> <<c, q>>]
               IN  mid.done = FALSE =>
                     LookupFrom(image, qath, LookupStart(qath)) = LookupStep(image, mid, q, TRUE)
    <3> DEFINE qath == [abs |-> TRUE, comp |-> <<c, q>>]
    <3>1. LookupStart(qath) = start
      BY DEF LookupStart, start
    <3>2. qath.comp[1] = c /\ qath.comp[2] = q /\ Len(qath.comp) = 2 /\ qath.comp # << >>
      OBVIOUS
    <3> HIDE DEF qath, mid
    <3>3. LookupFrom(image, qath, start) = LookupSecond(image, qath, mid)
      BY <3>2 DEF LookupFrom, mid
    <3>4. QED
      BY <3>1, <3>2, <3>3 DEF LookupSecond, qath
  <2> SUFFICES ASSUME i # 0, image.inode[i].type = "DIR"
               PROVE  /\ ResolvesTo(image, [abs |-> TRUE, comp |-> <<c, Dot>>], i)
                      /\ ResolvesTo(image, [abs |-> TRUE, comp |-> <<c, DotDot>>], r)
    BY DEF start
  <2> HIDE DEF first, mid
  <2>8. k # 0
    <3>1. Deref(image, dummy, Null).inum = 0
      BY DEF Deref, Null, ZeroDentry
    <3>2. i = Deref(image, dummy, first.dent).inum
      BY <2>4
    <3>3. QED
      BY <2>5, <3>1, <3>2
  <2>9. k \in Live(Ents(image, r)) /\ e.name = c
    BY <2>1, <2>8, EntsType, FindDentResult
  <2> HIDE DEF k
  <2>10. \A dm : Deref(image, dm, EntPtr(image, r, k)) = e
    BY <2>9, DerefEnt
  <2>11. i = e.inum
    BY <2>4, <2>5, <2>8, <2>10
  <2>12. e \in Named(image, r)
    BY <2>9 DEF Named, Inside, EntSet
  <2> HIDE DEF i, e
  <2>13. i \in DirsOf(image)
    BY <2>1, <2>11, <2>12 DEF Shape, NoDangle, DirsOf
  <2>14. Up(image, i, r)
    BY <2>1, <2>11, <2>12, <2>13 DEF Shape, Parents
  <2>15. \A dm : Deref(image, dm, mid.prev).inum = i
    BY <2>6, <2>8, <2>10, <2>11
  <2>16. ASSUME NEW q \in {Dot, DotDot}
         PROVE  Leads(image, LookupStep(image, mid, q, TRUE), IF q = Dot THEN i ELSE r)
    <3>1. Deref(image, mid.dummy, mid.prev).inum = i /\ mid \in Found
      BY <2>6, <2>8, <2>15
    <3> HIDE DEF r
    <3>2. QED
      BY <2>1, <2>13, <2>14, <2>15, <2>16, <3>1, DotsFrom
  <2>17. mid.done = FALSE /\ Dot # DotDot
    BY <2>6, <2>8 DEF Dot, DotDot
  <2>18. ResolvesTo(image, [abs |-> TRUE, comp |-> <<c, Dot>>], i)
    BY <2>7, <2>16, <2>17 DEF ResolvesTo, Leads
  <2>19. ResolvesTo(image, [abs |-> TRUE, comp |-> <<c, DotDot>>], r)
    BY <2>7, <2>16, <2>17 DEF ResolvesTo, Leads
  <2>20. QED
    BY <2>18, <2>19
<1>2. QED
  BY <1>1, TreeShape, PTL

\* A pathname from the root, without dots.
NamedPath(path) ==
  path.abs /\ path.comp # << >> /\ \A n \in DOMAIN path.comp : path.comp[n] \in Names

\* All components but the last lead to directory d.
Reaches(img, path, d) ==
  /\ d \in DirsOf(img)
  /\ IF Len(path.comp) = 1 THEN d = img.rootdir
     ELSE <<img.rootdir, path.comp[1]>> \in NamesOf(img, d)

\* What was found is the entry c of d, or nothing if there is none.
Shows(found, img, d, c) ==
  /\ \A j : <<d, c>> \in NamesOf(img, j) =>
       found.dent # Null /\ \A dm : Deref(img, dm, found.dent).inum = j
  /\ (\A j : <<d, c>> \notin NamesOf(img, j)) => found.dent = Null

LEMMA StepShows ==
  ASSUME NEW img, Shape(img, 0, 0), NEW at \in Found, NEW c \in Names, NEW last \in BOOLEAN,
         NEW d \in DirsOf(img), Deref(img, at.dummy, at.prev).inum = d
  PROVE  LET new == LookupStep(img, at, c, last)
         IN  /\ Shows(new, img, d, c) /\ new.done = (new.dent = Null) /\ new \in Found
             /\ ~ last /\ new.dent # Null => new.prev = new.dent
             /\ last \/ new.dent # Null => new.pi = d
             /\ ~ last /\ new.dent = Null => new.pi = 0
<1> DEFINE new == LookupStep(img, at, c, last)
           k == FindDent(Ents(img, d), c)
           e == Ents(img, d)[k]
<1>1. /\ img \in Image /\ Allocated(img) /\ d \in Inum /\ img.inode[d].type = "DIR"
      /\ c \in Comp /\ c # Dot /\ c # DotDot
  BY DirsInum, NamesAssumption DEF Shape, Allocated, DirsOf, Comp
<1>2. /\ new.dent = IF k = 0 THEN Null ELSE EntPtr(img, d, k)
      /\ new.done = (new.dent = Null)
      /\ ~ last /\ new.dent # Null => new.prev = new.dent
  <2>1. Turned(new, img, at, c, last, d)
    BY <1>1, StepFrom
  <2> HIDE DEF new
  <2>2. QED
    BY <1>1, <2>1 DEF Turned
<1>3. new.pi = IF new.dent = Null /\ ~ last THEN 0 ELSE d
  BY <1>1 DEF LookupStep
<1>4. new \in Found
  BY <1>1, LookupStepType
<1>5. Ents(img, d) \in Seq(Dentry)
  BY <1>1, EntsType
<1> HIDE DEF new
<1>6. CASE k = 0
  <2>1. Absent(Ents(img, d), c)
    BY <1>5, <1>6, FindNothing
  <2>2. \A j : <<d, c>> \notin NamesOf(img, j)
    BY <2>1, AbsentNamed DEF NamesOf
  <2>3. Shows(new, img, d, c)
    BY <1>2, <1>6, <2>2 DEF Shows
  <2>4. QED
    BY <1>2, <1>3, <1>4, <2>3 DEF new
<1>7. CASE k # 0
  <2>1. k \in Live(Ents(img, d)) /\ e.name = c
    BY <1>5, <1>7, FindDentResult
  <2> HIDE DEF k
  <2>2. e \in Named(img, d)
    BY <2>1 DEF Named, Inside, EntSet
  <2>3. \A j : e.inum = j <=> <<d, c>> \in NamesOf(img, j)
    BY <1>1, <2>1, <2>2, NamesAre
  <2>4. new.dent # Null /\ \A dm : Deref(img, dm, new.dent) = e
    <3>1. EntPtr(img, d, k) # Null
      BY DEF EntPtr, InlinePtr, BlockPtr, Null
    <3>2. \A dm : Deref(img, dm, EntPtr(img, d, k)) = e
      BY <2>1, DerefEnt
    <3>3. QED
      BY <1>2, <1>7, <3>1, <3>2
  <2> HIDE DEF e
  <2>5. Shows(new, img, d, c)
    BY <2>3, <2>4 DEF Shows
  <2>6. QED
    BY <1>2, <1>3, <1>4, <2>5 DEF new
<1>8. QED
  BY <1>6, <1>7

\* do_lookup on a pathname from the root, without dots.
LEMMA Walk ==
  ASSUME NEW img, Shape(img, 0, 0), NEW path \in Path, NamedPath(path),
         NEW start \in Found, start.prev = RootPtr
  PROVE  LET found == LookupFrom(img, path, start)
         IN  /\ Filename(path) \in Names
             /\ \A d : Reaches(img, path, d) => Shows(found, img, d, Filename(path))
             /\ found.pi > 0 => Reaches(img, path, found.pi)
<1> DEFINE r == img.rootdir
           found == LookupFrom(img, path, start)
           x == path.comp[1]
           y == path.comp[2]
           mid == LookupStep(img, start, x, FALSE)
<1>1. /\ r \in DirsOf(img) /\ Deref(img, start.dummy, start.prev).inum = r
      /\ Allocated(img) /\ NoDangle(img)
  BY DEF Shape, Allocated, Deref, RootPtr
<1>2. path.comp # << >> /\ (Len(path.comp) = 1 \/ Len(path.comp) = 2)
  BY DEF NamedPath, Path
<1>3. CASE Len(path.comp) = 1
  <2>1. x \in Names /\ Filename(path) = x
    BY <1>3 DEF NamedPath, Path, Filename
  <2>2. found = LookupStep(img, start, x, TRUE)
    BY <1>2, <1>3 DEF LookupFrom
  <2> HIDE DEF r, x, found
  <2>3. Shows(found, img, r, x) /\ found.pi = r
    BY <1>1, <2>1, <2>2, StepShows
  <2>4. \A d : Reaches(img, path, d) <=> d = r
    BY <1>1, <1>3 DEF Reaches, r
  <2>5. QED
    BY <2>1, <2>3, <2>4 DEF found
<1>4. CASE Len(path.comp) = 2
  <2>1. x \in Names /\ y \in Names /\ Filename(path) = y
    BY <1>4 DEF NamedPath, Path, Filename
  <2>2. found = IF mid.done THEN mid ELSE LookupStep(img, mid, y, TRUE)
    BY <1>2, <1>4 DEF LookupFrom, LookupSecond
  <2>3. \A d : Reaches(img, path, d) <=> d \in DirsOf(img) /\ <<r, x>> \in NamesOf(img, d)
    BY <1>4 DEF Reaches
  <2> HIDE DEF r, x, y, found
  <2>4. /\ Shows(mid, img, r, x) /\ mid.done = (mid.dent = Null) /\ mid \in Found
        /\ mid.dent # Null => mid.prev = mid.dent
        /\ mid.dent = Null => mid.pi = 0
    BY <1>1, <2>1, StepShows
  <2> HIDE DEF mid
  <2>5. CASE mid.dent = Null
    <3>1. found.pi = 0 /\ \A d : ~ Reaches(img, path, d)
      BY <2>2, <2>3, <2>4, <2>5 DEF Shows
    <3>2. QED
      BY <2>1, <3>1 DEF found
  <2>6. CASE mid.dent # Null
    <3>1. PICK j : <<r, x>> \in NamesOf(img, j)
      BY <2>4, <2>6 DEF Shows
    <3>2. Deref(img, mid.dummy, mid.prev).inum = j /\ found = LookupStep(img, mid, y, TRUE)
      BY <2>2, <2>4, <2>6, <3>1 DEF Shows
    <3>3. ASSUME NEW d, Reaches(img, path, d) PROVE d = j /\ d \in DirsOf(img)
      BY <2>3, <2>4, <2>6, <3>1, <3>2, <3>3 DEF Shows
    <3>4. CASE j \in DirsOf(img)
      <4>1. Shows(found, img, j, y) /\ found.pi = j
        <5>1. mid \in Found /\ y \in Names /\ Deref(img, mid.dummy, mid.prev).inum = j
          BY <2>1, <2>4, <3>2
        <5>2. Shows(LookupStep(img, mid, y, TRUE), img, j, y)
          BY <3>4, <5>1, StepShows
        <5>3. LookupStep(img, mid, y, TRUE).pi = j
          BY <3>4, <5>1, StepShows
        <5>4. QED
          BY <3>2, <5>2, <5>3
      <4>2. Reaches(img, path, j)
        BY <2>3, <3>1, <3>4
      <4>3. QED
        BY <2>1, <3>3, <4>1, <4>2 DEF found
    <3>5. CASE j \notin DirsOf(img)
      <4>1. img.inode[j].type # "DIR"
        BY <1>1, <3>1, <3>5 DEF NoDangle, DirsOf, NamesOf
      <4>2. found.pi = Uninit
        BY <2>4, <3>2, <4>1 DEF LookupStep, Found
      <4>3. QED
        BY <2>1, <3>3, <3>5, <4>2 DEF found, Uninit
    <3>6. QED
      BY <3>4, <3>5
  <2>7. QED
    BY <2>5, <2>6
<1>5. QED
  BY <1>2, <1>3, <1>4

\* The old and the new place of a move differ.
LEMMA MovesApart ==
  ASSUME NEW img, Shape(img, 0, 0), NEW a, NEW k, NEW d, NEW name, NEW newdent,
         Moves(img, a, k, d, name, newdent)
  PROVE  <<a, Ents(img, a)[k].name>> # <<d, name>>
<1> SUFFICES ASSUME a = d, Ents(img, a)[k].name = name PROVE FALSE
  OBVIOUS
<1>1. /\ k \in Live(Ents(img, a)) /\ Distinct(Ents(img, a)) /\ name \in Names
      /\ newdent # EntPtr(img, a, k) /\ name # Dot /\ name # DotDot
  BY DirsInum, NamedOnce, NamesAssumption DEF Moves, Shape, Allocated
<1>2. CASE newdent = Null
  BY <1>1, <1>2 DEF Moves, Absent
<1>3. CASE newdent # Null
  BY <1>1, <1>3 DEF Moves, Distinct
<1>4. QED
  BY <1>2, <1>3

\* After a move every directory on the way to the new place, and to the old
\* one, is where it was, unless one lies below the other.
LEMMA StillReaches ==
  ASSUME NEW old, NEW new, NEW a, NEW k, NEW d, NEW p \in Path, NEW q \in Path,
         NamedPath(p), NamedPath(q), Rootless(old),
         Reaches(old, p, a), Reaches(old, q, d), Ents(old, a)[k].name = Filename(p),
         Renames(new, old, a, k, d, Filename(q))
  PROVE  /\ ~ Below(q, p) => Reaches(new, q, d)
         /\ ~ Below(p, q) => Reaches(new, p, a)
<1> DEFINE r == old.rootdir
           m == Filename(p)
           n == Filename(q)
<1>1. /\ new.rootdir = r /\ DirsOf(new) = DirsOf(old)
      /\ \A j : \A at : at \in NamesOf(old, j) /\ at # <<a, m>> /\ at # <<d, n>>
                        => at \in NamesOf(new, j)
  BY DEF Renames
<1>2. \A at : at \notin NamesOf(old, r)
  BY DEF Rootless
<1>3. \A path \in {p, q} : Len(path.comp) = 1 \/ Len(path.comp) = 2
  BY DEF NamedPath, Path
<1>4. /\ Len(p.comp) = 1 => m = p.comp[1]
      /\ Len(q.comp) = 1 => n = q.comp[1]
  BY DEF Filename
<1>5. /\ a = r => Len(p.comp) = 1
      /\ d = r => Len(q.comp) = 1
  BY <1>2, <1>3 DEF Reaches
<1>6. ASSUME ~ Below(q, p) PROVE Reaches(new, q, d)
  <2>1. CASE Len(q.comp) = 1
    BY <1>1, <2>1 DEF Reaches
  <2>2. CASE Len(q.comp) = 2
    <3>1. <<r, q.comp[1]>> \in NamesOf(old, d) /\ d # r
      BY <1>5, <2>2 DEF Reaches
    <3>2. a = r => q.comp[1] # m
      <4> SUFFICES ASSUME a = r PROVE q.comp[1] # m
        OBVIOUS
      <4>1. Len(p.comp) = 1 /\ m = p.comp[1]
        BY <1>4, <1>5
      <4>2. Len(q.comp) > Len(p.comp)
        BY <2>2, <4>1
      <4>3. QED
        BY <1>6, <4>1, <4>2 DEF Below
    <3>3. <<r, q.comp[1]>> # <<a, m>> /\ <<r, q.comp[1]>> # <<d, n>>
      BY <3>1, <3>2
    <3>4. <<r, q.comp[1]>> \in NamesOf(new, d)
      BY <1>1, <3>1, <3>3
    <3>5. QED
      BY <1>1, <2>2, <3>4 DEF Reaches
  <2>3. QED
    BY <1>3, <2>1, <2>2
<1>7. ASSUME ~ Below(p, q) PROVE Reaches(new, p, a)
  <2>1. CASE Len(p.comp) = 1
    BY <1>1, <2>1 DEF Reaches
  <2>2. CASE Len(p.comp) = 2
    <3>1. <<r, p.comp[1]>> \in NamesOf(old, a) /\ a # r
      BY <1>5, <2>2 DEF Reaches
    <3>2. d = r => p.comp[1] # n
      <4> SUFFICES ASSUME d = r PROVE p.comp[1] # n
        OBVIOUS
      <4>1. Len(q.comp) = 1 /\ n = q.comp[1]
        BY <1>4, <1>5
      <4>2. Len(p.comp) > Len(q.comp)
        BY <2>2, <4>1
      <4>3. QED
        BY <1>7, <4>1, <4>2 DEF Below
    <3>3. <<r, p.comp[1]>> # <<a, m>> /\ <<r, p.comp[1]>> # <<d, n>>
      BY <3>1, <3>2
    <3>4. <<r, p.comp[1]>> \in NamesOf(new, a)
      BY <1>1, <3>1, <3>3
    <3>5. QED
      BY <1>1, <2>2, <3>4 DEF Reaches
  <2>3. QED
    BY <1>3, <2>1, <2>2
<1>8. QED
  BY <1>6, <1>7

\* The pathnames fs_rename gets are absolute and name no dots.
RenamesOfNames == \A pair \in Pairs["rename"] : NamedPath(pair[1]) /\ NamedPath(pair[2])

\* Whenever fs_rename goes ahead, the new pathname leads to the inode the old
\* one led to and the old one to nothing, unless one pathname lies below the
\* other, also when an entry was replaced or a directory converted.
THEOREM RenameMovesCorrect ==
  ASSUME TreeWorkload, RenamesOfNames PROVE Spec => []RenameMoves
<1>1. TypeOK /\ TreeInv(image, Nat) /\ Linked(image) => RenameMoves
  <2> SUFFICES ASSUME TypeOK, TreeInv(image, Nat), Linked(image), NEW pair \in Pairs["rename"]
               PROVE  LET p == pair[1]
                          q == pair[2]
                          from == Lookup(p)
                          to == LookupAfter(q, from.dummy)
                          i == Deref(image, from.dummy, from.dent).inum
                          after == Renamed(image, to.dummy, from.dent, to.dent, to.pi, Filename(q))
                      IN  MayRename(from, to)
                             /\ Fits(BeforeMove(image, to.dummy, from.dent, to.dent), to.pi)
                             /\ ~ Below(q, p)
                          => /\ ResolvesTo(after, q, i)
                             /\ Below(p, q) \/ ResolvesTo(after, p, 0)
    BY DEF RenameMoves
  <2> DEFINE p == pair[1]
             q == pair[2]
             from == Lookup(p)
             to == LookupAfter(q, from.dummy)
             i == Deref(image, from.dummy, from.dent).inum
             after == Renamed(image, to.dummy, from.dent, to.dent, to.pi, Filename(q))
  <2> SUFFICES ASSUME MayRename(from, to), ~ Below(q, p),
                      Fits(BeforeMove(image, to.dummy, from.dent, to.dent), to.pi)
               PROVE  ResolvesTo(after, q, i) /\ (Below(p, q) \/ ResolvesTo(after, p, 0))
    OBVIOUS
  <2>1. p \in Path /\ q \in Path /\ NamedPath(p) /\ NamedPath(q) /\ LinksFit /\ TextBeyond
    BY HfsAssumption DEF RenamesOfNames, TreeWorkload
  <2> HIDE DEF p, q
  <2>2. /\ Shape(image, 0, 0) /\ Rootless(image)
        /\ LookupStart(p) \in Found /\ LookupStart(p).prev = RootPtr
        /\ LookupStart(q) \in Found /\ LookupStart(q).prev = RootPtr
    BY <2>1, PlainPtr, ZeroInum DEF TypeOK, TreeInv, Linked, LookupStart, Found, NamedPath
  <2>3. from.dummy \in Inum
    BY <2>1, LookupType, FoundType, ZeroInum
  <2>4. /\ [LookupStart(q) EXCEPT !.dummy = from.dummy] \in Found
        /\ [LookupStart(q) EXCEPT !.dummy = from.dummy].prev = RootPtr
    BY <2>2, <2>3 DEF Found
  <2>5. /\ Filename(p) \in Names /\ Filename(q) \in Names
        /\ from.pi > 0 => Reaches(image, p, from.pi)
        /\ to.pi > 0 => Reaches(image, q, to.pi)
    BY <2>1, <2>2, <2>4, Walk DEF Lookup, LookupAfter
  <2>6. from.pi > 0 /\ to.pi > 0
    <3>1. from.dent # Null /\ to.pi > 0
      BY DEF MayRename
    <3>2. Knows(image, from, Filename(p))
      BY <2>1, <2>2, <3>1, LookupKnows, ZeroInum
    <3>3. from.pi \in DirsOf(image)
      BY <2>5, <3>1, <3>2, NamesAssumption DEF Knows, MayRename
    <3>4. QED
      BY <2>2, <3>1, <3>3, DirsInum DEF Shape, Allocated, Inum, DirsOf
  <2>7. PICK k \in Live(Ents(image, from.pi)) :
          /\ Moves(image, from.pi, k, to.pi, Filename(q), to.dent)
          /\ Deref(image, from.dummy, from.dent) = Ents(image, from.pi)[k]
          /\ Ents(image, from.pi)[k].name = Filename(p)
          /\ Renames(after, image, from.pi, k, to.pi, Filename(q))
    <3>1. Nat \in SUBSET Nat /\ Filename(p) # Dot
      BY <2>5, NamesAssumption
    <3> HIDE DEF from, to
    <3>2. QED
      BY <2>1, <2>5, <3>1, RenameIs DEF from, to
  <2>8. TreeInv(after, Nat)
    <3>1. Nat \in SUBSET Nat /\ Filename(p) # Dot
      BY <2>5, NamesAssumption
    <3> HIDE DEF from, to
    <3>2. QED
      BY <2>1, <2>5, <3>1, RenameIs DEF from, to
  <2> DEFINE a == from.pi
             d == to.pi
             m == Filename(p)
             n == Filename(q)
  <2>9. Shape(after, 0, 0) /\ i = Ents(image, a)[k].inum
    BY <2>7, <2>8 DEF TreeInv
  <2>10. <<a, m>> # <<d, n>>
    BY <2>2, <2>7, MovesApart
  <2> HIDE DEF from, to, after, i
  <2>11. /\ Reaches(after, q, d)
         /\ ~ Below(p, q) => Reaches(after, p, a)
    BY <2>1, <2>2, <2>5, <2>6, <2>7, StillReaches
  <2>12. /\ <<d, n>> \in NamesOf(after, i)
         /\ \A j : <<a, m>> \notin NamesOf(after, j)
    BY <2>7, <2>9, <2>10 DEF Renames
  <2>13. ResolvesTo(after, q, i)
    <3>1. Shows(LookupFrom(after, q, LookupStart(q)), after, d, n)
      BY <2>1, <2>2, <2>9, <2>11, Walk
    <3>2. QED
      BY <2>12, <3>1 DEF Shows, ResolvesTo
  <2>14. Below(p, q) \/ ResolvesTo(after, p, 0)
    <3> SUFFICES ASSUME ~ Below(p, q) PROVE ResolvesTo(after, p, 0)
      OBVIOUS
    <3>1. Shows(LookupFrom(after, p, LookupStart(p)), after, a, m)
      BY <2>1, <2>2, <2>9, <2>11, Walk
    <3>2. \A dm : Deref(after, dm, Null).inum = 0
      BY DEF Deref, Null, ZeroDentry
    <3>3. QED
      BY <2>12, <3>1, <3>2 DEF Shows, ResolvesTo
  <2>15. QED
    BY <2>13, <2>14
<1>2. QED
  BY <1>1, TreeShape, PTL

-----------------------------------------------------------------------------
(* The slots of inline areas, to which descriptors point.                   *)

\* The slot k of an inode is not one that the next name gets: it was used, or
\* the inode no longer holds entries itself.
Spent(inode, k) == inode.inline => k <= Len(inode.ents)

\* A spent slot stays spent, and what it held it holds, or nothing.
SameSlots(new, old) ==
  \A k \in Nat \ {0} :
    Spent(old, k) => /\ Spent(new, k)
                     /\ SlotAt(new.ents, k).inum \in {0, SlotAt(old.ents, k).inum}

\* So in every directory of old, each of which is one of new.
KeepsSlots(new, old) ==
  \A d \in DirsOf(old) : d \in DirsOf(new) /\ SameSlots(new.inode[d], old.inode[d])

LEMMA SlotsTrans ==
  ASSUME NEW old, NEW mid, NEW new, KeepsSlots(new, mid), KeepsSlots(mid, old)
  PROVE  KeepsSlots(new, old)
  BY DEF KeepsSlots, SameSlots

\* What leaves the inline areas alone keeps the slots.
LEMMA SlotsAlike ==
  ASSUME NEW old, NEW new, DirsOf(old) \subseteq DirsOf(new),
         \A d \in DirsOf(old) : /\ new.inode[d].ents = old.inode[d].ents
                                /\ new.inode[d].inline = old.inode[d].inline
  PROVE  KeepsSlots(new, old)
  BY DEF KeepsSlots, SameSlots, Spent

\* So do the link counts, the parent, and the blocks.
LEMMA SlotsLink ==
  ASSUME NEW img \in Image, NEW i \in Inum,
         NEW new \in {AddLink(img, i), DropLink(img, i)}
  PROVE  KeepsSlots(new, img)
<1>1. ASSUME NEW n, new = [img EXCEPT !.inode[i].nlink = n] PROVE KeepsSlots(new, img)
  <2>1. /\ new.used = img.used
        /\ \A j \in Inum : /\ new.inode[j].ents = img.inode[j].ents
                           /\ new.inode[j].inline = img.inode[j].inline
                           /\ new.inode[j].type = img.inode[j].type
    BY <1>1 DEF Image, Inode
  <2>2. DirsOf(img) \subseteq DirsOf(new) /\ DirsOf(img) \subseteq Inum
    BY <2>1, DirsInum DEF DirsOf
  <2>3. QED
    BY <2>1, <2>2, SlotsAlike
<1>2. QED
  BY <1>1 DEF AddLink, DropLink

LEMMA SlotsParent ==
  ASSUME NEW img \in Image, NEW i \in Inum, NEW n
  PROVE  KeepsSlots([img EXCEPT !.inode[i].p_inum = n], img)
<1> DEFINE new == [img EXCEPT !.inode[i].p_inum = n]
<1>1. /\ new.used = img.used
      /\ \A j \in Inum : /\ new.inode[j].ents = img.inode[j].ents
                         /\ new.inode[j].inline = img.inode[j].inline
                         /\ new.inode[j].type = img.inode[j].type
  BY DEF Image, Inode
<1> HIDE DEF new
<1>2. DirsOf(img) \subseteq DirsOf(new) /\ DirsOf(img) \subseteq Inum
  BY <1>1, DirsInum DEF DirsOf
<1>3. KeepsSlots(new, img)
  BY <1>1, <1>2, SlotsAlike
<1>4. QED
  BY <1>3 DEF new

LEMMA SlotsBlock ==
  ASSUME NEW img, NEW new, new.inode = img.inode, new.used = img.used
  PROVE  KeepsSlots(new, img)
  BY SlotsAlike DEF DirsOf

\* Clearing an entry clears what one slot held.
LEMMA SlotCleared ==
  ASSUME NEW s \in Seq(Dentry), NEW j
  PROVE  /\ Len(ClearSlot(s, j)) = Len(s)
         /\ \A k \in Nat \ {0} : SlotAt(ClearSlot(s, j), k).inum \in {0, SlotAt(s, k).inum}
<1> DEFINE t == ClearSlot(s, j)
<1>1. CASE j \in 1 .. Len(s)
  <2>1. t = [s EXCEPT ![j] = [s[j] EXCEPT !.inum = 0]]
    BY <1>1 DEF ClearSlot
  <2>2. s[j] \in Dentry
    BY <1>1
  <2>3. [s[j] EXCEPT !.inum = 0].inum = 0
    BY <2>2 DEF Dentry
  <2> DEFINE e == [s[j] EXCEPT !.inum = 0]
  <2>4. e.inum = 0 /\ t = [s EXCEPT ![j] = e]
    BY <2>1, <2>3
  <2> HIDE DEF t, e
  <2>5. Len(t) = Len(s) /\ \A k \in 1 .. Len(s) : t[k] = IF k = j THEN e ELSE s[k]
    BY <1>1, <2>4
  <2>6. \A k \in Nat \ {0} : SlotAt(t, k).inum \in {0, SlotAt(s, k).inum}
    BY <2>4, <2>5 DEF SlotAt
  <2>7. QED
    BY <2>5, <2>6 DEF t
<1>2. CASE j \notin 1 .. Len(s)
  BY <1>2 DEF ClearSlot
<1>3. QED
  BY <1>1, <1>2

LEMMA SlotsCleared ==
  ASSUME NEW img \in Image, NEW p \in Ptr \union {Null}
  PROVE  /\ KeepsSlots(ClearDentry(img, p), img)
         /\ DirsOf(ClearDentry(img, p)) = DirsOf(img)
<1> DEFINE new == ClearDentry(img, p)
<1>1. CASE p.at = "inline" /\ p.inum \in Inum /\ p.slot \in Nat \ {0}
  <2> DEFINE i == p.inum
             s == img.inode[i].ents
             t == ClearSlot(s, p.slot)
  <2>1. new = [img EXCEPT !.inode[i].ents = t]
    BY <1>1 DEF ClearDentry
  <2>2. s \in Seq(Dentry)
    BY <1>1 DEF Image, Inode
  <2>3. /\ new.used = img.used
        /\ \A j \in Inum : /\ new.inode[j].inline = img.inode[j].inline
                           /\ new.inode[j].type = img.inode[j].type
        /\ new.inode[i].ents = t
        /\ \A j \in Inum \ {i} : new.inode[j].ents = img.inode[j].ents
    BY <1>1, <2>1 DEF Image, Inode
  <2> HIDE DEF new
  <2>4. Len(t) = Len(s) /\ \A k \in Nat \ {0} : SlotAt(t, k).inum \in {0, SlotAt(s, k).inum}
    BY <2>2, SlotCleared
  <2> HIDE DEF s, t
  <2>5. DirsOf(new) = DirsOf(img) /\ DirsOf(img) \subseteq Inum
    BY <2>3, DirsInum, ClearDentryType DEF DirsOf, new
  <2>6. \A d \in DirsOf(img) : SameSlots(new.inode[d], img.inode[d])
    BY <2>3, <2>4, <2>5 DEF SameSlots, Spent, s
  <2>7. QED
    BY <2>5, <2>6 DEF KeepsSlots, new
<1>2. CASE p.at # "inline"
  <2>1. new.inode = img.inode /\ new.used = img.used
    BY <1>2 DEF ClearDentry, Image
  <2> HIDE DEF new
  <2>2. KeepsSlots(new, img) /\ DirsOf(new) = DirsOf(img)
    BY <2>1, SlotsBlock DEF DirsOf
  <2>3. QED
    BY <2>2 DEF new
<1>3. QED
  BY <1>1, <1>2 DEF Ptr, SlotPtr, RootPtr, DummyPtr, Null

\* unlink_dent frees no directory, and then keeps the slots of all.
LEMMA SlotsUnlinked ==
  ASSUME NEW img \in Image, NEW dm \in Inum, NEW p \in Ptr \union {Null},
         DirsOf(img) \subseteq DirsOf(UnlinkDent(img, dm, p))
  PROVE  KeepsSlots(UnlinkDent(img, dm, p), img)
<1> DEFINE i == Deref(img, dm, p).inum
           dropped == DropLink(img, i)
           freed == IF dropped.inode[i].nlink = 0 THEN FreeInode(dropped, i) ELSE dropped
           new == UnlinkDent(img, dm, p)
<1>1. i \in Inum
  BY DerefType DEF Dentry
<1>2. new \in {img, ClearDentry(freed, p)}
  BY DEF UnlinkDent
<1>3. DirsOf(img) \subseteq DirsOf(new)
  OBVIOUS
<1> HIDE DEF new, i
<1>4. dropped \in Image /\ KeepsSlots(dropped, img)
  BY <1>1, DropLinkType, SlotsLink
<1> HIDE DEF dropped
<1>5. freed \in Image
  BY <1>1, <1>4, FreeInodeType
<1>6. KeepsSlots(img, img)
  BY SlotsAlike
<1>7. ASSUME new = ClearDentry(freed, p) PROVE KeepsSlots(new, img)
  <2> HIDE DEF freed
  <2>1. KeepsSlots(new, freed) /\ DirsOf(new) = DirsOf(freed)
    BY <1>5, <1>7, SlotsCleared
  <2> USE DEF freed
  <2>2. CASE freed = dropped
    BY <1>4, <2>1, <2>2, SlotsTrans
  <2>3. CASE freed = FreeInode(dropped, i)
    <3>1. /\ freed.used = dropped.used \ {i}
          /\ \A j \in Inum \ {i} : freed.inode[j] = dropped.inode[j]
      BY <1>1, <1>4, <2>3 DEF Image, Inode, FreeInode
    <3> HIDE DEF freed
    <3>2. \A d \in DirsOf(img) : d \in DirsOf(freed) /\ d # i /\ d \in Inum
      BY <1>3, <2>1, <3>1, DirsInum DEF DirsOf
    <3>3. \A d \in DirsOf(img) : freed.inode[d] = dropped.inode[d]
      BY <3>1, <3>2
    <3>4. KeepsSlots(freed, img)
      BY <1>4, <3>2, <3>3 DEF KeepsSlots
    <3>5. QED
      BY <2>1, <3>4, SlotsTrans
  <2>4. QED
    BY <2>2, <2>3
<1>8. QED
  BY <1>2, <1>6, <1>7 DEF new

\* A new name gets the slot behind the last, a conversion wipes the area.
LEMMA SlotsAppended ==
  ASSUME NEW img \in Image, NEW d \in Inum, NEW e \in Dentry
  PROVE  img.inode[d].inline => KeepsSlots(AppendInline(img, d, e), img)
<1> SUFFICES ASSUME img.inode[d].inline PROVE KeepsSlots(AppendInline(img, d, e), img)
  OBVIOUS
<1> DEFINE new == AppendInline(img, d, e)
           s == img.inode[d].ents
           t == Append(s, e)
<1>1. /\ new.used = img.used /\ img.used \subseteq Inum
      /\ \A j \in Inum : /\ new.inode[j].inline = img.inode[j].inline
                         /\ new.inode[j].type = img.inode[j].type
      /\ new.inode[d].ents = t
      /\ \A j \in Inum \ {d} : new.inode[j].ents = img.inode[j].ents
  BY DEF Image, Inode, AppendInline
<1>2. s \in Seq(Dentry)
  BY DEF Image, Inode
<1>3. Len(s) \in Nat /\ Len(t) = Len(s) + 1 /\ \A k \in 1 .. Len(s) : t[k] = s[k]
  BY <1>2
<1> HIDE DEF new, s, t
<1>4. \A k \in Nat \ {0} : k <= Len(s) => k <= Len(t) /\ SlotAt(t, k) = SlotAt(s, k)
  BY <1>3 DEF SlotAt
<1>5. DirsOf(new) = DirsOf(img) /\ DirsOf(img) \subseteq Inum
  BY <1>1, DirsInum DEF DirsOf
<1>6. \A b \in DirsOf(img) : SameSlots(new.inode[b], img.inode[b])
  BY <1>1, <1>4, <1>5 DEF SameSlots, Spent, s
<1>7. QED
  BY <1>5, <1>6 DEF KeepsSlots, new

LEMMA SlotsConverted ==
  ASSUME NEW img \in Image, NEW d \in Inum
  PROVE  KeepsSlots(ConvertInlineDirectory(img, d), img)
<1> DEFINE new == ConvertInlineDirectory(img, d)
<1>1. /\ new.used = img.used /\ img.used \subseteq Inum
      /\ \A j \in Inum : new.inode[j].type = img.inode[j].type
      /\ ~ new.inode[d].inline /\ new.inode[d].ents = << >>
      /\ \A j \in Inum \ {d} : new.inode[j] = img.inode[j]
  BY DEF Image, Inode, ConvertInlineDirectory
<1> HIDE DEF new
<1>2. DirsOf(new) = DirsOf(img) /\ DirsOf(img) \subseteq Inum
  BY <1>1, DirsInum DEF DirsOf
<1>3. \A k \in Nat \ {0} : SlotAt(<< >>, k).inum = 0
  BY DEF SlotAt, ZeroDentry
<1>4. \A b \in DirsOf(img) : SameSlots(new.inode[b], img.inode[b])
  BY <1>1, <1>2, <1>3 DEF SameSlots, Spent
<1>5. QED
  BY <1>2, <1>4 DEF KeepsSlots, new

LEMMA SlotsPut ==
  ASSUME NEW img \in Image, NEW d, NEW e PROVE KeepsSlots(PutInBlock(img, d, e), img)
<1>1. PutInBlock(img, d, e).inode = img.inode /\ PutInBlock(img, d, e).used = img.used
  BY DEF Image, PutInBlock
<1>2. QED
  BY <1>1, SlotsBlock

\* new_dentry.
LEMMA SlotsNamed ==
  ASSUME NEW img \in Image, NEW d \in Inum, NEW i \in Inum, NEW name \in Comp, Fits(img, d)
  PROVE  KeepsSlots(NewDentry(img, d, i, name), img)
<1> DEFINE e == DentryOf(img, i, name)
           conv == ConvertInlineDirectory(img, d)
           placed == IF ~ img.inode[d].inline THEN PutInBlock(img, d, e)
                     ELSE IF ~ InlineFull(img, d) THEN AppendInline(img, d, e)
                     ELSE PutInBlock(conv, d, e)
<1>1. e \in Dentry
  BY DentryOfType
<1>2. NewDentry(img, d, i, name) = AddLink(placed, i)
  BY DEF NewDentry
<1> HIDE DEF e
<1>3. PutInBlock(img, d, e) \in Image /\ KeepsSlots(PutInBlock(img, d, e), img)
  BY <1>1, PutInBlockType, SlotsPut
<1>4. /\ AppendInline(img, d, e) \in Image
      /\ img.inode[d].inline => KeepsSlots(AppendInline(img, d, e), img)
  BY <1>1, AppendInlineType, SlotsAppended
<1>5. ASSUME img.inode[d].inline, InlineFull(img, d)
      PROVE  PutInBlock(conv, d, e) \in Image /\ KeepsSlots(PutInBlock(conv, d, e), img)
  <2>1. conv \in Image /\ KeepsSlots(conv, img)
    BY <1>5, ConvertType, SlotsConverted DEF Fits
  <2> HIDE DEF conv
  <2>2. PutInBlock(conv, d, e) \in Image /\ KeepsSlots(PutInBlock(conv, d, e), conv)
    BY <1>1, <2>1, PutInBlockType, SlotsPut
  <2>3. QED
    BY <2>1, <2>2, SlotsTrans
<1>6. placed \in Image /\ KeepsSlots(placed, img)
  BY <1>3, <1>4, <1>5
<1> HIDE DEF placed
<1>7. KeepsSlots(AddLink(placed, i), placed)
  BY <1>6, SlotsLink
<1>8. QED
  BY <1>2, <1>6, <1>7, SlotsTrans

\* update_dir_inode.
LEMMA SlotsRedirected ==
  ASSUME NEW img \in Image, NEW d \in Inum, NEW parent
  PROVE  KeepsSlots(UpdateDirInode(img, d, parent), img)
<1> DEFINE s == [img EXCEPT !.blocks[img.inode[d].block] =
                     SetDotInum(SetDotInum(@, Dot, d), DotDot, parent)]
<1>1. s.inode = img.inode /\ s.used = img.used
  BY DEF Image
<1>2. UpdateDirInode(img, d, parent) \in {img, [img EXCEPT !.inode[d].p_inum = parent], s}
  BY DEF UpdateDirInode
<1> HIDE DEF s
<1>3. KeepsSlots(img, img) /\ KeepsSlots(s, img)
  BY <1>1, SlotsBlock
<1>4. KeepsSlots([img EXCEPT !.inode[d].p_inum = parent], img)
  BY SlotsParent
<1>5. QED
  BY <1>2, <1>3, <1>4

\* alloc_inode takes an inode that was no directory.
LEMMA SlotsAlloc ==
  ASSUME NEW img \in Image, NEW i \in Inum \ img.used, NEW type \in Types
  PROVE  KeepsSlots(AllocInode(img, i, type), img)
<1> DEFINE new == AllocInode(img, i, type)
<1>1. /\ new.used = img.used \union {i}
      /\ \A j \in Inum \ {i} : new.inode[j] = img.inode[j]
  BY DEF AllocInode, Image
<1> HIDE DEF new
<1>2. DirsOf(img) \subseteq DirsOf(new) /\ DirsOf(img) \subseteq Inum \ {i}
  BY <1>1, DirsInum DEF DirsOf
<1>3. KeepsSlots(new, img)
  BY <1>1, <1>2, SlotsAlike
<1>4. QED
  BY <1>3 DEF new

\* do_creat, with the inode it allocates.
LEMMA SlotsCreated ==
  ASSUME NEW img \in Image, NEW d \in Inum, NEW i \in Inum \ img.used, NEW name \in Comp,
         NEW type \in Types, Fits(AllocInode(img, i, type), d)
  PROVE  KeepsSlots(DoCreat(img, d, i, name, type), img)
<1> DEFINE taken == AllocInode(img, i, type)
           named == NewDentry(taken, d, i, name)
           up1 == [named EXCEPT !.inode[i].p_inum = d]
<1>1. taken \in Image /\ KeepsSlots(taken, img)
  BY AllocInodeType, SlotsAlloc
<1>2. Fits(taken, d)
  OBVIOUS
<1>3. DoCreat(img, d, i, name, type) \in {named, AddLink(AddLink(up1, i), d)}
  BY DEF DoCreat, InitDirInode
<1> HIDE DEF taken
<1>4. named \in Image /\ KeepsSlots(named, taken)
  BY <1>1, <1>2, NewDentryType, SlotsNamed
<1> HIDE DEF named
<1>5. up1 \in Image /\ KeepsSlots(up1, named)
  BY <1>4, ParentSet, SlotsParent
<1> HIDE DEF up1
<1>6. AddLink(up1, i) \in Image /\ KeepsSlots(AddLink(up1, i), up1)
  BY <1>5, AddLinkType, SlotsLink
<1> DEFINE one == AddLink(up1, i)
<1>7. one \in Image /\ KeepsSlots(one, up1)
  BY <1>6
<1> HIDE DEF one
<1>8. KeepsSlots(AddLink(one, d), one)
  BY <1>7, SlotsLink
<1>9. KeepsSlots(named, img) /\ KeepsSlots(AddLink(one, d), img)
  BY <1>1, <1>4, <1>5, <1>7, <1>8, SlotsTrans
<1>10. QED
  BY <1>3, <1>9 DEF one

\* fs_rename moves no directory out of the table, nor a spent slot.
LEMMA SlotsRenamed ==
  ASSUME TextBeyond, LinksFit, NEW img, NEW S \in SUBSET Nat, TreeInv(img, S), NEW dm \in Inum,
         NEW a, NEW k, NEW d, NEW name, NEW newdent, Moves(img, a, k, d, name, newdent),
         Fits(BeforeMove(img, dm, EntPtr(img, a, k), newdent), d)
  PROVE  KeepsSlots(Renamed(img, dm, EntPtr(img, a, k), newdent, d, name), img)
<1> DEFINE over == IF newdent = Null THEN img ELSE UnlinkDent(img, dm, newdent)
           i == Ents(img, a)[k].inum
           p == EntPtr(img, a, k)
           linked == AddLink(over, i)
           un == UnlinkDent(linked, dm, p)
           named == NewDentry(un, d, i, name)
           moved == DropLink(named, i)
           new == UpdateDirInode(moved, i, d)
<1>1. /\ a \in DirsOf(img) /\ k \in Live(Ents(img, a)) /\ Ents(img, a)[k].name \in Names
      /\ d \in DirsOf(img) /\ name \in Names
  BY DEF Moves
<1>2. img \in Image /\ DirsOf(img) \subseteq Inum
  BY DirsInum DEF TreeInv, Shape, Allocated
<1>3. p \in Ptr /\ i \in Inum /\ d \in Inum /\ name \in Comp
  <2>1. Ents(img, a) \in Seq(Dentry) /\ k \in 1 .. Len(Ents(img, a))
    BY <1>1, <1>2, EntsType DEF Live
  <2>2. Ents(img, a)[k] \in Dentry
    BY <2>1
  <2>3. QED
    BY <1>1, <1>2, <2>1, <2>2, EntPtrType DEF Dentry, Comp
<1>4. newdent \in Ptr \union {Null}
  <2>1. ASSUME newdent # Null PROVE newdent \in Ptr
    <3>1. PICK m \in Live(Ents(img, d)) : newdent = EntPtr(img, d, m)
      BY <2>1 DEF Moves
    <3>2. m \in 1 .. Len(Ents(img, d))
      BY DEF Live
    <3>3. QED
      BY <1>2, <1>3, <3>1, <3>2, EntPtrType
  <2>2. QED
    BY <2>1
<1>5. /\ Deref(img, dm, p) = Ents(img, a)[k]
      /\ BeforeMove(img, dm, p, newdent) = un
      /\ Renamed(img, dm, p, newdent, d, name) = new
  <2>1. Deref(img, dm, p) = Ents(img, a)[k]
    BY <1>1, DerefEnt
  <2>2. QED
    BY <2>1 DEF BeforeMove, Renamed
<1> DEFINE c == DirBound(img)
<1>6. /\ Shape(over, i, 0) /\ Counters(over) /\ Lower(over, i, 0, S)
      /\ Upper(over, i, 0, c) /\ DirsOf(over) = DirsOf(img)
      /\ k \in Live(Ents(over, a)) /\ Ents(over, a)[k] = Ents(img, a)[k]
      /\ EntPtr(over, a, k) = p
      /\ Absent(Ents(over, d), name) /\ Loses(over, img, <<d, name>>)
  BY Overwritten
<1>7. over \in Image /\ KeepsSlots(over, img)
  <2>1. DirsOf(over) = DirsOf(img)
    BY <1>6
  <2>2. over \in Image
    BY <1>2, <1>4, UnlinkDentType
  <2>3. KeepsSlots(img, img)
    BY SlotsAlike
  <2>4. newdent # Null => KeepsSlots(UnlinkDent(img, dm, newdent), img)
    BY <1>2, <1>4, <2>1, SlotsUnlinked
  <2>5. QED
    BY <2>1, <2>2, <2>3, <2>4
<1>8. DirsOf(un) = DirsOf(over)
  <2>2. c \in Int /\ c <= MaxInum + 1
    BY DirBoundType DEF TreeInv, Shape, Allocated
  <2>3. /\ a \in DirsOf(over) /\ Ents(over, a)[k].name \in Names /\ d \in DirsOf(over)
        /\ i = Ents(over, a)[k].inum /\ name \in Names
    BY <1>1, <1>6
  <2> HIDE DEF over, c, i
  <2>4. Lifts(UnlinkDent(AddLink(over, i), dm, EntPtr(over, a, k)), over, i, d, name, S, c)
    BY <1>6, <2>2, <2>3, Lifted
  <2>5. QED
    BY <1>6, <2>4 DEF Lifts
<1>9. Fits(un, d)
  BY <1>5
<1> HIDE DEF over, i, p
<1>10. linked \in Image /\ KeepsSlots(linked, over) /\ DirsOf(linked) = DirsOf(over)
  <2>1. linked \in Image /\ KeepsSlots(linked, over)
    BY <1>3, <1>7, AddLinkType, SlotsLink
  <2>2. Allocated(over)
    BY <1>6 DEF Shape
  <2>3. linked.used = over.used /\ \A j \in Inum : linked.inode[j].type = over.inode[j].type
    BY <1>3, <2>2, LinkSame DEF SameInodes
  <2> HIDE DEF linked
  <2>4. over.used \subseteq Inum
    BY <1>7 DEF Image
  <2>5. QED
    BY <2>1, <2>3, <2>4 DEF DirsOf
<1> HIDE DEF linked
<1>11. un \in Image /\ KeepsSlots(un, linked)
  <2>1. DirsOf(linked) \subseteq DirsOf(UnlinkDent(linked, dm, p))
    BY <1>8, <1>10
  <2>2. QED
    BY <1>3, <1>10, <2>1, UnlinkDentType, SlotsUnlinked
<1> HIDE DEF un
<1>12. named \in Image /\ KeepsSlots(named, un)
  BY <1>3, <1>9, <1>11, NewDentryType, SlotsNamed
<1> HIDE DEF named
<1>13. moved \in Image /\ KeepsSlots(moved, named)
  BY <1>3, <1>12, DropLinkType, SlotsLink
<1> HIDE DEF moved
<1>14. KeepsSlots(new, moved)
  BY <1>3, <1>13, SlotsRedirected
<1> HIDE DEF new
<1>15. KeepsSlots(new, img)
  BY <1>10, <1>11, <1>12, <1>13, <1>14, <1>7, SlotsTrans
<1>16. QED
  BY <1>5, <1>15 DEF p

-----------------------------------------------------------------------------
(* Descriptors.                                                            *)

\* A pointer into an inode leads to a spent slot of a directory.
Points(img, p) ==
  p.at = "inline" => /\ p.inum \in DirsOf(img) /\ p.slot \in Nat \ {0}
                     /\ Spent(img.inode[p.inum], p.slot)

PointsInv == \A fd \in Fds : Points(image, openfiles[fd])

\* What a call does to the slots and to the descriptors.
Keeps ==
  \/ /\ KeepsSlots(image', image)
     /\ \A fd \in Fds : openfiles'[fd] = openfiles[fd] \/ Points(image', openfiles'[fd])
  \/ \A fd \in Fds : openfiles'[fd] = Null

LEMMA SlotsImage ==
  ASSUME KeepsSlots(image', image), openfiles' = openfiles PROVE Keeps
  BY DEF Keeps

LEMMA SlotsSame ==
  ASSUME image' = image, openfiles' = openfiles PROVE Keeps
<1>1. KeepsSlots(image', image)
  BY SlotsAlike
<1>2. QED
  BY <1>1, SlotsImage

LEMMA SlotsFail == ASSUME NEW code, Fail(code) PROVE Keeps
  BY SlotsSame DEF Fail

LEMMA SlotsCrash == ASSUME Crash PROVE Keeps
  BY DEF Crash, Keeps

\* fs_creat and fs_mkdir.
LEMMA SlotsCreate ==
  ASSUME TypeOK, Shape(image, 0, 0), NEW path \in Path, NEW type \in Types,
         Create(path, type)
  PROVE  Keeps
<1> DEFINE found == Lookup(path)
           i == FreeInum(image)
           name == Filename(path)
           new == DoCreat(image, found.pi, i, name, type)
<1>1. \/ image' = image /\ openfiles' = openfiles
      \/ Crash
      \/ /\ found.dent = Null /\ found.pi > 0 /\ i # 0
         /\ Fits(AllocInode(image, i, type), found.pi)
         /\ image' = new /\ openfiles' = openfiles
  BY DEF Create, RefuseCreate, Fail, Done
<1>2. ASSUME found.pi > 0 PROVE name \in Comp
  BY <1>2, LookupKnows, ZeroInum
<1>3. image \in Image /\ (i # 0 => i \in Inum \ image.used)
  BY FreeInumUnused DEF TypeOK
<1> HIDE DEF i, found, name
<1>4. ASSUME found.pi > 0, i # 0, Fits(AllocInode(image, i, type), found.pi)
      PROVE  found.pi \in Inum => KeepsSlots(new, image)
  BY <1>2, <1>3, <1>4, SlotsCreated
<1>5. found.pi > 0 => found.pi \in Inum
  BY LookupType, FoundType, ZeroInum DEF found
<1> HIDE DEF new
<1>6. QED
  BY <1>1, <1>4, <1>5, SlotsImage, SlotsSame, SlotsCrash

\* fs_unlink, which refuses directories.
LEMMA SlotsUnlink ==
  ASSUME TypeOK, Shape(image, 0, 0), NEW path \in Path, Unlink(path) PROVE Keeps
<1> DEFINE found == Lookup(path)
           i == Deref(image, found.dummy, found.dent).inum
           new == UnlinkDent(image, found.dummy, found.dent)
<1>1. \/ image' = image /\ openfiles' = openfiles
      \/ /\ found.dent # Null /\ image.inode[i].type # "DIR"
         /\ image' = new /\ openfiles' = openfiles
  BY DEF Unlink, Fail, Done
<1>2. found.dummy \in Inum /\ found.dent \in Ptr \union {Null} /\ image \in Image
  BY LookupType, FoundType, ZeroInum DEF TypeOK
<1> HIDE DEF found
<1>3. i \in Inum
  BY <1>2, DerefType DEF Dentry
<1>4. ASSUME image.inode[i].type # "DIR" PROVE KeepsSlots(new, image)
  <2> DEFINE dropped == DropLink(image, i)
             freed == IF dropped.inode[i].nlink = 0 THEN FreeInode(dropped, i) ELSE dropped
  <2>1. new \in {image, ClearDentry(freed, found.dent)}
    BY DEF UnlinkDent
  <2> HIDE DEF new, i
  <2>2. /\ dropped \in Image /\ dropped.used = image.used
        /\ \A j \in Inum : dropped.inode[j].type = image.inode[j].type
    <3>1. Allocated(image)
      BY DEF Shape
    <3>2. SameInodes(dropped, image)
      BY <1>3, <3>1, LinkSame
    <3>3. QED
      BY <3>2 DEF SameInodes
  <2> HIDE DEF dropped
  <2>3. freed \in Image
    BY <1>3, <2>2, FreeInodeType
  <2>4. \A d \in DirsOf(image) : d \in DirsOf(freed)
    <3>1. CASE freed = dropped
      BY <1>2, <2>2, <3>1, DirsInum DEF DirsOf
    <3>2. CASE freed = FreeInode(dropped, i)
      <4>1. /\ freed.used = dropped.used \ {i}
            /\ \A j \in Inum \ {i} : freed.inode[j] = dropped.inode[j]
        BY <1>3, <2>2, <3>2 DEF Image, Inode, FreeInode
      <4> HIDE DEF freed
      <4>2. image.used \subseteq Inum
        BY <1>2 DEF Image
      <4>3. QED
        BY <1>4, <2>2, <4>1, <4>2 DEF DirsOf
    <3>3. QED
      BY <3>1, <3>2
  <2> HIDE DEF freed
  <2>5. DirsOf(image) \subseteq DirsOf(ClearDentry(freed, found.dent))
    BY <1>2, <2>3, <2>4, SlotsCleared
  <2>6. DirsOf(image) \subseteq DirsOf(new)
    BY <2>1, <2>5
  <2>7. QED
    BY <1>2, <2>6, SlotsUnlinked DEF new
<1> HIDE DEF new, i
<1>5. QED
  BY <1>1, <1>4, SlotsImage, SlotsSame

\* fs_link.
LEMMA SlotsLinked ==
  ASSUME TypeOK, Shape(image, 0, 0), NEW old \in Path, NEW new \in Path, Link(old, new)
  PROVE  Keeps
<1> DEFINE source == Lookup(old)
           target == LookupAfter(new, source.dummy)
           i == Deref(image, source.dummy, source.dent).inum
           name == Filename(new)
<1>1. \/ image' = image /\ openfiles' = openfiles
      \/ Crash
      \/ image' = AddLink(image, i) /\ openfiles' = openfiles
      \/ /\ target.pi > 0 /\ Fits(image, target.pi)
         /\ image' = NewDentry(image, target.pi, i, name) /\ openfiles' = openfiles
  BY DEF Link, Fail, Done
<1>2. source.dummy \in Inum /\ source.dent \in Ptr \union {Null} /\ image \in Image
  BY LookupType, FoundType, ZeroInum DEF TypeOK
<1>3. i \in Inum
  BY <1>2, DerefType DEF Dentry
<1>4. target.pi > 0 => target.pi \in Inum /\ name \in Comp
  BY <1>2, LookupType, FoundType, LookupKnows
<1> HIDE DEF source, target, i, name
<1>5. KeepsSlots(AddLink(image, i), image)
  BY <1>2, <1>3, SlotsLink
<1>6. ASSUME target.pi > 0, Fits(image, target.pi)
      PROVE  KeepsSlots(NewDentry(image, target.pi, i, name), image)
  BY <1>2, <1>3, <1>4, <1>6, SlotsNamed
<1>7. QED
  BY <1>1, <1>5, <1>6, SlotsImage, SlotsSame, SlotsCrash

\* fs_symlink.
LEMMA SlotsSymlink ==
  ASSUME TypeOK, Shape(image, 0, 0), NEW path \in Path, Symlink(path) PROVE Keeps
<1> DEFINE found == Lookup(path)
           name == Filename(path)
           i == FreeInum(image)
           first == AllocInode(image, i, "SYM")
           j == FreeInum(first)
           made == DoCreat(first, found.pi, j, name, "SYM")
           inlined == [made EXCEPT !.inode[j].inline = TRUE]
<1>1. openfiles' = openfiles
  BY DEF Symlink, Fail, Done
<1>2. \/ image' = image
      \/ i # 0 /\ image' = first
      \/ /\ found.pi > 0 /\ i # 0 /\ j # 0
         /\ Fits(AllocInode(first, j, "SYM"), found.pi)
         /\ image' = inlined
  BY DEF Symlink, Fail, Done
<1>3. image \in Image /\ "SYM" \in Types
  BY DEF TypeOK, Types
<1>4. found.pi > 0 => found.pi \in Inum /\ name \in Comp
  BY LookupType, FoundType, LookupKnows, ZeroInum
<1>5. i # 0 => i \in Inum \ image.used
  BY <1>3, FreeInumUnused
<1> HIDE DEF found, i, name
<1>6. i # 0 => first \in Image /\ KeepsSlots(first, image)
  BY <1>3, <1>5, AllocInodeType, SlotsAlloc
<1> HIDE DEF first
<1>7. i # 0 /\ j # 0 => j \in Inum \ first.used
  BY <1>6, FreeInumUnused
<1> HIDE DEF j
<1>8. ASSUME found.pi > 0, i # 0, j # 0, Fits(AllocInode(first, j, "SYM"), found.pi)
      PROVE  KeepsSlots(inlined, image)
  <2>1. KeepsSlots(made, first) /\ made \in Image
    BY <1>3, <1>4, <1>6, <1>7, <1>8, SlotsCreated, DoCreatType
  <2>2. j \notin DirsOf(image)
    <3>1. first.used = image.used \union {i}
      BY <1>3 DEF first, AllocInode, Image
    <3>2. QED
      BY <1>7, <1>8, <3>1 DEF DirsOf
  <2> HIDE DEF made
  <2>3. KeepsSlots(made, image)
    BY <1>6, <1>8, <2>1, SlotsTrans
  <2>4. /\ inlined.used = made.used
        /\ \A d \in Inum \ {j} : inlined.inode[d] = made.inode[d]
    BY <2>1 DEF Image
  <2> HIDE DEF inlined
  <2>5. DirsOf(image) \subseteq Inum \ {j}
    BY <1>3, <2>2, DirsInum
  <2>6. \A d \in DirsOf(image) : d \in DirsOf(inlined) /\ inlined.inode[d] = made.inode[d]
    BY <2>3, <2>4, <2>5 DEF KeepsSlots, DirsOf
  <2>7. QED
    BY <2>3, <2>6 DEF KeepsSlots
<1> HIDE DEF inlined
<1>9. QED
  BY <1>1, <1>2, <1>6, <1>8, SlotsImage, SlotsSame

\* fs_rename.
LEMMA SlotsRename ==
  ASSUME TextBeyond, LinksFit, TypeOK, NEW S \in SUBSET Nat, TreeInv(image, S),
         NEW old \in Path, NEW new \in Path, Rename(old, new),
         old.comp # << >> => Filename(old) # Dot,
         new.comp # << >> => Filename(new) \in Names
  PROVE  Keeps
<1> DEFINE source == Lookup(old)
           target == LookupAfter(new, source.dummy)
           name == Filename(new)
           after == Renamed(image, target.dummy, source.dent, target.dent, target.pi, name)
<1>1. /\ openfiles' = openfiles
      /\ \/ image' = image
         \/ /\ MayRename(source, target)
            /\ Fits(BeforeMove(image, target.dummy, source.dent, target.dent), target.pi)
            /\ image' = after
  BY DEF Rename, Fail, Done
<1>2. ASSUME MayRename(source, target),
             Fits(BeforeMove(image, target.dummy, source.dent, target.dent), target.pi)
      PROVE  KeepsSlots(after, image)
  <2>1. source = Lookup(old) /\ target = LookupAfter(new, source.dummy)
    OBVIOUS
  <2>2. target.dummy \in Inum
    BY LookupType, FoundType, ZeroInum
  <2> HIDE DEF source, target
  <2>3. PICK k \in Live(Ents(image, source.pi)) :
          /\ Moves(image, source.pi, k, target.pi, name, target.dent)
          /\ source.dent = EntPtr(image, source.pi, k)
    BY <1>2, <2>1, RenameIs
  <2>4. QED
    BY <1>2, <2>2, <2>3, SlotsRenamed
<1> HIDE DEF after, source, target
<1>3. QED
  BY <1>1, <1>2, SlotsImage, SlotsSame

\* fs_open, of a pathname that ends in a name.
LEMMA SlotsOpen ==
  ASSUME TypeOK, Shape(image, 0, 0), NEW path \in Path, Open(path),
         path.comp # << >> => Filename(path) \in Names
  PROVE  Keeps
<1> DEFINE found == Lookup(path)
           fd == CHOOSE f \in FreeFds : \A g \in FreeFds : f <= g
           p == found.dent
<1>1. \/ image' = image /\ openfiles' = openfiles
      \/ /\ found.dent # Null /\ image' = image
         /\ openfiles' = [openfiles EXCEPT ![fd] = p]
  BY DEF Open, Fail
<1>2. image' = image => KeepsSlots(image', image)
  BY SlotsAlike
<1>3. ASSUME found.dent # Null PROVE Points(image, p)
  <2>1. Filename(path) \in Names /\ Knows(image, found, Filename(path))
    BY <1>3, LookupKnows, ZeroInum
  <2> HIDE DEF found
  <2>2. PICK k \in Live(Ents(image, found.pi)) : p = EntPtr(image, found.pi, k)
    BY <1>3, <2>1 DEF Knows
  <2>3. found.pi \in DirsOf(image) /\ found.pi \in Inum /\ image \in Image
    BY <1>3, <2>1, DirsInum DEF Knows, TypeOK
  <2>4. k \in 1 .. Len(Ents(image, found.pi)) /\ Ents(image, found.pi) \in Seq(Dentry)
    BY <2>3, EntsType DEF Live
  <2>5. k \in Nat \ {0} /\ k <= Len(Ents(image, found.pi))
    BY <2>4
  <2>6. CASE image.inode[found.pi].inline
    <3>1. p.inum = found.pi /\ p.slot = k
      BY <2>2, <2>6 DEF EntPtr, InlinePtr
    <3>2. Ents(image, found.pi) = image.inode[found.pi].ents
      BY <2>6 DEF Ents
    <3>3. QED
      BY <2>3, <2>5, <3>1, <3>2 DEF Points, Spent
  <2>7. CASE ~ image.inode[found.pi].inline
    BY <2>2, <2>7 DEF EntPtr, BlockPtr, Points
  <2>8. QED
    BY <2>6, <2>7
<1> HIDE DEF found, fd, p
<1>4. openfiles \in [Fds -> Ptr \union {Null}]
  BY DEF TypeOK
<1>5. QED
  BY <1>1, <1>2, <1>3, <1>4, SlotsSame DEF Keeps

\* The paths that are opened end in names.
OpensByName == \A p \in Args["open"] : p.comp # << >> => Filename(p) \in Names

LEMMA SlotsStep ==
  ASSUME TreeWorkload, "rmdir" \notin Calls, OpensByName,
         TypeOK, TreeInv(image, Nat), [Next]_vars
  PROVE  Keeps
<1>1. /\ \A c \in AllCalls : Args[c] \subseteq Path
      /\ \A c \in {"link", "rename"} : Pairs[c] \subseteq Path \X Path
  BY HfsAssumption
<1>2. LinksFit /\ TextBeyond /\ Shape(image, 0, 0) /\ Nat \in SUBSET Nat /\ {"REG", "DIR"} \subseteq Types
  BY DEF TreeWorkload, TreeInv, Types
<1>3. ASSUME NEW p \in Args["creat"], Creat(p) PROVE Keeps
  BY <1>1, <1>2, <1>3, SlotsCreate DEF Creat, AllCalls
<1>4. ASSUME NEW p \in Args["mkdir"], Mkdir(p) PROVE Keeps
  BY <1>1, <1>2, <1>4, SlotsCreate DEF Mkdir, AllCalls
<1>5. ASSUME NEW p \in Args["unlink"], Unlink(p) PROVE Keeps
  BY <1>1, <1>2, <1>5, SlotsUnlink DEF AllCalls
<1>6. ASSUME NEW p \in Args["rmdir"], Rmdir(p) PROVE Keeps
  BY <1>6 DEF Rmdir, Issued
<1>7. ASSUME NEW p \in Args["symlink"], Symlink(p) PROVE Keeps
  BY <1>1, <1>2, <1>7, SlotsSymlink DEF AllCalls
<1>8. ASSUME NEW p \in Pairs["link"], Link(p[1], p[2]) PROVE Keeps
  BY <1>1, <1>2, <1>8, SlotsLinked
<1>9. ASSUME NEW p \in Pairs["rename"], Rename(p[1], p[2]) PROVE Keeps
  <2>1. p[1] \in Path /\ p[2] \in Path /\ "rename" \in Calls
    BY <1>1, <1>9 DEF Rename, Issued
  <2>2. RenamesOnly
    BY <2>1 DEF TreeWorkload, RmdirOnly
  <2>3. /\ p[1].comp # << >> => Filename(p[1]) # Dot
        /\ p[2].comp # << >> => Filename(p[2]) \in Names
    BY <2>2 DEF RenamesOnly, RenamesToNames
  <2>4. QED
    BY <1>2, <1>9, <2>1, <2>3, SlotsRename
<1>10. ASSUME NEW p \in Args["stat"], Stat(p) PROVE Keeps
  BY <1>10, SlotsSame DEF Stat
<1>11. ASSUME NEW p \in Args["chdir"], Chdir(p) PROVE Keeps
  BY <1>11, SlotsSame DEF Chdir, Fail
<1>12. ASSUME NEW p \in Args["open"], Open(p) PROVE Keeps
  BY <1>1, <1>2, <1>12, SlotsOpen DEF AllCalls, OpensByName
<1>13. ASSUME NEW fd \in Fds, Close(fd) PROVE Keeps
  <2>1. KeepsSlots(image', image) /\ image' = image
    BY <1>13, SlotsAlike DEF Close
  <2>2. Points(image, Null)
    BY DEF Points, Null
  <2>3. \A f \in Fds : openfiles'[f] \in {openfiles[f], Null}
    BY <1>13 DEF Close, TypeOK
  <2>4. QED
    BY <2>1, <2>2, <2>3 DEF Keeps
<1>14. ASSUME Reset PROVE Keeps
  BY <1>14 DEF Reset, Keeps
<1>15. ASSUME Unmount PROVE Keeps
  BY <1>15, SlotsSame DEF Unmount
<1>16. ASSUME Mount PROVE Keeps
  BY <1>16 DEF Mount, Keeps
<1>17. ASSUME UNCHANGED vars PROVE Keeps
  BY <1>17, SlotsSame DEF vars
<1>18. QED
  BY <1>3, <1>4, <1>5, <1>6, <1>7, <1>8, <1>9, <1>10, <1>11, <1>12, <1>13, <1>14,
     <1>15, <1>16, <1>17 DEF Next

\* As long as no directory is removed, a descriptor on an entry in an inode
\* names the file it was opened on, or nothing, never another file: whatever is
\* unlinked, renamed, created or converted while it is open.
THEOREM DescriptorKeepsFileCorrect ==
  ASSUME TreeWorkload, "rmdir" \notin Calls, OpensByName
  PROVE  Spec => DescriptorKeepsFile
<1> DEFINE FilesKept ==
             \A fd \in Fds :
               /\ openfiles[fd] # Null /\ openfiles[fd].at = "inline"
               /\ image.inode[openfiles[fd].inum].inline
               /\ openfiles'[fd] = openfiles[fd]
               => Deref(image', dummy', openfiles[fd]).inum
                    \in {0, Deref(image, dummy, openfiles[fd]).inum}
           Inv == TypeOK /\ TreeInv(image, Nat) /\ Linked(image)
<1>1. Init => PointsInv
  BY DEF Init, PointsInv, Points, Null
<1>2. Inv /\ PointsInv /\ [Next]_vars => PointsInv'
  <2> SUFFICES ASSUME Inv, PointsInv, [Next]_vars, NEW fd \in Fds
               PROVE  Points(image', openfiles'[fd])
    BY DEF PointsInv
  <2>1. Keeps
    BY SlotsStep
  <2>2. CASE openfiles'[fd] = Null
    BY <2>2 DEF Points, Null
  <2>3. CASE KeepsSlots(image', image) /\ openfiles'[fd] = openfiles[fd]
    BY <2>3 DEF PointsInv, Points, KeepsSlots, SameSlots
  <2>4. QED
    BY <2>1, <2>2, <2>3 DEF Keeps
<1>3. Inv /\ PointsInv /\ [Next]_vars => FilesKept
  <2> SUFFICES ASSUME Inv, PointsInv, [Next]_vars, NEW fd \in Fds, openfiles[fd] # Null,
                      openfiles[fd].at = "inline",
                      image.inode[openfiles[fd].inum].inline, openfiles'[fd] = openfiles[fd]
               PROVE  Deref(image', dummy', openfiles[fd]).inum
                        \in {0, Deref(image, dummy, openfiles[fd]).inum}
    OBVIOUS
  <2> DEFINE p == openfiles[fd]
  <2>1. KeepsSlots(image', image)
    BY SlotsStep DEF Keeps
  <2>2. Points(image, p) /\ p.at = "inline"
    BY DEF PointsInv
  <2> HIDE DEF p
  <2>3. SlotAt(image'.inode[p.inum].ents, p.slot).inum
          \in {0, SlotAt(image.inode[p.inum].ents, p.slot).inum}
    BY <2>1, <2>2 DEF Points, KeepsSlots, SameSlots
  <2>4. QED
    BY <2>2, <2>3 DEF Deref, p
<1>4. FilesKept => [FilesKept]_vars
  OBVIOUS
<1> HIDE DEF FilesKept, Inv
<1>5. Spec => []Inv
  BY TreeShape DEF Inv
<1>6. Spec => [][FilesKept]_vars
  BY <1>1, <1>2, <1>3, <1>5, PTL DEF Spec
<1>7. QED
  BY <1>6 DEF DescriptorKeepsFile, FilesKept
=============================================================================
