----------------------------- MODULE HfsProofs ------------------------------
(***************************************************************************)
(* For every number of inodes, inline slots and data blocks and every set  *)
(* of names: type correctness of Hfs; a call that fails has changed        *)
(* nothing; and no directory holds a name twice.                           *)
(***************************************************************************)
EXTENDS HfsSafety, NatSets

-----------------------------------------------------------------------------
(* Small facts.                                                            *)

LEMMA ModRange == \A m \in Int : m % NlinkMod \in 0 .. NlinkMod - 1
  BY HfsImageAssumption

LEMMA ZeroInum == 0 \in Inum /\ 1 \in Inum /\ Inum \subseteq Nat
  BY HfsImageAssumption DEF Inum

LEMMA ZeroDentryType == ZeroDentry \in Dentry
  BY ZeroInum DEF ZeroDentry, Dentry, Types

LEMMA ZeroInodeType == ZeroInode \in Inode
  BY ZeroInum, HfsImageAssumption DEF ZeroInode, Inode, Types

\* get_free_inum returns an inode number.
LEMMA FreeInumType ==
  ASSUME NEW img \in Image PROVE FreeInum(img) \in Inum
<1>1. CASE Inum \subseteq img.used
  BY <1>1, ZeroInum DEF FreeInum
<1>2. CASE ~ (Inum \subseteq img.used)
  <2>1. Inum \ img.used \in SUBSET Nat /\ Inum \ img.used # {}
    BY <1>2, ZeroInum
  <2>2. \E i \in Inum \ img.used : \A j \in Inum \ img.used : i <= j
    BY <2>1, NatMinimum
  <2>3. QED
    BY <1>2, <2>2 DEF FreeInum
<1>3. QED
  BY <1>1, <1>2

\* A conversion gets a data block, when there is one.
LEMMA FreeBlockType ==
  ASSUME NEW img \in Image, BlockAvailable(img) PROVE FreeBlock(img) \in BlockNo
<1>1. BlockNo \ img.bitmap \in SUBSET Nat /\ BlockNo \ img.bitmap # {}
  BY HfsImageAssumption DEF BlockAvailable, BlockNo
<1>2. \E b \in BlockNo \ img.bitmap : \A c \in BlockNo \ img.bitmap : b <= c
  BY <1>1, NatMinimum
<1>3. QED
  BY <1>2 DEF FreeBlock

\* The entries a conversion copies: the live ones, in order.
LEMMA LiveEntsAre ==
  ASSUME NEW s \in Seq(Dentry)
  PROVE  \E n \in Nat : \E f \in [1 .. n -> Live(s)] :
           /\ LiveEnts(s) = [k \in 1 .. n |-> s[f[k]]]
           /\ \A j, k \in 1 .. n : j < k => f[j] < f[k]
           /\ {f[k] : k \in 1 .. n} = Live(s)
<1> DEFINE Lists == UNION {[1 .. n -> 1 .. Len(s)] : n \in 0 .. Len(s)}
           f == LiveOrder(s)
<1>1. Len(s) \in Nat /\ Live(s) \in SUBSET (1 .. Len(s))
  BY DEF Live
<1>2. PICK m \in 0 .. Len(s) : \E g \in [1 .. m -> 1 .. Len(s)] :
        /\ \A j, k \in 1 .. m : j < k => g[j] < g[k]
        /\ {g[k] : k \in 1 .. m} = Live(s)
  BY <1>1, Enumeration
<1>3. PICK g \in [1 .. m -> 1 .. Len(s)] :
        /\ \A j, k \in 1 .. m : j < k => g[j] < g[k]
        /\ {g[k] : k \in 1 .. m} = Live(s)
  BY <1>2
<1>4. g \in Lists /\ IsLiveOrder(s, g)
  BY <1>3 DEF IsLiveOrder
<1>5. f \in Lists /\ IsLiveOrder(s, f)
  BY <1>4 DEF LiveOrder
<1>6. PICK n \in 0 .. Len(s) : f \in [1 .. n -> 1 .. Len(s)]
  BY <1>5
<1> HIDE DEF Lists, f
<1>7. n \in Nat /\ DOMAIN f = 1 .. n
  BY <1>6
<1>8. /\ \A j, k \in 1 .. n : j < k => f[j] < f[k]
      /\ {f[k] : k \in 1 .. n} = Live(s)
  BY <1>5, <1>7 DEF IsLiveOrder
<1>9. f \in [1 .. n -> Live(s)]
  BY <1>6, <1>8
<1>10. LiveEnts(s) = [k \in 1 .. n |-> s[f[k]]]
  BY <1>7 DEF LiveEnts, f
<1>11. QED
  BY <1>7, <1>8, <1>9, <1>10

\* The entries copied by a conversion are entries.
LEMMA LiveEntsType ==
  ASSUME NEW s \in Seq(Dentry) PROVE LiveEnts(s) \in Seq(Dentry)
<1>1. PICK n \in Nat : \E f \in [1 .. n -> Live(s)] :
        LiveEnts(s) = [k \in 1 .. n |-> s[f[k]]]
  BY LiveEntsAre
<1>2. PICK f \in [1 .. n -> Live(s)] : LiveEnts(s) = [k \in 1 .. n |-> s[f[k]]]
  BY <1>1
<1>3. \A k \in 1 .. n : s[f[k]] \in Dentry
  BY DEF Live
<1>4. QED
  BY <1>2, <1>3

-----------------------------------------------------------------------------
(* Every operator on images yields an image.                               *)

\* Replacing an inode by an inode.
LEMMA InodeReplaced ==
  ASSUME NEW img \in Image, NEW i \in Inum, NEW n \in Inode
  PROVE  [img EXCEPT !.inode[i] = n] \in Image
  BY DEF Image

\* Setting the link count of an inode.
LEMMA LinkSet ==
  ASSUME NEW img \in Image, NEW i \in Inum, NEW n \in 0 .. NlinkMod - 1
  PROVE  [img EXCEPT !.inode[i].nlink = n] \in Image
<1>1. img.inode[i] \in Inode
  BY DEF Image
<1>2. [img.inode[i] EXCEPT !.nlink = n] \in Inode
  BY <1>1 DEF Inode
<1>3. [img EXCEPT !.inode[i] = [img.inode[i] EXCEPT !.nlink = n]] \in Image
  BY <1>2, InodeReplaced
<1>4. QED
  BY <1>3

\* An incremented link count is a link count.
LEMMA AddLinkType ==
  ASSUME NEW img \in Image, NEW i \in Inum PROVE AddLink(img, i) \in Image
<1>1. img.inode[i].nlink \in Int
  BY HfsImageAssumption DEF Image, Inode
<1>2. (img.inode[i].nlink + 1) % NlinkMod \in 0 .. NlinkMod - 1
  BY <1>1, ModRange
<1>3. QED
  BY <1>2, LinkSet DEF AddLink

\* A decremented link count is a link count, also when it was 0.
LEMMA DropLinkType ==
  ASSUME NEW img \in Image, NEW i \in Inum PROVE DropLink(img, i) \in Image
<1>1. img.inode[i].nlink \in Int /\ NlinkMod \in Int
  BY HfsImageAssumption DEF Image, Inode
<1>2. (img.inode[i].nlink + NlinkMod - 1) % NlinkMod \in 0 .. NlinkMod - 1
  BY <1>1, ModRange
<1>3. QED
  BY <1>2, LinkSet DEF DropLink

\* init_dentry fills in a directory entry.
LEMMA DentryOfType ==
  ASSUME NEW img \in Image, NEW i \in Inum, NEW name \in Comp \union {NoName}
  PROVE  DentryOf(img, i, name) \in Dentry
<1>1. img.inode[i].type \in Types
  BY DEF Image, Inode
<1>2. QED
  BY <1>1 DEF DentryOf, Dentry

\* alloc_inode.
LEMMA AllocInodeType ==
  ASSUME NEW img \in Image, NEW i \in Inum, NEW type \in Types
  PROVE  AllocInode(img, i, type) \in Image
<1> DEFINE new == [ZeroInode EXCEPT !.type = type, !.inline = (type = "DIR")]
<1>1. new \in Inode
  BY ZeroInodeType DEF Inode
<1>2. [img.inode EXCEPT ![i] = new] \in [Inum -> Inode]
  BY <1>1 DEF Image
<1>3. img.used \union {i} \in SUBSET Inum
  BY DEF Image
<1>4. /\ img.inode_used + 1 \in Int
      /\ (IF type = "DIR" THEN img.inline_inodes + 1 ELSE img.inline_inodes) \in Int
      /\ (IF type = "DIR" THEN img.ndirectories + 1 ELSE img.ndirectories) \in Int
      /\ (IF type = "REG" THEN img.nfiles + 1 ELSE img.nfiles) \in Int
  BY DEF Image
<1>5. AllocInode(img, i, type) =
        [img EXCEPT
          !.used = img.used \union {i},
          !.inode = [img.inode EXCEPT ![i] = new],
          !.inode_used = img.inode_used + 1,
          !.inline_inodes = IF type = "DIR" THEN img.inline_inodes + 1 ELSE img.inline_inodes,
          !.ndirectories = IF type = "DIR" THEN img.ndirectories + 1 ELSE img.ndirectories,
          !.nfiles = IF type = "REG" THEN img.nfiles + 1 ELSE img.nfiles]
  BY DEF AllocInode
<1> HIDE DEF new
<1>6. QED
  BY <1>2, <1>3, <1>4, <1>5 DEF Image

\* free_inode.
LEMMA FreeInodeType ==
  ASSUME NEW img \in Image, NEW i \in Inum PROVE FreeInode(img, i) \in Image
<1> DEFINE new == [img.inode[i] EXCEPT !.type = "UNUSED", !.p_inum = 0,
                                       !.ents = << >>, !.block = 0]
<1>1. img.inode[i] \in Inode
  BY DEF Image
<1>2. new \in Inode
  <2>1. << >> \in Seq(Dentry) /\ "UNUSED" \in Types /\ 0 \in Inum
    BY ZeroInum DEF Types
  <2>2. QED
    BY <1>1, <2>1 DEF Inode
<1>3. [img.inode EXCEPT ![i] = new] \in [Inum -> Inode]
  BY <1>2 DEF Image
<1>4. /\ img.used \ {i} \in SUBSET Inum
      /\ img.bitmap \ ClearedBits(img.inode[i]) \in SUBSET BlockNo
      /\ img.inode_used - 1 \in Int
      /\ (IF img.inode[i].type = "DIR" THEN img.ndirectories - 1 ELSE img.ndirectories) \in Int
      /\ (IF img.inode[i].type = "REG" THEN img.nfiles - 1 ELSE img.nfiles) \in Int
  BY DEF Image
<1>5. FreeInode(img, i) =
        [img EXCEPT
          !.inode = [img.inode EXCEPT ![i] = new],
          !.used = img.used \ {i},
          !.bitmap = img.bitmap \ ClearedBits(img.inode[i]),
          !.inode_used = img.inode_used - 1,
          !.ndirectories = IF img.inode[i].type = "DIR" THEN img.ndirectories - 1
                           ELSE img.ndirectories,
          !.nfiles = IF img.inode[i].type = "REG" THEN img.nfiles - 1 ELSE img.nfiles]
  BY DEF FreeInode
<1> HIDE DEF new
<1>6. QED
  BY <1>3, <1>4, <1>5 DEF Image

\* What a pointer leads to is a directory entry.
LEMMA DerefType ==
  ASSUME NEW img \in Image, NEW dm \in Inum, NEW p \in Ptr \union {Null}
  PROVE  Deref(img, dm, p) \in Dentry
<1>1. ASSUME NEW s \in Seq(Dentry), NEW k \in Nat PROVE SlotAt(s, k) \in Dentry
  BY ZeroDentryType DEF SlotAt
<1>2. CASE p = RootPtr
  BY <1>2 DEF Deref, RootPtr, Dentry, Image, Types
<1>3. CASE p = DummyPtr
  BY <1>3 DEF Deref, DummyPtr, Dentry, Comp, Types
<1>4. CASE p = Null
  BY <1>4, ZeroDentryType DEF Deref, Null
<1>5. CASE p \in [at : {"inline"}, inum : Inum, slot : Nat \ {0}]
  <2>1. img.inode[p.inum].ents \in Seq(Dentry) /\ p.slot \in Nat /\ p.at = "inline"
    BY <1>5 DEF Image, Inode
  <2>2. QED
    BY <1>1, <2>1 DEF Deref
<1>6. CASE p \in [at : {"block"}, block : BlockNo, slot : Nat \ {0}]
  <2>1. img.blocks[p.block] \in Seq(Dentry) /\ p.slot \in Nat /\ p.at = "block"
    BY <1>6 DEF Image
  <2>2. QED
    BY <1>1, <2>1 DEF Deref
<1>7. QED
  BY <1>2, <1>3, <1>4, <1>5, <1>6 DEF Ptr, SlotPtr

\* Replacing one entry of a list of entries.
LEMMA EntryReplaced ==
  ASSUME NEW s \in Seq(Dentry), NEW k \in 1 .. Len(s), NEW e \in Dentry
  PROVE  [s EXCEPT ![k] = e] \in Seq(Dentry)
  OBVIOUS

\* Replacing the inline entries of an inode.
LEMMA EntsSet ==
  ASSUME NEW img \in Image, NEW i \in Inum, NEW s \in Seq(Dentry)
  PROVE  [img EXCEPT !.inode[i].ents = s] \in Image
<1>1. img.inode[i] \in Inode
  BY DEF Image
<1>2. [img.inode[i] EXCEPT !.ents = s] \in Inode
  BY <1>1 DEF Inode
<1>3. [img EXCEPT !.inode[i] = [img.inode[i] EXCEPT !.ents = s]] \in Image
  BY <1>2, InodeReplaced
<1>4. QED
  BY <1>3

\* Replacing p_inum of an inode.
LEMMA ParentSet ==
  ASSUME NEW img \in Image, NEW i \in Inum, NEW n \in Inum
  PROVE  [img EXCEPT !.inode[i].p_inum = n] \in Image
<1>1. img.inode[i] \in Inode
  BY DEF Image
<1>2. [img.inode[i] EXCEPT !.p_inum = n] \in Inode
  BY <1>1 DEF Inode
<1>3. [img EXCEPT !.inode[i] = [img.inode[i] EXCEPT !.p_inum = n]] \in Image
  BY <1>2, InodeReplaced
<1>4. QED
  BY <1>3

\* Replacing the contents of a data block.
LEMMA BlockReplaced ==
  ASSUME NEW img \in Image, NEW b \in BlockNo, NEW s \in Seq(Dentry)
  PROVE  [img EXCEPT !.blocks[b] = s] \in Image
  BY DEF Image

\* dent->inum = 0 leaves a list of entries.
LEMMA ClearSlotType ==
  ASSUME NEW s \in Seq(Dentry), NEW k \in Nat PROVE ClearSlot(s, k) \in Seq(Dentry)
<1>1. CASE k \in 1 .. Len(s)
  <2>1. [s[k] EXCEPT !.inum = 0] \in Dentry
    <3>1. s[k] \in Dentry
      BY <1>1
    <3>2. QED
      BY <3>1, ZeroInum DEF Dentry
  <2>2. [s EXCEPT ![k] = [s[k] EXCEPT !.inum = 0]] \in Seq(Dentry)
    BY <1>1, <2>1, EntryReplaced
  <2>3. QED
    BY <1>1, <2>2 DEF ClearSlot
<1>2. CASE k \notin 1 .. Len(s)
  BY <1>2 DEF ClearSlot
<1>3. QED
  BY <1>1, <1>2

\* dent->inum = 0 through a pointer.
LEMMA ClearDentryType ==
  ASSUME NEW img \in Image, NEW p \in Ptr \union {Null}
  PROVE  ClearDentry(img, p) \in Image
<1>1. CASE p = RootPtr
  <2>1. [img EXCEPT !.rootdir = 0] \in Image
    BY ZeroInum DEF Image
  <2>2. QED
    BY <1>1, <2>1 DEF ClearDentry, RootPtr
<1>2. CASE p \in {DummyPtr, Null}
  BY <1>2 DEF ClearDentry, DummyPtr, Null
<1>3. CASE p \in [at : {"inline"}, inum : Inum, slot : Nat \ {0}]
  <2>1. p.at = "inline" /\ p.inum \in Inum /\ p.slot \in Nat
    BY <1>3
  <2>2. ClearSlot(img.inode[p.inum].ents, p.slot) \in Seq(Dentry)
    BY <2>1, ClearSlotType DEF Image, Inode
  <2>3. [img EXCEPT !.inode[p.inum].ents = ClearSlot(img.inode[p.inum].ents, p.slot)] \in Image
    BY <2>1, <2>2, EntsSet
  <2>4. QED
    BY <2>1, <2>3 DEF ClearDentry
<1>4. CASE p \in [at : {"block"}, block : BlockNo, slot : Nat \ {0}]
  <2>1. p.at = "block" /\ p.block \in BlockNo /\ p.slot \in Nat
    BY <1>4
  <2>2. ClearSlot(img.blocks[p.block], p.slot) \in Seq(Dentry)
    BY <2>1, ClearSlotType DEF Image
  <2>3. [img EXCEPT !.blocks[p.block] = ClearSlot(img.blocks[p.block], p.slot)] \in Image
    BY <2>1, <2>2, BlockReplaced
  <2>4. QED
    BY <2>1, <2>3 DEF ClearDentry
<1>5. QED
  BY <1>1, <1>2, <1>3, <1>4 DEF Ptr, SlotPtr

\* unlink_dent.
LEMMA UnlinkDentType ==
  ASSUME NEW img \in Image, NEW dm \in Inum, NEW p \in Ptr \union {Null}
  PROVE  UnlinkDent(img, dm, p) \in Image
<1> DEFINE i == Deref(img, dm, p).inum
           dropped == DropLink(img, i)
           freed == IF dropped.inode[i].nlink = 0 THEN FreeInode(dropped, i) ELSE dropped
<1>1. i \in Inum
  BY DerefType DEF Dentry
<1> HIDE DEF i
<1>2. dropped \in Image
  BY <1>1, DropLinkType
<1> HIDE DEF dropped
<1>3. freed \in Image
  BY <1>1, <1>2, FreeInodeType
<1> HIDE DEF freed
<1>4. ClearDentry(freed, p) \in Image
  BY <1>3, ClearDentryType
<1>5. UnlinkDent(img, dm, p) \in {img, ClearDentry(freed, p)}
  BY DEF UnlinkDent, i, dropped, freed
<1>6. QED
  BY <1>4, <1>5

\* alloc_inline_dentry.
LEMMA AppendInlineType ==
  ASSUME NEW img \in Image, NEW d \in Inum, NEW e \in Dentry
  PROVE  AppendInline(img, d, e) \in Image
<1>1. Append(img.inode[d].ents, e) \in Seq(Dentry)
  BY DEF Image, Inode
<1>2. [img EXCEPT !.inode[d].ents = Append(img.inode[d].ents, e)] \in Image
  BY <1>1, EntsSet
<1>3. QED
  BY <1>2 DEF AppendInline

\* alloc_dentry_from_block, on the list of entries of the block.
LEMMA PutInSeqType ==
  ASSUME NEW s \in Seq(Dentry), NEW e \in Dentry PROVE PutInSeq(s, e) \in Seq(Dentry)
<1> DEFINE dead == 1 .. Len(s) \ Live(s)
<1>1. CASE Live(s) = 1 .. Len(s)
  BY <1>1 DEF PutInSeq
<1>2. CASE Live(s) # 1 .. Len(s)
  <2>1. dead \in SUBSET Nat /\ dead # {}
    BY <1>2 DEF Live
  <2>2. \E k \in dead : \A j \in dead : k <= j
    <3> HIDE DEF dead
    <3>1. QED
      BY <2>1, NatMinimum
  <2>3. (CHOOSE k \in dead : \A j \in dead : k <= j) \in dead
    <3> HIDE DEF dead
    <3>1. QED
      BY <2>2
  <2>4. [s EXCEPT ![CHOOSE k \in dead : \A j \in dead : k <= j] = e] \in Seq(Dentry)
    BY <2>3, EntryReplaced
  <2>5. QED
    BY <1>2, <2>4 DEF PutInSeq
<1>3. QED
  BY <1>1, <1>2

\* alloc_dentry_from_block, on the image.
LEMMA PutInBlockType ==
  ASSUME NEW img \in Image, NEW d \in Inum, NEW e \in Dentry
  PROVE  PutInBlock(img, d, e) \in Image
<1> DEFINE b == img.inode[d].block
<1>1. b \in BlockNo \union {0}
  BY DEF Image, Inode
<1> HIDE DEF b
<1>2. CASE b \in BlockNo
  <2>1. PutInSeq(img.blocks[b], e) \in Seq(Dentry)
    BY <1>2, PutInSeqType DEF Image
  <2>2. [img EXCEPT !.blocks[b] = PutInSeq(img.blocks[b], e)] \in Image
    BY <1>2, <2>1, BlockReplaced
  <2>3. QED
    BY <2>2 DEF PutInBlock, b
<1>3. CASE b \notin BlockNo
  <2>1. [img EXCEPT !.blocks[b] = PutInSeq(img.blocks[b], e)] = img
    BY <1>3 DEF Image
  <2>2. QED
    BY <2>1 DEF PutInBlock, b
<1>4. QED
  BY <1>2, <1>3

\* convert_inline_directory, given that there is a data block to take.
LEMMA ConvertType ==
  ASSUME NEW img \in Image, NEW d \in Inum, BlockAvailable(img)
  PROVE  ConvertInlineDirectory(img, d) \in Image
<1> DEFINE b == FreeBlock(img)
           live == LiveEnts(img.inode[d].ents)
           copied == [k \in 1 .. Len(live) |-> DentryOf(img, live[k].inum, live[k].name)]
           dots == << DentryOf(img, d, Dot), DentryOf(img, img.inode[d].p_inum, DotDot) >>
           new == [img.inode[d] EXCEPT !.inline = FALSE, !.p_inum = 0,
                                       !.ents = << >>, !.block = b]
<1>1. b \in BlockNo
  BY FreeBlockType
<1>2. live \in Seq(Dentry)
  BY LiveEntsType DEF Image, Inode
<1>3. copied \in Seq(Dentry)
  <2> HIDE DEF live
  <2>1. \A k \in 1 .. Len(live) : DentryOf(img, live[k].inum, live[k].name) \in Dentry
    <3>1. TAKE k \in 1 .. Len(live)
    <3>2. live[k] \in Dentry
      BY <1>2
    <3>3. live[k].inum \in Inum /\ live[k].name \in Comp \union {NoName}
      BY <3>2 DEF Dentry
    <3>4. QED
      BY <3>3, DentryOfType
  <2>2. Len(live) \in Nat
    BY <1>2
  <2>3. QED
    BY <2>1, <2>2
<1>4. dots \in Seq(Dentry)
  <2>1. Dot \in Comp /\ DotDot \in Comp /\ img.inode[d].p_inum \in Inum
    BY DEF Comp, Image, Inode
  <2>2. DentryOf(img, d, Dot) \in Dentry
    BY <2>1, DentryOfType
  <2>3. DentryOf(img, img.inode[d].p_inum, DotDot) \in Dentry
    BY <2>1, DentryOfType
  <2>4. QED
    BY <2>2, <2>3
<1> HIDE DEF b, copied, dots, live
<1>5. new \in Inode
  <2>1. img.inode[d] \in Inode /\ << >> \in Seq(Dentry)
    BY DEF Image
  <2>2. QED
    BY <1>1, <2>1, ZeroInum DEF Inode
<1>6. [img.inode EXCEPT ![d] = new] \in [Inum -> Inode]
  BY <1>5 DEF Image
<1>7. [img.blocks EXCEPT ![b] = dots \o copied] \in [BlockNo -> Seq(Dentry)]
  <2>1. dots \o copied \in Seq(Dentry)
    BY <1>3, <1>4
  <2>2. QED
    BY <1>1, <2>1 DEF Image
<1>8. img.bitmap \union {b} \in SUBSET BlockNo /\ img.inline_inodes - 1 \in Int
  BY <1>1 DEF Image
<1>9. ConvertInlineDirectory(img, d) =
        [img EXCEPT !.bitmap = img.bitmap \union {b},
                    !.blocks = [img.blocks EXCEPT ![b] = dots \o copied],
                    !.inode = [img.inode EXCEPT ![d] = new],
                    !.inline_inodes = img.inline_inodes - 1]
  BY DEF ConvertInlineDirectory, b, copied, dots, live
<1> HIDE DEF new
<1>10. QED
  BY <1>6, <1>7, <1>8, <1>9 DEF Image

\* new_dentry, when a conversion it makes finds a block.
LEMMA NewDentryType ==
  ASSUME NEW img \in Image, NEW d \in Inum, NEW i \in Inum, NEW name \in Comp,
         Fits(img, d)
  PROVE  NewDentry(img, d, i, name) \in Image
<1>1. DentryOf(img, i, name) \in Dentry
  BY DentryOfType
<1>2. PutInBlock(img, d, DentryOf(img, i, name)) \in Image
  BY <1>1, PutInBlockType
<1>3. AppendInline(img, d, DentryOf(img, i, name)) \in Image
  BY <1>1, AppendInlineType
<1>4. img.inode[d].inline /\ InlineFull(img, d) =>
        PutInBlock(ConvertInlineDirectory(img, d), d, DentryOf(img, i, name)) \in Image
  BY <1>1, ConvertType, PutInBlockType DEF Fits
<1>5. QED
  BY <1>2, <1>3, <1>4, AddLinkType DEF NewDentry

\* init_dir_inode.
LEMMA InitDirInodeType ==
  ASSUME NEW img \in Image, NEW d \in Inum, NEW parent \in Inum
  PROVE  InitDirInode(img, d, parent) \in Image
<1>1. [img EXCEPT !.inode[d].p_inum = parent] \in Image
  BY ParentSet
<1>2. QED
  BY <1>1, AddLinkType DEF InitDirInode

\* do_creat.
LEMMA DoCreatType ==
  ASSUME NEW img \in Image, NEW dir \in Inum, NEW i \in Inum, NEW name \in Comp,
         NEW type \in Types, Fits(AllocInode(img, i, type), dir)
  PROVE  DoCreat(img, dir, i, name, type) \in Image
<1>1. AllocInode(img, i, type) \in Image
  BY AllocInodeType
<1>2. NewDentry(AllocInode(img, i, type), dir, i, name) \in Image
  BY <1>1, NewDentryType
<1>3. InitDirInode(NewDentry(AllocInode(img, i, type), dir, i, name), i, dir) \in Image
  BY <1>2, InitDirInodeType
<1>4. QED
  BY <1>2, <1>3 DEF DoCreat

\* A search returns 0 or the position of a live entry of that name.
LEMMA FindDentResult ==
  ASSUME NEW s \in Seq(Dentry), NEW name
  PROVE  \/ FindDent(s, name) = 0
         \/ FindDent(s, name) \in Live(s) /\ s[FindDent(s, name)].name = name
<1> DEFINE hits == {k \in Live(s) : s[k].name = name}
<1>1. CASE hits = {}
  BY <1>1 DEF FindDent
<1>2. CASE hits # {}
  <2>1. hits \in SUBSET Nat
    BY DEF Live
  <2>2. \E k \in hits : \A j \in hits : k <= j
    <3> HIDE DEF hits
    <3>1. QED
      BY <1>2, <2>1, NatMinimum
  <2>3. FindDent(s, name) \in hits
    BY <1>2, <2>2 DEF FindDent
  <2>4. QED
    BY <2>3
<1>3. QED
  BY <1>1, <1>2

\* One turn of update_dir_inode over the entries of a directory.
LEMMA SetDotInumType ==
  ASSUME NEW s \in Seq(Dentry), NEW name, NEW i \in Inum
  PROVE  SetDotInum(s, name, i) \in Seq(Dentry)
<1> DEFINE k == FindDent(s, name)
<1>1. k = 0 \/ k \in 1 .. Len(s)
  BY FindDentResult DEF Live
<1> HIDE DEF k
<1>2. CASE k \in 1 .. Len(s)
  <2>1. s[k] \in Dentry
    BY <1>2
  <2>2. [s[k] EXCEPT !.inum = i] \in Dentry
    BY <2>1 DEF Dentry
  <2>3. [s EXCEPT ![k] = [s[k] EXCEPT !.inum = i]] \in Seq(Dentry)
    BY <1>2, <2>2, EntryReplaced
  <2>4. QED
    BY <2>3 DEF SetDotInum, k
<1>3. CASE k = 0
  <2>1. [s EXCEPT ![k] = [s[k] EXCEPT !.inum = i]] = s
    BY <1>3
  <2>2. QED
    BY <2>1 DEF SetDotInum, k
<1>4. QED
  BY <1>1, <1>2, <1>3

\* update_dir_inode.
LEMMA UpdateDirInodeType ==
  ASSUME NEW img \in Image, NEW d \in Inum, NEW parent \in Inum
  PROVE  UpdateDirInode(img, d, parent) \in Image
<1> DEFINE b == img.inode[d].block
           s == SetDotInum(SetDotInum(img.blocks[b], Dot, d), DotDot, parent)
<1>1. [img EXCEPT !.inode[d].p_inum = parent] \in Image
  BY ParentSet
<1>2. [img EXCEPT !.blocks[b] = s] \in Image
  <2>1. CASE b \in BlockNo
    <3>1. img.blocks[b] \in Seq(Dentry)
      BY <2>1 DEF Image
    <3>2. s \in Seq(Dentry)
      BY <3>1, SetDotInumType
    <3> HIDE DEF s, b
    <3>3. QED
      BY <2>1, <3>2, BlockReplaced
  <2>2. CASE b \notin BlockNo
    <3> HIDE DEF s, b
    <3>1. [img EXCEPT !.blocks[b] = s] = img
      BY <2>2 DEF Image
    <3>2. QED
      BY <3>1
  <2>3. QED
    BY <2>1, <2>2
<1>3. QED
  BY <1>1, <1>2 DEF UpdateDirInode

-----------------------------------------------------------------------------
(* Lookups.                                                                *)

\* What do_lookup knows after any number of components.
Found == [prev : Ptr, dent : Ptr \union {Null}, pi : Inum \union {Uninit},
          dummy : Inum, done : BOOLEAN]

\* The pointers that are not slots.
LEMMA PlainPtr == RootPtr \in Ptr /\ DummyPtr \in Ptr
  BY DEF Ptr

\* The pointer to an entry that a search found.
LEMMA EntPtrType ==
  ASSUME NEW img \in Image, NEW d \in Inum, NEW k \in 1 .. Len(Ents(img, d))
  PROVE  EntPtr(img, d, k) \in Ptr
<1>1. k \in Nat \ {0}
  <2>1. Ents(img, d) \in Seq(Dentry)
    BY DEF Ents, Image, Inode
  <2>2. QED
    BY <2>1
<1>2. CASE img.inode[d].inline
  BY <1>1, <1>2 DEF EntPtr, InlinePtr, Ptr, SlotPtr
<1>3. CASE ~ img.inode[d].inline
  <2>1. img.inode[d].block # 0
    BY <1>3 DEF Ents
  <2>2. img.inode[d].block \in BlockNo
    BY <2>1 DEF Image, Inode
  <2>3. QED
    BY <1>1, <1>3, <2>2 DEF EntPtr, BlockPtr, Ptr, SlotPtr
<1>4. QED
  BY <1>2, <1>3

\* The list of entries of a directory.
LEMMA EntsType ==
  ASSUME NEW img \in Image, NEW d \in Inum PROVE Ents(img, d) \in Seq(Dentry)
  BY DEF Ents, Image, Inode

\* One turn of the loop of do_lookup.
LEMMA LookupStepType ==
  ASSUME NEW img \in Image, NEW at \in Found, NEW c \in Comp, NEW last \in BOOLEAN
  PROVE  LookupStep(img, at, c, last) \in Found
<1> DEFINE iprev == Deref(img, at.dummy, at.prev).inum
           k == FindDent(Ents(img, iprev), c)
           dent == IF img.inode[iprev].inline /\ c = Dot THEN at.prev
                   ELSE IF img.inode[iprev].inline /\ c = DotDot THEN DummyPtr
                   ELSE IF k = 0 THEN Null ELSE EntPtr(img, iprev, k)
           dm == IF img.inode[iprev].inline /\ c = DotDot THEN img.inode[iprev].p_inum
                 ELSE at.dummy
<1>1. at.prev \in Ptr /\ at.dummy \in Inum
  BY DEF Found
<1>2. iprev \in Inum
  BY <1>1, DerefType DEF Dentry
<1> HIDE DEF iprev
<1>3. k = 0 \/ k \in 1 .. Len(Ents(img, iprev))
  BY <1>2, EntsType, FindDentResult DEF Live
<1> HIDE DEF k
<1>4. dent \in Ptr \union {Null}
  BY <1>1, <1>2, <1>3, PlainPtr, EntPtrType
<1>5. dm \in Inum
  BY <1>1, <1>2 DEF Image, Inode
<1> HIDE DEF dent, dm
<1>6. CASE img.inode[iprev].type # "DIR"
  <2>1. LookupStep(img, at, c, last) =
          [at EXCEPT !.dent = Null, !.pi = Uninit, !.done = TRUE]
    BY <1>6 DEF LookupStep, iprev
  <2>2. QED
    BY <2>1 DEF Found
<1>7. CASE img.inode[iprev].type = "DIR"
  <2>1. LookupStep(img, at, c, last) =
          [prev |-> IF last \/ dent = Null THEN at.prev ELSE dent,
           dent |-> dent,
           pi |-> IF dent = Null /\ ~ last THEN 0 ELSE iprev,
           dummy |-> dm,
           done |-> dent = Null]
    BY <1>7 DEF LookupStep, iprev, k, dent, dm
  <2>2. (IF last \/ dent = Null THEN at.prev ELSE dent) \in Ptr
    BY <1>1, <1>4
  <2>3. (IF dent = Null /\ ~ last THEN 0 ELSE iprev) \in Inum \union {Uninit}
    BY <1>2, ZeroInum
  <2>4. (dent = Null) \in BOOLEAN
    OBVIOUS
  <2>5. QED
    BY <1>4, <1>5, <2>1, <2>2, <2>3, <2>4 DEF Found
<1>8. QED
  BY <1>6, <1>7

\* A pathname has no, one or two components.
LEMMA PathCases ==
  ASSUME NEW path \in Path
  PROVE  /\ path.abs \in BOOLEAN
         /\ \/ path.comp = << >>
            \/ Len(path.comp) = 1 /\ path.comp # << >> /\ path.comp[1] \in Comp
            \/ /\ Len(path.comp) = 2 /\ path.comp # << >>
               /\ path.comp[1] \in Comp /\ path.comp[2] \in Comp
<1>1. path.abs \in BOOLEAN
      /\ path.comp \in {<< >>} \union {<<c>> : c \in Comp} \union (Comp \X Comp)
  BY DEF Path
<1>2. CASE path.comp \in {<<c>> : c \in Comp}
  <2>1. PICK c \in Comp : path.comp = <<c>>
    BY <1>2
  <2>2. QED
    BY <1>1, <2>1
<1>3. CASE path.comp \in Comp \X Comp
  <2>1. PICK c \in Comp, e \in Comp : path.comp = <<c, e>>
    BY <1>3
  <2>2. QED
    BY <1>1, <2>1
<1>4. QED
  BY <1>1, <1>2, <1>3

\* do_lookup, from any start.
LEMMA LookupFromType ==
  ASSUME NEW img \in Image, NEW path \in Path, NEW start \in Found
  PROVE  LookupFrom(img, path, start) \in Found
<1>1. CASE path.comp = << >>
  BY <1>1 DEF LookupFrom
<1>2. CASE Len(path.comp) = 1 /\ path.comp # << >> /\ path.comp[1] \in Comp
  BY <1>2, LookupStepType DEF LookupFrom
<1>3. CASE /\ Len(path.comp) = 2 /\ path.comp # << >>
           /\ path.comp[1] \in Comp /\ path.comp[2] \in Comp
  <2>1. LookupStep(img, start, path.comp[1], FALSE) \in Found
    BY <1>3, LookupStepType
  <2>2. LookupSecond(img, path, LookupStep(img, start, path.comp[1], FALSE)) \in Found
    BY <1>3, <2>1, LookupStepType DEF LookupSecond
  <2>3. Len(path.comp) # 1
    BY <1>3
  <2>4. LookupFrom(img, path, start) =
          LookupSecond(img, path, LookupStep(img, start, path.comp[1], FALSE))
    BY ONLY <1>3, <2>3 DEF LookupFrom
  <2>5. QED
    BY <2>2, <2>4
<1>4. QED
  BY <1>1, <1>2, <1>3, PathCases

\* The lookups of the system calls.
LEMMA LookupType ==
  ASSUME TypeOK, NEW path \in Path, NEW dm \in Inum
  PROVE  Lookup(path) \in Found /\ LookupAfter(path, dm) \in Found
<1>1. LookupStart(path) \in Found
  BY PlainPtr, ZeroInum DEF TypeOK, LookupStart, Found
<1>2. [LookupStart(path) EXCEPT !.dummy = dm] \in Found
  BY <1>1 DEF Found
<1>3. QED
  BY <1>1, <1>2, LookupFromType DEF Lookup, LookupAfter, TypeOK

\* When a lookup stored a directory, the pathname has a last component.
LEMMA FilenameType ==
  ASSUME TypeOK, NEW path \in Path, NEW dm \in Inum,
         Lookup(path).pi > 0 \/ LookupAfter(path, dm).pi > 0
  PROVE  Filename(path) \in Comp
<1>1. ASSUME path.comp = << >> PROVE FALSE
  <2>1. Lookup(path).pi = 0
    BY ONLY <1>1 DEF Lookup, LookupFrom, LookupStart
  <2>2. LookupAfter(path, dm).pi = 0
    BY ONLY <1>1 DEF LookupAfter, LookupFrom, LookupStart
  <2>3. QED
    BY <2>1, <2>2
<1>2. QED
  BY <1>1, PathCases DEF Filename

-----------------------------------------------------------------------------
(* The calls.                                                              *)

\* What a lookup found, and the inode its entry names.
LEMMA FoundType ==
  ASSUME TypeOK, NEW found \in Found
  PROVE  /\ found.dummy \in Inum /\ found.dent \in Ptr \union {Null}
         /\ found.pi \in Inum \union {Uninit}
         /\ found.pi > 0 => found.pi \in Inum
         /\ Deref(image, found.dummy, found.dent).inum \in Inum
<1>1. /\ found.dummy \in Inum /\ found.dent \in Ptr \union {Null}
      /\ found.pi \in Inum \union {Uninit}
  BY DEF Found
<1>2. Deref(image, found.dummy, found.dent) \in Dentry
  BY <1>1, DerefType DEF TypeOK
<1>3. QED
  BY <1>1, <1>2 DEF Dentry, Uninit

\* A call that fails.
LEMMA FailType ==
  ASSUME TypeOK, NEW code \in Errors, Fail(code), dummy' \in Inum PROVE TypeOK'
  BY DEF TypeOK, Fail, Results

\* A call that succeeds.
LEMMA DoneType ==
  ASSUME TypeOK, NEW img \in Image, Done(img), dummy' \in Inum PROVE TypeOK'
  BY DEF TypeOK, Done, Results

\* A process that dies.
LEMMA CrashType == ASSUME TypeOK, Crash PROVE TypeOK'
  BY ZeroInum, PlainPtr DEF TypeOK, Crash, Results

\* fs_creat and fs_mkdir.
LEMMA CreateType ==
  ASSUME TypeOK, NEW path \in Path, NEW type \in {"REG", "DIR"}, Create(path, type)
  PROVE  TypeOK'
<1> DEFINE found == Lookup(path)
           i == FreeInum(image)
<1>1. found \in Found /\ i \in Inum /\ type \in Types /\ image \in Image
  BY LookupType, FreeInumType, ZeroInum DEF TypeOK, Types
<1>2. found.pi > 0 => Filename(path) \in Comp
  BY FilenameType, ZeroInum
<1>3. \/ RefuseCreate(found, type) /\ dummy' = found.dummy
      \/ Crash
      \/ /\ found.dent = Null /\ found.pi > 0 /\ i # 0
         /\ Fits(AllocInode(image, i, type), found.pi)
         /\ Done(DoCreat(image, found.pi, i, Filename(path), type))
         /\ dummy' = found.dummy
  BY DEF Create
<1> HIDE DEF found, i
<1>4. found.dummy \in Inum /\ (found.pi > 0 => found.pi \in Inum)
  BY <1>1, FoundType
<1>5. CASE RefuseCreate(found, type) /\ dummy' = found.dummy
  <2>1. Fail("EEXISTS") \/ Fail("ENOFOUND") \/ Fail("EINVTYPE") \/ Fail("EALLOC")
    BY <1>5 DEF RefuseCreate
  <2>2. QED
    BY <1>4, <1>5, <2>1, FailType DEF Errors
<1>6. CASE /\ found.dent = Null /\ found.pi > 0 /\ i # 0
           /\ Fits(AllocInode(image, i, type), found.pi)
           /\ Done(DoCreat(image, found.pi, i, Filename(path), type))
           /\ dummy' = found.dummy
  <2>1. DoCreat(image, found.pi, i, Filename(path), type) \in Image
    BY <1>1, <1>2, <1>4, <1>6, DoCreatType
  <2>2. QED
    BY <1>4, <1>6, <2>1, DoneType
<1>7. QED
  BY <1>3, <1>5, <1>6, CrashType

\* fs_unlink.
LEMMA UnlinkType ==
  ASSUME TypeOK, NEW path \in Path, Unlink(path) PROVE TypeOK'
<1> DEFINE found == Lookup(path)
<1>1. found \in Found /\ image \in Image
  BY LookupType, ZeroInum DEF TypeOK
<1>2. /\ dummy' = found.dummy
      /\ \/ Fail("ENOFOUND") \/ Fail("EINVTYPE")
         \/ Done(UnlinkDent(image, found.dummy, found.dent))
  BY DEF Unlink
<1> HIDE DEF found
<1>3. found.dummy \in Inum /\ UnlinkDent(image, found.dummy, found.dent) \in Image
  BY <1>1, FoundType, UnlinkDentType
<1>4. QED
  BY <1>2, <1>3, FailType, DoneType DEF Errors

\* fs_rmdir.
LEMMA RmdirType ==
  ASSUME TypeOK, NEW path \in Path, Rmdir(path) PROVE TypeOK'
<1> DEFINE found == Lookup(path)
           after == UnlinkDent(image, found.dummy, found.dent)
<1>1. found \in Found /\ image \in Image
  BY LookupType, ZeroInum DEF TypeOK
<1>2. /\ dummy' = found.dummy
      /\ \/ Fail("ENOFOUND") \/ Fail("EINVTYPE") \/ Fail("ENOTEMPTY")
         \/ Done(DropLink(after, found.pi))
  BY DEF Rmdir
<1> HIDE DEF found
<1>3. found.dummy \in Inum /\ after \in Image /\ found.pi \in Inum \union {Uninit}
  BY <1>1, FoundType, UnlinkDentType
<1> HIDE DEF after
<1>4. DropLink(after, found.pi) \in Image
  <2>1. CASE found.pi \in Inum
    BY <1>3, <2>1, DropLinkType
  <2>2. CASE found.pi \notin Inum
    <3>1. DropLink(after, found.pi) = after
      BY <1>3, <2>2 DEF DropLink, Image
    <3>2. QED
      BY <1>3, <3>1
  <2>3. QED
    BY <2>1, <2>2
<1>5. QED
  BY <1>2, <1>3, <1>4, FailType, DoneType DEF Errors

\* fs_link.
LEMMA LinkType ==
  ASSUME TypeOK, NEW old \in Path, NEW new \in Path, Link(old, new) PROVE TypeOK'
<1> DEFINE source == Lookup(old)
           i == Deref(image, source.dummy, source.dent).inum
           target == LookupAfter(new, source.dummy)
<1>1. source \in Found /\ image \in Image
  BY LookupType, ZeroInum DEF TypeOK
<1>2. source.dummy \in Inum /\ i \in Inum
  BY <1>1, FoundType
<1>3. target \in Found /\ (target.pi > 0 => Filename(new) \in Comp)
  BY <1>2, LookupType, FilenameType
<1>4. \/ (Fail("ENOFOUND") \/ Fail("EINVTYPE")) /\ dummy' = source.dummy
      \/ (Fail("EEXISTS") \/ Fail("ENOFOUND")) /\ dummy' = target.dummy
      \/ Done(AddLink(image, i)) /\ dummy' = target.dummy
      \/ Crash
      \/ /\ target.pi > 0 /\ Fits(image, target.pi)
         /\ Done(NewDentry(image, target.pi, i, Filename(new)))
         /\ dummy' = target.dummy
  BY DEF Link
<1> HIDE DEF source, i, target
<1>5. target.dummy \in Inum /\ (target.pi > 0 => target.pi \in Inum)
  BY <1>3, FoundType
<1>6. AddLink(image, i) \in Image
  BY <1>1, <1>2, AddLinkType
<1>7. target.pi > 0 /\ Fits(image, target.pi)
        => NewDentry(image, target.pi, i, Filename(new)) \in Image
  BY <1>1, <1>2, <1>3, <1>5, NewDentryType
<1>8. QED
  BY <1>2, <1>4, <1>5, <1>6, <1>7, FailType, DoneType, CrashType DEF Errors

\* fs_symlink.
LEMMA SymlinkType ==
  ASSUME TypeOK, NEW path \in Path, Symlink(path) PROVE TypeOK'
<1> DEFINE found == Lookup(path)
           i == FreeInum(image)
           first == AllocInode(image, i, "SYM")
           j == FreeInum(first)
           made == DoCreat(first, found.pi, j, Filename(path), "SYM")
           inlined == [made EXCEPT !.inode[j].inline = TRUE]
<1>1. found \in Found /\ i \in Inum /\ "SYM" \in Types /\ image \in Image
  BY LookupType, FreeInumType, ZeroInum DEF TypeOK, Types
<1>2. found.dummy \in Inum /\ (found.pi > 0 => found.pi \in Inum)
  BY <1>1, FoundType
<1>3. found.pi > 0 => Filename(path) \in Comp
  BY FilenameType, ZeroInum
<1>4. /\ dummy' = found.dummy
      /\ \/ Fail("EEXISTS") \/ Fail("ENOFOUND") \/ Fail("EALLOC")
         \/ /\ ret' = "EALLOC" /\ image' = first
            /\ UNCHANGED << up, cwd, openfiles >>
         \/ /\ found.pi > 0 /\ Fits(AllocInode(first, j, "SYM"), found.pi)
            /\ Done(inlined)
  BY DEF Symlink
<1> HIDE DEF found, i
<1>5. first \in Image
  BY <1>1, AllocInodeType
<1> HIDE DEF first
<1>6. j \in Inum
  BY <1>5, FreeInumType
<1> HIDE DEF j
<1>7. ASSUME found.pi > 0, Fits(AllocInode(first, j, "SYM"), found.pi)
      PROVE  inlined \in Image
  <2>1. made \in Image
    BY <1>1, <1>2, <1>3, <1>5, <1>6, <1>7, DoCreatType
  <2> HIDE DEF made
  <2>2. [made.inode[j] EXCEPT !.inline = TRUE] \in Inode
    <3>1. made.inode[j] \in Inode
      BY <1>6, <2>1 DEF Image
    <3>2. QED
      BY <3>1 DEF Inode
  <2>3. [made EXCEPT !.inode[j] = [made.inode[j] EXCEPT !.inline = TRUE]] \in Image
    BY <1>6, <2>1, <2>2, InodeReplaced
  <2>4. QED
    BY <2>3
<1> HIDE DEF inlined
<1>8. CASE ret' = "EALLOC" /\ image' = first /\ UNCHANGED << up, cwd, openfiles >>
  BY <1>2, <1>4, <1>5, <1>8 DEF TypeOK, Results, Errors
<1>9. QED
  BY <1>2, <1>4, <1>7, <1>8, FailType, DoneType DEF Errors

\* The image fs_rename makes.
LEMMA RenamedType ==
  ASSUME NEW img \in Image, NEW dm \in Inum, NEW olddent \in Ptr \union {Null},
         NEW newdent \in Ptr \union {Null}, NEW newdir \in Inum, NEW name \in Comp,
         Fits(BeforeMove(img, dm, olddent, newdent), newdir)
  PROVE  Renamed(img, dm, olddent, newdent, newdir, name) \in Image
<1> DEFINE i == Deref(img, dm, olddent).inum
           overwritten == IF newdent = Null THEN img ELSE UnlinkDent(img, dm, newdent)
           unlinked == UnlinkDent(AddLink(overwritten, i), dm, olddent)
<1>1. i \in Inum
  BY DerefType DEF Dentry
<1>2. overwritten \in Image
  BY UnlinkDentType
<1>3. unlinked = BeforeMove(img, dm, olddent, newdent)
  BY DEF BeforeMove
<1>4. Renamed(img, dm, olddent, newdent, newdir, name) =
        UpdateDirInode(DropLink(NewDentry(unlinked, newdir, i, name), i), i, newdir)
  BY DEF Renamed
<1> HIDE DEF i, overwritten
<1>5. unlinked \in Image
  BY <1>1, <1>2, AddLinkType, UnlinkDentType
<1> HIDE DEF unlinked
<1>6. NewDentry(unlinked, newdir, i, name) \in Image
  BY <1>1, <1>3, <1>5, NewDentryType
<1>7. QED
  BY <1>1, <1>4, <1>6, DropLinkType, UpdateDirInodeType

\* fs_rename.
LEMMA RenameType ==
  ASSUME TypeOK, NEW old \in Path, NEW new \in Path, Rename(old, new) PROVE TypeOK'
<1> DEFINE source == Lookup(old)
           target == LookupAfter(new, source.dummy)
           goes == /\ source.dent # Null
                   /\ Deref(image, source.dummy, source.dent).name \notin {Dot, DotDot}
           after == Renamed(image, target.dummy, source.dent, target.dent,
                            target.pi, Filename(new))
<1>1. source \in Found /\ image \in Image
  BY LookupType, ZeroInum DEF TypeOK
<1>2. source.dummy \in Inum /\ source.dent \in Ptr \union {Null}
  BY <1>1, FoundType
<1>3. target \in Found /\ (target.pi > 0 => Filename(new) \in Comp)
  BY <1>2, LookupType, FilenameType
<1>4. /\ dummy' = IF goes THEN target.dummy ELSE source.dummy
      /\ \/ Fail("ENOFOUND") \/ Fail("EINVAL") \/ Fail("ESAME") \/ Fail("EINVTYPE")
         \/ /\ target.pi > 0
            /\ Fits(BeforeMove(image, target.dummy, source.dent, target.dent), target.pi)
            /\ Done(after)
  BY DEF Rename, MayRename
<1> HIDE DEF source, target, goes
<1>5. /\ target.dummy \in Inum /\ target.dent \in Ptr \union {Null}
      /\ target.pi > 0 => target.pi \in Inum
  BY <1>3, FoundType
<1>6. target.pi > 0
        /\ Fits(BeforeMove(image, target.dummy, source.dent, target.dent), target.pi)
      => after \in Image
  BY <1>1, <1>2, <1>3, <1>5, RenamedType
<1> HIDE DEF after
<1>7. dummy' \in Inum
  BY <1>2, <1>4, <1>5
<1>8. QED
  BY <1>4, <1>6, <1>7, FailType, DoneType DEF Errors

\* fs_stat.
LEMMA StatType ==
  ASSUME TypeOK, NEW path \in Path, Stat(path) PROVE TypeOK'
<1>1. Lookup(path).dummy \in Inum
  BY LookupType, FoundType, ZeroInum
<1>2. QED
  BY <1>1 DEF Stat, TypeOK, Results, Errors

\* fs_chdir.
LEMMA ChdirType ==
  ASSUME TypeOK, NEW path \in Path, Chdir(path) PROVE TypeOK'
<1> DEFINE found == Lookup(path)
<1>1. found.dummy \in Inum /\ found.dent \in Ptr \union {Null}
  BY LookupType, FoundType, ZeroInum
<1>2. /\ dummy' = found.dummy
      /\ \/ Fail("ENOFOUND") \/ Fail("EINVTYPE")
         \/ /\ found.dent # Null /\ cwd' = found.dent /\ ret' = "OK"
            /\ UNCHANGED << image, up, openfiles >>
  BY DEF Chdir
<1> HIDE DEF found
<1>3. CASE /\ found.dent # Null /\ cwd' = found.dent /\ ret' = "OK"
           /\ UNCHANGED << image, up, openfiles >>
  BY <1>1, <1>2, <1>3 DEF TypeOK, Results
<1>4. QED
  BY <1>1, <1>2, <1>3, FailType DEF Errors

\* fs_open.
LEMMA OpenType ==
  ASSUME TypeOK, NEW path \in Path, Open(path) PROVE TypeOK'
<1> DEFINE found == Lookup(path)
           fd == CHOOSE f \in FreeFds : \A g \in FreeFds : f <= g
<1>1. found.dummy \in Inum /\ found.dent \in Ptr \union {Null} /\ dummy \in Inum
  BY LookupType, FoundType, ZeroInum DEF TypeOK
<1>2. \/ Fail("ENOFD") /\ UNCHANGED dummy
      \/ (Fail("ENOFOUND") \/ Fail("EINVTYPE")) /\ dummy' = found.dummy
      \/ /\ openfiles' = [openfiles EXCEPT ![fd] = found.dent]
         /\ ret' = "OK" /\ dummy' = found.dummy
         /\ UNCHANGED << image, up, cwd >>
  BY DEF Open
<1> HIDE DEF found, fd
<1>3. CASE /\ openfiles' = [openfiles EXCEPT ![fd] = found.dent]
           /\ ret' = "OK" /\ dummy' = found.dummy
           /\ UNCHANGED << image, up, cwd >>
  BY <1>1, <1>3 DEF TypeOK, Results
<1>4. QED
  BY <1>1, <1>2, <1>3, FailType DEF Errors

\* fs_close.
LEMMA CloseType ==
  ASSUME TypeOK, NEW fd \in Fds, Close(fd) PROVE TypeOK'
  BY DEF TypeOK, Close, Results

\* init_fs writes an image.
LEMMA EmptyImageType == EmptyImage \in Image
<1>1. [i \in Inum |-> ZeroInode] \in [Inum -> Inode]
  BY ZeroInodeType
<1>2. [b \in BlockNo |-> << >>] \in [BlockNo -> Seq(Dentry)]
  OBVIOUS
<1>3. QED
  BY <1>1, <1>2, ZeroInum DEF EmptyImage, Image

LEMMA NewImageType == NewImage \in Image
<1>1. AllocInode(EmptyImage, 1, "DIR") \in Image
  BY EmptyImageType, ZeroInum, AllocInodeType DEF Types
<1>2. InitDirInode(AllocInode(EmptyImage, 1, "DIR"), 1, 1) \in Image
  BY <1>1, ZeroInum, InitDirInodeType
<1>3. QED
  BY <1>2, ZeroInum DEF NewImage, Image

\* No sequence of calls, crashes and mounts takes a variable out of its type:
\* every inode number, block number and dentry pointer that the code follows
\* is inside the tables.
THEOREM TypeCorrect == Spec => []TypeOK
<1>1. Init => TypeOK
  BY NewImageType, PlainPtr, ZeroInum DEF Init, TypeOK, Results
<1>2. TypeOK /\ [Next]_vars => TypeOK'
  <2> SUFFICES ASSUME TypeOK, [Next]_vars PROVE TypeOK'
    OBVIOUS
  <2>1. /\ \A c \in AllCalls : Args[c] \subseteq Path
        /\ \A c \in {"link", "rename"} : Pairs[c] \subseteq Path \X Path
    BY HfsAssumption
  <2>2. ASSUME NEW p \in Args["creat"], Creat(p) PROVE TypeOK'
    BY <2>1, <2>2, CreateType DEF Creat, AllCalls
  <2>3. ASSUME NEW p \in Args["mkdir"], Mkdir(p) PROVE TypeOK'
    BY <2>1, <2>3, CreateType DEF Mkdir, AllCalls
  <2>4. ASSUME NEW p \in Args["unlink"], Unlink(p) PROVE TypeOK'
    BY <2>1, <2>4, UnlinkType DEF AllCalls
  <2>5. ASSUME NEW p \in Args["rmdir"], Rmdir(p) PROVE TypeOK'
    BY <2>1, <2>5, RmdirType DEF AllCalls
  <2>6. ASSUME NEW p \in Args["symlink"], Symlink(p) PROVE TypeOK'
    BY <2>1, <2>6, SymlinkType DEF AllCalls
  <2>7. ASSUME NEW p \in Pairs["link"], Link(p[1], p[2]) PROVE TypeOK'
    BY <2>1, <2>7, LinkType
  <2>8. ASSUME NEW p \in Pairs["rename"], Rename(p[1], p[2]) PROVE TypeOK'
    BY <2>1, <2>8, RenameType
  <2>9. ASSUME NEW p \in Args["stat"], Stat(p) PROVE TypeOK'
    BY <2>1, <2>9, StatType DEF AllCalls
  <2>10. ASSUME NEW p \in Args["chdir"], Chdir(p) PROVE TypeOK'
    BY <2>1, <2>10, ChdirType DEF AllCalls
  <2>11. ASSUME NEW p \in Args["open"], Open(p) PROVE TypeOK'
    BY <2>1, <2>11, OpenType DEF AllCalls
  <2>12. ASSUME NEW fd \in Fds, Close(fd) PROVE TypeOK'
    BY <2>12, CloseType
  <2>13. CASE Reset
    BY <2>13, NewImageType DEF Reset, TypeOK, Results
  <2>14. CASE Unmount
    BY <2>14 DEF Unmount, TypeOK, Results
  <2>15. CASE Mount
    BY <2>15, PlainPtr DEF Mount, TypeOK, Results
  <2>16. CASE UNCHANGED vars
    BY <2>16 DEF vars, TypeOK
  <2>17. QED
    BY <2>2, <2>3, <2>4, <2>5, <2>6, <2>7, <2>8, <2>9, <2>10, <2>11, <2>12,
       <2>13, <2>14, <2>15, <2>16 DEF Next
<1>3. QED
  BY <1>1, <1>2, PTL DEF Spec

-----------------------------------------------------------------------------
(* No directory holds a name twice.  This needs an invariant of all lists   *)
(* of entries of the image, of the inodes and blocks out of use too, since  *)
(* a pointer kept from an earlier call may lead to any of them.             *)


-----------------------------------------------------------------------------
(* Lists of entries.                                                       *)

\* A name occurs once among the live entries.
Distinct(s) == \A j, k \in Live(s) : s[j].name = s[k].name => j = k

\* No live entry is called name.
Absent(s, name) == \A k \in Live(s) : s[k].name # name

\* No live entry is a dot.
Plain(s) == \A k \in Live(s) : s[k].name \in Names

\* t is s with entries cleared, or redirected under their names.
Thinner(t, s) == \A k \in Live(t) : k \in Live(s) /\ t[k].name = s[k].name

\* What a list of entries keeps when it is thinned.
LEMMA ThinnerKeeps ==
  ASSUME NEW s, NEW t, Thinner(t, s)
  PROVE  /\ Distinct(s) => Distinct(t)
         /\ Plain(s) => Plain(t)
         /\ \A name : Absent(s, name) => Absent(t, name)
  BY DEF Thinner, Distinct, Plain, Absent

\* Nothing is called anything in an empty list.
LEMMA EmptyList ==
  /\ Live(<< >>) = {} /\ Distinct(<< >>) /\ Plain(<< >>)
  /\ \A s : Thinner(<< >>, s)
<1>1. Live(<< >>) = {}
  BY DEF Live
<1>2. QED
  BY <1>1 DEF Distinct, Plain, Thinner

LEMMA ThinnerSame == \A s : Thinner(s, s)
  BY DEF Thinner

LEMMA ThinnerTrans ==
  ASSUME NEW r, NEW s, NEW t, Thinner(r, s), Thinner(s, t) PROVE Thinner(r, t)
  BY DEF Thinner

\* dent->inum = 0 thins a list, and the entry is gone.
LEMMA ClearSlotThins ==
  ASSUME NEW s \in Seq(Dentry), NEW k \in Nat
  PROVE  Thinner(ClearSlot(s, k), s) /\ k \notin Live(ClearSlot(s, k))
<1>1. CASE k \in 1 .. Len(s)
  <2> DEFINE t == [s EXCEPT ![k] = [s[k] EXCEPT !.inum = 0]]
  <2>1. ClearSlot(s, k) = t
    BY <1>1 DEF ClearSlot
  <2>2. Len(t) = Len(s) /\ s[k] \in Dentry
    BY <1>1
  <2>3. t[k].inum = 0 /\ \A j \in 1 .. Len(s) : j # k => t[j] = s[j]
    BY <1>1, <2>2 DEF Dentry
  <2> HIDE DEF t
  <2>4. QED
    BY <2>1, <2>2, <2>3 DEF Thinner, Live
<1>2. CASE k \notin 1 .. Len(s)
  BY <1>2 DEF ClearSlot, Thinner, Live
<1>3. QED
  BY <1>1, <1>2

\* Redirecting a dot entry thins a list (it may even end up cleared).
LEMMA SetDotThins ==
  ASSUME NEW s \in Seq(Dentry), NEW name, NEW i
  PROVE  Thinner(SetDotInum(s, name, i), s)
<1> DEFINE k == FindDent(s, name)
           t == [s EXCEPT ![k] = [s[k] EXCEPT !.inum = i]]
<1>1. SetDotInum(s, name, i) = t
  BY DEF SetDotInum
<1>2. k = 0 \/ k \in Live(s)
  BY FindDentResult
<1> HIDE DEF k
<1>3. CASE k = 0
  <2>1. t = s
    BY <1>3
  <2>2. QED
    BY <1>1, <2>1, ThinnerSame
<1>4. CASE k \in Live(s)
  <2>1. k \in 1 .. Len(s) /\ s[k] \in Dentry
    BY <1>4 DEF Live
  <2>2. Len(t) = Len(s) /\ t[k].name = s[k].name
        /\ \A j \in 1 .. Len(s) : j # k => t[j] = s[j]
    BY <2>1 DEF Dentry
  <2> HIDE DEF t
  <2>3. QED
    BY <1>1, <1>4, <2>1, <2>2 DEF Thinner, Live
<1>5. QED
  BY <1>2, <1>3, <1>4

\* A new entry in a list that has none of its name.
LEMMA AppendDistinct ==
  ASSUME NEW s \in Seq(Dentry), NEW e \in Dentry, Distinct(s), Absent(s, e.name)
  PROVE  /\ Distinct(Append(s, e))
         /\ Plain(s) /\ e.name \in Names => Plain(Append(s, e))
<1> DEFINE t == Append(s, e)
           n == Len(s) + 1
<1>1. Len(t) = n /\ t[n] = e /\ \A j \in 1 .. Len(s) : t[j] = s[j]
  OBVIOUS
<1>2. \A k \in Live(t) : (k \in Live(s) /\ t[k] = s[k]) \/ (k = n /\ t[k] = e)
  BY <1>1 DEF Live
<1> HIDE DEF t, n
<1>3. Distinct(t)
  BY <1>2 DEF Distinct, Absent
<1>4. Plain(s) /\ e.name \in Names => Plain(t)
  BY <1>2 DEF Plain
<1>5. QED
  BY <1>3, <1>4 DEF t

LEMMA PutInSeqDistinct ==
  ASSUME NEW s \in Seq(Dentry), NEW e \in Dentry, Distinct(s), Absent(s, e.name)
  PROVE  Distinct(PutInSeq(s, e))
<1> DEFINE dead == 1 .. Len(s) \ Live(s)
           k == CHOOSE k \in dead : \A j \in dead : k <= j
<1>1. CASE Live(s) = 1 .. Len(s)
  BY <1>1, AppendDistinct DEF PutInSeq
<1>2. CASE Live(s) # 1 .. Len(s)
  <2> DEFINE t == [s EXCEPT ![k] = e]
  <2>1. dead \in SUBSET Nat /\ dead # {}
    BY <1>2 DEF Live
  <2>2. k \in dead
    <3> HIDE DEF dead
    <3>1. \E j \in dead : \A l \in dead : j <= l
      BY <2>1, NatMinimum
    <3>2. QED
      BY <3>1
  <2>3. PutInSeq(s, e) = t
    BY <1>2 DEF PutInSeq
  <2>4. k \in 1 .. Len(s) /\ k \notin Live(s)
    BY <2>2
  <2> HIDE DEF dead, k
  <2>5. Len(t) = Len(s) /\ t[k] = e /\ \A j \in 1 .. Len(s) : j # k => t[j] = s[j]
    BY <2>4
  <2>6. \A j \in Live(t) : (j \in Live(s) /\ t[j] = s[j]) \/ (j = k /\ t[j] = e)
    BY <2>5 DEF Live
  <2> HIDE DEF t
  <2>7. Distinct(t)
    BY <2>6 DEF Distinct, Absent
  <2>8. QED
    BY <2>3, <2>7
<1>3. QED
  BY <1>1, <1>2

-----------------------------------------------------------------------------
(* Images.                                                                 *)

\* No list of entries holds a name twice, and no inline one holds a dot.
\* (An inode with a type has its bit set, so alloc_inode takes another one.)
NamesInv(img) ==
  /\ \A i \in Inum : /\ Distinct(img.inode[i].ents) /\ Plain(img.inode[i].ents)
                     /\ img.inode[i].type # "UNUSED" => i \in img.used
  /\ \A b \in BlockNo : Distinct(img.blocks[b])

\* new is old with entries cleared or redirected and inodes freed.
Thins(new, old) ==
  /\ \A i \in Inum :
       /\ Thinner(new.inode[i].ents, old.inode[i].ents)
       /\ new.inode[i].inline = old.inode[i].inline
       /\ new.inode[i].block \in {old.inode[i].block, 0}
       /\ new.inode[i].type # "UNUSED" =>
            old.inode[i].type # "UNUSED" /\ (i \in old.used => i \in new.used)
  /\ \A b \in BlockNo : Thinner(new.blocks[b], old.blocks[b])

\* The list of entries of a directory is thinned, and is still its list.
LEMMA EntsThinner ==
  ASSUME NEW old \in Image, NEW new \in Image, Thins(new, old), NEW d \in Inum
  PROVE  Thinner(Ents(new, d), Ents(old, d))
<1>1. /\ new.inode[d].inline = old.inode[d].inline
      /\ new.inode[d].block \in {old.inode[d].block, 0}
      /\ old.inode[d].block \in BlockNo \union {0}
  BY DEF Thins, Image, Inode
<1>2. QED
  BY <1>1, EmptyList DEF Thins, Ents

LEMMA SamePtr ==
  ASSUME NEW old \in Image, NEW new \in Image, Thins(new, old), NEW d \in Inum,
         NEW k \in 1 .. Len(Ents(new, d))
  PROVE  EntPtr(new, d, k) = EntPtr(old, d, k)
<1>1. /\ new.inode[d].inline = old.inode[d].inline
      /\ new.inode[d].block \in {old.inode[d].block, 0}
  BY DEF Thins
<1>2. ~ new.inode[d].inline => new.inode[d].block # 0
  BY DEF Ents
<1>3. QED
  BY <1>1, <1>2 DEF EntPtr

\* The invariant, and the absence of a name, outlast a thinning.
LEMMA ThinsKeeps ==
  ASSUME NEW old \in Image, NEW new \in Image, Thins(new, old)
  PROVE  /\ NamesInv(old) => NamesInv(new)
         /\ \A d \in Inum : \A name :
              Absent(Ents(old, d), name) => Absent(Ents(new, d), name)
<1>1. \A i \in Inum : Thinner(new.inode[i].ents, old.inode[i].ents)
  BY DEF Thins
<1>2. \A b \in BlockNo : Thinner(new.blocks[b], old.blocks[b])
  BY DEF Thins
<1>3. NamesInv(old) => NamesInv(new)
  BY <1>1, <1>2, ThinnerKeeps DEF NamesInv, Thins
<1>4. QED
  BY <1>3, EntsThinner, ThinnerKeeps

LEMMA ThinsSame == \A img : Thins(img, img)
  BY ThinnerSame DEF Thins

LEMMA ThinsTrans ==
  ASSUME NEW new, NEW mid, NEW old, Thins(new, mid), Thins(mid, old)
  PROVE  Thins(new, old)
<1>1. ASSUME NEW i \in Inum
      PROVE  /\ Thinner(new.inode[i].ents, old.inode[i].ents)
             /\ new.inode[i].inline = old.inode[i].inline
             /\ new.inode[i].block \in {old.inode[i].block, 0}
             /\ new.inode[i].type # "UNUSED" =>
                  old.inode[i].type # "UNUSED" /\ (i \in old.used => i \in new.used)
  BY ThinnerTrans DEF Thins
<1>2. ASSUME NEW b \in BlockNo PROVE Thinner(new.blocks[b], old.blocks[b])
  BY ThinnerTrans DEF Thins
<1>3. QED
  BY <1>1, <1>2 DEF Thins

\* Changing link counts, and p_inum.
LEMMA LinkThins ==
  ASSUME NEW img \in Image, NEW i
  PROVE  Thins(AddLink(img, i), img) /\ Thins(DropLink(img, i), img)
<1>1. ASSUME NEW n, NEW new, new = [img EXCEPT !.inode[i].nlink = n]
      PROVE  Thins(new, img)
  <2>1. new.used = img.used /\ new.blocks = img.blocks
    BY <1>1 DEF Image
  <2>2. \A j \in Inum : /\ new.inode[j].ents = img.inode[j].ents
                        /\ new.inode[j].inline = img.inode[j].inline
                        /\ new.inode[j].block = img.inode[j].block
                        /\ new.inode[j].type = img.inode[j].type
    BY <1>1 DEF Image, Inode
  <2>3. QED
    BY <2>1, <2>2, ThinnerSame DEF Thins
<1>2. QED
  BY <1>1 DEF AddLink, DropLink

LEMMA ParentThins ==
  ASSUME NEW img \in Image, NEW i \in Inum, NEW n
  PROVE  Thins([img EXCEPT !.inode[i].p_inum = n], img)
<1> DEFINE new == [img EXCEPT !.inode[i].p_inum = n]
<1>1. new.used = img.used /\ new.blocks = img.blocks
  BY DEF Image
<1>2. \A j \in Inum : /\ new.inode[j].ents = img.inode[j].ents
                      /\ new.inode[j].inline = img.inode[j].inline
                      /\ new.inode[j].block = img.inode[j].block
                      /\ new.inode[j].type = img.inode[j].type
  BY DEF Image, Inode
<1> HIDE DEF new
<1>3. Thins(new, img)
  BY <1>1, <1>2, ThinnerSame DEF Thins
<1>4. QED
  BY <1>3 DEF new

\* free_inode.
LEMMA FreeInodeThins ==
  ASSUME NEW img \in Image, NEW i \in Inum PROVE Thins(FreeInode(img, i), img)
<1> DEFINE new == FreeInode(img, i)
<1>1. new.used = img.used \ {i} /\ new.blocks = img.blocks
  BY DEF Image, FreeInode
<1>2. /\ new.inode[i].ents = << >> /\ new.inode[i].type = "UNUSED"
      /\ new.inode[i].inline = img.inode[i].inline /\ new.inode[i].block = 0
      /\ \A j \in Inum \ {i} : new.inode[j] = img.inode[j]
  BY DEF Image, Inode, FreeInode
<1> HIDE DEF new
<1>3. Thins(new, img)
  BY <1>1, <1>2, ThinnerSame, EmptyList DEF Thins
<1>4. QED
  BY <1>3 DEF new

\* dent->inum = 0; what a slot pointer led to is dead.
LEMMA ClearDentryThins ==
  ASSUME NEW img \in Image, NEW p \in Ptr \union {Null}
  PROVE  Thins(ClearDentry(img, p), img)
<1> DEFINE new == ClearDentry(img, p)
<1>1. CASE p = RootPtr
  <2>1. new.inode = img.inode /\ new.used = img.used /\ new.blocks = img.blocks
    BY <1>1 DEF Image, ClearDentry, RootPtr
  <2> HIDE DEF new
  <2>2. Thins(new, img)
    BY <2>1, ThinnerSame DEF Thins
  <2>3. QED
    BY <2>2 DEF new
<1>2. CASE p \in {DummyPtr, Null}
  BY <1>2, ThinsSame DEF ClearDentry, DummyPtr, Null
<1>3. CASE p \in [at : {"inline"}, inum : Inum, slot : Nat \ {0}]
  <2>1. p.at = "inline" /\ p.inum \in Inum /\ p.slot \in Nat
    BY <1>3
  <2>2. new = [img EXCEPT !.inode[p.inum].ents = ClearSlot(img.inode[p.inum].ents, p.slot)]
    BY <2>1 DEF ClearDentry
  <2>3. new.used = img.used /\ new.blocks = img.blocks
    BY <2>2 DEF Image
  <2>4. \A j \in Inum : /\ new.inode[j].inline = img.inode[j].inline
                        /\ new.inode[j].block = img.inode[j].block
                        /\ new.inode[j].type = img.inode[j].type
    BY <2>1, <2>2 DEF Image, Inode
  <2>5. /\ new.inode[p.inum].ents = ClearSlot(img.inode[p.inum].ents, p.slot)
        /\ \A j \in Inum \ {p.inum} : new.inode[j].ents = img.inode[j].ents
    BY <2>1, <2>2 DEF Image, Inode
  <2>6. img.inode[p.inum].ents \in Seq(Dentry)
    BY <2>1 DEF Image, Inode
  <2> HIDE DEF new
  <2>7. Thins(new, img)
    BY <2>1, <2>3, <2>4, <2>5, <2>6, ThinnerSame, ClearSlotThins DEF Thins
  <2>8. QED
    BY <2>7 DEF new
<1>4. CASE p \in [at : {"block"}, block : BlockNo, slot : Nat \ {0}]
  <2>1. p.at = "block" /\ p.block \in BlockNo /\ p.slot \in Nat
    BY <1>4
  <2>2. new = [img EXCEPT !.blocks[p.block] = ClearSlot(img.blocks[p.block], p.slot)]
    BY <2>1 DEF ClearDentry
  <2>3. new.used = img.used /\ new.inode = img.inode
    BY <2>2 DEF Image
  <2>4. /\ new.blocks[p.block] = ClearSlot(img.blocks[p.block], p.slot)
        /\ \A b \in BlockNo \ {p.block} : new.blocks[b] = img.blocks[b]
    BY <2>1, <2>2 DEF Image
  <2>5. img.blocks[p.block] \in Seq(Dentry)
    BY <2>1 DEF Image
  <2> HIDE DEF new
  <2>6. Thins(new, img)
    BY <2>1, <2>3, <2>4, <2>5, ThinnerSame, ClearSlotThins DEF Thins
  <2>7. QED
    BY <2>6 DEF new
<1>5. QED
  BY <1>1, <1>2, <1>3, <1>4 DEF Ptr, SlotPtr

\* Clearing the k-th entry of a directory.
LEMMA ClearedEntry ==
  ASSUME NEW img \in Image, NEW d \in Inum, NEW k \in 1 .. Len(Ents(img, d))
  PROVE  k \notin Live(Ents(ClearDentry(img, EntPtr(img, d, k)), d))
<1>1. k \in Nat
  BY EntsType
<1>2. CASE img.inode[d].inline
  <2> DEFINE s == ClearSlot(img.inode[d].ents, k)
  <2>1. ClearDentry(img, EntPtr(img, d, k)) = [img EXCEPT !.inode[d].ents = s]
    BY <1>2 DEF ClearDentry, EntPtr, InlinePtr
  <2>2. Ents([img EXCEPT !.inode[d].ents = s], d) = s
    BY <1>2 DEF Ents, Image, Inode
  <2>3. img.inode[d].ents \in Seq(Dentry)
    BY DEF Image, Inode
  <2>4. QED
    BY <1>1, <2>1, <2>2, <2>3, ClearSlotThins
<1>3. CASE ~ img.inode[d].inline
  <2> DEFINE b == img.inode[d].block
             s == ClearSlot(img.blocks[b], k)
  <2>1. b \in BlockNo
    <3>1. b # 0
      BY <1>3 DEF Ents
    <3>2. QED
      BY <3>1 DEF Image, Inode
  <2>2. ClearDentry(img, EntPtr(img, d, k)) = [img EXCEPT !.blocks[b] = s]
    BY <1>3 DEF ClearDentry, EntPtr, BlockPtr
  <2>3. Ents([img EXCEPT !.blocks[b] = s], d) = s
    <3>1. b # 0
      BY <2>1 DEF BlockNo
    <3>2. [img EXCEPT !.blocks[b] = s].inode = img.inode
          /\ [img EXCEPT !.blocks[b] = s].blocks[b] = s
      BY <2>1 DEF Image
    <3>3. QED
      BY <1>3, <3>1, <3>2 DEF Ents
  <2>4. img.blocks[b] \in Seq(Dentry)
    BY <2>1 DEF Image
  <2>5. QED
    BY <1>1, <2>2, <2>3, <2>4, ClearSlotThins
<1>4. QED
  BY <1>2, <1>3

\* unlink_dent, whatever the pointer leads to by now.
LEMMA UnlinkDentThins ==
  ASSUME NEW img \in Image, NEW dm \in Inum, NEW p \in Ptr \union {Null}
  PROVE  Thins(UnlinkDent(img, dm, p), img)
<1> DEFINE i == Deref(img, dm, p).inum
           dropped == DropLink(img, i)
           freed == IF dropped.inode[i].nlink = 0 THEN FreeInode(dropped, i) ELSE dropped
<1>1. i \in Inum
  BY DerefType DEF Dentry
<1>2. UnlinkDent(img, dm, p) \in {img, ClearDentry(freed, p)}
  BY DEF UnlinkDent
<1> HIDE DEF i
<1>3. dropped \in Image /\ Thins(dropped, img)
  BY <1>1, DropLinkType, LinkThins
<1> HIDE DEF dropped
<1>4. freed \in Image /\ Thins(freed, img)
  BY <1>1, <1>3, FreeInodeType, FreeInodeThins, ThinsTrans
<1> HIDE DEF freed
<1>5. Thins(ClearDentry(freed, p), img)
  BY <1>4, ClearDentryThins, ThinsTrans
<1>6. QED
  BY <1>2, <1>5, ThinsSame

\* After unlink_dent of what a search found, the name is absent.
LEMMA UnlinkedAbsent ==
  ASSUME NEW img \in Image, NEW dm \in Inum, NEW d \in Inum, NEW name \in Names,
         NamesInv(img), FindDent(Ents(img, d), name) # 0
  PROVE  Absent(Ents(UnlinkDent(img, dm, EntPtr(img, d, FindDent(Ents(img, d), name))), d),
                name)
<1> DEFINE s == Ents(img, d)
           k == FindDent(s, name)
           p == EntPtr(img, d, k)
           i == Deref(img, dm, p).inum
           dropped == DropLink(img, i)
           freed == IF dropped.inode[i].nlink = 0 THEN FreeInode(dropped, i) ELSE dropped
           new == ClearDentry(freed, p)
<1>1. k \in Live(s) /\ s[k].name = name /\ k \in 1 .. Len(s)
  BY EntsType, FindDentResult DEF Live
<1>2. k \in Nat /\ p \in Ptr
  BY <1>1, EntsType, EntPtrType
<1>3. Distinct(s)
  BY EmptyList DEF NamesInv, Ents, Image, Inode
<1>4. Deref(img, dm, p).name = name
  <2>1. CASE img.inode[d].inline
    BY <1>1, <2>1 DEF Deref, EntPtr, InlinePtr, SlotAt, Ents
  <2>2. CASE ~ img.inode[d].inline
    <3>1. img.inode[d].block # 0
      BY <1>1, <2>2 DEF Ents
    <3>2. QED
      BY <1>1, <2>2, <3>1 DEF Deref, EntPtr, BlockPtr, SlotAt, Ents
  <2>3. QED
    BY <2>1, <2>2
<1>5. UnlinkDent(img, dm, p) = new
  <2>1. name \notin {Dot, DotDot}
    BY NamesAssumption
  <2>2. QED
    BY <1>4, <2>1 DEF UnlinkDent
<1>6. i \in Inum
  BY <1>2, DerefType DEF Dentry
<1> HIDE DEF i, p
<1>7. dropped \in Image /\ Thins(dropped, img)
  BY <1>6, DropLinkType, LinkThins
<1> HIDE DEF dropped
<1>8. freed \in Image /\ Thins(freed, img)
  BY <1>6, <1>7, FreeInodeType, FreeInodeThins, ThinsTrans
<1> HIDE DEF freed
<1>9. new \in Image /\ Thins(new, freed)
  BY <1>2, <1>8, ClearDentryType, ClearDentryThins
<1>10. Thinner(Ents(new, d), Ents(freed, d)) /\ Thinner(Ents(freed, d), s)
  BY <1>8, <1>9, EntsThinner
<1>11. k \notin Live(Ents(new, d))
  <2>1. CASE k \in 1 .. Len(Ents(freed, d))
    <3>1. EntPtr(freed, d, k) = p
      BY <1>8, <2>1, SamePtr DEF p
    <3>2. QED
      BY <1>8, <2>1, <3>1, ClearedEntry
  <2>2. CASE k \notin 1 .. Len(Ents(freed, d))
    BY <1>10, <2>2 DEF Thinner, Live
  <2>3. QED
    BY <2>1, <2>2
<1> HIDE DEF new, k, s
<1>12. Absent(Ents(new, d), name)
  BY <1>1, <1>3, <1>10, <1>11 DEF Absent, Distinct, Thinner
<1>13. QED
  BY <1>5, <1>12 DEF k, s, p

\* Replacing the list of entries of an inode, or of a block.
LEMMA EntsSetNames ==
  ASSUME NEW img \in Image, NEW d \in Inum, NEW s, NamesInv(img), Distinct(s), Plain(s)
  PROVE  NamesInv([img EXCEPT !.inode[d].ents = s])
<1> DEFINE new == [img EXCEPT !.inode[d].ents = s]
<1>1. new.used = img.used /\ new.blocks = img.blocks
  BY DEF Image
<1>2. /\ new.inode[d].ents = s
      /\ \A i \in Inum \ {d} : new.inode[i].ents = img.inode[i].ents
      /\ \A i \in Inum : new.inode[i].type = img.inode[i].type
  BY DEF Image, Inode
<1> HIDE DEF new
<1>3. NamesInv(new)
  BY <1>1, <1>2 DEF NamesInv
<1>4. QED
  BY <1>3 DEF new

LEMMA BlockSetNames ==
  ASSUME NEW img \in Image, NEW b, NEW s, NamesInv(img), Distinct(s)
  PROVE  NamesInv([img EXCEPT !.blocks[b] = s])
<1> DEFINE new == [img EXCEPT !.blocks[b] = s]
<1>1. new.used = img.used /\ new.inode = img.inode
  BY DEF Image
<1>2. \A c \in BlockNo : new.blocks[c] \in {img.blocks[c], s}
  BY DEF Image
<1> HIDE DEF new
<1>3. NamesInv(new)
  BY <1>1, <1>2 DEF NamesInv
<1>4. QED
  BY <1>3 DEF new

\* alloc_dentry_from_block, in a regular directory.
LEMMA PutInBlockNames ==
  ASSUME NEW img \in Image, NEW d \in Inum, NEW e \in Dentry, NamesInv(img),
         ~ img.inode[d].inline, Absent(Ents(img, d), e.name)
  PROVE  NamesInv(PutInBlock(img, d, e))
<1> DEFINE b == img.inode[d].block
<1>1. CASE b \in BlockNo
  <2>1. img.blocks[b] \in Seq(Dentry) /\ Distinct(img.blocks[b])
    BY <1>1 DEF Image, NamesInv
  <2>2. Ents(img, d) = img.blocks[b]
    BY <1>1 DEF Ents, BlockNo
  <2>3. Distinct(PutInSeq(img.blocks[b], e))
    BY <2>1, <2>2, PutInSeqDistinct
  <2>4. PutInBlock(img, d, e) = [img EXCEPT !.blocks[b] = PutInSeq(img.blocks[b], e)]
    BY DEF PutInBlock
  <2>5. QED
    BY <2>3, <2>4, BlockSetNames
<1>2. CASE b \notin BlockNo
  <2>1. PutInBlock(img, d, e) = [img EXCEPT !.blocks[b] = PutInSeq(img.blocks[b], e)]
    BY DEF PutInBlock
  <2> HIDE DEF b
  <2>2. PutInBlock(img, d, e) = img
    BY <1>2, <2>1 DEF Image
  <2>3. QED
    BY <2>2
<1>3. QED
  BY <1>1, <1>2

\* The list a conversion writes: the dots, then a copy of every live entry.
ConvertedEnts(img, d) ==
  LET live == LiveEnts(img.inode[d].ents)
  IN  << DentryOf(img, d, Dot), DentryOf(img, img.inode[d].p_inum, DotDot) >>
        \o [k \in 1 .. Len(live) |-> DentryOf(img, live[k].inum, live[k].name)]

\* t is that list, and f tells where the n copies were.
Copied(img, d, t, n, f) ==
  LET s == img.inode[d].ents
  IN  /\ Len(t) = n + 2
      /\ t[1] = DentryOf(img, d, Dot)
      /\ t[2] = DentryOf(img, img.inode[d].p_inum, DotDot)
      /\ \A k \in 1 .. n : t[k + 2] = DentryOf(img, s[f[k]].inum, s[f[k]].name)
      /\ \A j \in Live(t) : j \in {1, 2} \/ \E k \in 1 .. n : j = k + 2
      /\ \A j, k \in 1 .. n : f[j] = f[k] => j = k
      /\ {f[k] : k \in 1 .. n} = Live(s)

\* The image after a conversion.
LEMMA Converted ==
  ASSUME NEW img \in Image, NEW d \in Inum, BlockAvailable(img)
  PROVE  LET b == FreeBlock(img)
             new == ConvertInlineDirectory(img, d)
         IN  /\ b \in BlockNo \ img.bitmap /\ new \in Image
             /\ new.used = img.used
             /\ new.blocks[b] = ConvertedEnts(img, d)
             /\ \A c \in BlockNo \ {b} : new.blocks[c] = img.blocks[c]
             /\ new.inode[d] = [img.inode[d] EXCEPT !.inline = FALSE, !.p_inum = 0,
                                                    !.ents = << >>, !.block = b]
             /\ \A i \in Inum \ {d} : new.inode[i] = img.inode[i]
             /\ new.bitmap = img.bitmap \union {b}
             /\ new.rootdir = img.rootdir /\ new.inode_used = img.inode_used
             /\ new.ndirectories = img.ndirectories /\ new.nfiles = img.nfiles
<1> DEFINE b == FreeBlock(img)
           live == LiveEnts(img.inode[d].ents)
           copied == [k \in 1 .. Len(live) |-> DentryOf(img, live[k].inum, live[k].name)]
           dots == << DentryOf(img, d, Dot), DentryOf(img, img.inode[d].p_inum, DotDot) >>
           new == [img.inode[d] EXCEPT !.inline = FALSE, !.p_inum = 0,
                                       !.ents = << >>, !.block = b]
<1>1. b \in BlockNo \ img.bitmap
  <2>1. BlockNo \ img.bitmap \in SUBSET Nat /\ BlockNo \ img.bitmap # {}
    BY HfsImageAssumption DEF BlockAvailable, BlockNo
  <2>2. \E c \in BlockNo \ img.bitmap : \A e \in BlockNo \ img.bitmap : c <= e
    BY <2>1, NatMinimum
  <2>3. QED
    BY <2>2 DEF FreeBlock
<1>2. ConvertInlineDirectory(img, d) =
        [img EXCEPT !.bitmap = img.bitmap \union {b},
                    !.blocks = [img.blocks EXCEPT ![b] = dots \o copied],
                    !.inode = [img.inode EXCEPT ![d] = new],
                    !.inline_inodes = img.inline_inodes - 1]
  BY DEF ConvertInlineDirectory
<1>3. ConvertInlineDirectory(img, d) \in Image
  BY ConvertType
<1> DEFINE after == ConvertInlineDirectory(img, d)
<1> HIDE DEF b, copied, dots, new, after
<1>4. /\ after.used = img.used /\ after.bitmap = img.bitmap \union {b}
      /\ after.blocks[b] = dots \o copied
      /\ \A c \in BlockNo \ {b} : after.blocks[c] = img.blocks[c]
      /\ after.inode[d] = new
      /\ \A i \in Inum \ {d} : after.inode[i] = img.inode[i]
      /\ after.rootdir = img.rootdir /\ after.inode_used = img.inode_used
      /\ after.ndirectories = img.ndirectories /\ after.nfiles = img.nfiles
  BY <1>1, <1>2 DEF Image, after
<1>5. QED
  BY <1>1, <1>3, <1>4 DEF b, live, copied, dots, new, after, ConvertedEnts

LEMMA ConvertedList ==
  ASSUME NEW img \in Image, NEW d \in Inum
  PROVE  \E n \in Nat : \E f \in [1 .. n -> Live(img.inode[d].ents)] :
           Copied(img, d, ConvertedEnts(img, d), n, f)
<1> DEFINE s == img.inode[d].ents
           live == LiveEnts(s)
           E(k) == DentryOf(img, live[k].inum, live[k].name)
           first == DentryOf(img, d, Dot)
           second == DentryOf(img, img.inode[d].p_inum, DotDot)
           t == ConvertedEnts(img, d)
<1>1. s \in Seq(Dentry)
  BY DEF Image, Inode
<1>2. t = <<first, second>> \o [k \in 1 .. Len(live) |-> E(k)]
  BY DEF ConvertedEnts
<1> HIDE DEF s, t
<1>3. PICK n \in Nat : \E f \in [1 .. n -> Live(s)] :
           /\ live = [k \in 1 .. n |-> s[f[k]]]
           /\ \A j, k \in 1 .. n : j < k => f[j] < f[k]
           /\ {f[k] : k \in 1 .. n} = Live(s)
  BY <1>1, LiveEntsAre
<1>4. PICK f \in [1 .. n -> Live(s)] :
           /\ live = [k \in 1 .. n |-> s[f[k]]]
           /\ \A j, k \in 1 .. n : j < k => f[j] < f[k]
           /\ {f[k] : k \in 1 .. n} = Live(s)
  BY <1>3
<1> HIDE DEF live
<1>5. Len(live) = n /\ \A k \in 1 .. n : live[k] = s[f[k]]
  BY <1>4
<1> HIDE DEF E, first, second
<1>6. t = <<first, second>> \o [k \in 1 .. n |-> E(k)]
  BY <1>2, <1>5
<1>7. Len(t) = n + 2 /\ t[1] = first /\ t[2] = second
  BY <1>6
<1>8. ASSUME NEW k \in 1 .. n PROVE t[k + 2] = E(k)
  BY <1>6
<1>9. \A j, k \in 1 .. n : f[j] = f[k] => j = k
  <2>1. ASSUME NEW j \in 1 .. n, NEW k \in 1 .. n, f[j] = f[k], j # k PROVE FALSE
    <3>1. f[j] \in Nat /\ f[k] \in Nat
      BY DEF Live
    <3>2. j < k \/ k < j
      BY <2>1
    <3>3. QED
      BY <1>4, <2>1, <3>1, <3>2
  <2>2. QED
    BY <2>1
<1>10. \A k \in 1 .. n : t[k + 2] = DentryOf(img, s[f[k]].inum, s[f[k]].name)
  BY <1>5, <1>8 DEF E
<1>11. \A j \in Live(t) : j \in {1, 2} \/ \E k \in 1 .. n : j = k + 2
  <2>1. ASSUME NEW j \in Live(t), j \notin {1, 2} PROVE \E k \in 1 .. n : j = k + 2
    <3>1. j \in 1 .. n + 2
      BY <1>7 DEF Live
    <3>2. j - 2 \in 1 .. n /\ j = (j - 2) + 2
      BY <2>1, <3>1
    <3>3. QED
      BY <3>2
  <2>2. QED
    BY <2>1
<1>12. Copied(img, d, t, n, f)
  BY <1>4, <1>7, <1>9, <1>10, <1>11 DEF Copied, s, first, second
<1>13. QED
  BY <1>12 DEF s, t

\* It holds no name twice, and no name that was not live before.
LEMMA ConvertedDistinct ==
  ASSUME NEW img \in Image, NEW d \in Inum,
         Distinct(img.inode[d].ents), Plain(img.inode[d].ents)
  PROVE  /\ Distinct(ConvertedEnts(img, d))
         /\ \A name \in Names :
              Absent(img.inode[d].ents, name) => Absent(ConvertedEnts(img, d), name)
<1> DEFINE s == img.inode[d].ents
           t == ConvertedEnts(img, d)
<1>1. PICK n \in Nat : \E f \in [1 .. n -> Live(s)] : Copied(img, d, t, n, f)
  BY ConvertedList
<1>2. PICK f \in [1 .. n -> Live(s)] : Copied(img, d, t, n, f)
  BY <1>1
<1> HIDE DEF t
<1>3. ASSUME NEW j \in Live(t)
      PROVE  \/ j = 1 /\ t[j].name = Dot
             \/ j = 2 /\ t[j].name = DotDot
             \/ \E k \in 1 .. n : j = k + 2 /\ t[j].name = s[f[k]].name
  <2>1. t[1].name = Dot /\ t[2].name = DotDot
    BY <1>2 DEF Copied, DentryOf
  <2>2. ASSUME NEW k \in 1 .. n PROVE t[k + 2].name = s[f[k]].name
    <3>1. t[k + 2] = DentryOf(img, s[f[k]].inum, s[f[k]].name)
      BY <1>2 DEF Copied
    <3>2. QED
      BY <3>1 DEF DentryOf
  <2>3. j \in {1, 2} \/ \E k \in 1 .. n : j = k + 2
    BY <1>2 DEF Copied
  <2> HIDE DEF s
  <2>4. QED
    BY <2>1, <2>2, <2>3
<1> HIDE DEF s
<1>4. \A k \in 1 .. n : f[k] \in Live(s) /\ s[f[k]].name \in Names
  BY DEF Plain, s
<1>5. Dot \notin Names /\ DotDot \notin Names /\ Dot # DotDot
  BY NamesAssumption DEF Dot, DotDot
<1>6. ASSUME NEW i \in Live(t), NEW j \in Live(t), t[i].name = t[j].name PROVE i = j
  <2>1. CASE t[i].name \notin Names
    BY <1>3, <1>4, <1>5, <1>6, <2>1
  <2>2. CASE t[i].name \in Names
    <3>1. PICK k \in 1 .. n : i = k + 2 /\ t[i].name = s[f[k]].name
      BY <1>3, <1>5, <1>6, <2>2
    <3>2. PICK l \in 1 .. n : j = l + 2 /\ t[j].name = s[f[l]].name
      BY <1>3, <1>5, <1>6, <2>2
    <3>3. f[k] = f[l]
      BY <1>4, <1>6, <3>1, <3>2 DEF Distinct, s
    <3>4. k = l
      BY <1>2, <3>3 DEF Copied
    <3>5. QED
      BY <3>1, <3>2, <3>4
  <2>3. QED
    BY <2>1, <2>2
<1>7. ASSUME NEW name \in Names, Absent(s, name) PROVE Absent(t, name)
  <2>1. ASSUME NEW j \in Live(t) PROVE t[j].name # name
    BY <1>3, <1>4, <1>5, <1>7 DEF Absent
  <2>2. QED
    BY <2>1 DEF Absent
<1>8. QED
  BY <1>6, <1>7 DEF Distinct, s, t

\* new_dentry, of a name the directory does not hold.
LEMMA NewDentryNames ==
  ASSUME NEW img \in Image, NEW d \in Inum, NEW i \in Inum, NEW name \in Comp,
         NamesInv(img), Fits(img, d), Absent(Ents(img, d), name),
         img.inode[d].inline => name \in Names
  PROVE  NamesInv(NewDentry(img, d, i, name))
<1> DEFINE e == DentryOf(img, i, name)
<1>1. e \in Dentry /\ e.name = name
  BY DentryOfType DEF DentryOf
<1>2. ASSUME NEW placed \in Image, NamesInv(placed) PROVE NamesInv(AddLink(placed, i))
  BY <1>2, AddLinkType, LinkThins, ThinsKeeps
<1> HIDE DEF e
<1>3. CASE ~ img.inode[d].inline
  <2>1. NewDentry(img, d, i, name) = AddLink(PutInBlock(img, d, e), i)
    BY <1>3 DEF NewDentry, e
  <2>2. QED
    BY <1>1, <1>2, <1>3, <2>1, PutInBlockType, PutInBlockNames
<1>4. CASE img.inode[d].inline /\ ~ InlineFull(img, d)
  <2> DEFINE s == img.inode[d].ents
  <2>1. NewDentry(img, d, i, name) = AddLink(AppendInline(img, d, e), i)
    BY <1>4 DEF NewDentry, e
  <2>2. s \in Seq(Dentry) /\ Distinct(s) /\ Plain(s) /\ Absent(s, name)
    BY <1>4 DEF NamesInv, Ents, Image, Inode
  <2>3. Distinct(Append(s, e)) /\ Plain(Append(s, e))
    BY <1>1, <1>4, <2>2, AppendDistinct
  <2>4. NamesInv([img EXCEPT !.inode[d].ents = Append(s, e)])
    <3> DEFINE t == Append(s, e)
    <3>1. Distinct(t) /\ Plain(t)
      BY <2>3
    <3> HIDE DEF t
    <3>2. NamesInv([img EXCEPT !.inode[d].ents = t])
      BY <3>1, EntsSetNames
    <3>3. QED
      BY <3>2 DEF t
  <2>5. NamesInv(AppendInline(img, d, e))
    BY <2>4 DEF AppendInline
  <2>6. QED
    BY <1>1, <1>2, <2>1, <2>5, AppendInlineType
<1>5. CASE img.inode[d].inline /\ InlineFull(img, d)
  <2> DEFINE new == ConvertInlineDirectory(img, d)
             b == FreeBlock(img)
  <2>1. NewDentry(img, d, i, name) = AddLink(PutInBlock(new, d, e), i)
    BY <1>5 DEF NewDentry, e
  <2>2. BlockAvailable(img)
    BY <1>5 DEF Fits
  <2>3. /\ b \in BlockNo /\ new \in Image /\ new.used = img.used
        /\ new.blocks[b] = ConvertedEnts(img, d)
        /\ \A c \in BlockNo \ {b} : new.blocks[c] = img.blocks[c]
        /\ new.inode[d] = [img.inode[d] EXCEPT !.inline = FALSE, !.p_inum = 0,
                                               !.ents = << >>, !.block = b]
        /\ \A j \in Inum \ {d} : new.inode[j] = img.inode[j]
    BY <2>2, Converted
  <2> HIDE DEF new, b
  <2>4. /\ new.inode[d].ents = << >> /\ ~ new.inode[d].inline
        /\ new.inode[d].block = b /\ new.inode[d].type = img.inode[d].type
    BY <2>3 DEF Image, Inode
  <2>5. Distinct(img.inode[d].ents) /\ Plain(img.inode[d].ents)
        /\ Absent(img.inode[d].ents, name) /\ name \in Names
    BY <1>5 DEF NamesInv, Ents
  <2>6. Distinct(ConvertedEnts(img, d)) /\ Absent(ConvertedEnts(img, d), name)
    BY <2>5, ConvertedDistinct
  <2>7. NamesInv(new)
    BY <2>3, <2>4, <2>6, EmptyList DEF NamesInv
  <2>8. Ents(new, d) = ConvertedEnts(img, d)
    BY <2>3, <2>4 DEF Ents, BlockNo
  <2>9. QED
    BY <1>1, <1>2, <2>1, <2>3, <2>4, <2>6, <2>7, <2>8, PutInBlockType, PutInBlockNames
<1>6. QED
  BY <1>3, <1>4, <1>5

\* alloc_inode, of an inode without a type; the other directories are as before.
LEMMA AllocInodeNames ==
  ASSUME NEW img \in Image, NEW i \in Inum, NEW type \in Types, NamesInv(img)
  PROVE  /\ NamesInv(AllocInode(img, i, type))
         /\ \A d \in Inum \ {i} :
              /\ AllocInode(img, i, type).inode[d] = img.inode[d]
              /\ Ents(AllocInode(img, i, type), d) = Ents(img, d)
<1> DEFINE new == AllocInode(img, i, type)
<1>1. /\ new.used = img.used \union {i} /\ new.blocks = img.blocks
      /\ new.inode[i].ents = << >>
      /\ \A j \in Inum \ {i} : new.inode[j] = img.inode[j]
  BY DEF AllocInode, ZeroInode, Image
<1> HIDE DEF new
<1>2. NamesInv(new)
  BY <1>1, EmptyList DEF NamesInv
<1>3. \A d \in Inum \ {i} : Ents(new, d) = Ents(img, d)
  BY <1>1 DEF Ents
<1>4. QED
  BY <1>1, <1>2, <1>3 DEF new

\* An inode that get_free_inum returns has no type.
LEMMA FreeInumUnused ==
  ASSUME NEW img \in Image, FreeInum(img) # 0 PROVE FreeInum(img) \in Inum \ img.used
<1>1. Inum \ img.used \in SUBSET Nat /\ Inum \ img.used # {}
  BY ZeroInum DEF FreeInum
<1>2. \E i \in Inum \ img.used : \A j \in Inum \ img.used : i <= j
  BY <1>1, NatMinimum
<1>3. QED
  BY <1>2 DEF FreeInum

\* init_dir_inode.
LEMMA InitDirInodeThins ==
  ASSUME NEW img \in Image, NEW d \in Inum, NEW parent \in Inum
  PROVE  Thins(InitDirInode(img, d, parent), img)
<1> DEFINE one == [img EXCEPT !.inode[d].p_inum = parent]
           two == AddLink(one, d)
<1>1. one \in Image /\ Thins(one, img)
  BY ParentSet, ParentThins
<1>2. InitDirInode(img, d, parent) = AddLink(two, parent)
  BY DEF InitDirInode
<1> HIDE DEF one
<1>3. two \in Image /\ Thins(two, img)
  BY <1>1, AddLinkType, LinkThins, ThinsTrans
<1> HIDE DEF two
<1>4. QED
  BY <1>2, <1>3, LinkThins, ThinsTrans

\* do_creat.
LEMMA DoCreatNames ==
  ASSUME NEW img \in Image, NEW dir \in Inum, NEW i \in Inum \ {dir}, NEW name \in Comp,
         NEW type \in Types, NamesInv(img), Fits(AllocInode(img, i, type), dir),
         Absent(Ents(img, dir), name), img.inode[dir].inline => name \in Names
  PROVE  NamesInv(DoCreat(img, dir, i, name, type))
<1> DEFINE first == AllocInode(img, i, type)
           named == NewDentry(first, dir, i, name)
<1>1. DoCreat(img, dir, i, name, type) \in {named, InitDirInode(named, i, dir)}
  BY DEF DoCreat
<1>2. /\ first \in Image /\ NamesInv(first) /\ Fits(first, dir)
      /\ Absent(Ents(first, dir), name)
      /\ first.inode[dir].inline => name \in Names
  BY AllocInodeType, AllocInodeNames
<1> HIDE DEF first
<1>3. named \in Image /\ NamesInv(named)
  BY <1>2, NewDentryType, NewDentryNames
<1> HIDE DEF named
<1>4. NamesInv(InitDirInode(named, i, dir))
  BY <1>3, InitDirInodeType, InitDirInodeThins, ThinsKeeps
<1>5. QED
  BY <1>1, <1>3, <1>4

\* update_dir_inode.
LEMMA UpdateDirInodeThins ==
  ASSUME NEW img \in Image, NEW d \in Inum, NEW parent \in Inum
  PROVE  Thins(UpdateDirInode(img, d, parent), img)
<1> DEFINE b == img.inode[d].block
           s == SetDotInum(img.blocks[b], Dot, d)
           t == SetDotInum(s, DotDot, parent)
           new == [img EXCEPT !.blocks[b] = t]
<1>1. Thins([img EXCEPT !.inode[d].p_inum = parent], img)
  BY ParentThins
<1>2. ASSUME b \in BlockNo PROVE Thins(new, img)
  <2>1. img.blocks[b] \in Seq(Dentry)
    BY <1>2 DEF Image
  <2>2. Thinner(s, img.blocks[b]) /\ s \in Seq(Dentry)
    BY <2>1, SetDotThins, SetDotInumType
  <2> HIDE DEF s
  <2>3. Thinner(t, img.blocks[b])
    BY <2>2, SetDotThins, ThinnerTrans
  <2> HIDE DEF t, b
  <2>4. new.used = img.used /\ new.inode = img.inode
        /\ \A c \in BlockNo : new.blocks[c] = IF c = b THEN t ELSE img.blocks[c]
    BY DEF Image
  <2> HIDE DEF new
  <2>5. QED
    BY <2>3, <2>4, ThinnerSame DEF Thins
<1>3. ASSUME b \notin BlockNo PROVE Thins(new, img)
  <2> HIDE DEF b, t
  <2>1. new = img
    BY <1>3 DEF Image
  <2>2. QED
    BY <2>1, ThinsSame
<1>4. Thins(new, img)
  BY <1>2, <1>3
<1>5. UpdateDirInode(img, d, parent) \in
        {img, [img EXCEPT !.inode[d].p_inum = parent], new}
  BY DEF UpdateDirInode
<1> HIDE DEF new
<1>6. QED
  BY <1>1, <1>4, <1>5, ThinsSame

-----------------------------------------------------------------------------
(* Lookups.                                                                *)

\* A directory that do_lookup stored is one; it does not hold the name, or
\* holds it where the pointer leads.
Says(img, found, name) ==
  found.pi > 0 =>
    LET k == FindDent(Ents(img, found.pi), name)
    IN  /\ img.inode[found.pi].type = "DIR"
        /\ found.dent = Null =>
             /\ Absent(Ents(img, found.pi), name)
             /\ img.inode[found.pi].inline => name \in Names
        /\ found.dent # Null /\ name \in Names =>
             k # 0 /\ found.dent = EntPtr(img, found.pi, k)

LEMMA FindNothing ==
  ASSUME NEW s \in Seq(Dentry), NEW name, FindDent(s, name) = 0 PROVE Absent(s, name)
<1> DEFINE hits == {k \in Live(s) : s[k].name = name}
<1>1. ASSUME hits # {} PROVE FALSE
  <2>1. hits \in SUBSET Nat /\ 0 \notin hits
    BY DEF Live
  <2>2. \E k \in hits : \A j \in hits : k <= j
    <3> HIDE DEF hits
    <3>1. QED
      BY <1>1, <2>1, NatMinimum
  <2>3. FindDent(s, name) \in hits
    BY <1>1, <2>2 DEF FindDent
  <2>4. QED
    BY <2>1, <2>3
<1>2. QED
  BY <1>1 DEF Absent

\* The last turn of the loop of do_lookup.
LEMMA LastStepSays ==
  ASSUME NEW img \in Image, NEW at \in Found, NEW c \in Comp
  PROVE  Says(img, LookupStep(img, at, c, TRUE), c)
<1> DEFINE iprev == Deref(img, at.dummy, at.prev).inum
           inline == img.inode[iprev].inline
           k == FindDent(Ents(img, iprev), c)
           dent == IF inline /\ c = Dot THEN at.prev
                   ELSE IF inline /\ c = DotDot THEN DummyPtr
                   ELSE IF k = 0 THEN Null ELSE EntPtr(img, iprev, k)
           new == LookupStep(img, at, c, TRUE)
<1>1. at.prev \in Ptr /\ at.dummy \in Inum
  BY DEF Found
<1>2. iprev \in Inum
  BY <1>1, DerefType DEF Dentry
<1>3. CASE img.inode[iprev].type # "DIR"
  <2>1. new.pi = Uninit
    BY <1>3 DEF LookupStep, Found
  <2> HIDE DEF new
  <2>2. ~ (new.pi > 0)
    BY <2>1 DEF Uninit
  <2>3. Says(img, new, c)
    BY <2>2 DEF Says
  <2>4. QED
    BY <2>3 DEF new
<1>4. CASE img.inode[iprev].type = "DIR"
  <2>1. new.pi = iprev /\ new.dent = dent
    BY <1>4 DEF LookupStep
  <2>2. Null \notin Ptr
    BY DEF Null, Ptr, SlotPtr, RootPtr, DummyPtr
  <2>3. Dot \notin Names /\ DotDot \notin Names
    BY NamesAssumption
  <2>4. k = 0 => Absent(Ents(img, iprev), c)
    BY <1>2, EntsType, FindNothing
  <2>5. k = 0 \/ k \in 1 .. Len(Ents(img, iprev))
    BY <1>2, EntsType, FindDentResult DEF Live
  <2>6. k # 0 => EntPtr(img, iprev, k) \in Ptr
    BY <1>2, <2>5, EntPtrType
  <2>7. c \in Names \/ c = Dot \/ c = DotDot
    BY DEF Comp
  <2> HIDE DEF new, iprev, k
  <2>8. ASSUME new.dent = Null PROVE k = 0 /\ (inline => c \in Names)
    BY <1>1, <2>1, <2>2, <2>6, <2>7, <2>8, PlainPtr
  <2>9. ASSUME new.dent # Null, c \in Names
        PROVE  k # 0 /\ new.dent = EntPtr(img, iprev, k)
    BY <2>1, <2>3, <2>9
  <2>10. QED
    BY <1>4, <2>1, <2>4, <2>8, <2>9 DEF Says, new, k
<1>5. QED
  BY <1>3, <1>4

\* do_lookup.
LEMMA LookupFromSays ==
  ASSUME NEW img \in Image, NEW path \in Path, NEW start \in Found, start.pi = 0
  PROVE  LET found == LookupFrom(img, path, start)
         IN  found.pi > 0 => path.comp # << >> /\ Says(img, found, Filename(path))
<1>1. CASE path.comp = << >>
  BY <1>1 DEF LookupFrom
<1>2. CASE Len(path.comp) = 1 /\ path.comp # << >> /\ path.comp[1] \in Comp
  <2>1. /\ LookupFrom(img, path, start) = LookupStep(img, start, path.comp[1], TRUE)
        /\ Filename(path) = path.comp[1]
    BY <1>2 DEF LookupFrom, Filename
  <2>2. QED
    BY <1>2, <2>1, LastStepSays
<1>3. CASE /\ Len(path.comp) = 2 /\ path.comp # << >>
           /\ path.comp[1] \in Comp /\ path.comp[2] \in Comp
  <2> DEFINE mid == LookupStep(img, start, path.comp[1], FALSE)
  <2>1. mid \in Found
    BY <1>3, LookupStepType
  <2>2. mid.done => mid.pi \in {0, Uninit}
    BY DEF LookupStep, Found
  <2>3. Len(path.comp) # 1 /\ Filename(path) = path.comp[2]
    BY <1>3 DEF Filename
  <2>4. LookupFrom(img, path, start) = LookupSecond(img, path, mid)
    BY ONLY <1>3, <2>3 DEF LookupFrom
  <2> HIDE DEF mid
  <2>5. CASE mid.done
    <3>1. LookupFrom(img, path, start) = mid
      BY <2>4, <2>5 DEF LookupSecond
    <3>2. ~ (mid.pi > 0)
      BY <2>2, <2>5 DEF Uninit
    <3>3. QED
      BY <3>1, <3>2
  <2>6. CASE ~ mid.done
    <3>1. LookupFrom(img, path, start) = LookupStep(img, mid, path.comp[2], TRUE)
      BY <2>4, <2>6 DEF LookupSecond
    <3>2. QED
      BY <1>3, <2>1, <2>3, <3>1, LastStepSays
  <2>7. QED
    BY <2>5, <2>6
<1>4. QED
  BY <1>1, <1>2, <1>3, PathCases

LEMMA LookupSays ==
  ASSUME TypeOK, NEW path \in Path, NEW dm \in Inum,
         NEW found \in {Lookup(path), LookupAfter(path, dm)}, found.pi > 0
  PROVE  Filename(path) \in Comp /\ path.comp # << >> /\ Says(image, found, Filename(path))
<1>1. LookupStart(path) \in Found /\ LookupStart(path).pi = 0
  BY PlainPtr, ZeroInum DEF TypeOK, LookupStart, Found
<1>2. [LookupStart(path) EXCEPT !.dummy = dm] \in Found
      /\ [LookupStart(path) EXCEPT !.dummy = dm].pi = 0
  BY <1>1 DEF Found
<1>3. image \in Image
  BY DEF TypeOK
<1>4. path.comp # << >> /\ Says(image, found, Filename(path))
  BY <1>1, <1>2, <1>3, LookupFromSays DEF Lookup, LookupAfter
<1>5. QED
  BY <1>4, FilenameType

-----------------------------------------------------------------------------
(* The calls.                                                              *)

\* The image fs_rename makes.
LEMMA RenamedNames ==
  ASSUME NEW img \in Image, NEW dm \in Inum, NEW olddent \in Ptr \union {Null},
         NEW found \in Found, NEW name \in Names, NamesInv(img),
         Says(img, found, name), found.pi > 0,
         Fits(BeforeMove(img, dm, olddent, found.dent), found.pi)
  PROVE  NamesInv(Renamed(img, dm, olddent, found.dent, found.pi, name))
<1> DEFINE i == Deref(img, dm, olddent).inum
           newdir == found.pi
           overwritten == IF found.dent = Null THEN img ELSE UnlinkDent(img, dm, found.dent)
           linked == AddLink(overwritten, i)
           unlinked == UnlinkDent(linked, dm, olddent)
           made == NewDentry(unlinked, newdir, i, name)
           moved == DropLink(made, i)
<1>1. i \in Inum /\ newdir \in Inum /\ found.dent \in Ptr \union {Null} /\ name \in Comp
  BY DerefType DEF Dentry, Found, Uninit, Comp
<1>2. overwritten \in Image /\ NamesInv(overwritten)
  BY <1>1, UnlinkDentType, UnlinkDentThins, ThinsKeeps
<1>3. Absent(Ents(overwritten, newdir), name)
  <2>1. CASE found.dent = Null
    BY <2>1 DEF Says
  <2>2. CASE found.dent # Null
    <3>1. /\ FindDent(Ents(img, newdir), name) # 0
          /\ found.dent = EntPtr(img, newdir, FindDent(Ents(img, newdir), name))
      BY <2>2 DEF Says
    <3>2. QED
      BY <1>1, <2>2, <3>1, UnlinkedAbsent
  <2>3. QED
    BY <2>1, <2>2
<1>4. /\ Fits(unlinked, newdir)
      /\ Renamed(img, dm, olddent, found.dent, newdir, name) = UpdateDirInode(moved, i, newdir)
  BY DEF BeforeMove, Renamed
<1> HIDE DEF i, overwritten, newdir
<1>5. linked \in Image /\ NamesInv(linked) /\ Absent(Ents(linked, newdir), name)
  BY <1>1, <1>2, <1>3, AddLinkType, LinkThins, ThinsKeeps
<1> HIDE DEF linked
<1>6. unlinked \in Image /\ NamesInv(unlinked) /\ Absent(Ents(unlinked, newdir), name)
  BY <1>1, <1>5, UnlinkDentType, UnlinkDentThins, ThinsKeeps
<1> HIDE DEF unlinked
<1>7. made \in Image /\ NamesInv(made)
  BY <1>1, <1>4, <1>6, NewDentryType, NewDentryNames
<1> HIDE DEF made
<1>8. moved \in Image /\ NamesInv(moved)
  BY <1>1, <1>7, DropLinkType, LinkThins, ThinsKeeps
<1> HIDE DEF moved
<1>9. NamesInv(UpdateDirInode(moved, i, newdir))
  BY <1>1, <1>8, UpdateDirInodeType, UpdateDirInodeThins, ThinsKeeps
<1>10. QED
  BY <1>4, <1>9 DEF newdir

\* Making an inode with a name, in a directory do_lookup stored.
LEMMA CreatedNames ==
  ASSUME NEW img \in Image, NEW found \in Found, NEW name \in Comp, NEW i \in Inum,
         NEW type \in {"REG", "DIR", "SYM"}, NamesInv(img), Says(img, found, name),
         found.pi > 0, found.dent = Null, i \notin img.used,
         Fits(AllocInode(img, i, type), found.pi)
  PROVE  NamesInv(DoCreat(img, found.pi, i, name, type))
<1>1. found.pi \in Inum /\ type \in Types
  BY DEF Found, Uninit, Types
<1>2. i # found.pi
  BY <1>1 DEF NamesInv, Says
<1>3. QED
  BY <1>1, <1>2, DoCreatNames DEF Says

\* fs_creat and fs_mkdir.
LEMMA CreateNames ==
  ASSUME TypeOK, NEW path \in Path, NEW type \in {"REG", "DIR"}, Create(path, type),
         NamesInv(image)
  PROVE  NamesInv(image')
<1> DEFINE found == Lookup(path)
           i == FreeInum(image)
<1>1. found \in Found /\ image \in Image
  BY LookupType, ZeroInum DEF TypeOK
<1>2. \/ image' = image
      \/ /\ found.dent = Null /\ found.pi > 0 /\ i # 0
         /\ Fits(AllocInode(image, i, type), found.pi)
         /\ image' = DoCreat(image, found.pi, i, Filename(path), type)
  BY DEF Create, RefuseCreate, Fail, Done, Crash
<1>3. ASSUME found.pi > 0 PROVE Filename(path) \in Comp /\ Says(image, found, Filename(path))
  BY <1>3, LookupSays, ZeroInum
<1>4. i # 0 => i \in Inum \ image.used
  BY <1>1, FreeInumUnused
<1> HIDE DEF found, i
<1>5. QED
  BY <1>1, <1>2, <1>3, <1>4, CreatedNames

\* fs_link.
LEMMA LinkNames ==
  ASSUME TypeOK, NEW old \in Path, NEW new \in Path, Link(old, new), NamesInv(image)
  PROVE  NamesInv(image')
<1> DEFINE source == Lookup(old)
           i == Deref(image, source.dummy, source.dent).inum
           target == LookupAfter(new, source.dummy)
           dir == target.pi
<1>1. source \in Found /\ image \in Image
  BY LookupType, ZeroInum DEF TypeOK
<1>2. source.dummy \in Inum /\ i \in Inum
  BY <1>1, FoundType
<1>3. target \in Found
  BY <1>2, LookupType
<1>4. \/ image' = image
      \/ image' = AddLink(image, i)
      \/ /\ target.dent = Null /\ dir > 0 /\ Fits(image, dir)
         /\ image' = NewDentry(image, dir, i, Filename(new))
  BY DEF Link, Fail, Done, Crash
<1>5. ASSUME dir > 0 PROVE Filename(new) \in Comp /\ Says(image, target, Filename(new))
  BY <1>2, <1>5, LookupSays
<1> HIDE DEF source, i, target
<1>6. dir > 0 => dir \in Inum
  BY <1>3, FoundType
<1>7. NamesInv(AddLink(image, i))
  BY <1>1, <1>2, AddLinkType, LinkThins, ThinsKeeps
<1>8. ASSUME target.dent = Null, dir > 0, Fits(image, dir)
      PROVE  NamesInv(NewDentry(image, dir, i, Filename(new)))
  <2>1. /\ Absent(Ents(image, dir), Filename(new))
        /\ image.inode[dir].inline => Filename(new) \in Names
    BY <1>5, <1>8 DEF Says
  <2> HIDE DEF dir
  <2>2. QED
    BY <1>1, <1>2, <1>5, <1>6, <1>8, <2>1, NewDentryNames
<1>9. QED
  BY <1>4, <1>7, <1>8

\* fs_symlink.
LEMMA SymlinkNames ==
  ASSUME TypeOK, NEW path \in Path, Symlink(path), NamesInv(image)
  PROVE  NamesInv(image')
<1> DEFINE found == Lookup(path)
           name == Filename(path)
           i == FreeInum(image)
           first == AllocInode(image, i, "SYM")
           j == FreeInum(first)
           made == DoCreat(first, found.pi, j, name, "SYM")
           inlined == [made EXCEPT !.inode[j].inline = TRUE]
<1>1. found \in Found /\ image \in Image
  BY LookupType, ZeroInum DEF TypeOK
<1>2. \/ image' = image
      \/ found.pi > 0 /\ i # 0 /\ image' = first
      \/ /\ found.dent = Null /\ found.pi > 0 /\ i # 0 /\ j # 0
         /\ Fits(AllocInode(first, j, "SYM"), found.pi)
         /\ image' = inlined
  BY DEF Symlink, Fail, Done
<1>3. ASSUME found.pi > 0 PROVE name \in Comp /\ Says(image, found, name)
  BY <1>3, LookupSays, ZeroInum
<1>4. found.pi > 0 => found.pi \in Inum
  BY <1>1, FoundType
<1>5. i # 0 => i \in Inum \ image.used
  BY <1>1, FreeInumUnused
<1> HIDE DEF found, i, name
<1>6. i # 0 => first \in Image /\ NamesInv(first)
  BY <1>1, <1>5, AllocInodeType, AllocInodeNames DEF Types
<1>7. ASSUME found.pi > 0, i # 0 PROVE Says(first, found, name)
  <2>1. i # found.pi /\ i \in Inum
    BY <1>3, <1>5, <1>7 DEF NamesInv, Says
  <2>2. first.inode[found.pi] = image.inode[found.pi]
        /\ Ents(first, found.pi) = Ents(image, found.pi)
    BY <1>1, <1>4, <1>7, <2>1, AllocInodeNames DEF Types
  <2>3. \A k : EntPtr(first, found.pi, k) = EntPtr(image, found.pi, k)
    BY <2>2 DEF EntPtr
  <2> HIDE DEF first
  <2>4. QED
    BY <1>3, <1>7, <2>2, <2>3 DEF Says
<1>8. i # 0 /\ j # 0 => j \in Inum \ first.used
  BY <1>6, FreeInumUnused
<1> HIDE DEF first, j
<1>9. ASSUME found.dent = Null, found.pi > 0, i # 0, j # 0,
             Fits(AllocInode(first, j, "SYM"), found.pi)
      PROVE  NamesInv(inlined)
  <2>1. NamesInv(made)
    BY <1>1, <1>3, <1>6, <1>7, <1>8, <1>9, CreatedNames
  <2>2. made \in Image
    BY <1>3, <1>4, <1>6, <1>8, <1>9, DoCreatType DEF Types
  <2> HIDE DEF made
  <2>3. inlined.used = made.used /\ inlined.blocks = made.blocks
    BY <2>2 DEF Image
  <2>4. \A k \in Inum : /\ inlined.inode[k].ents = made.inode[k].ents
                        /\ inlined.inode[k].type = made.inode[k].type
    BY <2>2 DEF Image, Inode
  <2> HIDE DEF inlined
  <2>5. QED
    BY <2>1, <2>3, <2>4 DEF NamesInv
<1>10. QED
  BY <1>2, <1>6, <1>9

\* fs_unlink and fs_rmdir.
LEMMA UnlinkNames ==
  ASSUME TypeOK, NEW path \in Path, Unlink(path) \/ Rmdir(path), NamesInv(image)
  PROVE  NamesInv(image')
<1> DEFINE found == Lookup(path)
           after == UnlinkDent(image, found.dummy, found.dent)
<1>1. found \in Found /\ image \in Image
  BY LookupType, ZeroInum DEF TypeOK
<1>2. image' \in {image, after, DropLink(after, found.pi)}
  BY DEF Unlink, Rmdir, Fail, Done
<1>3. found.dummy \in Inum /\ found.dent \in Ptr \union {Null}
      /\ found.pi \in Inum \union {Uninit}
  BY <1>1, FoundType
<1> HIDE DEF found
<1>4. after \in Image /\ NamesInv(after)
  BY <1>1, <1>3, UnlinkDentType, UnlinkDentThins, ThinsKeeps
<1> HIDE DEF after
<1>5. DropLink(after, found.pi) \in Image
  <2>1. found.pi \notin Inum => DropLink(after, found.pi) = after
    BY <1>4 DEF DropLink, Image
  <2>2. QED
    BY <1>4, <2>1, DropLinkType
<1>6. NamesInv(DropLink(after, found.pi))
  BY <1>4, <1>5, LinkThins, ThinsKeeps
<1>7. QED
  BY <1>2, <1>4, <1>6

\* fs_rename.
LEMMA RenameNames ==
  ASSUME TypeOK, NEW old \in Path, NEW new \in Path, Rename(old, new), NamesInv(image),
         new.comp # << >> => Filename(new) \in Names
  PROVE  NamesInv(image')
<1> DEFINE source == Lookup(old)
           target == LookupAfter(new, source.dummy)
           name == Filename(new)
<1>1. source \in Found /\ image \in Image
  BY LookupType, ZeroInum DEF TypeOK
<1>2. source.dummy \in Inum /\ source.dent \in Ptr \union {Null}
  BY <1>1, FoundType
<1>3. target \in Found
  BY <1>2, LookupType
<1>4. \/ image' = image
      \/ /\ target.pi > 0
         /\ Fits(BeforeMove(image, target.dummy, source.dent, target.dent), target.pi)
         /\ image' = Renamed(image, target.dummy, source.dent, target.dent,
                             target.pi, name)
  BY DEF Rename, Fail, Done, MayRename
<1>5. ASSUME target.pi > 0 PROVE name \in Names /\ Says(image, target, name)
  BY <1>2, <1>5, LookupSays
<1> HIDE DEF source, target, name
<1>6. target.dummy \in Inum
  BY <1>3, FoundType
<1>7. QED
  BY <1>1, <1>2, <1>3, <1>4, <1>5, <1>6, RenamedNames

\* init_fs writes no name at all.
LEMMA NewImageNames == NamesInv(NewImage)
<1> DEFINE first == AllocInode(EmptyImage, 1, "DIR")
           made == InitDirInode(first, 1, 1)
<1>1. EmptyImage \in Image
  BY ZeroInodeType, ZeroInum DEF EmptyImage, Image
<1>2. NamesInv(EmptyImage)
  BY EmptyList DEF NamesInv, EmptyImage, ZeroInode
<1>3. first \in Image /\ NamesInv(first)
  BY <1>1, <1>2, ZeroInum, AllocInodeType, AllocInodeNames DEF Types
<1> HIDE DEF first
<1>4. made \in Image /\ NamesInv(made)
  BY <1>3, ZeroInum, InitDirInodeType, InitDirInodeThins, ThinsKeeps
<1> HIDE DEF made
<1>5. NewImage = [made EXCEPT !.rootdir = 1]
  BY DEF NewImage, made, first
<1>6. NewImage.inode = made.inode /\ NewImage.used = made.used
      /\ NewImage.blocks = made.blocks
  BY <1>4, <1>5 DEF Image
<1>7. QED
  BY <1>4, <1>6 DEF NamesInv

\* The new path of every rename ends in a name: fs_rename refuses a dot as the
\* old name but not as the new one, and would enter it a second time.
RenamesToNames ==
  \A pair \in Pairs["rename"] : pair[2].comp # << >> => Filename(pair[2]) \in Names

\* No sequence of calls, crashes and mounts makes a directory hold a name
\* twice, also not across unlinked entries, conversions and stale pointers.
THEOREM NamesUniqueCorrect ==
  ASSUME RenamesToNames PROVE Spec => []NamesUnique
<1> DEFINE Inv == NamesInv(image)
<1>1. Init => Inv
  BY NewImageNames DEF Init
<1>2. TypeOK /\ Inv /\ [Next]_vars => Inv'
  <2> SUFFICES ASSUME TypeOK, NamesInv(image), [Next]_vars PROVE NamesInv(image')
    OBVIOUS
  <2>1. /\ \A c \in AllCalls : Args[c] \subseteq Path
        /\ \A c \in {"link", "rename"} : Pairs[c] \subseteq Path \X Path
    BY HfsAssumption
  <2>2. ASSUME NEW p \in Args["creat"], Creat(p) PROVE NamesInv(image')
    BY <2>1, <2>2, CreateNames DEF Creat, AllCalls
  <2>3. ASSUME NEW p \in Args["mkdir"], Mkdir(p) PROVE NamesInv(image')
    BY <2>1, <2>3, CreateNames DEF Mkdir, AllCalls
  <2>4. ASSUME NEW p \in Args["unlink"], Unlink(p) PROVE NamesInv(image')
    BY <2>1, <2>4, UnlinkNames DEF AllCalls
  <2>5. ASSUME NEW p \in Args["rmdir"], Rmdir(p) PROVE NamesInv(image')
    BY <2>1, <2>5, UnlinkNames DEF AllCalls
  <2>6. ASSUME NEW p \in Args["symlink"], Symlink(p) PROVE NamesInv(image')
    BY <2>1, <2>6, SymlinkNames DEF AllCalls
  <2>7. ASSUME NEW p \in Pairs["link"], Link(p[1], p[2]) PROVE NamesInv(image')
    BY <2>1, <2>7, LinkNames
  <2>8. ASSUME NEW p \in Pairs["rename"], Rename(p[1], p[2]) PROVE NamesInv(image')
    BY <2>1, <2>8, RenameNames DEF RenamesToNames
  <2>9. ASSUME NEW p \in Args["stat"], Stat(p) PROVE NamesInv(image')
    BY <2>9 DEF Stat
  <2>10. ASSUME NEW p \in Args["chdir"], Chdir(p) PROVE NamesInv(image')
    BY <2>10 DEF Chdir, Fail
  <2>11. ASSUME NEW p \in Args["open"], Open(p) PROVE NamesInv(image')
    BY <2>11 DEF Open, Fail
  <2>12. ASSUME NEW fd \in Fds, Close(fd) PROVE NamesInv(image')
    BY <2>12 DEF Close
  <2>13. CASE Reset
    BY <2>13, NewImageNames DEF Reset
  <2>14. CASE Unmount
    BY <2>14 DEF Unmount
  <2>15. CASE Mount
    BY <2>15 DEF Mount
  <2>16. CASE UNCHANGED vars
    BY <2>16 DEF vars
  <2>17. QED
    BY <2>2, <2>3, <2>4, <2>5, <2>6, <2>7, <2>8, <2>9, <2>10, <2>11, <2>12,
       <2>13, <2>14, <2>15, <2>16 DEF Next
<1>3. TypeOK /\ Inv => NamesUnique
  <2> SUFFICES ASSUME TypeOK, NamesInv(image), NEW d \in Dirs PROVE Distinct(Ents(image, d))
    BY DEF NamesUnique, Entry, Distinct
  <2>1. d \in Inum
    BY DEF Dirs, TypeOK, Image
  <2>2. QED
    BY <2>1, EmptyList DEF NamesInv, Ents, TypeOK, Image, Inode
<1> HIDE DEF Inv
<1>4. QED
  BY <1>1, <1>2, <1>3, TypeCorrect, PTL DEF Spec
=============================================================================
