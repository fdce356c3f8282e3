------------------------------ MODULE HfsImage ------------------------------
(***************************************************************************)
(* The mapped image of the Hobbit File System: the inode table with its    *)
(* bitmap, the directory entries kept inside inodes and in data blocks,    *)
(* and the routines of src/fs.c that edit them.  The module has no         *)
(* variables.  An image is a record, and every static function of fs.c     *)
(* that writes to it is an operator from an image to an image, so that a   *)
(* system call is the composition of the calls its handler makes.          *)
(*                                                                         *)
(* Directory entries all have the same record length here, so an inline    *)
(* area is InlineSlots entries and a position in it is an index.  A        *)
(* regular directory has one data block: no call of the model makes an     *)
(* entry that would need a second one (StaysInBlock in Hfs).  Files hold   *)
(* no data here; their blocks are those of FileIO.                         *)
(***************************************************************************)
EXTENDS Integers, Sequences, FiniteSets

CONSTANTS
  MaxInum,      \* the largest inode number the inode bitmap can hand out
  Names,        \* the file names, other than "." and ".."
  InlineSlots,  \* directory entries that fit in the data area of an inode
  MaxBlocks,    \* data blocks of the model
  DataStart,    \* the number of the first of them (sb->datastart)
  NameWords,    \* the words that each name is made of, in a directory entry
  LinkWords,    \* the words that the text of a symbolic link is made of
  BlockSlots,   \* directory entries that fit in a data block
  NlinkMod      \* nlink counts modulo this (2^32 in the code)

ASSUME HfsImageAssumption ==
  /\ MaxInum \in Nat \ {0}
  /\ InlineSlots \in Nat
  /\ MaxBlocks \in Nat
  /\ DataStart \in Nat
  /\ NameWords \in [Names -> SUBSET Nat] /\ LinkWords \subseteq Nat
  /\ BlockSlots \in Nat /\ InlineSlots + 3 <= BlockSlots
  /\ NlinkMod \in Nat /\ NlinkMod > 1

Dot == "."
DotDot == ".."
NoName == ""

ASSUME NamesAssumption == Names \cap {Dot, DotDot, NoName} = {}

Inum == 0 .. MaxInum
Types == {"UNUSED", "REG", "DIR", "SYM"}
Comp == Names \union {Dot, DotDot}

\* Data block n is the one bit n - 1 of the bitmap stands for.  The code calls
\* it by its place on the device, DataStart + n - 1.
BlockNo == 1 .. MaxBlocks

\* struct hfs_dentry.  inum = 0 marks an entry that is not in use.
Dentry == [inum : Inum, name : Comp \union {NoName}, file_type : Types]

\* What is read where no entry was ever written: zeroed memory.
ZeroDentry == [inum |-> 0, name |-> NoName, file_type |-> "UNUSED"]

\* struct hfs_inode.  inline is the I_INLINE flag, p_inum and ents are the
\* inline_dir member of the data union, and block is data.blocks[0].
Inode == [type : Types, nlink : 0 .. NlinkMod - 1, inline : BOOLEAN,
          p_inum : Inum, ents : Seq(Dentry), block : BlockNo \union {0}]

\* The image: inodes[] and inobitmap, the data blocks of directories and their
\* bitmap, and the root dentry and the counters of the superblock.
Image == [inode : [Inum -> Inode], used : SUBSET Inum,
          blocks : [BlockNo -> Seq(Dentry)], bitmap : SUBSET BlockNo,
          rootdir : Inum, inode_used : Int, inline_inodes : Int,
          ndirectories : Int, nfiles : Int]

AddLink(img, i) == [img EXCEPT !.inode[i].nlink = (@ + 1) % NlinkMod]
DropLink(img, i) ==
  [img EXCEPT !.inode[i].nlink = (@ + NlinkMod - 1) % NlinkMod]

\* A directory entry naming inode i, as init_dentry fills it in.
DentryOf(img, i, name) ==
  [inum |-> i, name |-> name, file_type |-> img.inode[i].type]

-----------------------------------------------------------------------------
(* Inodes.                                                                 *)

ZeroInode == [type |-> "UNUSED", nlink |-> 0, inline |-> FALSE,
              p_inum |-> 0, ents |-> << >>, block |-> 0]

\* get_free_inum: the lowest clear bit, or 0 when every bit is set.
FreeInum(img) ==
  IF Inum \subseteq img.used THEN 0
  ELSE CHOOSE i \in Inum \ img.used : \A j \in Inum \ img.used : i <= j

\* alloc_inode once get_free_inum returned i: a directory starts out inline.
AllocInode(img, i, type) ==
  [img EXCEPT
     !.used = @ \union {i},
     !.inode = [@ EXCEPT ![i] = [ZeroInode EXCEPT !.type = type,
                                                  !.inline = (type = "DIR")]],
     !.inode_used = @ + 1,
     !.inline_inodes = IF type = "DIR" THEN @ + 1 ELSE @,
     !.ndirectories = IF type = "DIR" THEN @ + 1 ELSE @,
     !.nfiles = IF type = "REG" THEN @ + 1 ELSE @]

\* free_inode takes every nonzero word of the data area for the number of a
\* block, whatever the area holds: p_inum, the inums and the names in an inline
\* directory, the text of a symbolic link, and the place on the device of the
\* block of a regular directory.  (The word of an inline entry that has its
\* length and type is above 2^24, more than the bitmap has bits.)
NamesIn(s) == {s[k].name : k \in DOMAIN s}

FreedNumbers(inode) ==
  CASE inode.type = "DIR" /\ inode.inline ->
         {inode.p_inum} \union {inode.ents[k].inum : k \in DOMAIN inode.ents}
           \union UNION {NameWords[n] : n \in Names \cap NamesIn(inode.ents)}
    [] inode.type = "DIR" /\ ~ inode.inline /\ inode.block # 0 ->
         {DataStart + inode.block - 1}
    [] inode.type = "SYM" -> LinkWords
    [] OTHER -> {}

\* free_data_block(v) clears bit v of the bitmap, not the bit that stands for
\* the block at v.
ClearedBits(inode) == {b \in BlockNo : b - 1 \in FreedNumbers(inode) \ {0}}

\* (A fault: nfiles is not decremented.)
FreeInodeMiscounts(img, i) ==
  [img EXCEPT !.inode = [@ EXCEPT ![i] = ZeroInode], !.used = @ \ {i},
              !.inode_used = @ - 1]

\* free_inode when nlink = 0: the data area is zeroed, the flags stay.
FreeInode(img, i) ==
  LET inode == img.inode[i]
  IN  [img EXCEPT
         !.inode = [@ EXCEPT ![i] = [inode EXCEPT !.type = "UNUSED",
                                                  !.p_inum = 0,
                                                  !.ents = << >>,
                                                  !.block = 0]],
         !.used = @ \ {i},
         !.bitmap = @ \ ClearedBits(inode),
         !.inode_used = @ - 1,
         !.ndirectories = IF inode.type = "DIR" THEN @ - 1 ELSE @,
         !.nfiles = IF inode.type = "REG" THEN @ - 1 ELSE @]

-----------------------------------------------------------------------------
(* Pointers to directory entries.  A pointer is the place it points at: the *)
(* root dentry of the superblock, the static dummy dentry of do_lookup, a   *)
(* slot of the inline area of an inode, or a slot of a data block.          *)

Null == [at |-> "null"]
RootPtr == [at |-> "root"]
DummyPtr == [at |-> "dummy"]
InlinePtr(i, k) == [at |-> "inline", inum |-> i, slot |-> k]
BlockPtr(b, k) == [at |-> "block", block |-> b, slot |-> k]

SlotPtr == [at : {"inline"}, inum : Inum, slot : Nat \ {0}]
             \union [at : {"block"}, block : BlockNo, slot : Nat \ {0}]
Ptr == {RootPtr, DummyPtr} \union SlotPtr

\* The entries of a directory and the pointer to the k-th of them.
Ents(img, d) ==
  IF img.inode[d].inline THEN img.inode[d].ents
  ELSE IF img.inode[d].block = 0 THEN << >>
  ELSE img.blocks[img.inode[d].block]

EntPtr(img, d, k) ==
  IF img.inode[d].inline THEN InlinePtr(d, k)
  ELSE BlockPtr(img.inode[d].block, k)

SlotAt(s, k) == IF k \in 1 .. Len(s) THEN s[k] ELSE ZeroDentry

\* The dentry p points at now; dummy is the inum in the dummy dentry.
Deref(img, dummy, p) ==
  CASE p.at = "root"   -> [inum |-> img.rootdir, name |-> NoName, file_type |-> "DIR"]
    [] p.at = "dummy"  -> [inum |-> dummy, name |-> DotDot, file_type |-> "DIR"]
    [] p.at = "inline" -> SlotAt(img.inode[p.inum].ents, p.slot)
    [] p.at = "block"  -> SlotAt(img.blocks[p.block], p.slot)
    [] OTHER           -> ZeroDentry

\* dent->inum = i through a pointer into the image.
ClearSlot(s, k) == IF k \in 1 .. Len(s) THEN [s EXCEPT ![k].inum = 0] ELSE s

ClearDentry(img, p) ==
  CASE p.at = "root"   -> [img EXCEPT !.rootdir = 0]
    [] p.at = "inline" -> [img EXCEPT !.inode[p.inum].ents = ClearSlot(@, p.slot)]
    [] p.at = "block"  -> [img EXCEPT !.blocks[p.block] = ClearSlot(@, p.slot)]
    [] OTHER           -> img

\* (A fault: the inode is freed one link too early.)
UnlinkDentEarly(img, dummy, p) ==
  LET dent == Deref(img, dummy, p)
      dropped == DropLink(img, dent.inum)
  IN  IF dent.name \in {Dot, DotDot} THEN img
      ELSE ClearDentry(IF dropped.inode[dent.inum].nlink <= 1
                       THEN FreeInode(dropped, dent.inum) ELSE dropped, p)

\* (A fault: freeing the inode is taken to clear the entry.)
UnlinkDentKeepsEntry(img, dummy, p) ==
  LET dent == Deref(img, dummy, p)
      dropped == DropLink(img, dent.inum)
  IN  IF dent.name \in {Dot, DotDot} THEN img
      ELSE IF dropped.inode[dent.inum].nlink = 0
      THEN FreeInode(dropped, dent.inum) ELSE ClearDentry(dropped, p)

\* unlink_dent: refuses "." and "..", frees an inode whose count drops to 0.
UnlinkDent(img, dummy, p) ==
  LET dent == Deref(img, dummy, p)
      dropped == DropLink(img, dent.inum)
      freed == IF dropped.inode[dent.inum].nlink = 0
               THEN FreeInode(dropped, dent.inum) ELSE dropped
  IN  IF dent.name \in {Dot, DotDot} THEN img ELSE ClearDentry(freed, p)

-----------------------------------------------------------------------------
(* Directories.                                                            *)

Live(s) == {k \in 1 .. Len(s) : s[k].inum # 0}

\* The positions of the live entries in increasing order.
IsLiveOrder(s, f) ==
  /\ \A j, k \in DOMAIN f : j < k => f[j] < f[k]
  /\ {f[k] : k \in DOMAIN f} = Live(s)

LiveOrder(s) ==
  CHOOSE f \in UNION {[1 .. n -> 1 .. Len(s)] : n \in 0 .. Len(s)} :
    IsLiveOrder(s, f)

\* The entries convert_inline_directory copies.
LiveEnts(s) == [k \in DOMAIN LiveOrder(s) |-> s[LiveOrder(s)[k]]]

FreeBlock(img) ==
  CHOOSE b \in BlockNo \ img.bitmap : \A c \in BlockNo \ img.bitmap : b <= c

\* (A fault: the bit of the new block is not set.)
ConvertUnmarked(img, d) ==
  LET b == FreeBlock(img)
  IN  [img EXCEPT
         !.blocks[b] = << DentryOf(img, d, Dot),
                          DentryOf(img, img.inode[d].p_inum, DotDot) >>
                       \o LiveEnts(img.inode[d].ents),
         !.inode[d] = [@ EXCEPT !.inline = FALSE, !.p_inum = 0,
                                !.ents = << >>, !.block = b],
         !.inline_inodes = @ - 1]

\* (A fault: ".." is filled in like ".", from dir.)
ConvertLosesParent(img, d) ==
  LET b == FreeBlock(img)
  IN  [img EXCEPT
         !.bitmap = @ \union {b},
         !.blocks[b] = << DentryOf(img, d, Dot), DentryOf(img, d, DotDot) >>
                       \o LiveEnts(img.inode[d].ents),
         !.inode[d] = [@ EXCEPT !.inline = FALSE, !.p_inum = 0,
                                !.ents = << >>, !.block = b],
         !.inline_inodes = @ - 1]

\* (A fault: the copy stops one entry before the last.)
ConvertLosesLast(img, d) ==
  LET b == FreeBlock(img)
      n == Len(LiveEnts(img.inode[d].ents))
  IN  [img EXCEPT
         !.bitmap = @ \union {b},
         !.blocks[b] = << DentryOf(img, d, Dot),
                          DentryOf(img, img.inode[d].p_inum, DotDot) >>
                       \o SubSeq(LiveEnts(img.inode[d].ents), 1, n - 1),
         !.inode[d] = [@ EXCEPT !.inline = FALSE, !.p_inum = 0,
                                !.ents = << >>, !.block = b],
         !.inline_inodes = @ - 1]

\* convert_inline_directory: "." and ".." become real entries, the live
\* inline entries follow them in a new block, and the inline area is wiped.
ConvertInlineDirectory(img, d) ==
  LET b == FreeBlock(img)
      copied == [k \in 1 .. Len(LiveEnts(img.inode[d].ents)) |->
                   LET e == LiveEnts(img.inode[d].ents)[k]
                   IN  DentryOf(img, e.inum, e.name)]
  IN  [img EXCEPT
         !.bitmap = @ \union {b},
         !.blocks[b] = << DentryOf(img, d, Dot),
                          DentryOf(img, img.inode[d].p_inum, DotDot) >> \o copied,
         !.inode[d] = [@ EXCEPT !.inline = FALSE, !.p_inum = 0,
                                !.ents = << >>, !.block = b],
         !.inline_inodes = @ - 1]

InlineFull(img, d) == Len(img.inode[d].ents) >= InlineSlots

\* (A fault: an unlinked entry of an inline area is taken again.)
AppendReusing(img, d, e) ==
  LET s == img.inode[d].ents
      dead == 1 .. Len(s) \ Live(s)
  IN  IF dead = {} THEN [img EXCEPT !.inode[d].ents = Append(@, e)]
      ELSE [img EXCEPT !.inode[d].ents[CHOOSE k \in dead : TRUE] = e]

\* alloc_inline_dentry only ever appends: an unlinked entry that would be
\* large enough is passed over.
AppendInline(img, d, e) == [img EXCEPT !.inode[d].ents = Append(@, e)]

\* (A fault: an entry that is long enough is taken, in use or not.)
PutOverLast(s, e) ==
  IF s = << >> THEN << e >> ELSE [s EXCEPT ![Len(s)] = e]

\* alloc_dentry_from_block: the first unused entry, else the end of the list.
PutInSeq(s, e) ==
  IF Live(s) = 1 .. Len(s) THEN Append(s, e)
  ELSE [s EXCEPT ![CHOOSE k \in 1 .. Len(s) \ Live(s) :
                     \A j \in 1 .. Len(s) \ Live(s) : k <= j] = e]

PutInBlock(img, d, e) ==
  [img EXCEPT !.blocks[img.inode[d].block] = PutInSeq(@, e)]

\* (A fault: the link is not counted when the directory is converted.)
NewDentryUncounted(img, d, i, name) ==
  IF img.inode[d].inline /\ InlineFull(img, d)
  THEN PutInBlock(ConvertInlineDirectory(img, d), d, DentryOf(img, i, name))
  ELSE AddLink(IF img.inode[d].inline THEN AppendInline(img, d, DentryOf(img, i, name))
               ELSE PutInBlock(img, d, DentryOf(img, i, name)), i)

\* new_dentry, which also counts the link it makes.
NewDentry(img, d, i, name) ==
  LET placed ==
        IF ~ img.inode[d].inline
        THEN PutInBlock(img, d, DentryOf(img, i, name))
        ELSE IF ~ InlineFull(img, d)
        THEN AppendInline(img, d, DentryOf(img, i, name))
        ELSE PutInBlock(ConvertInlineDirectory(img, d), d, DentryOf(img, i, name))
  IN  AddLink(placed, i)

\* The bound of the model: a conversion finds a data block.
BlockAvailable(img) == BlockNo \ img.bitmap # {}

\* (A fault: the would-be ".." is not counted in the parent.)
InitDirUncounted(img, d, parent) ==
  AddLink([img EXCEPT !.inode[d].p_inum = parent], d)

\* init_dir_inode for a new (hence inline) directory.
InitDirInode(img, d, parent) ==
  AddLink(AddLink([img EXCEPT !.inode[d].p_inum = parent], d), parent)

\* do_creat after alloc_inode took inode i.
DoCreat(img, dir, i, name, type) ==
  LET named == NewDentry(AllocInode(img, i, type), dir, i, name)
  IN  IF type = "DIR" THEN InitDirInode(named, i, dir) ELSE named

\* (A fault: the last entry is not looked at.)
FindDentSkipsLast(s, name) ==
  LET hits == {k \in Live(s) \ {Len(s)} : s[k].name = name}
  IN  IF hits = {} THEN 0 ELSE CHOOSE k \in hits : \A j \in hits : k <= j

\* The first live entry called name, or 0.
FindDent(s, name) ==
  LET hits == {k \in Live(s) : s[k].name = name}
  IN  IF hits = {} THEN 0 ELSE CHOOSE k \in hits : \A j \in hits : k <= j

\* (A fault: only an inline directory learns of its new parent.)
UpdateInlineOnly(img, d, parent) ==
  IF img.inode[d].type = "DIR" /\ img.inode[d].inline
  THEN [img EXCEPT !.inode[d].p_inum = parent] ELSE img

\* update_dir_inode: point "." and ".." of a moved directory at the right place.
SetDotInum(s, name, i) == [s EXCEPT ![FindDent(s, name)].inum = i]

UpdateDirInode(img, d, parent) ==
  IF img.inode[d].type # "DIR" THEN img
  ELSE IF img.inode[d].inline THEN [img EXCEPT !.inode[d].p_inum = parent]
  ELSE [img EXCEPT !.blocks[img.inode[d].block] =
                     SetDotInum(SetDotInum(@, Dot, d), DotDot, parent)]

\* dir_isempty as fs_rmdir reads it: a nonzero result lets the call go on.
\* An inline directory yields -1 when an entry is live, a regular one
\* -ENOTEMPTY when its block has no entry but "." and "..".
DirIsEmptyResult(img, d) ==
  IF img.inode[d].inline
  THEN Live(img.inode[d].ents) # {}
  ELSE /\ img.inode[d].block # 0
       /\ \A k \in Live(Ents(img, d)) : Ents(img, d)[k].name \in {Dot, DotDot}

-----------------------------------------------------------------------------
\* init_superblock, init_bitmaps and init_rootdir on a zeroed image.
EmptyImage == [inode |-> [i \in Inum |-> ZeroInode], used |-> {0},
               blocks |-> [b \in BlockNo |-> << >>], bitmap |-> {},
               rootdir |-> 0, inode_used |-> 0, inline_inodes |-> 0,
               ndirectories |-> 0, nfiles |-> 0]

NewImage ==
  [InitDirInode(AllocInode(EmptyImage, 1, "DIR"), 1, 1) EXCEPT !.rootdir = 1]
=============================================================================
