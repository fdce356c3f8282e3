------------------------------- MODULE Layout -------------------------------
(***************************************************************************)
(* The regions of an image, and the bitmaps that hand out its inodes and   *)
(* blocks (src/fs.c), for images of any size.  The inodes are those of     *)
(* files that are created, written and removed.                            *)
(*                                                                         *)
(* sb, inobits, bits and held are in the image, which is a shared mapping: *)
(* they survive the process, also one that dies in a call.                 *)
(***************************************************************************)
EXTENDS Integers, FiniteSets, FiniteSetsExt

CONSTANTS
  BSize,      \* bytes in a block
  InodeSize,  \* bytes in an inode
  NBlocks,    \* blocks of a file
  Sizes,      \* the sizes of a new image, in bytes
  Amounts,    \* how many blocks a write allocates
  Writers,    \* the inodes of the files that are written
  Behind,     \* pages of other memory that may follow the mapping
  MaxRemoved, \* bound: files that are removed
  MaxEnds     \* bound: how often the process ends

ASSUME LayoutAssumption ==
  /\ BSize \in Nat \ {0} /\ InodeSize \in 1 .. BSize
  /\ NBlocks \in Nat /\ Amounts \subseteq 1 .. NBlocks
  /\ Sizes \subseteq Nat
  /\ Behind \in Nat /\ MaxRemoved \in Nat /\ MaxEnds \in Nat

VARIABLES
  file,     \* the length of fs.img, 0 when there is none
  mapped,   \* the blocks that are mapped, 0 when nothing is
  behind,   \* the pages after them that belong to something else
  sb,       \* the superblock
  inobits,  \* the bits set in the bitmap of inodes
  bits,     \* the bits set in the bitmap of blocks
  held,     \* the blocks of each inode in use
  removed, ends

vars == << file, mapped, behind, sb, inobits, bits, held, removed, ends >>

-----------------------------------------------------------------------------
(* The superblock.  total * 0.03 is 3 * total \div 100 for all sizes that   *)
(* fs_mount takes.                                                          *)

InoPerBlk == BSize \div InodeSize

\* (A fault: the rest of the division is lost.)
InodeBitmapShort(ninodes) == (ninodes \div 8) \div BSize

InodeBitmapBlocks(ninodes) == (ninodes \div 8) \div BSize + 1

\* (A fault: as before, for the bitmap of blocks.)
BitmapShort(total) == (total \div 8) \div BSize

BitmapBlocks(total) == (total \div 8) \div BSize + 1

init_superblock(size) ==
  LET total == size \div BSize
      inode_blocks == (3 * total) \div 100
      ninodes == inode_blocks * InoPerBlk
      inodestart == 1 + InodeBitmapBlocks(ninodes)
      bitmapstart == inodestart + inode_blocks
  IN  [size |-> total, ninodes |-> ninodes, inodebitmapstart |-> 1,
       inodestart |-> inodestart, bitmapstart |-> bitmapstart,
       datastart |-> bitmapstart + BitmapBlocks(total)]

-----------------------------------------------------------------------------
(* The bitmaps.                                                             *)

\* (A fault: as many bytes are searched as there are inodes.)
SearchAll(s) == 0 .. 8 * s.ninodes - 1

Searched(s) == 0 .. 8 * (s.ninodes \div 8) - 1

\* 0 when there is no inode left.
get_free_inum(s, used) ==
  LET free == Searched(s) \ used IN IF free = {} THEN 0 ELSE Min(free)

\* The block that a bit stands for.
BlockOf(bit) == sb.datastart + bit

\* The n bits that alloc_data_block finds: it searches sb.size bytes, and n
\* are among the first ones.
FreeBits(n) ==
  LET free == {b \in 0 .. 8 * sb.size - 1 : b \notin bits /\ b < Cardinality(bits) + n}
  IN  {b \in free : Cardinality({c \in free : c < b}) < n}

\* free_data_block clears the bit with the number of the block.
ClearedBits(blocks) == blocks

-----------------------------------------------------------------------------
(* fs_mount, fs_reset and the end of the process.                           *)

CeilDiv(n, d) == (n + d - 1) \div d

NoFiles == [i \in {} |-> {}]

\* init_fs: the process dies when there is no inode for the root.
InitFs(size, pages) ==
  LET s == init_superblock(size)
      root == get_free_inum(s, {0})
  IN  /\ sb' = s
      /\ inobits' = IF root = 0 THEN {0} ELSE {0, root}
      /\ bits' = {}
      /\ held' = IF root = 0 THEN NoFiles ELSE [i \in {root} |-> {}]
      /\ mapped' = IF root = 0 THEN 0 ELSE pages

\* A new image is one byte longer than the size that is mapped.
MountNew(size) ==
  /\ file = 0
  /\ InitFs(size, CeilDiv(size, BSize))
  /\ behind' \in 0 .. Behind
  /\ file' = size + 1
  /\ UNCHANGED << removed, ends >>

Mount ==
  /\ file > 0 /\ mapped = 0
  /\ mapped' = CeilDiv(file, BSize)
  /\ behind' \in 0 .. Behind
  /\ UNCHANGED << file, sb, inobits, bits, held, removed, ends >>

Ends == ends < MaxEnds /\ ends' = ends + 1

\* fs_unmount, or the process is killed.
Unmount ==
  /\ mapped > 0 /\ Ends /\ mapped' = 0
  /\ UNCHANGED << file, behind, sb, inobits, bits, held, removed >>

fs_reset ==
  /\ mapped > 0
  /\ InitFs(sb.size * BSize, mapped)
  /\ UNCHANGED << file, behind, removed, ends >>

-----------------------------------------------------------------------------
(* Files.                                                                   *)

\* alloc_inode.
Create ==
  LET i == get_free_inum(sb, inobits)
  IN  /\ mapped > 0 /\ i # 0
      /\ inobits' = inobits \union {i}
      /\ held' = [j \in DOMAIN held \union {i} |-> IF j = i THEN {} ELSE held[j]]
      /\ UNCHANGED << file, mapped, behind, sb, bits, removed, ends >>

\* do_write of n new blocks.  The bit of a block is set before the block is
\* wiped.  A block after the mapping is in the memory that follows, or the
\* process dies of it.
Write(i, n) ==
  LET found == FreeBits(n)
      missing == {b \in found : BlockOf(b) >= mapped + behind}
      good == found \ missing
  IN  /\ mapped > 0
      /\ Cardinality(held[i]) + n <= NBlocks
      /\ held' = [held EXCEPT ![i] = @ \union {BlockOf(b) : b \in good}]
      /\ IF missing = {}
         THEN bits' = bits \union found /\ UNCHANGED << mapped, ends >>
         ELSE Ends /\ mapped' = 0 /\ bits' = bits \union good \union {Min(missing)}
      /\ UNCHANGED << file, behind, sb, inobits, removed >>

\* free_inode.
Remove(i) ==
  /\ mapped > 0 /\ i # 1
  /\ removed < MaxRemoved /\ removed' = removed + 1
  /\ inobits' = inobits \ {i}
  /\ bits' = bits \ ClearedBits(held[i])
  /\ held' = [j \in DOMAIN held \ {i} |-> held[j]]
  /\ UNCHANGED << file, mapped, behind, sb, ends >>

Init ==
  /\ file = 0 /\ mapped = 0 /\ behind = 0
  /\ sb = [size |-> 0, ninodes |-> 0, inodebitmapstart |-> 0, inodestart |-> 0,
           bitmapstart |-> 0, datastart |-> 0]
  /\ inobits = {} /\ bits = {} /\ held = NoFiles
  /\ removed = 0 /\ ends = 0

Next ==
  \/ \E size \in Sizes : MountNew(size)
  \/ Mount
  \/ Unmount
  \/ fs_reset
  \/ Create
  \/ \E i \in DOMAIN held : Remove(i)
  \/ \E i \in DOMAIN held \cap Writers, n \in Amounts : Write(i, n)

Spec == Init /\ [][Next]_vars
=============================================================================
