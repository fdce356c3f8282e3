---------------------------- MODULE LayoutSafety ----------------------------
(* That nothing of an image lies on anything else, whatever its size.       *)
EXTENDS Layout

Formatted == file > 0

(* RegionsInOrder: the superblock, the bitmap of inodes, the inodes, the    *)
(* bitmap of blocks and the data follow each other, and each has the room   *)
(* that its entries need (init_superblock rounds down five times).          *)
RegionsInOrder ==
  Formatted =>
    /\ 1 <= sb.inodebitmapstart
    /\ sb.inodebitmapstart < sb.inodestart
    /\ sb.inodestart <= sb.bitmapstart
    /\ sb.bitmapstart < sb.datastart
    /\ sb.ninodes <= 8 * BSize * (sb.inodestart - sb.inodebitmapstart)
    /\ sb.ninodes * InodeSize <= BSize * (sb.bitmapstart - sb.inodestart)
    /\ sb.size <= 8 * BSize * (sb.datastart - sb.bitmapstart)

(* InodesInRegion: every inode that was handed out lies before the bitmap   *)
(* of blocks, and its bit in the bitmap of inodes; none has number 0.       *)
InodesInRegion ==
  /\ \A i \in inobits : i < sb.ninodes \/ i = 0
  /\ DOMAIN held = inobits \ {0}

(* BitsInBitmap: no bit is set after the end of the bitmap of blocks, where *)
(* the data begin: alloc_data_block searches sb.size bytes, eight times     *)
(* what the bitmap has, and what stops it is only that the process dies,    *)
(* each time with one more bit set that stands for no block.                *)
BitsInBitmap ==
  ends + Behind < sb.datastart =>
    \A b \in bits : b < 8 * BSize * (sb.datastart - sb.bitmapstart)
=============================================================================
