------------------------------ MODULE MCLayout ------------------------------
(* Blocks of eight bytes with an inode in each byte, so that the smallest   *)
(* images have everything: 33 blocks give no inode, 34, with a rest or not, *)
(* one byte of them, 64 a second block of the bitmap of blocks and 67 a     *)
(* second byte of inodes.  Two files can fill all but the last of them.     *)
EXTENDS LayoutSafety

MCSizes == {33 * 8, 34 * 8, 34 * 8 + 3, 64 * 8, 67 * 8}
=============================================================================
