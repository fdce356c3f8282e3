------------------------------ MODULE MCDents -------------------------------
(* Three names: two of them fit into the inode and not all three, the two   *)
(* that are shorter end exactly where the block does once the area of the   *)
(* inode was copied, and the longest fits into the record of no other.      *)
EXTENDS DentsSafety

MCLength == [dot |-> 1, dotdot |-> 2, a |-> 1, b |-> 2, c |-> 4]
=============================================================================
