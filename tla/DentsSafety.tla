---------------------------- MODULE DentsSafety -----------------------------
(* What the entries of a directory come to.                                 *)
EXTENDS Dents

(* RecordsFit: every entry has room for its name in its record, and the     *)
(* records end before the area of the inode or the block does: a name never *)
(* runs into the next entry, the next inode or the next block, also when it *)
(* got the record of another.                                               *)
RecordsFit ==
  /\ \A ents \in {area} \union ToSet(blocks) : \A k \in DOMAIN ents :
       Reclen(ents[k].name) <= ents[k].reclen
  /\ End(area) <= AreaSize
  /\ \A b \in DOMAIN blocks : End(blocks[b]) <= BSize

(* ListedOnce: ls prints every name that a lookup finds once, with the      *)
(* inode the lookup finds, and no other name: the two walk the records with *)
(* loops of their own, and no entry is made twice or hidden behind another  *)
(* (ls_dir and lookup_dent, at every reuse of a record and conversion).     *)
ListedOnce ==
  \A n \in Names :
    LET lines == {line \in ls_dir : line.name = n}
    IN  IF Inum(n) = 0 THEN lines = {}
        ELSE \E line \in lines : lines = {line} /\ line.inum = Inum(n)

(* ImplementsDir: through lookups the directory is a map from names to      *)
(* inodes, in which a call changes its own names and no other: whatever was *)
(* removed before, whichever record was used again, and also by the call    *)
(* that converts it.                                                        *)
Abs == INSTANCE AbsDir WITH
         Dots <- [n \in {Dot, DotDot} |-> IF n = Dot THEN Self ELSE Parent],
         entries <- [n \in Names |-> Inum(n)]

ImplementsDir == Abs!Spec
=============================================================================
