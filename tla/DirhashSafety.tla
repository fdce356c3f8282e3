--------------------------- MODULE DirhashSafety ----------------------------
(* What the dirhash of src/dirhash.c does for the directories that use it.  *)
EXTENDS Dirhash

Entry == [name : Names, live : BOOLEAN]

\* Every table, link and directory record has a value it may have; in particular
\* no table counts more entries than the limit.
TypeOK ==
  /\ tab \in [Table -> [seqno : 0 .. MaxSeq, inum : Dirs \union {0}, capacity : 0 .. Limit,
                        data : [Places -> [seqno : 0 .. MaxSeq, hash : Names \union {NoHash},
                                           dent : Pointers \union {NoPointer}]]]]
  /\ lru \in [head : Table, tail : Table, prev : [Table -> Table \union {Null}],
              next : [Table -> Table \union {Null}]]
  /\ dir \in [Dirs -> [mode : {"inline", "hashed", "regular"}, seqno : 0 .. MaxSeq,
                       id : Table, ents : BoundedSeq(Entry, Slots)]]

-----------------------------------------------------------------------------
(* ListIntact: however the tables were used, emptied and given up, the list *)
(* from the head has every table once and ends at the tail, and prev is     *)
(* next backwards (lru_touch, lru_demote: a table lost from the list is     *)
(* never used again, a loop hangs hfs_dirhash_dump).                        *)
ListIntact ==
  LET order == Order(lru)
  IN  /\ Range(order) = Table
      /\ order[Size] = lru.tail /\ lru.next[lru.tail] = Null
      /\ lru.prev[lru.head] = Null
      /\ \A i \in 2 .. Size : lru.prev[order[i]] = order[i - 1]

(* ProbesEnd: a table in use has a place that no entry of its directory     *)
(* has, where the loops of put_dentry and do_lookup end (the comment of     *)
(* do_lookup: no infinite loop, because the capacity is kept track of).     *)
ProbesEnd ==
  \A t \in Table :
    tab[t].inum # 0 => \E s \in Places : tab[t].data[s].seqno # tab[t].seqno

(* LiveNamesFound: in every directory, hashed or not any more, a lookup of  *)
(* a name that is in use ends at its entry: also when the table is loaded   *)
(* for it, when the list of tables was cleared or the image mounted again,  *)
(* and when the directory has outgrown its table.                           *)
LiveNamesFound ==
  \A d \in Dirs, k \in 1 .. Slots :
    k \in DOMAIN dir[d].ents /\ dir[d].ents[k].live =>
      Lookup(W, d, dir[d].ents[k].name).dent = [dir |-> d, k |-> k]

(* ImplementsLru: of the tables only the one used longest ago, or one that  *)
(* was given up as full, is taken for another directory, and two of them    *)
(* only if the first is the table that no directory can find again.         *)
Lru == INSTANCE AbsLru WITH
         Owners <- Dirs, order <- Order(lru), owner <- [t \in Table |-> tab[t].inum]

ImplementsLru == Lru!Spec
=============================================================================
