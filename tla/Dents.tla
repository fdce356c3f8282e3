------------------------------- MODULE Dents --------------------------------
(***************************************************************************)
(* The entries of one directory, with their lengths (src/fs.c and the      *)
(* loops of src/fs.h): records one after the other, at first in the area   *)
(* of the inode, after a conversion in blocks, where the record of a name  *)
(* that was removed is used again as it is, for a name that is not longer. *)
(* A record is where the one before it ends.                               *)
(***************************************************************************)
EXTENDS Integers, SequencesExt, FiniteSetsExt

CONSTANTS
  Header,    \* bytes of an entry before its name (8)
  AreaSize,  \* bytes of the inode for entries (56, after p_inum)
  BSize,     \* bytes of a block
  NBlocks,   \* the length of data.blocks[]
  Byte,      \* a uint8_t is taken modulo this (256)
  Names,     \* the names, Dot and DotDot among them
  Dot, DotDot,
  Length,    \* the length of each name
  Files,     \* the inodes the names are for
  Self, Parent

ASSUME DentsAssumption ==
  /\ {Header, AreaSize, BSize, NBlocks, Byte} \subseteq Nat \ {0}
  /\ Length \in [Names -> Nat \ {0}]
  /\ {Dot, DotDot} \subseteq Names /\ Length[Dot] = 1 /\ Length[DotDot] = 2
  /\ Files \subseteq Nat \ {0} /\ {Self, Parent} \subseteq Nat \ {0}
  \* The block of a conversion holds what the inode held, and the dots.
  /\ 2 * Header + Length[Dot] + Length[DotDot] + 2 + AreaSize <= BSize
  /\ Byte <= BSize

VARIABLES
  inline,  \* the flag I_INLINE
  area,    \* the entries in the inode
  blocks   \* the entries in each block

vars == << inline, area, blocks >>

\* get_dentry_reclen_from_name.
Reclen(n) == Header + Length[n] + 1

\* Where the entries end.
End(ents) == IF ents = << >> THEN 0 ELSE Last(ents).off + Last(ents).reclen

-----------------------------------------------------------------------------
(* Lookup.  namelen is the length and one more, in a uint8_t.               *)

Matches(e, n) == e.inum # 0 /\ e.name = n /\ (Length[n] + 1) % Byte = Length[n] + 1

\* for_each_inline_dent and for_each_block_dent.
InlineLoop(ents) == {k \in DOMAIN ents : ents[k].off < AreaSize - Header}
BlockLoop(ents) == {k \in DOMAIN ents : ents[k].off + Header < BSize}

NotFound == [b |-> 0, k |-> 0]

Places(n) ==
  IF inline THEN {[b |-> 0, k |-> k] : k \in {j \in InlineLoop(area) : Matches(area[j], n)}}
  ELSE UNION {{[b |-> b, k |-> k] :
                 k \in {j \in BlockLoop(blocks[b]) : Matches(blocks[b][j], n)}} :
                 b \in DOMAIN blocks \cap (1 .. NBlocks - 1)}

Before(p, q) == p.b < q.b \/ (p.b = q.b /\ p.k <= q.k)

lookup_dent(n) ==
  LET places == Places(n)
  IN  IF places = {} THEN NotFound
      ELSE CHOOSE p \in places : \A q \in places : Before(p, q)

InumAt(p) ==
  IF p = NotFound THEN 0 ELSE IF p.b = 0 THEN area[p.k].inum ELSE blocks[p.b][p.k].inum

\* do_lookup: "." and ".." of an inline directory are not in it.
Inum(n) ==
  IF inline /\ n = Dot THEN Self
  ELSE IF inline /\ n = DotDot THEN Parent
  ELSE InumAt(lookup_dent(n))

\* (A fault: the records that are not in use are printed as well.)
PrintedAll(b, ents, loop) ==
  {[b |-> b, k |-> k, name |-> ents[k].name, inum |-> ents[k].inum] : k \in loop}

\* print_dentry_block, and the loop of ls_dir over the area: the entries it
\* prints.
Printed(b, ents, loop) ==
  {[b |-> b, k |-> k, name |-> ents[k].name, inum |-> ents[k].inum] :
     k \in {j \in loop : ents[j].inum # 0}}

\* ls_dir, which goes through all the NBlocks blocks.
ls_dir ==
  IF inline
  THEN {[b |-> 0, k |-> 0, name |-> Dot, inum |-> Self],
        [b |-> 0, k |-> 0, name |-> DotDot, inum |-> Parent]}
         \union Printed(0, area, InlineLoop(area))
  ELSE UNION {Printed(b, blocks[b], BlockLoop(blocks[b])) : b \in DOMAIN blocks}

-----------------------------------------------------------------------------
(* New entries, in a directory d = [inline, area, blocks].                  *)

D == [inline |-> inline, area |-> area, blocks |-> blocks]

Becomes(d) == inline' = d.inline /\ area' = d.area /\ blocks' = d.blocks

\* The entries with another at their end.
AtEnd(ents, n, i, reclen) ==
  Append(ents, [name |-> n, inum |-> i, reclen |-> reclen, off |-> End(ents)])

\* alloc_inline_dentry: only at the end, and its length is in a uint8_t.
InlineFits(ents, n) ==
  /\ End(ents) < AreaSize - Header
  /\ End(ents) + (Reclen(n) % Byte) < AreaSize

\* (A fault: any record is used again.)
ReusableShort(ents, reclen) == {k \in BlockLoop(ents) : ents[k].inum = 0}

Reusable(ents, reclen) ==
  {k \in BlockLoop(ents) : ents[k].inum = 0 /\ ents[k].reclen >= reclen}

RoomAtEnd(ents, reclen) == End(ents) + Header < BSize /\ End(ents) + reclen <= BSize

\* alloc_dentry_from_block and init_dentry: a record in use keeps its length.
BlockTakes(ents, reclen) == Reusable(ents, reclen) # {} \/ RoomAtEnd(ents, reclen)

PutInBlock(ents, n, i, reclen) ==
  LET k == Min(Reusable(ents, reclen))
  IN  IF Reusable(ents, reclen) = {} THEN AtEnd(ents, n, i, reclen)
      ELSE [ents EXCEPT ![k].name = n, ![k].inum = i]

Dots == AtEnd(AtEnd(<< >>, Dot, Self, Reclen(Dot)), DotDot, Parent, Reclen(DotDot))

\* (A fault: the conversion ends at the first entry that is not in use.)
ConvertUpToGap(d) ==
  LET gap == SelectInSeq(d.area, LAMBDA e : e.inum = 0)
      kept == IF gap = 0 THEN d.area ELSE SubSeq(d.area, 1, gap - 1)
      put(ents, e) == PutInBlock(ents, e.name, e.inum, e.reclen)
  IN  [inline |-> FALSE, area |-> << >>, blocks |-> << FoldLeft(put, Dots, kept) >>]

convert_inline_directory(d) ==
  LET put(ents, e) == IF e.inum = 0 THEN ents ELSE PutInBlock(ents, e.name, e.inum, e.reclen)
      copied[k \in 0 .. Len(d.area)] == IF k = 0 THEN Dots ELSE put(copied[k - 1], d.area[k])
  IN  [inline |-> FALSE, area |-> << >>, blocks |-> << copied[Len(d.area)] >>]

\* alloc_dentry: the first block that takes the entry, or a new one.
PutInBlocks(d, n, i) ==
  LET takes == {b \in DOMAIN d.blocks : BlockTakes(d.blocks[b], Reclen(n))}
      new == AtEnd(<< >>, n, i, Reclen(n))
  IN  IF takes = {} THEN [d EXCEPT !.blocks = Append(@, new)]
      ELSE [d EXCEPT !.blocks[Min(takes)] = PutInBlock(@, n, i, Reclen(n))]

new_dentry(d, n, i) ==
  IF ~ d.inline THEN PutInBlocks(d, n, i)
  ELSE IF InlineFits(d.area, n) THEN [d EXCEPT !.area = AtEnd(@, n, i, Reclen(n))]
  ELSE PutInBlocks(convert_inline_directory(d), n, i)

\* unlink_dent.  The name stays in the record, where nothing reads it again.
Unused(e) == [e EXCEPT !.inum = 0, !.name = Dot]

Emptied(d, p) ==
  IF p = NotFound THEN d
  ELSE IF p.b = 0 THEN [d EXCEPT !.area[p.k] = Unused(@)]
  ELSE [d EXCEPT !.blocks[p.b][p.k] = Unused(@)]

-----------------------------------------------------------------------------
(* The calls that change the directory.  A bound: a name that would go into *)
(* the last of the NBlocks blocks, which lookup_dent does not look at.      *)
Visible(d) == Len(d.blocks) < NBlocks /\ Becomes(d)

Add(n, i) == Inum(n) = 0 /\ Visible(new_dentry(D, n, i))

Drop(n) ==
  /\ n \notin {Dot, DotDot} /\ Inum(n) # 0
  /\ Becomes(Emptied(D, lookup_dent(n)))

\* fs_rename: the new name goes, then the old one, and then comes the entry.
Rename(n, m) ==
  LET d == Emptied(Emptied(D, lookup_dent(m)), lookup_dent(n))
  IN  /\ {n, m} \cap {Dot, DotDot} = {} /\ n # m /\ Inum(n) # 0
      /\ Visible(new_dentry(d, m, Inum(n)))

Init == inline = TRUE /\ area = << >> /\ blocks = << >>

Next ==
  \E n \in Names :
    \/ \E i \in Files : Add(n, i)
    \/ Drop(n)
    \/ \E m \in Names : Rename(n, m)

Spec == Init /\ [][Next]_vars
=============================================================================
