------------------------------ MODULE Dirhash -------------------------------
(***************************************************************************)
(* The cache of directory entries (src/dirhash.c) in a build that defines  *)
(* _HFS_DIRHASH, and the calls of src/fs.c that go through it.  A call is  *)
(* one step: the operators below take and return the whole state as a      *)
(* record, and a handler is their composition.                             *)
(*                                                                         *)
(* dir is in the image and survives the process; tab and lru are memory of *)
(* the process, zeroed at every mount.                                     *)
(*                                                                         *)
(* The entries of a hashed directory stay in its first block: Slots of     *)
(* them, all as long as each other, and no more than that.                 *)
(***************************************************************************)
EXTENDS LruList, FiniteSets, FiniteSetsExt, SequencesExt

CONSTANTS
  TableSize,  \* entries in a table (HFS_DIRHASH_TABLESIZE)
  Limit,      \* a table with this capacity is full: 83 in the code, the
              \* least number that is not below TableSize * 0.85
  Dirs,       \* the inode numbers of the directories
  Names,      \* the names of their entries, "." and ".." among them
  DotNames,   \* "." and ".." as convert_inline_directory puts them
  Index,      \* fnv_hash of each name
  Slots,      \* bound: entries that fit into the block of a directory
  MaxSeq      \* bound: the generations of a table

ASSUME DirhashAssumption ==
  /\ Limit \in Nat /\ TableSize \in Nat /\ Limit < TableSize
  /\ Dirs \subseteq Nat \ {0}
  /\ DotNames \in Seq(Names) /\ Len(DotNames) < Limit
  /\ \A i, j \in DOMAIN DotNames : DotNames[i] = DotNames[j] => i = j
  /\ Index \in [Names -> 0 .. TableSize - 1]
  /\ Slots \in Nat /\ MaxSeq \in Nat
  \* The block of a conversion holds the dots, what was inline, and a new name.
  /\ Len(DotNames) + 2 <= Slots

VARIABLES
  tab,  \* the tables
  lru,  \* the list they form
  dir   \* the directories: mode (the flags I_INLINE and I_DIRHASH), the
        \* seqno and id of dirhash_rec, and the entries in the block

vars == << tab, lru, dir >>

W == [tab |-> tab, lru |-> lru, dir |-> dir]

Becomes(w) ==
  /\ tab' = w.tab /\ lru' = w.lru /\ dir' = w.dir
  /\ \A t \in Table : w.tab[t].seqno <= MaxSeq

Places == 0 .. TableSize - 1

\* The pointer to entry k of the block of directory d.
Pointers == [dir : Dirs, k : 1 .. Slots]
NoPointer == [dir |-> 0, k |-> 0]

\* name_hash tells all names apart (a bound: the code takes names with equal
\* hashes for the same name), so a name stands for its hash.
NoHash == "0"

-----------------------------------------------------------------------------
(* Tables.                                                                  *)

EmptyTable ==
  [seqno |-> 0, inum |-> 0, capacity |-> 0,
   data |-> [s \in Places |-> [seqno |-> 0, hash |-> NoHash, dent |-> NoPointer]]]

\* The place where probing from the index of name n ends: the first of stops.
Probe(n, stops) ==
  LET place(j) == (Index[n] + j) % TableSize
  IN  place(Min({j \in Places : place(j) \in stops}))

disable(w, d) ==
  [w EXCEPT !.dir[d].mode = "regular", !.dir[d].id = 0, !.dir[d].seqno = 0]

\* (A fault: a table may hold one entry more.)
FullLate(table) == table.capacity > Limit + 1

Full(table) == table.capacity >= Limit

\* put_dentry: whether it succeeded, and the state.
put_dentry(w, t, p) ==
  LET table == w.tab[t]
      n == w.dir[p.dir].ents[p.k].name
      stops == {s \in Places : table.data[s].seqno # table.seqno \/ table.data[s].hash = n}
      entry == [seqno |-> table.seqno, hash |-> n, dent |-> p]
  IN  IF Full(table) THEN [ok |-> FALSE, w |-> [w EXCEPT !.lru = lru_demote(@, t)]]
      ELSE [ok |-> TRUE,
            w |-> [w EXCEPT !.tab[t].data[Probe(n, stops)] = entry,
                            !.tab[t].capacity = @ + 1,
                            !.lru = lru_touch(@, t)]]

\* put_directory: every entry in use, and on after one that does not fit.
put_directory(w, t, d) ==
  LET ents == w.dir[d].ents
      put(v, k) ==
        LET done == put_dentry(v, t, [dir |-> d, k |-> k])
        IN  IF ~ ents[k].live THEN v
            ELSE IF done.ok THEN done.w ELSE disable(done.w, d)
      after[k \in 0 .. Len(ents)] == IF k = 0 THEN w ELSE put(after[k - 1], k)
  IN  after[Len(ents)]

dt_refresh(table) == [table EXCEPT !.capacity = 0, !.seqno = @ + 1, !.inum = 0]

\* (A fault: the table at the head is taken.)
LastIsHead(l) == [lru |-> l, t |-> l.head]

\* lru_get_last: the table at the tail, now at the head.
lru_get_last(l) == [lru |-> lru_touch(l, l.tail), t |-> l.tail]

dir_alloc_table(w, d) ==
  LET last == lru_get_last(w.lru)
      table == [dt_refresh(w.tab[last.t]) EXCEPT !.inum = d]
      fresh == [w EXCEPT !.lru = last.lru, !.tab[last.t] = table,
                         !.dir[d].seqno = table.seqno, !.dir[d].id = last.t]
  IN  [t |-> last.t, w |-> put_directory(fresh, last.t, d)]

\* (A fault: whose table it is now is not compared.)
ValidBySeqnoOnly(w, d) ==
  LET id == w.dir[d].id
  IN  id # 0 /\ w.tab[id].seqno = w.dir[d].seqno

\* inode_get_valid_dirhash finds a table; table 0 is as good as none.
Cached(w, d) ==
  LET id == w.dir[d].id
  IN  id # 0 /\ w.tab[id].seqno = w.dir[d].seqno /\ w.tab[id].inum = d

hfs_dirhash_put(w, p) ==
  LET done == put_dentry(w, w.dir[p.dir].id, p)
  IN  IF ~ Cached(w, p.dir) THEN dir_alloc_table(w, p.dir).w
      ELSE IF done.ok THEN done.w ELSE disable(done.w, p.dir)

\* do_lookup in a table: the entry it ends at, if it has the hash.  That it is
\* of the generation of the table is not asked.
do_lookup(w, t, n) ==
  LET table == w.tab[t]
      stops == {s \in Places : \/ table.data[s].seqno # table.seqno
                               \/ table.data[s].hash = n
                               \/ table.data[s].dent = NoPointer}
      at == Probe(n, stops)
  IN  [w |-> [w EXCEPT !.lru = lru_touch(@, t)],
       t |-> t,
       at |-> IF table.data[at].hash = n THEN at ELSE Null]

hfs_dirhash_lookup(w, d, n) ==
  LET loaded == dir_alloc_table(w, d)
  IN  IF Cached(w, d) THEN do_lookup(w, w.dir[d].id, n)
      ELSE do_lookup(loaded.w, loaded.t, n)

-----------------------------------------------------------------------------
(* The calls of src/fs.c.                                                   *)

Live(w, p) == w.dir[p.dir].ents[p.k].live

\* find_dent_in_block.
Named(w, d, n) ==
  {[dir |-> d, k |-> k] :
     k \in {j \in DOMAIN w.dir[d].ents : w.dir[d].ents[j] = [name |-> n, live |-> TRUE]}}

\* The lookup of a component: the state after it and the pointer it found.
Lookup(w, d, n) ==
  LET found == hfs_dirhash_lookup(w, d, n)
  IN  IF w.dir[d].mode # "hashed"
      THEN [w |-> w, dent |-> IF Named(w, d, n) = {} THEN NoPointer
                              ELSE CHOOSE p \in Named(w, d, n) : TRUE]
      ELSE [w |-> found.w,
            dent |-> IF found.at = Null THEN NoPointer
                     ELSE found.w.tab[found.t].data[found.at].dent]

\* alloc_dentry_from_block: the first entry not in use, or one at the end.
FreeSlot(ents) ==
  LET dead == {k \in DOMAIN ents : ~ ents[k].live}
  IN  IF dead = {} THEN Len(ents) + 1 ELSE Min(dead)

\* new_dentry in a directory that is not inline.
new_dentry(w, d, n) ==
  LET ents == w.dir[d].ents
      k == FreeSlot(ents)
      new == [name |-> n, live |-> TRUE]
      v == [w EXCEPT !.dir[d].ents =
              IF k > Len(ents) THEN Append(ents, new) ELSE [ents EXCEPT ![k] = new]]
  IN  IF w.dir[d].mode = "hashed" THEN hfs_dirhash_put(v, [dir |-> d, k |-> k]) ELSE v

\* convert_inline_directory of a directory with the names kept in it.
convert(w, d, kept) ==
  [w EXCEPT !.dir[d] =
     [mode |-> "hashed", seqno |-> 0, id |-> 0,
      ents |-> [k \in 1 .. Len(DotNames \o kept) |->
                  [name |-> (DotNames \o kept)[k], live |-> TRUE]]]]

-----------------------------------------------------------------------------
FileNames == Names \ Range(DotNames)

\* A new name n in an inline directory that has no room for it.  (What was
\* inline is far below the limit of the code.)
Convert(d, kept, n) ==
  /\ dir[d].mode = "inline" /\ n \notin Range(kept)
  /\ Len(DotNames) + Len(kept) < Limit
  /\ Becomes(new_dentry(convert(W, d, kept), d, n))

Create(d, n) ==
  LET found == Lookup(W, d, n)
  IN  /\ dir[d].mode # "inline" /\ FreeSlot(dir[d].ents) <= Slots
      /\ IF found.dent # NoPointer THEN Becomes(found.w)
         ELSE Becomes(new_dentry(found.w, d, n))

\* unlink_dent empties the entry and tells the tables nothing.
Unlink(d, n) ==
  LET found == Lookup(W, d, n)
      p == found.dent
  IN  /\ dir[d].mode # "inline"
      /\ IF p = NoPointer THEN Becomes(found.w)
         ELSE Becomes([found.w EXCEPT !.dir[p.dir].ents[p.k].live = FALSE])

Stat(d, n) == dir[d].mode # "inline" /\ Becomes(Lookup(W, d, n).w)

hfs_dirhash_clear ==
  Becomes([W EXCEPT !.tab = [t \in Table |-> dt_refresh(tab[t])]])

Fresh ==
  [tab |-> [t \in Table |-> EmptyTable], lru |-> init_dirhash_tables,
   dir |-> [d \in Dirs |-> [mode |-> "inline", seqno |-> 0, id |-> 0, ents |-> << >>]]]

\* The process ends, and the image is mounted by another.
Remount == Becomes([Fresh EXCEPT !.dir = dir])

\* The image is emptied and the tables are allocated anew.
fs_reset == Becomes(Fresh)

Init == tab = Fresh.tab /\ lru = Fresh.lru /\ dir = Fresh.dir

Next ==
  \/ \E d \in Dirs, n \in FileNames :
       \/ \E kept \in {<< >>} \union {<<m>> : m \in FileNames} : Convert(d, kept, n)
       \/ Create(d, n)
       \/ Unlink(d, n)
  \/ \E d \in Dirs, n \in Names : Stat(d, n)
  \/ hfs_dirhash_clear
  \/ Remount
  \/ fs_reset

Spec == Init /\ [][Next]_vars
=============================================================================
