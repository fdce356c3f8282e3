----------------------------- MODULE HfsSafety ------------------------------
(***************************************************************************)
(* What the name space of the Hobbit File System must keep true, whatever  *)
(* sequence of system calls, crashes and mounts led to a state.            *)
(***************************************************************************)
EXTENDS Hfs

\* Every variable holds a value the code can put there.  In particular no
\* call leaves a directory, a dentry pointer or an inode outside the tables.
TypeOK ==
  /\ image \in Image
  /\ up \in BOOLEAN
  /\ cwd \in Ptr
  /\ dummy \in Inum
  /\ openfiles \in [Fds -> Ptr \union {Null}]
  /\ ret \in Results

-----------------------------------------------------------------------------
\* The allocated directories, and the entries of one but "." and "..".
Dirs == {d \in image.used : image.inode[d].type = "DIR"}

Entries(d) == {k \in Live(Ents(image, d)) : Ents(image, d)[k].name \in Names}

Entry(d, k) == Ents(image, d)[k]

\* Where inode i is named from.
NamedAt(i) ==
  UNION {{<<d, k>> : k \in {j \in Entries(d) : Entry(d, j).inum = i}} : d \in Dirs}

\* p_inum of an inline directory, or the entry ".." of a regular one.
Parent(d) ==
  IF image.inode[d].inline THEN image.inode[d].p_inum
  ELSE LET k == FindDent(Ents(image, d), DotDot)
       IN  IF k = 0 THEN 0 ELSE Entry(d, k).inum

\* No entry of any directory dangles: the inode it names is allocated and is
\* of the type the entry was made with.  free_inode must run exactly when the
\* last name goes away, whatever unlink, link and rename did before.
NoDanglingEntry ==
  \A d \in Dirs : \A k \in Entries(d) :
    /\ Entry(d, k).inum \in image.used
    /\ image.inode[Entry(d, k).inum].type = Entry(d, k).file_type

\* The link count of a file is the number of entries that name it: neither
\* the double unlink in fs_rename nor the copy in convert_inline_directory
\* loses or invents a link.
NlinkCountsNames ==
  \A i \in image.used \ {0} :
    image.inode[i].type # "DIR" => image.inode[i].nlink = Cardinality(NamedAt(i))

\* Weaker, for workloads in which fs_link may walk through a file: an inode
\* has no fewer links than names, so it is not freed under a name.
NlinkCoversNames ==
  \A i \in image.used \ {0} : image.inode[i].nlink >= Cardinality(NamedAt(i))

\* A name occurs once among the live entries of a directory.
NamesUnique ==
  \A d \in Dirs : \A j, k \in Live(Ents(image, d)) :
    Entry(d, j).name = Entry(d, k).name => j = k

\* A directory has one name, and its ".." leads to the directory that name is
\* in: update_dir_inode keeps up with rename, and a conversion carries the
\* parent over.
ParentAgrees ==
  \A i \in Dirs : /\ Cardinality(NamedAt(i)) <= 1
                  /\ \A at \in NamedAt(i) : Parent(i) = at[1]

\* A directory in the tree has two links and one more for each subdirectory.
\* (fs_rename does not move that link: see the workload of the run.)
DirNlink ==
  \A i \in Dirs : i = image.rootdir \/ NamedAt(i) # {} =>
    image.inode[i].nlink =
      2 + Cardinality({k \in Entries(i) : Entry(i, k).file_type = "DIR"})

\* A data block belongs to one directory, and its bit is set.
BlocksExclusive ==
  \A d \in Dirs : ~ image.inode[d].inline =>
    /\ image.inode[d].block \in image.bitmap
    /\ \A e \in Dirs \ {d} : image.inode[e].block # image.inode[d].block

\* The counters of the superblock count the inode table.
CountersAgree ==
  LET Used(types) == {i \in image.used \ {0} : image.inode[i].type \in types}
  IN  /\ image.inode_used = Cardinality(image.used \ {0})
      /\ image.ndirectories = Cardinality(Used({"DIR"}))
      /\ image.nfiles = Cardinality(Used({"REG"}))

\* q leads below p.
Below(q, p) == Len(q.comp) > Len(p.comp) /\ q.comp[1] = p.comp[1]

\* In img, path leads to inode i, or nowhere if i = 0.
ResolvesTo(img, path, i) ==
  LET found == LookupFrom(img, path, LookupStart(path))
  IN  Deref(img, found.dummy, found.dent).inum = i

\* Whenever fs_rename goes ahead, the new pathname leads to the inode the old
\* one led to, and the old one to nothing, also when the entry was replaced,
\* its directory converted or the moved directory is part of a pathname.
\* (Not so for a directory moved below itself, which the code does not refuse:
\* then neither pathname leads anywhere; and a directory that replaces the one
\* it is in may hold an entry of its own name.)
RenameMoves ==
  \A pair \in Pairs["rename"] :
    LET p == pair[1]
        q == pair[2]
        from == Lookup(p)
        to == LookupAfter(q, from.dummy)
        i == Deref(image, from.dummy, from.dent).inum
        after == Renamed(image, to.dummy, from.dent, to.dent, to.pi, Filename(q))
    IN  MayRename(from, to) /\ Fits(BeforeMove(image, to.dummy, from.dent, to.dent), to.pi)
           /\ ~ Below(q, p)
        => /\ ResolvesTo(after, q, i)
           /\ Below(p, q) \/ ResolvesTo(after, p, 0)
\* For every directory /c of the root, "/c/." leads to itself and "/c/.." to the
\* root, whether the dots are entries in a block, p_inum and the dummy dentry,
\* or the one that was copied into the other by a conversion.
DotsResolve ==
  \A c \in Names :
    LET path == [abs |-> TRUE, comp |-> <<c>>]
        i == Deref(image, dummy, LookupFrom(image, path, LookupStart(path)).dent).inum
    IN  i # 0 /\ image.inode[i].type = "DIR"
        => /\ ResolvesTo(image, [abs |-> TRUE, comp |-> <<c, Dot>>], i)
           /\ ResolvesTo(image, [abs |-> TRUE, comp |-> <<c, DotDot>>], image.rootdir)

-----------------------------------------------------------------------------
\* The names of the tree: which directory has which entry, and for which inode.
Tree ==
  UNION {{<<d, Entry(d, k).name, Entry(d, k).inum>> : k \in Entries(d)} : d \in Dirs}

\* Whatever a call does inside, and whether it reports success or not, it makes
\* one name at most, and takes one away, or a second one that rename replaces;
\* a name it makes while it takes one away is for an inode that loses one.  An
\* entry that is overwritten by a new one, dropped by a conversion or freed
\* with another inode would be a name too many.
NamesMove ==
  [][LET made == Tree' \ Tree
         gone == Tree \ Tree'
     IN  /\ Cardinality(made) <= 1
         /\ Cardinality(gone) <= 1 + Cardinality(made)
         /\ gone # {} => \A new \in made : \E old \in gone : new[3] = old[3]]_vars

\* While a descriptor on an entry in an inode stays open and its directory is
\* inline, its dentry names the file it was opened on, or nothing after an
\* unlink or by the step that converts the directory, but never another file:
\* do_read and do_write go through that dentry on every call, and an unlinked
\* entry of an inline area is not used again.  (Not so after the conversion:
\* then the words it lies in are block numbers, and a second block of the
\* directory has its number where the inum of the first entry was.  Nor for an
\* entry in a block, which is used again.)
DescriptorKeepsFile ==
  [][\A fd \in Fds :
       /\ openfiles[fd] # Null /\ openfiles[fd].at = "inline"
       /\ image.inode[openfiles[fd].inum].inline
       /\ openfiles'[fd] = openfiles[fd]
       => Deref(image', dummy', openfiles[fd]).inum
            \in {0, Deref(image, dummy, openfiles[fd]).inum}]_vars
=============================================================================
