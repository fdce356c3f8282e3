# Verification of fsemu (the Hobbit File System emulator)

fsemu is a small file system in one process: a file `fs.img` is mapped into
memory, a shell reads commands, and each command makes one or a few "system
calls" of `src/src/fs.c` on the mapped image. This directory holds TLA+ models
of that code, the configurations that check them with TLC, and proofs checked
by TLAPS. It is about the default build (`Makefile` and `fs.h`: inline directories
on, dirhash off), except for `Dirhash`, which is about a build with
`_HFS_DIRHASH`.

## Inventory

| Component | State | Operations | Talks to |
|---|---|---|---|
| Inode table and superblock counters (`fs.c`, `fs.h`) | `inodes[]`, `inobitmap`, `sb->inode_used`, `inline_inodes`, `ndirectories`, `nfiles` | `get_free_inum`, `alloc_inode`, `free_inode`, link counts | called by every call that makes or removes a name; calls `free_data_block` |
| Data block bitmap | `bitmap` | `alloc_data_block`, `free_data_block` | directories, file data |
| Directory entries | the inline area of an inode, or data blocks | `new_dentry`, `alloc_inline_dentry`, `alloc_dentry_from_block`, `convert_inline_directory`, `unlink_dent`, `lookup_dent`, `update_dir_inode`, `dir_isempty` | inode table, bitmap |
| Path lookup | the static `dummy_dentry`, `cwd` | `do_lookup` | reads directories; its results are pointers into them |
| Name-space calls | - | `fs_creat`, `fs_mkdir`, `fs_unlink`, `fs_rmdir`, `fs_link`, `fs_rename`, `fs_symlink`, `fs_stat`, `fs_chdir`, `fs_readlink` | all of the above |
| Open file table | `openfiles[]` (a dentry pointer and an offset) | `fs_open`, `fs_close`, `fs_lseek` | dentry pointers into directories |
| File data | `data.blocks[]` and the blocks | `fs_read`, `fs_write`, `do_read`, `do_write`, `get_off_addr` | open file table, bitmap |
| Image | the superblock, the mapping | `fs_mount`, `fs_unmount`, `fs_reset`, `init_fs` | everything |
| Dirhash (`dirhash.c`, not in the default build) | an LRU list of hash tables with pointers to entries; per directory the number and generation of its table | `hfs_dirhash_put`, `hfs_dirhash_lookup`, `hfs_dirhash_clear`, `hfs_dirhash_dump` | directory entries |
| Shell (`sh.c`, `fsemu.c`) | `argv`, `argc`, `sysargs[]` | `process`, `process_args`, `syscall_handler` | system calls, user commands |
| User commands (`io_util.c`) | the descriptor and the loop of the command that runs | `ls`, `cat`, `loadf`, `readl`, `filestat` | system calls; `ls` reads directories itself |
| Error codes, benchmark, workload tools | - | - | - |

What makes it hard. The emulator has one thread, so calls do not interleave;
the trouble is in what one call leaves behind for the next:

* pointers to directory entries are kept across calls (`cwd`, `openfiles[]`,
  the dummy dentry), while entries are emptied, used again, or moved when a
  directory is converted from inline to regular;
* one directory has two forms (inline and regular), and lookup of `.` and `..`,
  the parent pointer, emptiness and conversion are written for each;
* `fs_rename` and `fs_link` do several lookups and edits in a row, each of which
  can fail, convert a directory, or overwrite what the last lookup left;
* all tables are small and fixed: inodes, descriptors, inline areas, block
  tables, bitmap;
* the image is a shared mapping, so what a call has done when the process dies
  is what the next mount finds;
* the image is arithmetic: regions are laid out by divisions that round down, and
  entries are records that are found by adding up lengths;
* the cache of entries holds pointers into directories that change without
  telling it, and is kept consistent by generations and a list linked by hand;
* a command is many calls, any of which can fail.

What makes each component correct: entries name allocated inodes, and an inode
has as many links as names (inode table, entries); names in a directory are
unique and `..` leads to the parent in both forms (entries, lookup); a rename
moves one name and nothing else, no call costs a name that is not its own
(name-space calls); a descriptor on an inline entry does not come to name
another file (open file table); a block has one owner (bitmap); reads and writes are those of a sequence
of bytes, and they return (file data); no region of an image reaches into
another, whatever its size (image); a record has room for its name, and what `ls`
prints is what a lookup finds (entries); a name in use is found through the
cache, and only the table used longest ago is given away (dirhash); a call gets
the words of its own line (shell); `cat` prints the file, `loadf` stores what it
read of its source, and both come back (user commands).

The hazards, each at its line and with the properties that watch it, are listed
in `PROJECT.json`.

## Modules

| Module | What it is | Code |
|---|---|---|
| `HfsImage` | the image as a record; every static function that edits it as an operator from an image to an image; pointers to entries | `fs.c` 146-534, 625-715, 1325-1368 |
| `Hfs` | the system calls on the name space, `do_lookup`, mount, unmount, reset, and the death of the process where the code dereferences an unset pointer | `fs.c` 820-1069, 1250-1688 |
| `HfsSafety` | the properties of `Hfs` | |
| `HfsClaims` | what comments say of `Hfs` and the code does not do | |
| `MCHfs` | workloads for TLC | |
| `NatSets` | facts about finite sets of numbers, for the proofs | |
| `HfsProofs` | `TypeCorrect`: every call keeps the image well-formed; `NamesUniqueCorrect` | |
| `HfsTreeProofs` | ten theorems on the tree: entries, links, parents, dots, blocks, counters, renames, descriptors | |
| `FileIO` | the data of one file: open, close, lseek, and read and write with one step per turn of their loops | `fs.c` 918-926, 1029-1245 |
| `AbsFile` | what `FileIO` promises: a sequence of bytes, and positions in it | |
| `FileIOSafety` | the properties of `FileIO`, and the refinement mapping to `AbsFile` | |
| `FileIOProofs` | `FileTypeCorrect`, `NoHolesCorrect`, `OffsetsCorrect`: types, no hole, no offset behind the end, for any sizes; `FileImplements`: `FileIO` implements `AbsFile` | |
| `MCFileIO` | constants for TLC | |
| `Dents` | the entries of one directory as records with lengths: inline area, conversion, blocks, reuse, search, `ls` | `fs.h` 124-181, `fs.c` 279-499, 628-694, `io_util.c` 114-167 |
| `AbsDir` | what `Dents` promises: a map from names to inodes | |
| `DentsSafety`, `MCDents` | properties, refinement mapping, constants | |
| `DentsProofs` | four theorems: the invariant, room for names, what `ls` prints, and that `Dents` implements `AbsDir`, for any lengths | |
| `Layout` | the superblock, the two bitmaps, and the image as a file that is made, mapped, filled and mapped again | `fs.c` 77-274, 565-598, 1576-1688 |
| `LayoutSafety`, `MCLayout` | properties, constants | |
| `LayoutProofs` | three theorems on the regions, the inodes and the bitmap, for any sizes | |
| `LruList` | the list of dirhash tables and the operations that relink it | `dirhash.c` 34-79, 371-385 |
| `Dirhash` | the tables, and the calls that go through them | `dirhash.c`, `fs.c` 470-499, 858-866 |
| `AbsLru` | what the list is for: the tables in the order of their last use | |
| `DirhashSafety`, `MCDirhash` | properties, refinement mapping, constants | |
| `DirhashProofs` | six theorems: the invariant, types, the list, probing, lookups, and that `Dirhash` implements `AbsLru`, for any sizes | |
| `Shell` | the shell, `cat` and `loadf`, on top of `FileIO` | `sh.c`, `io_util.c` 24-43, 300-330 |
| `ShellSafety`, `MCShell` | properties, constants | |
| `ShellProofs` | `CatPrintsFileCorrect`, `LoadStoresCorrect`, `ArgsFreshCorrect` | |

`HfsSafety`, `HfsClaims`, `MCHfs` and the proof modules `HfsProofs` and
`HfsTreeProofs` (on top of it) extend `Hfs`,
which extends `HfsImage`. `Shell` extends `FileIO` and takes its actions as the calls of a
command, and `ShellProofs` extends the proofs of the file. `Dirhash` extends `LruList`.
The proof modules of `Dents`, `Layout` and `Dirhash` extend the modules with their
properties. The others stand alone: `Dents` refines
what `HfsImage` says of the entries of a directory, `Layout` what it says of the
allocation of blocks, `Dirhash` what `Hfs` says of a lookup.

### HfsImage and Hfs

A variable of `Hfs` is a variable of the code: `image` is what `fs.img` holds;
`cwd`, `dummy` (the inode number in the static dummy dentry) and `openfiles`
are memory of the process; `ret` is the result of the last call; `up` says
whether the image is mounted. A pointer to an entry is the place it points at (an
inode's inline slot, a block's slot, the root dentry, the dummy dentry), so a
pointer that outlives its entry reads whatever is in that place later, as it
does in the code. A call is one atomic action: it is the whole handler, every early
return a disjunct, every edit an operator of `HfsImage`, in the order of the
code. A call on the model returns `Fail(code)` or `Done(image)`.

`do_lookup` returns NULL without storing to `*pi` when it meets a file on the
way, and the caller then reads an uninitialized pointer (`Uninit`). What becomes of it
is a nondeterministic choice over what the build of the `Makefile` (gcc, `-Og`)
produces for calls from the shell. In `fs_creat` and `fs_mkdir` the pointer is the word
that the read of the line left on the stack, an address in the code of the C library:
it is neither NULL nor an inode, and the call is refused or dies
(`RefuseCreate`, `Crash`). In `fs_link` the entry is made in stray memory and the
link is counted, or the process dies.

What is abstracted: names are model values; pathnames have at most two
components (a deeper one is reached by a `chdir`); all entries have one record
length, so that an inline area is a number of slots and a freed slot of a block
always fits; sizes and time stamps of inodes are left out, and of a name or the text of a
symbolic link everything but the words it is made of (`NameWords`, `LinkWords`); `nlink`
counts modulo `NlinkMod`.

Three bounds. A call whose conversion would need a block beyond `MaxBlocks` is not
taken (`Fits`): the bound stands for a device that has room, not for the
allocator's failure. A regular directory has one block of `BlockSlots` entries, and a call
that would need a second one is not taken (`StaysInBlock`): `alloc_dentry` would put
the number of that block where the inum of the first inline entry was (`fs.c` 334,
`fs.h` 84-98), and a descriptor or a `cwd` that still points there would
read it as an inode number. A link beyond `MaxLinks` is not made.

`free_inode` takes every nonzero word of the data area of an inode for the number
of a block, whatever the area holds, and `free_data_block` clears the bit with that
number, not the bit of the block. `FreedNumbers` is the set of those words:
the parent, the inums and the names of an inline directory, the text of a symbolic link,
and the number of the block of a regular directory, which is `DataStart` plus
its place. `ClearedBits` is what that clears in the bitmap, of which the model
has `MaxBlocks` bits. In the instances `DataStart` is 100, and names and
texts spell numbers beyond `MaxBlocks`, so that inode numbers do the damage
(`BlocksFreed`); with a `LinkWords` of small numbers the text of a link does the
same. Left out are numbers beyond the bitmap, which clear a bit of whatever follows it in the
image; the word of an inline entry that has its length and type, above 2^24, is such
a number.

### FileIO

One regular file, its block table `blocks`, the contents `data`, `size`, and for
each descriptor an `offset`. `ReadBegin`, `ReadTurn`, `ReadEnd` and their
counterparts for write split a call at the turns of its loop, so that what was
stored before a failure, and a loop that does not end, can be seen. The variable
`call` holds the locals of the loop. The table has one element more than
`NBlocks`, because `get_off_addr` lets the index `NBLOCKS` pass: that word is
padding in the builds, so a file has 16 blocks. `Dies` is the fault
of a null pointer (a descriptor that is not open) or of `memcpy` with a negative
size. A descriptor outside the table (below 0 or too large) is not modelled,
nor is a device that runs out of blocks.

### Dents

A directory is `inline`, `area` (the records in the inode) and `blocks` (those of
each block). A record has a name, an inode, a length and the offset where the
loops of `fs.h` come to it, which is where the record before it ends. A removed
entry keeps its record; in a block the first one that is long enough is used
again, as it is, and in the inode none is. The record of a name has the length
`Header + Length + 1`; where the code puts a length in a `uint8_t` it is taken
modulo `Byte`. A conversion copies the records one by one (`copied`, a recursive
function). What `ls_dir` prints is a set of lines: the order is not in the
model. Calls are here what they do to one directory: `Add`, `Drop`, and
`Rename` within it. The bound `Visible` keeps names out of the last of the
`NBLOCKS` blocks, which `lookup_dent` does not look at.

### Layout

`init_superblock` is translated as it computes, with an image of any number of
bytes. `bits` and `inobits` are the bits set, `held` the blocks each inode has;
`file` is the length of `fs.img` and `mapped` how much of it the process has.
A new image is mapped with the size that was asked for, although the file is one
byte longer; a later mount maps the whole file. `alloc_data_block` sets the bit of
a block before it wipes the block, and looks at more bits than there are blocks. What
follows the mapping in the memory of the process is not the emulator's doing, so at
each mount `behind` is any number of pages up to `Behind`: a block in them is
handed out, and a block after them kills the process with its bit set.
`free_data_block` clears the bit with the number of the block.

### LruList and Dirhash

A table has its generation (`seqno`), the directory it serves, its capacity and
its places; an entry of it has a generation, a hash and a pointer (a directory
and a place in its block). Its operators take the state as a record and return
it, in the order of the code, so that a call is one step. `name_hash` is taken to
tell names apart, as the code does. A directory has one block of `Slots`
entries of one length; what happens to records of several lengths is in `Dents`.
`Unlink` empties an entry and tells the tables nothing, because
`hfs_dirhash_delete` is never called. Table 0 stands for no table in
`dirhash_rec.id`, so a directory that gets it cannot find it again; a call that
then needs the table again takes the next one as well, and so one call can give
away two tables (`TakeTwo` of `AbsLru`).

### Shell

`argv`, `argc` and `sysargs` are the variables of `sh.c`. `process` fills `argv` from
its start (`Parsed`) and leaves behind it what was there, a pointer into a buffer that
the next line overwrites (`Stale`); `syscall_handler` takes the arguments from
`argv`, numbers through `atol` (`Atol`: a word that is no number is 0, so `close x`
closes descriptor 0). `called` remembers the last system call and its line for
`ArgsFresh`. A number outside `openfiles[]` (`FarFds`) is not refused by `fs_close`: it
writes to other memory, or the process dies (`CloseFar`).

`task` is the command that runs, with its locals: `cat` and `loadf` take one step per
call they make, and a read or a write in them is the loop of `FileIO`. `write(1, ...)`
may fail or take only a part, which `cat` does not notice; `fread` may get less than
there is, or nothing, when it fails, which `loadf` takes for the end of its source.
Three fields of `task` are not in the code: `whole` says that no write was short,
`cut` that a `fread` failed, and `before` what the file was. `ShellAssumption` says that the
buffers and counts of `FileIO` are the ones the commands use.

`Bounded` names two bounds. A file that is printed has at most one block, unless chunks end
where blocks do, because a read over the end of a block does not return
(`ReadAcross`); `loadf` has no such bound. And no line unlinks, renames,
resets or unmounts the file under its descriptors: what that does is in `Hfs`, and
`Shell` has one file that is there.

## Runs

Every property of a passing run has a fault of the code (a definition marked
"A fault" beside the one it replaces, listed under `mutants`) with which TLC
finds it violated.

| Run | Question | Bounds |
|---|---|---|
| `Links` | do entries, link counts, parents, blocks and counters agree through creat, mkdir, link, rename, unlink, and does a call make and take no name but its own? | 2 names, 4 inodes, inline areas of 1 entry, 2 blocks |
| `Dirs` | the same for mkdir, rmdir, symlink, with all inodes in use at times | 2 names, 5 inodes, 1 inline entry, 3 blocks |
| `Handles` | does a descriptor stay with its file through unlink, rename, reset, unmount? | 2 names, 1 descriptor, 3 inodes, 2 inline entries, 1 block |
| `Dots` | do dots, relative pathnames, a `cwd` that dangles, and a crash leave types, links, blocks and lookups right? | 2 names, 3 inodes, 1 inline entry, 2 blocks, 7 pathnames |
| `FileData` | are reads, writes and seeks through two descriptors those of a sequence of bytes; do writes, and reads in one block, return? | 2 descriptors, blocks of 2 bytes, 3 blocks in the file, 2 byte values |
| `Dirhash` | are names in use found through the cache, does probing end, is the list whole, and is the table used longest ago the one that is reused? | 3 tables of 4 places, full at 3; 2 directories of up to 4 entries; 3 generations |
| `Layout` | are the regions of an image in order and large enough, and does every inode and bit that is handed out lie in its own? | images of 33, 34 (and a rest), 64 and 67 blocks of 8 bytes; 2 files, 1 removal, 2 ends of the process, 1 page behind |
| `Dents` | has every name room in its record, does `ls` print what lookups find, and is the directory a map? | 3 names of lengths 1, 2, 4; 2 inodes for them, 2 blocks |
| `Commands` | do calls get the words of their line, does `cat` print the file and `loadf` store its source, and do they return? | 13 lines of 0 to 4 words, an `argv` of 3, 2 descriptors and a number outside the table, sources of 2 and 9 bytes, blocks of 4, chunks of 2, a file of 8 |

Why the bounds are enough. With an inline area of one entry the second name in a
directory converts it, so every call meets inline, converted and full
directories, and both kinds of parent. Two names and directories of two levels
are what rename needs to replace, to swap and to move into itself. The inode
table of `Dirs` is filled in some states and nearly filled in `Links`, so every
`EALLOC` return is taken. In `Handles` an inline area takes two entries, the third
name converts a directory while its entries are open, and there is a block for one
conversion. The property is about descriptors on entries in an inode, whose slots are
not used again, and ends with the conversion of its directory: in a block,
`alloc_dentry_from_block` reuses the slot of an unlinked entry, and a second block of
a directory overwrites the first inline entry, so that a descriptor does come to
name another file. `BlockSlots` is larger than any directory of these runs gets, so
`StaysInBlock` leaves no state out. One descriptor is enough,
since no call looks at two of them; with one in use, `fs_open` finds none left.
In `FileData` a buffer of three bytes crosses a block wherever it starts, the
sizes reach the largest file, and a count of three crosses two ends of blocks.
The byte counters of the code are 32 bits wide and stay below 2^17, so their
width plays no part; the one difference that gets negative is `ReadSize`, which
is an integer in the model as in the code.

In `Dirhash` two directories use three tables, of which table 0 is never found
valid, so tables are taken from a directory that still names them; four entries
are one more than a table takes, so both ways of outgrowing it occur, while
loading and while adding; all names but ".." have the last place of a table as their
index, so that they collide and probing goes over the end of the table. Three
generations let entries of two older ones lie in the places of a newer, and a
table be taken, lost and taken again. In `Layout` the sizes are those at which a quantity of
`init_superblock` takes another value (no inode, the first byte of inodes, a
second block of the bitmap, a second byte), each file can take half of the
smallest device, and all blocks are in use in some states: the process then dies,
or gets the page behind. In `Dents` the third name converts the directory,
the two shorter ones end exactly where the block does, and the longest fits into no
other's record: both sides of every comparison of lengths occur. Names so long that a
length wraps in a `uint8_t` are not in the instance (see below). In
`Commands` the source of nine bytes is longer than the largest file, both commands
take several chunks, of which two make a block, the lines of `open` and the failures of `cat`
and `loadf` use up the descriptors, and every write and every `fread` can be cut at every byte,
so that a chunk also crosses the end of a block. Lines with too few words follow lines
with more, so that `argv` has old words where a call would look for its own; one line
is longer than `argv`.

`Links`, `Dirs`, `Handles` and `Dirhash` permute two names (`SYMMETRY`, sound because
the workloads are closed under it, in `Dirhash` both names have the same index,
and no property checked there is a liveness property). `VIEW StateView` leaves `ret` out, which no later step reads;
`LiveView` also leaves out the old contents of entries whose `inum` is 0, which is
only used where no pointer to an entry is kept (no `chdir`, no descriptors).

Fairness. `FileData` and `ReadAcross` use `FairSpec`: weak fairness of the
turns and ends of a call in progress, and of nothing else. The emulator is one
thread that runs a call until it returns. No caller is obliged to make a call.
`Commands` uses `ShFairSpec`: weak fairness of the steps of a command in
progress, for the same reason; nobody is obliged to type a line. Every other run checks
safety only. `CHECK_DEADLOCK FALSE` is used where the process may die (`FileIO`, `Layout`), where
the shell ends (`Commands`), and where a bound
lets no step be taken (`Dirhash`, `Dents`).

### Disagreements between the code and what it says

Each of these is a run in which TLC finds the quoted statement violated.

| Run | Statement | What the code does |
|---|---|---|
| `RmdirNonEmpty` | `dir_isempty` tells whether a directory is empty | `fs_rmdir` reads its result the wrong way round: non-empty inline directories are removed, empty ones refused |
| `BlocksFreed` | `free_inode` frees the blocks of the inode | it clears bits of blocks of other directories, which are then handed out twice |
| `ReadAcross` | `do_read` returns the number of bytes read | a read across the end of a block loops for ever or dies: `cat` of a file of 5000 bytes hangs |

Seen while reading, and not the subject of a run.

In the models as they are in the code: `fs_rename` onto `.` or `..` ignores the
refusal of `unlink_dent` and makes a second entry of that name (1005); from a path
that ends in `.`, the lookup in an inline directory returns the entry
of the directory itself (848), whose name is not a dot, so `foo/.` renames `foo`,
and `/.` of an inline root clears the number of the root directory; a lookup that
meets a file on the way leaves `*pi` unset, where the comment says NULL (837);
after `cd ..` out of an inline directory `cwd` is the dummy dentry, which the next
lookup of a `..` moves (1569); `!fd_inuse(fd)` is never true, so that a call on a
descriptor that is not in use is not refused (1063), nor is one outside the
table; `alloc_data_block` does not return 0 on a full device, as its comment says (144),
but dies or hands out a block the image does not have; `free_inode` takes the
text of a symbolic link for block numbers (253), so that removing a link to a name of
one character clears a bit between 33 and 126 (with 1 in `LinkWords` and `symlink` and `unlink`
among the calls, `BlocksStayUsed` fails
as it does in `BlocksFreed`); `cat` asks only whether `write` failed, and what a short
write left is never printed (`io_util.c` 33); `loadf` takes a `fread` that fails for the end of
its source and reports success (316); the block that the second mount of an image finds at its end was not part of it
before (1615).

In the dirhash: `do_lookup` does not ask whether the entry it ends at is of the
current generation, as its comment says it does (303), so a name that is not
in a directory can be found in another; an unlinked name is still found, since
`hfs_dirhash_delete` has no caller; `alloc_dentry` and `free_inode` read the words
of `dirhash_rec` as block numbers, against which `dirhash.h` 60 warns only for
a disabled directory; `hfs_dirhash_clear` follows a null pointer in the
default build, where the `dirhash_clear` command of a debug build calls it.

Lengths in eight bits: the record of a name of 247 characters and more wraps in
`inline_dent_can_fit` (`fs.h` 138) and is put into an inode it does not fit;
`namelen` of a name of 255 characters is 0 (`fs.h` 178), so no lookup finds it.
`lookup_dent` looks at one block less than `alloc_dentry` fills (686).

In the shell: `lseek`, `read` and `write` are known to `get_sysnum` and refused
by the switch; `cat` and `loadf` return after a failure without closing their
descriptor, and `loadf` without closing its source when it cannot open the
target (`io_util.c` 310, 322); a last line without a newline loses its last
character (`sh.c` 441). `benchmark_init_fs` does not report failures of `fill_dir`.

And: `do_write` that
reaches the largest size returns `-EALLOC` after storing bytes (`fs.c` 1201
against 1222; `FileIO` does so, and `ImplementsFile` allows it because `AbsFile`
lets a write store a prefix); a pathname without a leading slash starts at
`cwd`, not at the root (832 against 816); `fs_reset` keeps `cwd` (1674);
`fs_rmdir` takes one of the two links that `fs_mkdir` gave, so the inode stays
allocated (1384);
`inline_inodes` is not decremented and does not count inline links (1403, 253; `CountersAgree`
leaves it out); `fs_rename` does not move the link a subdirectory gives its parent
(1012; the workload of `Dirs`, which checks `DirNlink`, has no rename);
`EINVFD` is entered twice in the table of messages (`fserror.c` 23, 25).

## Proofs

Checked by `tlapm`, for all values of the constants that satisfy the named
assumptions of `HfsImage`, `Hfs`, `FileIO`, `Shell`, `Layout`, `LruList`,
`Dirhash` and `Dents`. Every invariant, action property and refinement that a
passing run checks is the conclusion of a theorem, except `NamesMove`.

`TypeCorrect` (`HfsProofs`): `Spec => []TypeOK`, for any number of inodes,
inline slots, blocks, descriptors and names, and any workload. `TypeOK` says
that no call leaves a dentry pointer, an inode number or a directory outside its
table, and that link counts stay in their width. It is inductive as it stands.
There is one lemma per operator of `HfsImage` (it takes a well-formed image to a
well-formed image), lemmas on lookup (what it returns is Null, or a pointer
that `TypeOK` allows, and `pi` is a directory's inode number, NULL or unset), one per call,
and a last step that puts them together. The chosen elements (`FreeInum`,
`FreeBlock`, the search for an entry) need that a non-empty set of numbers has a
least element, and the order in which a conversion copies entries needs that a
finite set of numbers can be enumerated in increasing order: that is `NatSets`,
by induction over the numbers.

`NamesUniqueCorrect` (`HfsProofs`): no name occurs twice in a directory, dots
included. It needs `RenamesToNames`: no `fs_rename` to a path that ends in a dot,
because the code then makes a second entry of that name (see above). The
inductive invariant `NamesInv` says it of the inline area of every inode and of
every block, allocated or not, since a block that is handed out twice is read
by both of its owners; an inline area holds no dots, which a conversion would then
write a second time; and a free inode has no type. What carries the induction is that a lookup which returned NULL, with
`*pi` set, says something of the image the new entry is then put into: the name
is not in that directory (`LookupSays`), and for `fs_rename` still not after the
first unlink.

`HfsTreeProofs`: ten theorems, for any number of inodes, inline slots, blocks and
names. Seven are about what a state looks like: `NoDanglingEntryCorrect`,
`NlinkCoversNamesCorrect`, `NlinkCountsNamesCorrect`, `ParentAgreesCorrect`,
`DotsResolveCorrect`, `BlocksExclusiveCorrect` and `CountersAgreeCorrect`. The other
three are `DirNlinkCorrect`, `RenameMovesCorrect` and `DescriptorKeepsFileCorrect`.
The hypothesis `TreeWorkload` names what the code gets wrong. Link counts cannot wrap
(`LinksFit`: `MaxInum` and `MaxLinks` below `NlinkMod`), no text of a symbolic link spells
the number of a bit (`TextBeyond`: otherwise removing the link clears that bit), and a workload renames or
removes directories, not both: no `fs_rmdir` and no `fs_rename` from or to a dot
(`RenamesOnly`), or no `fs_rename` and no `fs_rmdir` of a dot (`RmdirOnly`). Both
together are out, because `fs_rename` leaves the link counts of the
two parents as they are, and a later `fs_rmdir`, whose emptiness test is the wrong way
round (run `RmdirNonEmpty`), can then free a directory that still has names.
`NlinkCountsNamesCorrect` also assumes `LinksStayInRoot`, since an `fs_link` that walks
through a file counts a link and makes no entry. The workloads of `Links`, `Dirs`,
`Dots` and `Handles` satisfy `TreeWorkload`, that of `Links` also `LinksStayInRoot`.

The first seven share one inductive invariant, `TreeInv`, since none of them is inductive
without the others: that an entry does not dangle rests on the link counts
(`Lower`: an inode has as many links as names, a directory at least one more),
and these on names being unique and directories having one name (`OneName`); that they do not wrap
rests on `Upper`, which for a directory counts the directories; that a
conversion gets a block for itself rests on `Owned`; that a freed inode takes no
name, block or counter with it on all of them. Inside a call the invariant is
broken for the inode the call works on, so its parts take the inode and
what it is short of as parameters: `Shape(img, x, y)` lets the `..` of x and the
parent of y be wrong, `Lower(img, x, n, S)` and `Upper(img, x, h, c)` let x have n
links without a name and h links too many. Each operator of `HfsImage` has one lemma
in these terms (`Unlinked`, `Taken`, `NewName`, `LinkStep`, `Reparented`), and a call is a chain of
them: `fs_rename` is `Overwritten`, `Lifted`, `Settled`. An image is seen through
the set of entries inside each directory, so that inline and regular
directories, and conversions, are told apart in those lemmas only.

`DirNlinkCorrect` (with `LinksFit`, `TextBeyond` and `RmdirOnly`) says that a directory has two links and one for
each subdirectory. The invariant is `Exact`: it says so of every directory in the tree,
and that a directory `fs_rmdir` took out of it has one link less and stays
allocated. It needs that the root has no name (`Rootless`) and that any other directory has
at most one (`OneName`), so that a directory whose name is taken is out of the tree
for good. From `Exact` it also follows that no `fs_rmdir` frees an inode: the two links
of a directory would have to go with one name.

`RenameMovesCorrect` (with `RenamesOfNames`: absolute pathnames without dots, those of
run `Links`) says where two lookups lead after a rename. The image `fs_rename` makes
names what the old one named, except that the old name is gone and the new one is
given to the inode of the old (`Renames`); a lookup of a pathname follows its names
(`Reaches`); and the names on the way to the new name are not the ones that went, because
neither pathname lies below the other and a directory has one name.

`DescriptorKeepsFileCorrect` (with no `fs_rmdir`, and `OpensByName`: opened pathnames
end in names) says that a descriptor on an entry of an inline directory names its file or
nothing, as long as the directory is inline. A slot of an inline area that was used is `Spent`: the inode only adds
slots behind it, or is converted, which leaves what the slot held or nothing. Each routine is shown to keep
the spent slots of every directory (`SameSlots`, `KeepsSlots`), and a descriptor points
at a spent slot of a directory (`PointsInv`). A freed directory would start
its area anew, hence no `fs_rmdir`; a `.` opened relative to a `cwd` that dangles
gives the descriptor that old pointer, hence `OpensByName`. The workload of `Handles`
satisfies both.

`FileIOProofs` proves three theorems of `FileIO`, for any block size, any length
of the block table, any set of blocks larger than the table, and any descriptors
and buffers (`FileIOAssumption`): `FileTypeCorrect`, `NoHolesCorrect` and
`OffsetsCorrect`. None of the three invariants is inductive alone, so the
induction is over `FileInv == TypeOK /\ NoHoles /\ OffsetsInFile`, in which
`TypeOK` also bounds the locals of the call in progress (`CallOK`). The argument:
a write starts at an offset that is inside the file (`OffsetsInFile`), so the
block it touches is a block of the file or the next one, and it leaves no hole;
a read ends at the offset it started from plus what it copied, which its clamp to
the size keeps inside the file; and while a word of the table is zero, the table
holds fewer blocks than there are (`FreeBlockExists`, a cardinality argument), so
the allocation in the middle of a write finds one. The arithmetic of offsets,
quotient and remainder by the block size, is in lemmas of its own
(`OffsetParts`, `RestFits`, `SameBlock`, `TimesMonotone`), because the SMT
solver has no rules for products of variables.

`FileIOProofs` also proves `FileImplements`: every behaviour of `FileIO` is one of
`AbsFile` under the mapping of `FileIOSafety`, for the same constants. `TransferInv`
adds to `FileInv` what the call in progress has moved: what a read has in its
buffer are the bytes of the file from its position on (`ReadKept`); the file in the middle
of a write is the buffer from the position to the offset and what it was
before elsewhere (`WriteKept`). A turn of a loop then is a stutter, and the end of
the call the step of `AbsFile`.

`ShellProofs` proves what a whole command comes to, over any number of calls and
for any size of the buffer, the blocks, the source and the file: `CatPrintsFileCorrect` and
`LoadStoresCorrect`. `ShellInv` is `TransferInv` and what the command knows at
each place of its program: `cat` has printed the file up to its descriptor's offset
(`CatOK`) if no write was short, `loadf` has the file that was there overwritten with the
part of the source that it has read (`LoadOK`; `Moved`, `Loaded`). Between two calls these carry over what
the end of a read or a write says (`ReadEndIs`, `WriteEndIs`, on which
`FileImplements` rests too). The theorem about `cat` says nothing of a `cat`
that never gets to its `close`, and needs no bound on the size of the file.
`ArgsFreshCorrect`: a system call gets the words of its own line, or their numbers. What
carries it is that `argc` counts the words of this line even where `argv` has
older ones behind them, so that a call that passes `check_argc` looks at no other.

`LayoutProofs` proves `RegionsInOrderCorrect`, `InodesInRegionCorrect` and
`BitsInBitmapCorrect`, for any sizes of image, block,
inode and superblock that the assumption of `Layout` allows. The first two are about
divisions that round down (that the regions end inside the image is not among them:
an image of one block has its data at block 3). The third needs that a set bit stands for a block at
most `Behind` pages behind the image, and one more for each time the
process ended in an allocation, because the bit is set before the block is
wiped.

`DirhashProofs`: six theorems on the cache, for any number and size of tables, any
limit below the size, any directories, names and hash of them. Their inductive
invariant is `CacheInvariant`, of which four parts matter. The list is the image
of an order of the tables, given as a function (`Ordered`), and `lru_touch` and
`lru_demote` on the links are a table moved to the front or back of that order: this is
`DirhashList` and most of `DirhashImplementsLru`. The entries of the generation of
a table are at most its capacity (`TabOK`), so a place is left where a loop ends:
`DirhashProbesEnd`. No entry is of a later generation than its table, so a table
that is taken again has no entry of the generation it gets. A table that a hashed
directory would find holds each of its entries where probing for the name comes to it
(`Stored`), with no place before it at which a lookup would stop, and stays so
when other entries are put: that, and the same for a table just loaded, is
`DirhashFinds`. It speaks of names in use; that `do_lookup` may end at an entry of an older
generation (see above) does not contradict it, because for a name in use an entry of
this generation comes first.

`DentsProofs`: four theorems on records, for any lengths of names, areas and blocks.
The hypothesis `NoWrap` keeps the lengths of records below `Byte` (names of up to 246
characters in the code); longer ones wrap, as described under the disagreements. The
inductive invariant is `DentsInvariant`: the records of an area lie one after the other
(`Chained`) and end inside it, so that the loops of `fs.h` meet every record; with that,
a directory is the set of its places in use, in which a name occurs once, and with
`.` and `..` in it once it was converted (`Whole`). The conversion is an
induction along `copied`. `DentsFit` is the part on the lengths. `DentsListed` and
`DentsImplementsDir` go through one relation, which inode is seen under which name
(`Sees`): `lookup_dent` finds it, `ls_dir` prints it, and a call changes it
for its own names.

Only model-checked: liveness (`ShortCallsReturn`, `CommandsReturn`), which this prover
does not reach, `NamesMove`, whose counts of names made and gone no invariant here speaks
of, and the workloads the hypotheses above leave out. None of the modules
uses a RECURSIVE operator.

## Not modelled

* Error messages, the benchmark and the workload generators: they have no state
  of the file system. What the benchmark calls is in `Hfs`, except that its
  calls follow each other without a line being read between them, so that an unset pointer in
  `fs_creat` may hold something else there.
* A second block of a directory that was inline, as descriptors and `cwd` see it
  (`StaysInBlock`); in `Dents` directories have several blocks, and nothing points at
  their entries.
* Calls on a device without free blocks, except for the allocator itself (`Layout`).
* A crash between two writes of one call. `Crash` in `Hfs` is the fault where the
  code reads an unset pointer, and it comes before the call has changed the image;
  in `Layout` the process dies in the middle of an allocation.
* In the dirhash: `rename` and `rmdir`, directories of more than one block, names
  with equal hashes, and `hfs_dirhash_put_dir`, which has no caller.
* In the shell: the commands for debugging and benchmarks; the splitting of a line
  into words.
* What a mount does when the system refuses to open or map `fs.img`.
* Time stamps and sizes of directories.

## Plan

1. `Tree`: an abstract name space, implemented by `Hfs` for the workloads in
   which the disagreements above do not occur.
2. `HfsSteps`: `fs_rename`, `do_creat` and the conversion split at their writes,
   with a crash and a mount between any two.
3. The theorems of `HfsTreeProofs` for workloads with both `fs_rename` and `fs_rmdir`,
   if the code comes to move the link of a parent and to test emptiness the right
   way round.
