-------------------------------- MODULE Hfs ---------------------------------
(***************************************************************************)
(* The system calls of the Hobbit File System that read and change the     *)
(* name space (src/fs.c, the default build: inline directories on, dirhash *)
(* off).  The emulator is one thread, so a call is one atomic step; what   *)
(* makes it hard is the state a call leaves behind for later ones, namely  *)
(* pointers to directory entries that outlive the entries they pointed at. *)
(*                                                                         *)
(* image survives the process (it is the mapped fs.img); the other         *)
(* variables are memory of the process.                                    *)
(***************************************************************************)
EXTENDS HfsImage

CONSTANTS
  Calls,   \* the calls the workload issues
  Args,    \* the pathnames it passes to each of them
  Pairs,   \* the pairs of pathnames it passes to link and rename
  Fds,     \* the indices of openfiles[]
  MaxLinks \* the workload makes no link to a file that has this many

AllCalls == {"creat", "mkdir", "unlink", "rmdir", "link", "rename", "symlink",
             "stat", "chdir", "open", "close", "reset", "unmount"}

\* A pathname: absolute or not, and its components, at most two of them (what
\* a deeper one names is reached by a chdir to its prefix).
Path == [abs : BOOLEAN,
         comp : {<< >>} \union {<<c>> : c \in Comp} \union (Comp \X Comp)]

ASSUME HfsAssumption ==
  /\ Calls \subseteq AllCalls
  /\ Args \in [AllCalls -> SUBSET Path]
  /\ Pairs \in [{"link", "rename"} -> SUBSET (Path \X Path)]
  /\ Fds \subseteq Nat
  /\ MaxLinks \in Nat

VARIABLES
  image,      \* the mapped image
  up,         \* whether the image is mounted
  cwd,        \* the dentry pointer that is the working directory
  dummy,      \* inum in the static dummy dentry of do_lookup
  openfiles,  \* f_dentry of every file descriptor, or Null
  ret         \* what the last call returned

vars == << image, up, cwd, dummy, openfiles, ret >>

\* The value of the caller's inode pointer: an inode number, 0 for NULL, or
\* Uninit when do_lookup returned without storing to *pi.
Uninit == -1

Errors == {"ENOFOUND", "EEXISTS", "EALLOC", "EINVTYPE", "ENOFD", "ENOTEMPTY",
           "EINVAL", "ESAME"}
Results == {"OK", "CRASH"} \union Errors

-----------------------------------------------------------------------------
(* do_lookup.                                                              *)

LookupStart(path) ==
  [prev |-> IF path.abs THEN RootPtr ELSE cwd, dent |-> Null, pi |-> 0,
   dummy |-> dummy, done |-> FALSE]

\* One turn of the loop in do_lookup, for component c.
LookupStep(img, at, c, last) ==
  LET iprev == Deref(img, at.dummy, at.prev).inum
      inline == img.inode[iprev].inline
      k == FindDent(Ents(img, iprev), c)
      dent == IF inline /\ c = Dot THEN at.prev
              ELSE IF inline /\ c = DotDot THEN DummyPtr
              ELSE IF k = 0 THEN Null ELSE EntPtr(img, iprev, k)
  IN  IF img.inode[iprev].type # "DIR"
      THEN [at EXCEPT !.dent = Null, !.pi = Uninit, !.done = TRUE]
      ELSE [prev |-> IF last \/ dent = Null THEN at.prev ELSE dent,
            dent |-> dent,
            pi |-> IF dent = Null /\ ~ last THEN 0 ELSE iprev,
            dummy |-> IF inline /\ c = DotDot THEN img.inode[iprev].p_inum
                      ELSE at.dummy,
            done |-> dent = Null]

LookupSecond(img, path, at) ==
  IF at.done THEN at ELSE LookupStep(img, at, path.comp[2], TRUE)

LookupFrom(img, path, start) ==
  IF path.comp = << >> THEN start
  ELSE IF Len(path.comp) = 1 THEN LookupStep(img, start, path.comp[1], TRUE)
  ELSE LookupSecond(img, path, LookupStep(img, start, path.comp[1], FALSE))

Lookup(path) == LookupFrom(image, path, LookupStart(path))

\* The second lookup of a call, after one that left dm in the dummy dentry.
LookupAfter(path, dm) ==
  LookupFrom(image, path, [LookupStart(path) EXCEPT !.dummy = dm])

\* get_filename.
Filename(path) == path.comp[Len(path.comp)]

-----------------------------------------------------------------------------
(* How a call ends.                                                        *)

Fail(code) == ret' = code /\ UNCHANGED << image, up, cwd, openfiles >>

Done(img) == ret' = "OK" /\ image' = img /\ UNCHANGED << up, cwd, openfiles >>

\* The process dies inside a call; the image stays as it is.
Crash ==
  /\ ret' = "CRASH"
  /\ up' = FALSE
  /\ cwd' = RootPtr
  /\ dummy' = 0
  /\ openfiles' = [fd \in Fds |-> Null]
  /\ UNCHANGED image

Issued(call) == up /\ call \in Calls

\* A conversion in new_dentry finds a block (a bound of the model).
Fits(img, d) == img.inode[d].inline /\ InlineFull(img, d) => BlockAvailable(img)

\* A regular directory does not outgrow its block (a bound of the model).
StaysInBlock(img, d) ==
  ~ img.inode[d].inline =>
    \/ Live(Ents(img, d)) # 1 .. Len(Ents(img, d))
    \/ Len(Ents(img, d)) < BlockSlots

-----------------------------------------------------------------------------
(* fs_creat and fs_mkdir.  When do_lookup left *pi unset, dir is the word   *)
(* its place on the stack held before.  In the build of the Makefile (gcc   *)
(* -Og) that is, at every call the shell makes, the address in the C        *)
(* library's code that reading the line left there: it is neither NULL nor  *)
(* an inode, and the byte taken for its type is not that of a directory, or *)
(* cannot be read.                                                          *)

RefuseCreate(found, type) ==
  \/ found.dent # Null /\ Fail("EEXISTS")
  \/ found.dent = Null /\ found.pi = 0 /\ Fail("ENOFOUND")
  \/ found.pi = Uninit /\ Fail("EINVTYPE")
  \/ found.dent = Null /\ found.pi > 0 /\ FreeInum(image) = 0 /\ Fail("EALLOC")

Create(path, type) ==
  LET found == Lookup(path)
      i == FreeInum(image)
  IN  \/ RefuseCreate(found, type) /\ dummy' = found.dummy
      \/ found.pi = Uninit /\ Crash
      \/ /\ found.dent = Null /\ found.pi > 0 /\ i # 0
         /\ Fits(AllocInode(image, i, type), found.pi)
         /\ StaysInBlock(AllocInode(image, i, type), found.pi)
         /\ Done(DoCreat(image, found.pi, i, Filename(path), type))
         /\ dummy' = found.dummy

Creat(path) == Issued("creat") /\ Create(path, "REG")
Mkdir(path) == Issued("mkdir") /\ Create(path, "DIR")

(* fs_unlink. *)
Unlink(path) ==
  LET found == Lookup(path)
      i == Deref(image, found.dummy, found.dent).inum
  IN  /\ Issued("unlink")
      /\ dummy' = found.dummy
      /\ \/ found.dent = Null /\ Fail("ENOFOUND")
         \/ /\ found.dent # Null /\ image.inode[i].type = "DIR"
            /\ Fail("EINVTYPE")
         \/ /\ found.dent # Null /\ image.inode[i].type # "DIR"
            /\ Done(UnlinkDent(image, found.dummy, found.dent))

(* fs_rmdir, with the result of dir_isempty tested as the code tests it. *)
Rmdir(path) ==
  LET found == Lookup(path)
      i == Deref(image, found.dummy, found.dent).inum
  IN  /\ Issued("rmdir")
      /\ dummy' = found.dummy
      /\ \/ found.dent = Null /\ Fail("ENOFOUND")
         \/ /\ found.dent # Null /\ image.inode[i].type # "DIR"
            /\ Fail("EINVTYPE")
         \/ /\ found.dent # Null /\ image.inode[i].type = "DIR"
            /\ ~ DirIsEmptyResult(image, i)
            /\ Fail("ENOTEMPTY")
         \/ /\ found.dent # Null /\ image.inode[i].type = "DIR"
            /\ DirIsEmptyResult(image, i)
            /\ Done(DropLink(UnlinkDent(image, found.dummy, found.dent), found.pi))

(* fs_link.  With *pi unset the entry goes to stray memory and only the     *)
(* link count is left, or the process faults.                               *)
Link(old, new) ==
  LET source == Lookup(old)
      i == Deref(image, source.dummy, source.dent).inum
      target == LookupAfter(new, source.dummy)
  IN  /\ Issued("link")
      /\ image.inode[i].nlink < MaxLinks
      /\ \/ /\ source.dent = Null
            /\ Fail("ENOFOUND") /\ dummy' = source.dummy
         \/ /\ source.dent # Null /\ image.inode[i].type = "DIR"
            /\ Fail("EINVTYPE") /\ dummy' = source.dummy
         \/ /\ source.dent # Null /\ image.inode[i].type # "DIR"
            /\ \/ /\ target.dent # Null
                  /\ Fail("EEXISTS") /\ dummy' = target.dummy
               \/ /\ target.dent = Null /\ target.pi = 0
                  /\ Fail("ENOFOUND") /\ dummy' = target.dummy
               \/ /\ target.pi = Uninit
                  /\ \/ Done(AddLink(image, i)) /\ dummy' = target.dummy
                     \/ Crash
               \/ /\ target.dent = Null /\ target.pi > 0
                  /\ Fits(image, target.pi) /\ StaysInBlock(image, target.pi)
                  /\ Done(NewDentry(image, target.pi, i, Filename(new)))
                  /\ dummy' = target.dummy

(* fs_symlink: the inode from its own alloc_inode call is never used again, *)
(* do_creat allocates another one.  The target fits inline.                 *)
Symlink(path) ==
  LET found == Lookup(path)
      i == FreeInum(image)
      first == AllocInode(image, i, "SYM")
      j == FreeInum(first)
      made == DoCreat(first, found.pi, j, Filename(path), "SYM")
  IN  /\ Issued("symlink")
      /\ dummy' = found.dummy
      /\ \/ found.dent # Null /\ Fail("EEXISTS")
         \/ found.dent = Null /\ found.pi <= 0 /\ Fail("ENOFOUND")
         \/ found.dent = Null /\ found.pi > 0 /\ i = 0 /\ Fail("EALLOC")
         \/ /\ found.dent = Null /\ found.pi > 0 /\ i # 0 /\ j = 0
            /\ ret' = "EALLOC" /\ image' = first
            /\ UNCHANGED << up, cwd, openfiles >>
         \/ /\ found.dent = Null /\ found.pi > 0 /\ i # 0 /\ j # 0
            /\ Fits(AllocInode(first, j, "SYM"), found.pi)
            /\ StaysInBlock(AllocInode(first, j, "SYM"), found.pi)
            /\ Done([made EXCEPT !.inode[j].inline = TRUE])

\* (A fault: the extra link of the moved inode stays.)
RenamedExtraLink(img, dm, olddent, newdent, newdir, name) ==
  LET i == Deref(img, dm, olddent).inum
      overwritten == IF newdent = Null THEN img ELSE UnlinkDent(img, dm, newdent)
      unlinked == UnlinkDent(AddLink(overwritten, i), dm, olddent)
  IN  UpdateDirInode(NewDentry(unlinked, newdir, i, name), i, newdir)

\* (A fault: an entry at the new path is not unlinked.)
RenamedKeepsTarget(img, dm, olddent, newdent, newdir, name) ==
  LET i == Deref(img, dm, olddent).inum
      unlinked == UnlinkDent(AddLink(img, i), dm, olddent)
  IN  UpdateDirInode(DropLink(NewDentry(unlinked, newdir, i, name), i), i, newdir)

\* (A fault: the new entry is made before the old one is unlinked, the order
\* the comment in fs_rename warns of.)
RenamedNewFirst(img, dm, olddent, newdent, newdir, name) ==
  LET i == Deref(img, dm, olddent).inum
      overwritten == IF newdent = Null THEN img ELSE UnlinkDent(img, dm, newdent)
      made == NewDentry(overwritten, newdir, i, name)
  IN  UpdateDirInode(UnlinkDent(made, dm, olddent), i, newdir)

(* fs_rename: the entry at the new path is unlinked, the old entry is       *)
(* unlinked under an extra link, and a new entry is made.                   *)
Renamed(img, dm, olddent, newdent, newdir, name) ==
  LET i == Deref(img, dm, olddent).inum
      overwritten == IF newdent = Null THEN img ELSE UnlinkDent(img, dm, newdent)
      unlinked == UnlinkDent(AddLink(overwritten, i), dm, olddent)
      moved == DropLink(NewDentry(unlinked, newdir, i, name), i)
  IN  UpdateDirInode(moved, i, newdir)

\* The image new_dentry sees in fs_rename (for the bound in Fits).
BeforeMove(img, dm, olddent, newdent) ==
  LET i == Deref(img, dm, olddent).inum
      overwritten == IF newdent = Null THEN img ELSE UnlinkDent(img, dm, newdent)
  IN  UnlinkDent(AddLink(overwritten, i), dm, olddent)

\* The checks that precede the first change: the old entry exists and is not
\* a dot entry, the new one is another one of the same type, if it exists.
MayRename(source, target) ==
  LET olddent == Deref(image, source.dummy, source.dent)
      newdent == Deref(image, target.dummy, target.dent)
  IN  /\ source.dent # Null /\ olddent.name \notin {Dot, DotDot}
      /\ target.pi > 0 /\ target.dent # source.dent
      /\ target.dent # Null => newdent.file_type = olddent.file_type

Rename(old, new) ==
  LET source == Lookup(old)
      olddent == Deref(image, source.dummy, source.dent)
      target == LookupAfter(new, source.dummy)
      newdent == Deref(image, target.dummy, target.dent)
      goes == source.dent # Null /\ olddent.name \notin {Dot, DotDot}
  IN  /\ Issued("rename")
      /\ dummy' = IF goes THEN target.dummy ELSE source.dummy
      /\ \/ source.dent = Null /\ Fail("ENOFOUND")
         \/ source.dent # Null /\ ~ goes /\ Fail("EINVAL")
         \/ goes /\ target.pi <= 0 /\ Fail("ENOFOUND")
         \/ goes /\ target.pi > 0 /\ target.dent = source.dent /\ Fail("ESAME")
         \/ /\ goes /\ target.pi > 0 /\ target.dent \notin {Null, source.dent}
            /\ newdent.file_type # olddent.file_type
            /\ Fail("EINVTYPE")
         \/ /\ MayRename(source, target)
            /\ LET before == BeforeMove(image, target.dummy, source.dent, target.dent)
               IN  Fits(before, target.pi) /\ StaysInBlock(before, target.pi)
            /\ Done(Renamed(image, target.dummy, source.dent, target.dent,
                            target.pi, Filename(new)))

-----------------------------------------------------------------------------
(* Calls that keep a dentry pointer, and calls that only look up.           *)

(* fs_stat; fs_readlink and ls resolve a pathname the same way. *)
Stat(path) ==
  LET found == Lookup(path)
  IN  /\ Issued("stat")
      /\ dummy' = found.dummy
      /\ ret' = IF found.dent = Null THEN "ENOFOUND" ELSE "OK"
      /\ UNCHANGED << image, up, cwd, openfiles >>

\* (A fault: the result of lookup is not checked.)
ChdirUnchecked(path) ==
  /\ Issued("chdir")
  /\ dummy' = Lookup(path).dummy
  /\ cwd' = Lookup(path).dent
  /\ ret' = "OK"
  /\ UNCHANGED << image, up, openfiles >>

(* fs_chdir: the working directory is the dentry that was found. *)
Chdir(path) ==
  LET found == Lookup(path)
      i == Deref(image, found.dummy, found.dent).inum
  IN  /\ Issued("chdir")
      /\ dummy' = found.dummy
      /\ \/ found.dent = Null /\ Fail("ENOFOUND")
         \/ /\ found.dent # Null /\ image.inode[i].type # "DIR"
            /\ Fail("EINVTYPE")
         \/ /\ found.dent # Null /\ image.inode[i].type = "DIR"
            /\ cwd' = found.dent
            /\ ret' = "OK"
            /\ UNCHANGED << image, up, openfiles >>

FreeFds == {fd \in Fds : openfiles[fd] = Null}

(* fs_open, with the descriptor get_open_fd picks. *)
Open(path) ==
  LET found == Lookup(path)
      i == Deref(image, found.dummy, found.dent).inum
      fd == CHOOSE f \in FreeFds : \A g \in FreeFds : f <= g
  IN  /\ Issued("open")
      /\ \/ FreeFds = {} /\ Fail("ENOFD") /\ UNCHANGED dummy
         \/ /\ FreeFds # {} /\ found.dent = Null
            /\ Fail("ENOFOUND") /\ dummy' = found.dummy
         \/ /\ FreeFds # {} /\ found.dent # Null /\ image.inode[i].type = "DIR"
            /\ Fail("EINVTYPE") /\ dummy' = found.dummy
         \/ /\ FreeFds # {} /\ found.dent # Null /\ image.inode[i].type # "DIR"
            /\ openfiles' = [openfiles EXCEPT ![fd] = found.dent]
            /\ ret' = "OK" /\ dummy' = found.dummy
            /\ UNCHANGED << image, up, cwd >>

(* fs_close: fd_inuse yields 1 or -1, so its test never refuses. *)
Close(fd) ==
  /\ Issued("close")
  /\ openfiles' = [openfiles EXCEPT ![fd] = Null]
  /\ ret' = "OK"
  /\ UNCHANGED << image, up, cwd, dummy >>

-----------------------------------------------------------------------------
(* The life of the image.                                                  *)

(* fs_reset: everything is written anew except cwd. *)
Reset ==
  /\ Issued("reset")
  /\ image' = NewImage
  /\ openfiles' = [fd \in Fds |-> Null]
  /\ ret' = "OK"
  /\ UNCHANGED << up, cwd, dummy >>

(* fs_unmount. *)
Unmount ==
  /\ Issued("unmount")
  /\ up' = FALSE
  /\ ret' = "OK"
  /\ UNCHANGED << image, cwd, dummy, openfiles >>

(* fs_mount of the existing fs.img, by this process or by a new one. *)
Mount ==
  /\ ~ up
  /\ up' = TRUE
  /\ cwd' = RootPtr
  /\ openfiles' = [fd \in Fds |-> Null]
  /\ ret' = "OK"
  /\ UNCHANGED << image, dummy >>

Init ==
  /\ image = NewImage
  /\ up = TRUE
  /\ cwd = RootPtr
  /\ dummy = 0
  /\ openfiles = [fd \in Fds |-> Null]
  /\ ret = "OK"

Next ==
  \/ \E p \in Args["creat"] : Creat(p)
  \/ \E p \in Args["mkdir"] : Mkdir(p)
  \/ \E p \in Args["unlink"] : Unlink(p)
  \/ \E p \in Args["rmdir"] : Rmdir(p)
  \/ \E p \in Args["symlink"] : Symlink(p)
  \/ \E p \in Pairs["link"] : Link(p[1], p[2])
  \/ \E p \in Pairs["rename"] : Rename(p[1], p[2])
  \/ \E p \in Args["stat"] : Stat(p)
  \/ \E p \in Args["chdir"] : Chdir(p)
  \/ \E p \in Args["open"] : Open(p)
  \/ \E fd \in Fds : Close(fd)
  \/ Reset
  \/ Unmount
  \/ Mount

Spec == Init /\ [][Next]_vars
=============================================================================
