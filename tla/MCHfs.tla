------------------------------- MODULE MCHfs --------------------------------
(***************************************************************************)
(* Workloads for model checking Hfs: which calls are issued, and with      *)
(* which pathnames.                                                        *)
(***************************************************************************)
EXTENDS HfsClaims, TLC

CONSTANTS foo, bar   \* the file names of the instance

FileNames == {foo, bar}
\* Three letters spell a number that is larger than any bitmap has bits.
Spelled == [n \in FileNames |-> {7303014}]
NameSymmetry == Permutations(FileNames)

Abs(comp) == [abs |-> TRUE, comp |-> comp]
Rel(comp) == [abs |-> FALSE, comp |-> comp]

\* Absolute pathnames without dots, of one and of two components.
Top == {Abs(<<foo>>), Abs(<<bar>>)}
Deep == Top \union {Abs(<<foo, bar>>), Abs(<<bar, foo>>)}

\* A call outside the workload gets no arguments.
Same(calls, paths) == [c \in AllCalls |-> IF c \in calls THEN paths ELSE {}]
NoPairs == [c \in {"link", "rename"} |-> {}]
None == {}

\* What a call returned has no influence on the calls after it.
StateView == << image, up, cwd, dummy, openfiles >>

\* Nor has, as long as no dentry pointer is kept, what is left in an entry
\* after its inum was set to 0.
Wiped(s) == [k \in DOMAIN s |-> IF s[k].inum = 0 THEN ZeroDentry ELSE s[k]]
LiveView ==
  << [image EXCEPT
        !.inode = [i \in Inum |-> [image.inode[i] EXCEPT !.ents = Wiped(@)]],
        !.blocks = [n \in BlockNo |-> Wiped(image.blocks[n])]],
     up, cwd, dummy, openfiles >>

-----------------------------------------------------------------------------
\* Links: files and directories are named, linked, moved and unlinked, but no
\* directory is removed.  Links are made between entries of the root, so that
\* no fs_link walks through a file.
LinkCalls == {"creat", "mkdir", "unlink", "link", "rename"}
LinkArgs == [Same(LinkCalls, Deep) EXCEPT !["mkdir"] = Top]
LinkPairs == [NoPairs EXCEPT !["link"] = Top \X Top, !["rename"] = Deep \X Deep]

\* Dirs: directories come and go (as far as fs_rmdir lets them), nothing is
\* renamed.
DirCalls == {"creat", "mkdir", "unlink", "rmdir", "symlink"}
DirArgs == Same(DirCalls, Deep)

\* Handles: files are open while entries are unlinked and moved, and the image
\* is unmounted or reset.
HandleCalls == {"creat", "mkdir", "unlink", "rename", "open", "close", "reset", "unmount"}
HandleArgs == [Same(HandleCalls, Deep) EXCEPT !["mkdir"] = Top]
HandlePairs == [NoPairs EXCEPT !["rename"] = Deep \X Deep]

\* Dots: pathnames through "." and "..", absolute and relative, while the
\* directories they lead to are converted.
Dotted == {Abs(<<foo>>), Abs(<<foo, DotDot>>), Abs(<<foo, Dot>>), Abs(<<foo, bar>>),
           Rel(<<bar>>), Rel(<<DotDot>>), Rel(<<DotDot, bar>>)}
DotCalls == {"creat", "mkdir", "unlink", "link", "rename", "chdir", "stat"}
DotArgs == Same(DotCalls, Dotted)
DotPairs ==
  [link |-> {<<Abs(<<foo>>), Abs(<<bar>>)>>, <<Rel(<<bar>>), Abs(<<foo, bar>>)>>,
             <<Abs(<<foo, DotDot>>), Abs(<<bar>>)>>},
   rename |-> {<<Abs(<<foo>>), Abs(<<bar>>)>>, <<Rel(<<bar>>), Abs(<<foo, bar>>)>>,
               <<Abs(<<foo, DotDot>>), Abs(<<bar>>)>>}]
-----------------------------------------------------------------------------
\* Small workloads, one for each claim of HfsClaims.
RmdirArgs == Same({"creat", "mkdir", "rmdir"}, Deep)
RmdirCalls == {"creat", "mkdir", "rmdir"}

ReuseCalls == {"creat", "mkdir", "rmdir", "rename"}
ReuseArgs == [Same({"creat", "mkdir", "rmdir"}, Deep) EXCEPT !["mkdir"] = Top]
ReusePairs == [NoPairs EXCEPT !["rename"] = Deep \X Deep]
=============================================================================
