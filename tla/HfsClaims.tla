----------------------------- MODULE HfsClaims ------------------------------
(***************************************************************************)
(* What comments of src/fs.c and include/fs.h say of the name space and    *)
(* the code does not do.  Every property here is refuted by a run.         *)
(***************************************************************************)
EXTENDS HfsSafety

\* fs_rmdir removes a directory only if it is empty: as long as a directory
\* has entries it keeps its name (in a workload without rename).
RmdirOnlyEmpty ==
  [][\A d \in Dirs : Entries(d) # {} /\ NamedAt(d) # {} => NamedAt(d)' # {}]_vars

\* Freeing an inode frees its own blocks: the blocks of the other directories
\* stay marked as used.
BlocksStayUsed ==
  \A d \in Dirs : ~ image.inode[d].inline => image.inode[d].block \in image.bitmap
=============================================================================
