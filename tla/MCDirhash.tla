----------------------------- MODULE MCDirhash ------------------------------
(* Three tables for two directories: table 0, which is never found valid,   *)
(* and two others.  All names but ".." have the last place of a table for   *)
(* their index, so probing goes over its end.  The names a and b may be     *)
(* exchanged for each other.                                                *)
EXTENDS DirhashSafety

CONSTANTS a, b

MCDotNames == <<"dot", "dotdot">>
MCIndex == [n \in Names |-> IF n = "dotdot" THEN 0 ELSE 3]
Renamings == Permutations({a, b})
=============================================================================
