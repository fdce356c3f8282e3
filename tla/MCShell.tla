------------------------------- MODULE MCShell ------------------------------
(* Two descriptors, and a file of at most two blocks of four bytes, which   *)
(* BSize and NBlocks make, moved in chunks of two: the source "big" is      *)
(* longer.                                                                  *)
EXTENDS ShellSafety

MCBuffers == UNION {[1 .. n -> Bytes] : n \in 0 .. BufSize}

MCSources == [two |-> <<2, 1>>, big |-> <<2, 2, 2, 2, 1, 1, 1, 1, 1>>]

\* Lines that are complete or have too few, too many or unknown words; a line
\* with fewer words than its call needs may follow one with more.
MCLines == { << >>, <<"q">>, <<"cat", "x", "f">>, <<"loadf", "two", "f">>,
             <<"loadf", "big", "f">>, <<"open", "f">>, <<"open", "x">>,
             <<"close", "0">>, <<"close", "x">>, <<"close", "9">>,
             <<"link", "f", "g">>, <<"link", "g">>, <<"a", "b", "c", "d">> }
=============================================================================
