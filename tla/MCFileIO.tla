------------------------------ MODULE MCFileIO ------------------------------
(* FileIO with two descriptors on a file of at most three blocks of two    *)
(* bytes.  A buffer of three bytes is longer than a block and than what    *)
(* is left of the file when it is nearly full; an empty one is written by  *)
(* nothing but a caller of fs_write.                                       *)
EXTENDS FileIOSafety

MCBuffers == { << >>, <<1>>, <<1, 2, 1>> }
=============================================================================
