---------------------------- MODULE FileIOSafety ----------------------------
(* What the calls on a file keep, and that they are those of a sequence of *)
(* bytes (AbsFile).                                                        *)
EXTENDS FileIO

\* The largest size get_off_addr lets a file have.
MaxSize == (NBlocks + 1) * BSize

AbstractFile ==
  INSTANCE AbsFile WITH
    content <- IF call.op = "write" THEN call.before ELSE Content,
    pos <- offset,
    out <- ret.buf

\* The reads, writes and seeks are the ones of a sequence of bytes with a
\* position for each descriptor (fs_open, fs_lseek, fs_read, fs_write).
ImplementsFile == AbstractFile!Spec

\* The locals of the call in progress: what a read has copied lies between the
\* position and off, and neither is behind the end of the file; a write has
\* n bytes of its buffer left.
CallOK ==
  \/ call = Idle
  \/ /\ call = Reading(call.fd, call.n, call.off, call.buf)
     /\ call.fd \in opened /\ call.n \in Nat
     /\ call.buf \in Seq(Bytes \union {0})
     /\ call.off = offset[call.fd] + Len(call.buf)
     /\ call.off <= size
  \/ /\ call = Writing(call.fd, call.buf, call.n, call.off, call.before)
     /\ call.fd \in opened /\ call.buf \in Buffers
     /\ call.n \in 0 .. Len(call.buf)
     /\ call.off \in 0 .. MaxSize

\* The file, the descriptors and the call in progress have their types; in
\* particular no turn of do_write gets past the block table.
TypeOK ==
  /\ blocks \in [0 .. NBlocks -> Blocks \union {0}]
  /\ data \in [Blocks -> [0 .. BSize - 1 -> Bytes \union {0}]]
  /\ size \in 0 .. MaxSize
  /\ opened \subseteq Fds
  /\ offset \in [Fds -> 0 .. MaxSize]
  /\ alive \in BOOLEAN
  /\ ret.code \in Codes
  /\ CallOK

\* Every byte before the end of the file, and every block before the end of
\* the one that is written, is in a block, and no block holds two parts of
\* the file: get_off_addr never finds a hole, whatever the descriptors are.
NoHoles ==
  LET end == IF call.op = "write" /\ call.off > size THEN call.off ELSE size
  IN  /\ \A b \in 0 .. NBlocks : b * BSize < end => blocks[b] # 0
      /\ \A b, c \in 0 .. NBlocks : blocks[b] = blocks[c] /\ b # c => blocks[b] = 0

\* No position is behind the end of the file (fs_lseek's test is enough: no
\* other call, through this descriptor or another, makes it so).
OffsetsInFile == \A fd \in Fds : offset[fd] <= size

\* Every write, and every read that stays in one block, returns.
ShortCall ==
  \/ call.op = "write"
  \/ call.op = "read" /\ call.buf = << >> /\ call.n <= RestOfBlock(call.off)

ShortCallsReturn == ShortCall ~> call = Idle

-----------------------------------------------------------------------------
(* What a comment says and the code does not do.                            *)

\* "@return The number of bytes read" (over do_read): a read returns.
ReadsReturn == call.op = "read" ~> call = Idle
=============================================================================
