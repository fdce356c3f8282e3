------------------------------- MODULE FileIO -------------------------------
(***************************************************************************)
(* The data of one regular file (src/fs.c: get_off_addr, do_read, do_write *)
(* and the calls on descriptors).  A call is one step per turn of its loop *)
(* and one for its end, so that what a call does before it fails, and a    *)
(* loop that does not end, can be seen.  The sizes are unsigned in the     *)
(* code, but a file has at most (NBlocks + 1) * BSize bytes, far from the  *)
(* end of their range; the one subtraction that goes below 0 is ReadSize.  *)
(***************************************************************************)
EXTENDS Integers, Sequences, FiniteSets

CONSTANTS
  BSize,       \* bytes in a data block
  NBlocks,     \* the length of data.blocks[] (15 in the code)
  Blocks,      \* the data blocks of the device
  Bytes,       \* the values a byte can have
  Fds,         \* the indices of openfiles[]
  StrayFds,    \* descriptors that callers use without having opened them
  Buffers,     \* the buffers that are written
  ReadCounts   \* the counts that are read

ASSUME FileIOAssumption ==
  /\ BSize \in Nat \ {0}
  /\ NBlocks \in Nat \ {0}
  /\ Blocks \subseteq Nat \ {0} /\ IsFiniteSet(Blocks)
  /\ Cardinality(Blocks) > NBlocks
  /\ StrayFds \subseteq Fds /\ Fds \subseteq Nat
  /\ Buffers \subseteq Seq(Bytes)
  /\ ReadCounts \subseteq Nat

VARIABLES
  blocks,  \* data.blocks[], and the word after it
  data,    \* the contents of the data blocks
  size,    \* the size of the file
  opened,  \* the descriptors with an f_dentry
  offset,  \* the offset of each descriptor
  call,    \* the call in progress
  ret,     \* what the last call returned
  alive    \* FALSE when the process died

vars == << blocks, data, size, opened, offset, call, ret, alive >>

\* fd_inuse yields 1 or -1, so its test never refuses a descriptor: what a
\* call does with one that is not open is to dereference a null pointer.
Codes == {"OK", "EALLOC", "EINVAL", "ENOFD", "EINVFD", "CRASH"}

Idle == [op |-> "idle"]
Reading(fd, n, off, buf) ==
  [op |-> "read", fd |-> fd, n |-> n, off |-> off, buf |-> buf]
\* before (the file as it was when the call began) is not in the code: it is
\* there to state what the call does.
Writing(fd, buf, n, off, before) ==
  [op |-> "write", fd |-> fd, buf |-> buf, n |-> n, off |-> off, before |-> before]

Result(op, fd, code, n) == [op |-> op, fd |-> fd, code |-> code, n |-> n, buf |-> << >>]

Returns(op, fd, code, n) ==
  /\ ret' = Result(op, fd, code, n)
  /\ call' = Idle

\* A null pointer is dereferenced, or memcpy is called with a huge size.
Dies(op, fd) ==
  /\ ret' = Result(op, fd, "CRASH", 0)
  /\ call' = Idle
  /\ alive' = FALSE
  /\ UNCHANGED << blocks, data, size, opened, offset >>

\* The bytes of the file.
Content ==
  [x \in 1 .. size |-> data[blocks[(x - 1) \div BSize]][((x - 1) % BSize)]]

-----------------------------------------------------------------------------
(* get_off_addr.  Its test lets the index NBlocks pass; data.blocks[NBlocks]*)
(* is the padding between the union and ctime, which nothing else uses.     *)

BlockOf(off) == off \div BSize

InRange(off) == BlockOf(off) <= NBlocks

FreeBlocks == Blocks \ {blocks[b] : b \in 0 .. NBlocks}

\* alloc_data_block takes the lowest block, which it has wiped.
Lowest(S) == CHOOSE b \in S : \A c \in S : b <= c

Target(off) == IF blocks[BlockOf(off)] # 0 THEN blocks[BlockOf(off)] ELSE Lowest(FreeBlocks)

RestOfBlock(off) == BSize - (off % BSize)

-----------------------------------------------------------------------------
(* fs_open, fs_close and fs_lseek.                                          *)

Ready == alive /\ call = Idle

\* (A fault: the search for a descriptor goes one entry too far.)
OpenPastEnd ==
  LET free == (Fds \union {Cardinality(Fds)}) \ opened
      fd == Lowest(free)
  IN  /\ Ready /\ free # {}
      /\ opened' = opened \union {fd}
      /\ offset' = [offset EXCEPT ![fd] = 0]
      /\ Returns("open", fd, "OK", 0)
      /\ UNCHANGED << blocks, data, size, alive >>

Open ==
  LET free == Fds \ opened
      fd == Lowest(free)
  IN  /\ Ready
      /\ \/ free = {} /\ Returns("open", -1, "ENOFD", 0) /\ UNCHANGED << opened, offset >>
         \/ /\ free # {}
            /\ opened' = opened \union {fd}
            /\ offset' = [offset EXCEPT ![fd] = 0]
            /\ Returns("open", fd, "OK", 0)
      /\ UNCHANGED << blocks, data, size, alive >>

Close(fd) ==
  /\ Ready
  /\ opened' = opened \ {fd}
  /\ offset' = [offset EXCEPT ![fd] = 0]
  /\ Returns("close", fd, "OK", 0)
  /\ UNCHANGED << blocks, data, size, alive >>

\* (A fault: the offset is not compared with the size.)
LseekAnywhere(fd, off) ==
  /\ Ready /\ fd \in opened
  /\ Returns("lseek", fd, "OK", off)
  /\ offset' = [offset EXCEPT ![fd] = off]
  /\ UNCHANGED << blocks, data, size, opened, alive >>

Lseek(fd, off) ==
  /\ Ready
  /\ \/ fd \notin opened /\ Dies("lseek", fd)
     \/ /\ fd \in opened /\ off > size
        /\ Returns("lseek", fd, "EINVAL", 0)
        /\ UNCHANGED << blocks, data, size, opened, offset, alive >>
     \/ /\ fd \in opened /\ off <= size
        /\ Returns("lseek", fd, "OK", off)
        /\ offset' = [offset EXCEPT ![fd] = off]
        /\ UNCHANGED << blocks, data, size, opened, alive >>

-----------------------------------------------------------------------------
(* fs_read and do_read.                                                     *)

ReadBegin(fd, n) ==
  /\ Ready
  /\ \/ fd \notin opened /\ Dies("read", fd)
     \/ /\ fd \in opened
        /\ call' = Reading(fd, n, offset[fd], << >>)
        /\ UNCHANGED << blocks, data, size, opened, offset, ret, alive >>

ReadGoesOn ==
  /\ call.n > 0 /\ call.off < size
  /\ InRange(call.off) /\ blocks[BlockOf(call.off)] # 0

\* The size of a copy: the rest of the block or of the file, or n - nread,
\* which is what is left of n minus what was read before.
ReadSize ==
  LET rest == IF size < call.off + RestOfBlock(call.off) THEN size - call.off
              ELSE RestOfBlock(call.off)
      nread == Len(call.buf)
  IN  IF nread + rest > call.n THEN call.n - nread ELSE rest

Copied(from, k) ==
  [x \in 1 .. k |-> data[blocks[BlockOf(from)]][(from % BSize) + x - 1]]

\* (A fault: the copy is not cut at the end of the block.)
ReadSizeUncut ==
  IF call.off + call.n > size THEN size - call.off ELSE call.n

ReadTurn ==
  /\ alive /\ call.op = "read" /\ ReadGoesOn
  /\ \/ ReadSize < 0 /\ Dies("read", call.fd)
     \/ /\ ReadSize >= 0
        /\ call' = Reading(call.fd, call.n - ReadSize, call.off + ReadSize,
                           call.buf \o Copied(call.off, ReadSize))
        /\ UNCHANGED << blocks, data, size, opened, offset, ret, alive >>

\* (A fault: the offset is set to the count.)
ReadEndSets ==
  /\ alive /\ call.op = "read" /\ ~ ReadGoesOn
  /\ offset' = [offset EXCEPT ![call.fd] = Len(call.buf)]
  /\ ret' = [Result("read", call.fd, "OK", Len(call.buf)) EXCEPT !.buf = call.buf]
  /\ call' = Idle
  /\ UNCHANGED << blocks, data, size, opened, alive >>

ReadEnd ==
  /\ alive /\ call.op = "read" /\ ~ ReadGoesOn
  /\ offset' = [offset EXCEPT ![call.fd] = @ + Len(call.buf)]
  /\ ret' = [Result("read", call.fd, "OK", Len(call.buf)) EXCEPT !.buf = call.buf]
  /\ call' = Idle
  /\ UNCHANGED << blocks, data, size, opened, alive >>

-----------------------------------------------------------------------------
(* fs_write and do_write.                                                   *)

WriteBegin(fd, buf) ==
  /\ Ready
  /\ \/ fd \notin opened /\ Dies("write", fd)
     \/ /\ fd \in opened
        /\ call' = Writing(fd, buf, Len(buf), offset[fd], Content)
        /\ UNCHANGED << blocks, data, size, opened, offset, ret, alive >>

Smaller(m, n) == IF m < n THEN m ELSE n

Written == Len(call.buf) - call.n

\* The block with the next k bytes of the buffer in it.
Filled(block, k) ==
  [x \in 0 .. BSize - 1 |->
     LET at == x - (call.off % BSize)
     IN  IF at \in 0 .. k - 1 THEN call.buf[Written + at + 1] ELSE block[x]]

\* (A fault: a new block is taken although there is one.)
WriteTurnNew ==
  LET k == Smaller(call.n, RestOfBlock(call.off))
      b == Lowest(FreeBlocks)
  IN  /\ alive /\ call.op = "write" /\ call.n > 0 /\ InRange(call.off)
      /\ FreeBlocks # {}
      /\ blocks' = [blocks EXCEPT ![BlockOf(call.off)] = b]
      /\ data' = [data EXCEPT ![b] = Filled(@, k)]
      /\ call' = Writing(call.fd, call.buf, call.n - k, call.off + k, call.before)
      /\ UNCHANGED << size, opened, offset, ret, alive >>

\* (A fault: n is not decreased.)
WriteTurnForever ==
  LET b == Target(call.off)
  IN  /\ alive /\ call.op = "write" /\ call.n > 0 /\ InRange(call.off)
      /\ blocks' = [blocks EXCEPT ![BlockOf(call.off)] = b]
      /\ data' = [data EXCEPT ![b] = Filled(@, Smaller(call.n, RestOfBlock(call.off)))]
      /\ UNCHANGED << size, opened, offset, call, ret, alive >>

WriteTurn ==
  LET k == Smaller(call.n, RestOfBlock(call.off))
      b == Target(call.off)
  IN  /\ alive /\ call.op = "write" /\ call.n > 0 /\ InRange(call.off)
      /\ blocks' = [blocks EXCEPT ![BlockOf(call.off)] = b]
      /\ data' = [data EXCEPT ![b] = Filled(@, k)]
      /\ call' = Writing(call.fd, call.buf, call.n - k, call.off + k, call.before)
      /\ UNCHANGED << size, opened, offset, ret, alive >>

\* (A fault: a write that failed does not move the end of the file.)
WriteEndKeepsSize ==
  /\ alive /\ call.op = "write" /\ (call.n = 0 \/ ~ InRange(call.off))
  /\ offset' = [offset EXCEPT ![call.fd] = call.off]
  /\ size' = IF call.n = 0 /\ call.off > size THEN call.off ELSE size
  /\ Returns("write", call.fd, IF call.n = 0 THEN "OK" ELSE "EALLOC", 0)
  /\ UNCHANGED << blocks, data, opened, alive >>

\* do_write returns the count, or -EALLOC when the file would get too large;
\* fs_write moves the offset and the size if that is not 0.
WriteEnd ==
  /\ alive /\ call.op = "write" /\ (call.n = 0 \/ ~ InRange(call.off))
  /\ IF call.n = 0 /\ Written = 0 THEN UNCHANGED << offset, size >>
     ELSE /\ offset' = [offset EXCEPT ![call.fd] = call.off]
          /\ size' = IF call.off > size THEN call.off ELSE size
  /\ IF call.n = 0 THEN Returns("write", call.fd, "OK", Written)
     ELSE Returns("write", call.fd, "EALLOC", 0)
  /\ UNCHANGED << blocks, data, opened, alive >>

-----------------------------------------------------------------------------
Init ==
  /\ blocks = [b \in 0 .. NBlocks |-> 0]
  /\ data = [b \in Blocks |-> [x \in 0 .. BSize - 1 |-> 0]]
  /\ size = 0
  /\ opened = {}
  /\ offset = [fd \in Fds |-> 0]
  /\ call = Idle
  /\ ret = Result("open", -1, "OK", 0)
  /\ alive = TRUE

Called == opened \union StrayFds

Next ==
  \/ Open
  \/ \E fd \in Called : Close(fd)
  \/ \E fd \in Called, off \in 0 .. size + 1 : Lseek(fd, off)
  \/ \E fd \in Called, n \in ReadCounts : ReadBegin(fd, n)
  \/ ReadTurn
  \/ ReadEnd
  \/ \E fd \in Called, buf \in Buffers : WriteBegin(fd, buf)
  \/ WriteTurn
  \/ WriteEnd

Spec == Init /\ [][Next]_vars

\* A call that was made goes on: the emulator is one thread.
Fairness == WF_vars(ReadTurn) /\ WF_vars(ReadEnd) /\ WF_vars(WriteTurn) /\ WF_vars(WriteEnd)

FairSpec == Spec /\ Fairness
=============================================================================
