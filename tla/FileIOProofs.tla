---------------------------- MODULE FileIOProofs ----------------------------
(***************************************************************************)
(* TypeOK, NoHoles and OffsetsInFile of FileIOSafety are inductive, taken  *)
(* together: a position is inside the file, so a write that starts there   *)
(* fills the file without a gap; and the file has no gap, so the blocks    *)
(* before its end are all there.                                           *)
(*                                                                         *)
(* Then: FileIO implements AbsFile, the file as a sequence of bytes.       *)
(***************************************************************************)
EXTENDS FileIOSafety, NatSets, FiniteSetTheorems, SequenceTheorems

FileInv == TypeOK /\ NoHoles /\ OffsetsInFile

-----------------------------------------------------------------------------
(* Arithmetic of offsets.                                                   *)

LEMMA Sizes == BSize \in Nat /\ BSize > 0 /\ NBlocks \in Nat /\ NBlocks > 0
  BY FileIOAssumption DEF FileIOAssumption

\* A product grows with its factor.
LEMMA TimesMonotone ==
  ASSUME NEW a \in Nat, NEW b \in Nat, NEW c \in Nat, a <= b
  PROVE  a * c <= b * c
<1>1. (b - a) * c >= 0
  OBVIOUS
<1>2. (b - a) * c = b * c - a * c
  OBVIOUS
<1>3. QED
  BY <1>1, <1>2

LEMMA TimesNat ==
  ASSUME NEW a \in Nat, NEW c \in Nat
  PROVE  a * c \in Nat /\ (a + 1) * c = a * c + c
<1>1. a * c \in Nat
  OBVIOUS
<1>2. (a + 1) * c = a * c + c
  OBVIOUS
<1>3. QED
  BY <1>1, <1>2

\* A block and a place in it.
LEMMA OffsetParts ==
  ASSUME NEW off \in Nat
  PROVE  /\ BlockOf(off) \in Nat
         /\ off % BSize \in 0 .. BSize - 1
         /\ off = BlockOf(off) * BSize + (off % BSize)
<1>1. off \div BSize \in Nat /\ off % BSize \in 0 .. BSize - 1
  BY Sizes
<1>2. off = BSize * (off \div BSize) + (off % BSize)
  BY Sizes
<1>3. BSize * (off \div BSize) = (off \div BSize) * BSize
  BY <1>1, Sizes
<1>4. QED
  BY <1>1, <1>2, <1>3 DEF BlockOf

LEMMA MaxSizeNat == MaxSize \in Nat
  BY Sizes, TimesNat DEF MaxSize

\* The offset lies behind the start of its block and before the next one.
LEMMA OffsetBounds ==
  ASSUME NEW off \in Nat
  PROVE  /\ BlockOf(off) * BSize \in Nat /\ (BlockOf(off) + 1) * BSize \in Nat
         /\ BlockOf(off) * BSize <= off
         /\ off + RestOfBlock(off) = (BlockOf(off) + 1) * BSize
         /\ RestOfBlock(off) \in 1 .. BSize
<1> DEFINE start == BlockOf(off) * BSize
           rest == off % BSize
<1>1. start \in Nat /\ (BlockOf(off) + 1) * BSize = start + BSize
  BY OffsetParts, Sizes, TimesNat
<1>2. rest \in 0 .. BSize - 1 /\ off = start + rest
  BY OffsetParts
<1>3. RestOfBlock(off) = BSize - rest
  BY DEF RestOfBlock
<1> HIDE DEF start, rest
<1>4. start <= off /\ off + RestOfBlock(off) = start + BSize /\ start + BSize \in Nat
  BY <1>1, <1>2, <1>3, Sizes
<1>5. RestOfBlock(off) \in 1 .. BSize
  BY <1>2, <1>3, Sizes
<1>6. QED
  BY <1>1, <1>4, <1>5 DEF start

\* What fits in the rest of a block ends in that block, and in the file.
LEMMA RestFits ==
  ASSUME NEW off \in Nat, NEW k \in Nat, k <= RestOfBlock(off)
  PROVE  /\ off + k <= (BlockOf(off) + 1) * BSize
         /\ InRange(off) => off + k <= MaxSize
<1>1. off + k <= (BlockOf(off) + 1) * BSize
  BY OffsetBounds
<1>2. ASSUME InRange(off) PROVE (BlockOf(off) + 1) * BSize <= MaxSize
  <2>1. BlockOf(off) + 1 \in Nat /\ NBlocks + 1 \in Nat /\ BlockOf(off) + 1 <= NBlocks + 1
    <3>1. BlockOf(off) \in Nat
      BY OffsetParts
    <3>2. BlockOf(off) <= NBlocks
      BY <1>2 DEF InRange
    <3>3. QED
      BY <3>1, <3>2, Sizes
  <2>2. QED
    BY <2>1, TimesMonotone, Sizes DEF MaxSize
<1>3. QED
  BY <1>1, <1>2, OffsetBounds, MaxSizeNat

\* Products in order have factors in order.
LEMMA TimesLess ==
  ASSUME NEW a \in Nat, NEW b \in Nat, a * BSize < (b + 1) * BSize
  PROVE  a <= b
<1>1. SUFFICES ASSUME b + 1 <= a PROVE FALSE
  OBVIOUS
<1>2. (b + 1) * BSize <= a * BSize
  <2>1. b + 1 \in Nat
    OBVIOUS
  <2>2. QED
    BY <1>1, <2>1, TimesMonotone, Sizes
<1>3. a * BSize \in Nat /\ (b + 1) * BSize \in Nat
  <2>1. b + 1 \in Nat
    OBVIOUS
  <2>2. QED
    BY <2>1, TimesNat, Sizes
<1>4. QED
  BY <1>2, <1>3

\* A block that starts before the end of what is written from off, but not
\* before off, is the block of off.
LEMMA SameBlock ==
  ASSUME NEW off \in Nat, NEW k \in Nat, k <= RestOfBlock(off),
         NEW b \in Nat, off <= b * BSize, b * BSize < off + k
  PROVE  b = BlockOf(off)
<1> DEFINE q == BlockOf(off)
<1>1. q \in Nat /\ b * BSize \in Nat
  BY OffsetParts, TimesNat, Sizes
<1>2. b * BSize < (q + 1) * BSize
  BY <1>1, RestFits, OffsetBounds
<1>3. q * BSize < (b + 1) * BSize
  <2>1. q * BSize <= b * BSize
    BY <1>1, OffsetBounds
  <2>2. (b + 1) * BSize = b * BSize + BSize
    BY TimesNat, Sizes
  <2>3. q * BSize \in Nat
    BY OffsetBounds
  <2>4. QED
    BY <1>1, <2>1, <2>2, <2>3, Sizes
<1> HIDE DEF q
<1>4. b <= q /\ q <= b
  BY <1>1, <1>2, <1>3, TimesLess
<1>5. QED
  BY <1>1, <1>4 DEF q

-----------------------------------------------------------------------------
(* The blocks.                                                              *)

\* While a word of the block table is 0, a block is free: there are more blocks
\* than NBlocks, and the other words of the table are NBlocks in number.
LEMMA FreeBlockExists ==
  ASSUME TypeOK, NEW q \in 0 .. NBlocks, blocks[q] = 0
  PROVE  FreeBlocks # {}
<1> DEFINE Others == (0 .. NBlocks) \ {q}
           Used == {blocks[b] : b \in Others}
<1>1. IsFiniteSet(0 .. NBlocks) /\ Cardinality(0 .. NBlocks) = NBlocks + 1
  BY FS_Interval, Sizes
<1>2. IsFiniteSet(Others) /\ Cardinality(Others) = NBlocks
  <2>1. /\ IsFiniteSet(Others)
        /\ Cardinality(Others) = IF q \in 0 .. NBlocks THEN Cardinality(0 .. NBlocks) - 1
                                 ELSE Cardinality(0 .. NBlocks)
    BY <1>1, FS_RemoveElement
  <2>2. QED
    BY <2>1, <1>1, Sizes
<1>3. IsFiniteSet(Used) /\ Cardinality(Used) <= NBlocks
  <2> DEFINE f == [b \in Others |-> blocks[b]]
  <2>1. f \in Surjection(Others, Used)
    BY DEF Surjection
  <2> HIDE DEF f, Used, Others
  <2>2. IsFiniteSet(Used) /\ Cardinality(Used) <= Cardinality(Others)
    BY <1>2, <2>1, FS_Surjection
  <2>3. QED
    BY <1>2, <2>2
<1>4. SUFFICES ASSUME FreeBlocks = {} PROVE FALSE
  OBVIOUS
<1>5. Blocks \subseteq Used
  BY <1>4, FileIOAssumption DEF FileIOAssumption, FreeBlocks
<1>6. Cardinality(Blocks) <= Cardinality(Used) /\ Cardinality(Blocks) \in Nat
  BY <1>3, <1>5, FS_Subset, FS_CardinalityType, FileIOAssumption DEF FileIOAssumption
<1>7. Cardinality(Used) \in Nat
  BY <1>3, FS_CardinalityType
<1>8. QED
  BY <1>3, <1>6, <1>7, Sizes, FileIOAssumption DEF FileIOAssumption

\* What get_off_addr yields for a write: a block of the device, and one that
\* is in no word of the table unless it was in this one already.
LEMMA TargetType ==
  ASSUME TypeOK, NEW off \in Nat, InRange(off)
  PROVE  /\ BlockOf(off) \in 0 .. NBlocks
         /\ Target(off) \in Blocks /\ Target(off) # 0
         /\ blocks[BlockOf(off)] # 0 => Target(off) = blocks[BlockOf(off)]
         /\ blocks[BlockOf(off)] = 0 => \A b \in 0 .. NBlocks : blocks[b] # Target(off)
<1> DEFINE q == BlockOf(off)
<1>1. q \in 0 .. NBlocks
  <2>1. q \in Nat /\ q <= NBlocks
    BY OffsetParts DEF InRange
  <2>2. QED
    BY <2>1, Sizes
<1>2. blocks[q] \in Blocks \union {0} /\ Blocks \subseteq Nat \ {0}
  BY <1>1, FileIOAssumption DEF TypeOK, FileIOAssumption
<1>3. CASE blocks[q] # 0
  BY <1>1, <1>2, <1>3 DEF Target
<1>4. CASE blocks[q] = 0
  <2>1. Target(off) = Lowest(FreeBlocks)
    BY <1>4 DEF Target
  <2>2. FreeBlocks # {} /\ FreeBlocks \in SUBSET Nat
    BY <1>1, <1>2, <1>4, FreeBlockExists DEF FreeBlocks
  <2>3. \E b \in FreeBlocks : \A c \in FreeBlocks : b <= c
    BY <2>2, NatMinimum
  <2>4. Lowest(FreeBlocks) \in FreeBlocks
    BY <2>3 DEF Lowest
  <2>5. Target(off) \in Blocks /\ \A b \in 0 .. NBlocks : blocks[b] # Target(off)
    BY <2>1, <2>4 DEF FreeBlocks
  <2>6. QED
    BY <1>1, <1>2, <1>4, <2>5
<1>5. QED
  BY <1>3, <1>4

-----------------------------------------------------------------------------
(* The calls.                                                               *)

LEMMA InitInv ==
  ASSUME Init
  PROVE  FileInv
<1>1. 0 \in 0 .. MaxSize
  BY MaxSizeNat
<1>2. CallOK
  BY DEF Init, CallOK
<1>3. TypeOK
  BY <1>1, <1>2, Sizes DEF Init, TypeOK, Result, Codes
<1>4. NoHoles
  <2>1. \A b \in 0 .. NBlocks : ~ (b * BSize < 0)
    BY TimesNat, Sizes
  <2>2. call.op # "write" /\ size = 0 /\ \A b \in 0 .. NBlocks : blocks[b] = 0
    BY DEF Init, Idle
  <2>3. QED
    BY <2>1, <2>2 DEF NoHoles
<1>5. OffsetsInFile
  BY DEF Init, OffsetsInFile
<1>6. QED
  BY <1>3, <1>4, <1>5 DEF FileInv

\* What the end of a call, or a call that changes neither file nor positions
\* but one, leaves.
LEMMA ReadyInv ==
  ASSUME FileInv, call' = Idle, ret'.code \in Codes, alive' \in BOOLEAN,
         UNCHANGED << blocks, data, size >>, call.op # "write",
         opened' \subseteq Fds, offset' \in [Fds -> 0 .. size]
  PROVE  FileInv'
<1>1. size \in 0 .. MaxSize /\ MaxSize \in Nat
  BY MaxSizeNat DEF FileInv, TypeOK
<1>2. offset' \in [Fds -> 0 .. MaxSize]
  BY <1>1
<1>3. TypeOK'
  BY <1>2 DEF FileInv, TypeOK, CallOK, MaxSize
<1>4. NoHoles'
  <2>1. call'.op # "write"
    BY DEF Idle
  <2>2. QED
    BY <2>1 DEF FileInv, NoHoles
<1>5. OffsetsInFile'
  BY <1>1 DEF OffsetsInFile
<1>6. QED
  BY <1>3, <1>4, <1>5 DEF FileInv

\* The offsets, as the invariant has them.
LEMMA OffsetType ==
  ASSUME FileInv
  PROVE  offset \in [Fds -> 0 .. size] /\ size \in 0 .. MaxSize /\ MaxSize \in Nat
<1>1. offset \in [Fds -> 0 .. MaxSize] /\ size \in 0 .. MaxSize /\ MaxSize \in Nat
  BY MaxSizeNat DEF FileInv, TypeOK
<1>2. QED
  BY <1>1 DEF FileInv, OffsetsInFile

LEMMA DiesInv ==
  ASSUME FileInv, call.op # "write", NEW op, NEW fd, Dies(op, fd)
  PROVE  FileInv'
<1>1. ret'.code \in Codes
  BY DEF Dies, Result, Codes
<1>2. QED
  BY <1>1, ReadyInv, OffsetType DEF Dies, FileInv, TypeOK

LEMMA ReadyIdle ==
  ASSUME Ready
  PROVE  call.op # "write" /\ call.op # "read"
  BY DEF Ready, Idle

LEMMA OpenInv ==
  ASSUME FileInv, Open
  PROVE  FileInv'
<1> DEFINE free == Fds \ opened
           fd == Lowest(free)
<1>1. call.op # "write" /\ call' = Idle /\ UNCHANGED << blocks, data, size, alive >>
  BY ReadyIdle DEF Open, Returns
<1>2. ret'.code \in Codes
  BY DEF Open, Returns, Result, Codes
<1>3. opened' \subseteq Fds /\ offset' \in [Fds -> 0 .. size]
  <2>1. CASE free = {} /\ UNCHANGED << opened, offset >>
    BY <2>1, OffsetType DEF FileInv, TypeOK
  <2>2. CASE /\ free # {}
             /\ opened' = opened \union {fd}
             /\ offset' = [offset EXCEPT ![fd] = 0]
    <3>1. free \in SUBSET Nat
      BY FileIOAssumption DEF FileIOAssumption
    <3>2. \E x \in free : \A y \in free : x <= y
      BY <2>2, <3>1, NatMinimum
    <3>3. fd \in free
      BY <3>2 DEF Lowest
    <3> HIDE DEF fd
    <3>4. QED
      BY <2>2, <3>3, OffsetType DEF FileInv, TypeOK
  <2>3. QED
    BY <2>1, <2>2 DEF Open
<1>4. QED
  BY <1>1, <1>2, <1>3, ReadyInv DEF FileInv, TypeOK

LEMMA CloseInv ==
  ASSUME FileInv, NEW fd, Close(fd)
  PROVE  FileInv'
<1>1. call.op # "write" /\ call' = Idle /\ UNCHANGED << blocks, data, size, alive >>
  BY ReadyIdle DEF Close, Returns
<1>2. ret'.code \in Codes
  BY DEF Close, Returns, Result, Codes
<1>3. opened' \subseteq Fds /\ offset' \in [Fds -> 0 .. size]
  <2>1. 0 \in 0 .. size /\ opened \subseteq Fds /\ offset \in [Fds -> 0 .. size]
    BY OffsetType DEF FileInv, TypeOK
  <2>2. offset' = [offset EXCEPT ![fd] = 0] /\ opened' = opened \ {fd}
    BY DEF Close
  <2>3. QED
    BY <2>1, <2>2
<1>4. QED
  BY <1>1, <1>2, <1>3, ReadyInv DEF FileInv, TypeOK

LEMMA LseekInv ==
  ASSUME FileInv, NEW fd \in Called, NEW off \in 0 .. size + 1, Lseek(fd, off)
  PROVE  FileInv'
<1>1. call.op # "write"
  BY ReadyIdle DEF Lseek
<1>2. CASE Dies("lseek", fd)
  BY <1>1, <1>2, DiesInv
<1>3. CASE /\ off > size
           /\ Returns("lseek", fd, "EINVAL", 0)
           /\ UNCHANGED << blocks, data, size, opened, offset, alive >>
  <2>1. ret'.code \in Codes /\ call' = Idle
    BY <1>3 DEF Returns, Result, Codes
  <2>2. QED
    BY <1>1, <1>3, <2>1, ReadyInv, OffsetType DEF FileInv, TypeOK
<1>4. CASE /\ fd \in opened /\ off <= size
           /\ Returns("lseek", fd, "OK", off)
           /\ offset' = [offset EXCEPT ![fd] = off]
           /\ UNCHANGED << blocks, data, size, opened, alive >>
  <2>1. ret'.code \in Codes /\ call' = Idle
    BY <1>4 DEF Returns, Result, Codes
  <2>2. off \in 0 .. size
    BY <1>4, OffsetType
  <2>3. offset' \in [Fds -> 0 .. size]
    BY <1>4, <2>2, OffsetType DEF FileInv, TypeOK
  <2>4. QED
    BY <1>1, <1>4, <2>1, <2>3, ReadyInv DEF FileInv, TypeOK
<1>5. QED
  BY <1>2, <1>3, <1>4 DEF Lseek

\* A step of a read changes nothing but the locals of the call.
LEMMA ReadStepInv ==
  ASSUME FileInv, CallOK', call'.op = "read", call.op # "write",
         UNCHANGED << blocks, data, size, opened, offset, ret, alive >>
  PROVE  FileInv'
<1>1. TypeOK'
  BY DEF FileInv, TypeOK, MaxSize
<1>2. NoHoles'
  BY DEF FileInv, NoHoles
<1>3. OffsetsInFile'
  BY DEF FileInv, OffsetsInFile
<1>4. QED
  BY <1>1, <1>2, <1>3 DEF FileInv

LEMMA ReadBeginInv ==
  ASSUME FileInv, NEW fd \in Called, NEW n \in ReadCounts, ReadBegin(fd, n)
  PROVE  FileInv'
<1>1. call.op # "write"
  BY ReadyIdle DEF ReadBegin
<1>2. CASE Dies("read", fd)
  BY <1>1, <1>2, DiesInv
<1>3. CASE /\ fd \in opened
           /\ call' = Reading(fd, n, offset[fd], << >>)
           /\ UNCHANGED << blocks, data, size, opened, offset, ret, alive >>
  <2>1. n \in Nat /\ fd \in Fds /\ offset[fd] \in 0 .. size
    BY <1>3, OffsetType, FileIOAssumption DEF FileInv, TypeOK, FileIOAssumption
  <2>2. /\ call'.op = "read" /\ call'.fd = fd /\ call'.n = n
        /\ call'.off = offset[fd] /\ call'.buf = << >>
    BY <1>3 DEF Reading
  <2>3. call' = Reading(call'.fd, call'.n, call'.off, call'.buf)
    BY <1>3, <2>2
  <2>4. << >> \in Seq(Bytes \union {0}) /\ Len(<< >>) = 0
    OBVIOUS
  <2>5. CallOK'
    <3>1. call'.fd \in opened' /\ call'.n \in Nat /\ call'.buf \in Seq(Bytes \union {0})
      BY <1>3, <2>1, <2>2, <2>4
    <3>2. call'.off = offset'[call'.fd] + Len(call'.buf) /\ call'.off <= size'
      BY <1>3, <2>1, <2>2, <2>4, OffsetType
    <3>3. QED
      BY <2>3, <3>1, <3>2 DEF CallOK
  <2>6. QED
    BY <1>1, <1>3, <2>2, <2>5, ReadStepInv
<1>4. QED
  BY <1>2, <1>3 DEF ReadBegin

\* The locals of a read, by name.
LEMMA ReadLocals ==
  ASSUME FileInv, call.op = "read"
  PROVE  /\ call.fd \in opened /\ call.fd \in Fds /\ call.n \in Nat
         /\ call.buf \in Seq(Bytes \union {0}) /\ Len(call.buf) \in Nat
         /\ offset[call.fd] \in Nat
         /\ call.off = offset[call.fd] + Len(call.buf)
         /\ call.off \in Nat /\ call.off <= size /\ size \in Nat
<1>1. call # Idle
  BY DEF Idle
<1>2. call # Writing(call.fd, call.buf, call.n, call.off, call.before)
  BY DEF Writing
<1>3. /\ call.fd \in opened /\ call.n \in Nat
      /\ call.buf \in Seq(Bytes \union {0})
      /\ call.off = offset[call.fd] + Len(call.buf)
      /\ call.off <= size
  BY <1>1, <1>2 DEF FileInv, TypeOK, CallOK
<1>4. Len(call.buf) \in Nat /\ call.fd \in Fds /\ size \in Nat
  BY <1>3, OffsetType DEF FileInv, TypeOK
<1>5. offset[call.fd] \in Nat
  BY <1>4, OffsetType
<1>6. QED
  BY <1>3, <1>4, <1>5

\* A copy of k bytes out of one block is a sequence of k bytes.
LEMMA CopiedType ==
  ASSUME TypeOK, NEW off \in Nat, InRange(off), blocks[BlockOf(off)] # 0,
         NEW k \in Nat, k <= RestOfBlock(off)
  PROVE  Copied(off, k) \in Seq(Bytes \union {0}) /\ Len(Copied(off, k)) = k
<1> DEFINE b == blocks[BlockOf(off)]
           rest == off % BSize
<1>1. b \in Blocks
  <2>1. BlockOf(off) \in 0 .. NBlocks
    BY TargetType
  <2>2. QED
    BY <2>1 DEF TypeOK
<1>2. rest \in 0 .. BSize - 1 /\ k + rest <= BSize
  BY OffsetParts, Sizes DEF RestOfBlock
<1>3. data[b] \in [0 .. BSize - 1 -> Bytes \union {0}]
  BY <1>1 DEF TypeOK
<1>4. Copied(off, k) = [x \in 1 .. k |-> data[b][rest + x - 1]]
  BY DEF Copied
<1> HIDE DEF b, rest
<1>5. \A x \in 1 .. k : rest + x - 1 \in 0 .. BSize - 1
  BY <1>2, Sizes
<1>6. [x \in 1 .. k |-> data[b][rest + x - 1]] \in [1 .. k -> Bytes \union {0}]
  BY <1>3, <1>5
<1>7. QED
  BY <1>4, <1>6

\* A copy that does not get negative fits in the block, the file and the count.
LEMMA ReadSizeBounds ==
  ASSUME FileInv, call.op = "read", ReadGoesOn, ReadSize >= 0
  PROVE  /\ ReadSize \in Nat
         /\ ReadSize <= RestOfBlock(call.off)
         /\ call.off + ReadSize <= size
         /\ ReadSize <= call.n
<1> DEFINE rest == IF size < call.off + RestOfBlock(call.off) THEN size - call.off
                   ELSE RestOfBlock(call.off)
           nread == Len(call.buf)
<1>1. call.n \in Nat /\ nread \in Nat /\ call.off \in Nat /\ size \in Nat /\ call.off <= size
  BY ReadLocals
<1>2. RestOfBlock(call.off) \in Nat
  <2>1. RestOfBlock(call.off) \in 1 .. BSize
    BY <1>1, OffsetBounds
  <2>2. QED
    BY <2>1, Sizes
<1>3. rest \in Nat /\ rest <= RestOfBlock(call.off) /\ call.off + rest <= size
  BY <1>1, <1>2
<1>4. ReadSize = IF nread + rest > call.n THEN call.n - nread ELSE rest
  BY DEF ReadSize
<1> HIDE DEF rest, nread
<1>5. QED
  BY <1>1, <1>2, <1>3, <1>4

LEMMA ConcatType ==
  ASSUME NEW S, NEW s \in Seq(S), NEW t \in Seq(S)
  PROVE  s \o t \in Seq(S) /\ Len(s \o t) = Len(s) + Len(t)
  OBVIOUS

LEMMA ReadTurnInv ==
  ASSUME FileInv, ReadTurn
  PROVE  FileInv'
<1> DEFINE k == ReadSize
           buf == call.buf \o Copied(call.off, k)
<1>1. call.op = "read" /\ call.op # "write" /\ ReadGoesOn
  BY DEF ReadTurn
<1>2. CASE Dies("read", call.fd)
  BY <1>1, <1>2, DiesInv
<1>3. CASE /\ k >= 0
           /\ call' = Reading(call.fd, call.n - k, call.off + k, buf)
           /\ UNCHANGED << blocks, data, size, opened, offset, ret, alive >>
  <2>1. k \in Nat /\ k <= RestOfBlock(call.off) /\ call.off + k <= size /\ k <= call.n
    BY <1>1, <1>3, ReadSizeBounds
  <2>2. /\ Copied(call.off, k) \in Seq(Bytes \union {0})
        /\ Len(Copied(call.off, k)) = k
    <3>1. call.off \in Nat /\ InRange(call.off) /\ blocks[BlockOf(call.off)] # 0
      BY <1>1, ReadLocals DEF ReadGoesOn
    <3>2. QED
      BY <2>1, <3>1, CopiedType DEF FileInv
  <2> HIDE DEF k
  <2>3. buf \in Seq(Bytes \union {0}) /\ Len(buf) = Len(call.buf) + k
    <3>1. call.buf \in Seq(Bytes \union {0})
      BY <1>1, ReadLocals
    <3>2. QED
      BY <2>2, <3>1, ConcatType
  <2> HIDE DEF buf
  <2>4. /\ call'.op = "read" /\ call'.fd = call.fd /\ call'.n = call.n - k
        /\ call'.off = call.off + k /\ call'.buf = buf
    BY <1>3 DEF Reading
  <2>5. call' = Reading(call'.fd, call'.n, call'.off, call'.buf)
    BY <1>3, <2>4
  <2>6. call'.fd \in opened' /\ call'.n \in Nat /\ call'.buf \in Seq(Bytes \union {0})
    BY <1>1, <1>3, <2>1, <2>3, <2>4, ReadLocals
  <2>7. call'.off = offset'[call'.fd] + Len(call'.buf)
    <3>1. offset'[call'.fd] = offset[call.fd]
      BY <1>3, <2>4
    <3>2. call.off = offset[call.fd] + Len(call.buf)
      BY <1>1, ReadLocals
    <3>3. offset[call.fd] \in Nat /\ Len(call.buf) \in Nat
      BY <1>1, ReadLocals
    <3>4. call'.off = call.off + k /\ Len(call'.buf) = Len(call.buf) + k
      BY <2>3, <2>4
    <3>5. QED
      BY <2>1, <3>1, <3>2, <3>3, <3>4
  <2>8. call'.off <= size'
    BY <1>3, <2>1, <2>4
  <2>9. CallOK'
    BY <2>5, <2>6, <2>7, <2>8 DEF CallOK
  <2>10. QED
    BY <1>1, <1>3, <2>4, <2>9, ReadStepInv
<1>4. QED
  BY <1>2, <1>3 DEF ReadTurn

LEMMA ReadEndInv ==
  ASSUME FileInv, ReadEnd
  PROVE  FileInv'
<1>1. call.op = "read" /\ call.op # "write" /\ call' = Idle
  BY DEF ReadEnd
<1>2. ret'.code \in Codes
  BY DEF ReadEnd, Result, Codes
<1>3. offset[call.fd] + Len(call.buf) \in 0 .. size
  BY <1>1, ReadLocals
<1>4. offset' = [offset EXCEPT ![call.fd] = offset[call.fd] + Len(call.buf)]
  BY DEF ReadEnd
<1>5. offset' \in [Fds -> 0 .. size]
  BY <1>3, <1>4, OffsetType
<1>6. QED
  BY <1>1, <1>2, <1>5, ReadyInv DEF ReadEnd, FileInv, TypeOK

-----------------------------------------------------------------------------
\* The locals of a write, by name.
LEMMA WriteLocals ==
  ASSUME FileInv, call.op = "write"
  PROVE  /\ call = Writing(call.fd, call.buf, call.n, call.off, call.before)
         /\ call.fd \in opened /\ call.fd \in Fds
         /\ call.buf \in Buffers /\ call.buf \in Seq(Bytes) /\ Len(call.buf) \in Nat
         /\ call.n \in 0 .. Len(call.buf)
         /\ call.off \in Nat /\ call.off <= MaxSize
<1>1. call # Idle
  BY DEF Idle
<1>2. call # Reading(call.fd, call.n, call.off, call.buf)
  BY DEF Reading
<1>3. /\ call = Writing(call.fd, call.buf, call.n, call.off, call.before)
      /\ call.fd \in opened /\ call.buf \in Buffers
      /\ call.n \in 0 .. Len(call.buf)
      /\ call.off \in 0 .. MaxSize
  BY <1>1, <1>2 DEF FileInv, TypeOK, CallOK
<1>4. call.fd \in Fds
  BY <1>3 DEF FileInv, TypeOK
<1>5. call.buf \in Seq(Bytes) /\ Len(call.buf) \in Nat
  BY <1>3, FileIOAssumption DEF FileIOAssumption
<1>6. QED
  BY <1>3, <1>4, <1>5, MaxSizeNat

LEMMA WriteBeginInv ==
  ASSUME FileInv, NEW fd \in Called, NEW buf \in Buffers, WriteBegin(fd, buf)
  PROVE  FileInv'
<1>1. call.op # "write"
  BY ReadyIdle DEF WriteBegin
<1>2. CASE Dies("write", fd)
  BY <1>1, <1>2, DiesInv
<1>3. CASE /\ fd \in opened
           /\ call' = Writing(fd, buf, Len(buf), offset[fd], Content)
           /\ UNCHANGED << blocks, data, size, opened, offset, ret, alive >>
  <2>1. /\ call'.op = "write" /\ call'.fd = fd /\ call'.buf = buf
        /\ call'.n = Len(buf) /\ call'.off = offset[fd] /\ call'.before = Content
    BY <1>3 DEF Writing
  <2>2. call' = Writing(call'.fd, call'.buf, call'.n, call'.off, call'.before)
    BY <1>3, <2>1
  <2>3. Len(buf) \in 0 .. Len(buf)
    BY FileIOAssumption DEF FileIOAssumption
  <2>4. offset[fd] \in 0 .. size /\ size \in 0 .. MaxSize /\ MaxSize \in Nat
    BY <1>3, OffsetType DEF FileInv, TypeOK
  <2>5. call'.fd \in opened' /\ call'.buf \in Buffers /\ call'.n \in 0 .. Len(call'.buf)
    BY <1>3, <2>1, <2>3
  <2>6. call'.off \in 0 .. MaxSize
    BY <2>1, <2>4
  <2>7. CallOK'
    BY <2>2, <2>5, <2>6 DEF CallOK, MaxSize
  <2>8. TypeOK'
    BY <1>3, <2>7 DEF FileInv, TypeOK, MaxSize
  <2>9. NoHoles'
    <3>1. ~ (call'.off > size')
      BY <1>3, <2>1, <2>4
    <3>2. QED
      BY <1>1, <1>3, <3>1 DEF FileInv, NoHoles
  <2>10. OffsetsInFile'
    BY <1>3 DEF FileInv, OffsetsInFile
  <2>11. QED
    BY <2>8, <2>9, <2>10 DEF FileInv
<1>4. QED
  BY <1>2, <1>3 DEF WriteBegin

\* What a turn of do_write writes: k bytes, as many as are left of the buffer or
\* of the block.
LEMMA TurnSize ==
  ASSUME FileInv, call.op = "write", call.n > 0
  PROVE  LET k == Smaller(call.n, RestOfBlock(call.off))
         IN  k \in Nat /\ k <= call.n /\ k <= RestOfBlock(call.off)
<1>1. call.n \in Nat /\ call.off \in Nat
  BY WriteLocals
<1>2. RestOfBlock(call.off) \in Nat
  <2>1. RestOfBlock(call.off) \in 1 .. BSize
    BY <1>1, OffsetBounds
  <2>2. QED
    BY <2>1, Sizes
<1>3. QED
  BY <1>1, <1>2 DEF Smaller

\* The block that is written holds bytes.
LEMMA FilledType ==
  ASSUME FileInv, call.op = "write", NEW k \in Nat, k <= call.n,
         NEW block \in [0 .. BSize - 1 -> Bytes \union {0}]
  PROVE  Filled(block, k) \in [0 .. BSize - 1 -> Bytes \union {0}]
<1> DEFINE rest == call.off % BSize
           byte(x) == IF x - rest \in 0 .. k - 1
                      THEN call.buf[Written + (x - rest) + 1] ELSE block[x]
<1>1. Filled(block, k) = [x \in 0 .. BSize - 1 |-> byte(x)]
  BY DEF Filled
<1>2. ASSUME NEW x \in 0 .. BSize - 1 PROVE byte(x) \in Bytes \union {0}
  <2>1. CASE x - rest \in 0 .. k - 1
    <3> DEFINE at == x - rest
    <3>1. Written = Len(call.buf) - call.n /\ call.n \in 0 .. Len(call.buf)
          /\ Len(call.buf) \in Nat /\ call.buf \in Seq(Bytes)
      BY WriteLocals DEF Written
    <3> HIDE DEF rest
    <3>2. at \in 0 .. k - 1
      BY <2>1
    <3> HIDE DEF at
    <3>3. Written + at + 1 \in 1 .. Len(call.buf)
      BY <3>1, <3>2
    <3>4. call.buf[Written + at + 1] \in Bytes
      BY <3>1, <3>3
    <3>5. QED
      BY <2>1, <3>4 DEF at
  <2>2. CASE ~ (x - rest \in 0 .. k - 1)
    BY <2>2
  <2>3. QED
    BY <2>1, <2>2
<1> HIDE DEF byte
<1>3. QED
  BY <1>1, <1>2

LEMMA WriteTurnInv ==
  ASSUME FileInv, WriteTurn
  PROVE  FileInv'
<1> DEFINE k == Smaller(call.n, RestOfBlock(call.off))
           q == BlockOf(call.off)
           t == Target(call.off)
<1>1. call.op = "write" /\ call.n > 0 /\ InRange(call.off)
  BY DEF WriteTurn
<1>2. /\ blocks' = [blocks EXCEPT ![q] = t]
      /\ data' = [data EXCEPT ![t] = Filled(data[t], k)]
      /\ call' = Writing(call.fd, call.buf, call.n - k, call.off + k, call.before)
      /\ UNCHANGED << size, opened, offset, ret, alive >>
  BY DEF WriteTurn
<1>3. /\ call = Writing(call.fd, call.buf, call.n, call.off, call.before)
      /\ call.fd \in opened /\ call.buf \in Buffers /\ Len(call.buf) \in Nat
      /\ call.n \in 0 .. Len(call.buf) /\ call.off \in Nat
  BY <1>1, WriteLocals
<1>4. k \in Nat /\ k <= call.n /\ k <= RestOfBlock(call.off)
  BY <1>1, TurnSize
<1>5. q \in 0 .. NBlocks /\ t \in Blocks /\ t # 0
  BY <1>1, <1>3, TargetType DEF FileInv
<1>6. /\ blocks[q] # 0 => t = blocks[q]
      /\ blocks[q] = 0 => \A b \in 0 .. NBlocks : blocks[b] # t
  BY <1>1, <1>3, TargetType DEF FileInv
<1>7. call.off + k <= MaxSize
  BY <1>1, <1>3, <1>4, RestFits
<1>8. \A b \in Nat : call.off <= b * BSize /\ b * BSize < call.off + k => b = q
  BY <1>3, <1>4, SameBlock
<1>9. Filled(data[t], k) \in [0 .. BSize - 1 -> Bytes \union {0}]
  <2>1. data[t] \in [0 .. BSize - 1 -> Bytes \union {0}]
    BY <1>5 DEF FileInv, TypeOK
  <2>2. QED
    BY <1>1, <1>4, <2>1, FilledType
<1> HIDE DEF k, q, t
<1>10. call' = Writing(call.fd, call.buf, call.n - k, call.off + k, call.before)
  BY <1>2
<1>11. /\ call'.op = "write" /\ call'.fd = call.fd /\ call'.buf = call.buf
       /\ call'.n = call.n - k /\ call'.off = call.off + k /\ call'.before = call.before
  BY <1>10 DEF Writing
<1>12. CallOK'
  <2>1. call' = Writing(call'.fd, call'.buf, call'.n, call'.off, call'.before)
    BY <1>10, <1>11
  <2>2. call'.fd \in opened' /\ call'.buf \in Buffers
    BY <1>2, <1>3, <1>11
  <2>3. call'.n \in 0 .. Len(call'.buf)
    BY <1>3, <1>4, <1>11
  <2>4. call'.off \in 0 .. MaxSize
    BY <1>3, <1>4, <1>7, <1>11, MaxSizeNat
  <2>5. QED
    BY <2>1, <2>2, <2>3, <2>4 DEF CallOK, MaxSize
<1>13. TypeOK'
  <2>1. blocks' \in [0 .. NBlocks -> Blocks \union {0}]
    BY <1>2, <1>5 DEF FileInv, TypeOK
  <2>2. data' \in [Blocks -> [0 .. BSize - 1 -> Bytes \union {0}]]
    BY <1>2, <1>5, <1>9 DEF FileInv, TypeOK
  <2>3. QED
    BY <1>2, <1>12, <2>1, <2>2 DEF FileInv, TypeOK, MaxSize
<1>14. \A b, c \in 0 .. NBlocks : blocks'[b] = blocks'[c] /\ b # c => blocks'[b] = 0
  <2>1. \A b, c \in 0 .. NBlocks : blocks[b] = blocks[c] /\ b # c => blocks[b] = 0
    BY DEF FileInv, NoHoles
  <2>2. \A b \in 0 .. NBlocks : blocks'[b] = IF b = q THEN t ELSE blocks[b]
    BY <1>2 DEF FileInv, TypeOK
  <2>3. \A b \in 0 .. NBlocks : b # q => blocks[b] # t
    BY <1>5, <1>6, <2>1
  <2>4. QED
    BY <1>5, <2>1, <2>2, <2>3
<1>15. ASSUME NEW b \in 0 .. NBlocks,
              b * BSize < IF call'.off > size THEN call'.off ELSE size
       PROVE  blocks'[b] # 0
  <2>1. blocks'[b] = IF b = q THEN t ELSE blocks[b]
    BY <1>2 DEF FileInv, TypeOK
  <2>2. CASE b = q
    BY <1>5, <2>1, <2>2
  <2>3. CASE b # q
    <3>1. b \in Nat /\ b * BSize \in Nat
      BY TimesNat, Sizes
    <3>2. size \in Nat
      BY OffsetType
    <3>3. b * BSize < call.off \/ b * BSize < size
      BY <1>3, <1>4, <1>8, <1>11, <1>15, <2>3, <3>1, <3>2
    <3>4. b * BSize < IF call.off > size THEN call.off ELSE size
      BY <1>3, <3>1, <3>2, <3>3
    <3>5. blocks[b] # 0
      BY <1>1, <3>4 DEF FileInv, NoHoles
    <3>6. QED
      BY <2>1, <2>3, <3>5
  <2>4. QED
    BY <2>2, <2>3
<1>16. NoHoles'
  <2>1. \A b \in 0 .. NBlocks :
          b * BSize < (IF call'.off > size THEN call'.off ELSE size) => blocks'[b] # 0
    BY <1>15
  <2>2. size' = size
    BY <1>2
  <2>3. QED
    BY <1>11, <1>14, <2>1, <2>2 DEF NoHoles
<1>17. OffsetsInFile'
  BY <1>2 DEF FileInv, OffsetsInFile
<1>18. QED
  BY <1>13, <1>16, <1>17 DEF FileInv

LEMMA WriteEndInv ==
  ASSUME FileInv, WriteEnd
  PROVE  FileInv'
<1>1. call.op = "write" /\ call' = Idle /\ UNCHANGED << blocks, data, opened, alive >>
  BY DEF WriteEnd, Returns
<1>2. ret'.code \in Codes
  BY DEF WriteEnd, Returns, Result, Codes
<1>3. call.off \in 0 .. MaxSize /\ call.fd \in Fds /\ MaxSize \in Nat
  BY <1>1, WriteLocals, MaxSizeNat
<1>4. offset \in [Fds -> 0 .. size] /\ size \in 0 .. MaxSize
  BY OffsetType
<1>5. \/ offset' = offset /\ size' = size
      \/ /\ offset' = [offset EXCEPT ![call.fd] = call.off]
         /\ size' = IF call.off > size THEN call.off ELSE size
  BY DEF WriteEnd
<1>6. size' \in 0 .. MaxSize /\ offset' \in [Fds -> 0 .. size']
  BY <1>3, <1>4, <1>5
<1>7. size' <= IF call.off > size THEN call.off ELSE size
  BY <1>3, <1>4, <1>5
<1>8. offset' \in [Fds -> 0 .. MaxSize]
  BY <1>3, <1>6
<1>9. TypeOK'
  BY <1>1, <1>2, <1>6, <1>8 DEF FileInv, TypeOK, CallOK, MaxSize
<1>10. NoHoles'
  <2>1. /\ \A b \in 0 .. NBlocks :
             b * BSize < (IF call.off > size THEN call.off ELSE size) => blocks[b] # 0
        /\ \A b, c \in 0 .. NBlocks : blocks[b] = blocks[c] /\ b # c => blocks[b] = 0
    BY <1>1, <1>3, <1>4 DEF FileInv, NoHoles
  <2>2. ASSUME NEW b \in 0 .. NBlocks, b * BSize < size'
        PROVE  blocks[b] # 0
    <3>1. b * BSize \in Nat
      BY TimesNat, Sizes
    <3>2. QED
      BY <1>3, <1>4, <1>6, <1>7, <2>1, <2>2, <3>1
  <2>3. call'.op # "write"
    BY <1>1 DEF Idle
  <2>4. QED
    BY <1>1, <2>1, <2>2, <2>3 DEF NoHoles
<1>11. OffsetsInFile'
  BY <1>3, <1>6 DEF OffsetsInFile
<1>12. QED
  BY <1>9, <1>10, <1>11 DEF FileInv

-----------------------------------------------------------------------------
LEMMA NextInv ==
  ASSUME FileInv, [Next]_vars
  PROVE  FileInv'
<1>1. CASE Next
  <2>1. CASE Open
    BY <2>1, OpenInv
  <2>2. CASE \E fd \in Called : Close(fd)
    BY <2>2, CloseInv
  <2>3. CASE \E fd \in Called, off \in 0 .. size + 1 : Lseek(fd, off)
    BY <2>3, LseekInv
  <2>4. CASE \E fd \in Called, n \in ReadCounts : ReadBegin(fd, n)
    BY <2>4, ReadBeginInv
  <2>5. CASE ReadTurn
    BY <2>5, ReadTurnInv
  <2>6. CASE ReadEnd
    BY <2>6, ReadEndInv
  <2>7. CASE \E fd \in Called, buf \in Buffers : WriteBegin(fd, buf)
    BY <2>7, WriteBeginInv
  <2>8. CASE WriteTurn
    BY <2>8, WriteTurnInv
  <2>9. CASE WriteEnd
    BY <2>9, WriteEndInv
  <2>10. QED
    BY <1>1, <2>1, <2>2, <2>3, <2>4, <2>5, <2>6, <2>7, <2>8, <2>9 DEF Next
<1>2. CASE UNCHANGED vars
  <2>1. CallOK'
    BY <1>2 DEF FileInv, TypeOK, CallOK, vars, MaxSize
  <2>2. TypeOK'
    BY <1>2, <2>1 DEF FileInv, TypeOK, vars, MaxSize
  <2>3. NoHoles' /\ OffsetsInFile'
    BY <1>2 DEF FileInv, NoHoles, OffsetsInFile, vars
  <2>4. QED
    BY <2>2, <2>3 DEF FileInv
<1>3. QED
  BY <1>1, <1>2

LEMMA FileInvariant == Spec => []FileInv
<1>1. Init => FileInv
  BY InitInv
<1>2. FileInv /\ [Next]_vars => FileInv'
  BY NextInv
<1>3. QED
  BY <1>1, <1>2, PTL DEF Spec

\* Every call of the data interface (fs_open to fs_write) leaves the block
\* table, the size, the offsets and its own locals in their ranges, for any
\* size of a block and any length of the table.
THEOREM FileTypeCorrect == Spec => []TypeOK
<1>1. FileInv => TypeOK
  BY DEF FileInv
<1>2. QED
  BY <1>1, FileInvariant, PTL

\* Every byte before the end of the file is in a block, and no block holds two
\* parts of the file, whatever the descriptors do (get_off_addr, do_write).
THEOREM NoHolesCorrect == Spec => []NoHoles
<1>1. FileInv => NoHoles
  BY DEF FileInv
<1>2. QED
  BY <1>1, FileInvariant, PTL

\* No offset is behind the end of the file (fs_lseek, fs_read, fs_write).
THEOREM OffsetsCorrect == Spec => []OffsetsInFile
<1>1. FileInv => OffsetsInFile
  BY DEF FileInv
<1>2. QED
  BY <1>1, FileInvariant, PTL

-----------------------------------------------------------------------------
(* The refinement.  Its steps need more than the invariants above: what    *)
(* the call in progress has moved so far (ReadKept, WriteKept), and that a *)
(* descriptor that is not in use is at 0, where fs_open would put it.      *)

(* The bytes that a call moves.                                             *)

\* Byte x of the file, through the block table.
ByteAt(x) == data[blocks[BlockOf(x - 1)]][((x - 1) % BSize)]

\* What a read has copied are the bytes from the position on, and what it has
\* copied and has left make the count it was asked for.
ReadKept ==
  call.op = "read" =>
    /\ call.n + Len(call.buf) \in ReadCounts
    /\ \A x \in 1 .. Len(call.buf) : call.buf[x] = ByteAt(offset[call.fd] + x)

\* Byte x of the file in the middle of a write: of the buffer from the position
\* to the offset, and elsewhere as it was before.
WrittenByte(x) ==
  IF x > offset[call.fd] /\ x <= call.off
  THEN call.buf[x - offset[call.fd]] ELSE call.before[x]

WriteKept ==
  call.op = "write" =>
    /\ call.off = offset[call.fd] + Written
    /\ Len(call.before) = size
    /\ \A x \in Nat \ {0} :
         x <= size \/ x <= call.off => ByteAt(x) = WrittenByte(x)

ClosedAtStart == \A fd \in Fds \ opened : offset[fd] = 0

TransferInv == FileInv /\ ReadKept /\ WriteKept /\ ClosedAtStart

-----------------------------------------------------------------------------
\* A place between the starts of two neighbouring blocks is in the first.
LEMMA BlockBetween ==
  ASSUME NEW y \in Nat, NEW q \in Nat, q * BSize <= y, y < (q + 1) * BSize
  PROVE  BlockOf(y) = q
<1> DEFINE r == BlockOf(y)
<1>1. r \in Nat /\ r * BSize \in Nat /\ (r + 1) * BSize \in Nat
      /\ q * BSize \in Nat /\ (q + 1) * BSize \in Nat
  <2>1. r + 1 \in Nat /\ q + 1 \in Nat /\ r \in Nat
    BY OffsetParts
  <2>2. QED
    BY <2>1, TimesNat, Sizes
<1>2. r * BSize <= y /\ y < (r + 1) * BSize
  <2>1. r * BSize <= y /\ y + RestOfBlock(y) = (r + 1) * BSize
        /\ RestOfBlock(y) \in 1 .. BSize
    BY OffsetBounds
  <2>2. QED
    BY <1>1, <2>1, Sizes
<1> HIDE DEF r
<1>3. r * BSize < (q + 1) * BSize /\ q * BSize < (r + 1) * BSize
  BY <1>1, <1>2
<1>4. r <= q /\ q <= r
  BY <1>1, <1>3, TimesLess
<1>5. QED
  BY <1>1, <1>4 DEF r

\* The places that a copy from off within its block touches.
LEMMA PlaceInBlock ==
  ASSUME NEW off \in Nat, NEW j \in Nat, j < RestOfBlock(off)
  PROVE  /\ BlockOf(off + j) = BlockOf(off)
         /\ (off + j) % BSize = (off % BSize) + j
<1> DEFINE q == BlockOf(off)
<1>1. /\ q * BSize \in Nat /\ (q + 1) * BSize \in Nat /\ q * BSize <= off
      /\ off + RestOfBlock(off) = (q + 1) * BSize /\ RestOfBlock(off) \in Nat
      /\ q \in Nat
  BY OffsetBounds, OffsetParts, Sizes
<1>2. q * BSize <= off + j /\ off + j < (q + 1) * BSize /\ off + j \in Nat
  BY <1>1
<1>3. BlockOf(off + j) = q
  BY <1>1, <1>2, BlockBetween
<1>4. off + j = q * BSize + ((off + j) % BSize) /\ (off + j) % BSize \in 0 .. BSize - 1
  BY <1>2, <1>3, OffsetParts
<1>5. off = q * BSize + (off % BSize) /\ off % BSize \in 0 .. BSize - 1
  BY OffsetParts
<1> HIDE DEF q
<1>6. (off + j) % BSize = (off % BSize) + j
  BY <1>1, <1>4, <1>5, Sizes
<1>7. QED
  BY <1>3, <1>6 DEF q

\* A sequence given by its elements.
LEMMA LenOf ==
  ASSUME NEW n \in Nat, NEW S, NEW f \in [1 .. n -> S]
  PROVE  f \in Seq(S) /\ Len(f) = n
  OBVIOUS

\* The block of a byte before the end of the file, or of what is written.
LEMMA HeldBlock ==
  ASSUME FileInv, NEW y \in Nat,
         \/ y < size
         \/ call.op = "write" /\ y < call.off
  PROVE  /\ BlockOf(y) \in 0 .. NBlocks
         /\ blocks[BlockOf(y)] \in Blocks /\ blocks[BlockOf(y)] # 0
<1> DEFINE q == BlockOf(y)
           end == IF call.op = "write" /\ call.off > size THEN call.off ELSE size
<1>1. y < end /\ end <= MaxSize /\ end \in Nat /\ MaxSize \in Nat
  <2>1. size \in Nat /\ size <= MaxSize /\ MaxSize \in Nat
    BY OffsetType
  <2>2. CASE call.op = "write"
    <3>1. call.off \in Nat /\ call.off <= MaxSize
      BY <2>2, WriteLocals
    <3>2. QED
      BY <2>1, <2>2, <3>1
  <2>3. CASE call.op # "write"
    BY <2>1, <2>3
  <2>4. QED
    BY <2>2, <2>3
<1>2. q \in Nat /\ q * BSize <= y /\ q * BSize \in Nat
  BY OffsetParts, OffsetBounds
<1>3. \A b \in 0 .. NBlocks : b * BSize < end => blocks[b] # 0
  BY DEF FileInv, NoHoles
<1> HIDE DEF q, end
<1>4. q \in 0 .. NBlocks
  <2>1. q * BSize < (NBlocks + 1) * BSize
    BY <1>1, <1>2 DEF MaxSize
  <2>2. q <= NBlocks
    BY <1>2, <2>1, TimesLess, Sizes
  <2>3. QED
    BY <1>2, <2>2, Sizes
<1>5. blocks[q] # 0
  <2>1. q * BSize < end
    BY <1>1, <1>2
  <2>2. QED
    BY <1>3, <1>4, <2>1
<1>6. blocks[q] \in Blocks
  BY <1>4, <1>5 DEF FileInv, TypeOK
<1>7. QED
  BY <1>4, <1>5, <1>6 DEF q

\* The bytes before the end of the file are bytes.
LEMMA ByteType ==
  ASSUME FileInv, NEW x \in 1 .. size
  PROVE  ByteAt(x) \in Bytes \union {0}
<1> DEFINE y == x - 1
<1>1. y \in Nat /\ y < size
  BY OffsetType
<1>2. blocks[BlockOf(y)] \in Blocks
  BY <1>1, HeldBlock
<1>3. y % BSize \in 0 .. BSize - 1
  BY <1>1, OffsetParts
<1>4. data[blocks[BlockOf(y)]] \in [0 .. BSize - 1 -> Bytes \union {0}]
  BY <1>2 DEF FileInv, TypeOK
<1>5. QED
  BY <1>3, <1>4 DEF ByteAt

\* The content of the file, byte by byte.
LEMMA ContentIs ==
  ASSUME FileInv
  PROVE  /\ Content \in Seq(Bytes \union {0}) /\ Len(Content) = size
         /\ \A x \in 1 .. size : Content[x] = ByteAt(x)
<1>1. Content = [x \in 1 .. size |-> ByteAt(x)]
  BY DEF Content, ByteAt, BlockOf
<1>2. \A x \in 1 .. size : ByteAt(x) \in Bytes \union {0}
  BY ByteType
<1> DEFINE c == [x \in 1 .. size |-> ByteAt(x)]
<1>3. c \in [1 .. size -> Bytes \union {0}]
  BY <1>2
<1>4. \A x \in 1 .. size : c[x] = ByteAt(x)
  OBVIOUS
<1>5. size \in Nat
  BY OffsetType
<1> HIDE DEF c
<1>6. c \in Seq(Bytes \union {0}) /\ Len(c) = size
  BY <1>3, <1>5, LenOf
<1>7. QED
  BY <1>1, <1>4, <1>6 DEF c

-----------------------------------------------------------------------------
LEMMA TransferInit ==
  ASSUME Init
  PROVE  TransferInv
<1>1. FileInv
  BY InitInv
<1>2. call.op # "read" /\ call.op # "write"
  BY DEF Init, Idle
<1>3. ClosedAtStart
  BY DEF Init, ClosedAtStart
<1>4. QED
  BY <1>1, <1>2, <1>3 DEF TransferInv, ReadKept, WriteKept

\* A call that ends, or that does not begin, keeps no bytes in its locals.
LEMMA IdleKept ==
  ASSUME call' = Idle
  PROVE  ReadKept' /\ WriteKept'
<1>1. call'.op # "read" /\ call'.op # "write"
  BY DEF Idle
<1>2. QED
  BY <1>1 DEF ReadKept, WriteKept

LEMMA DiesKept ==
  ASSUME TransferInv, NEW op, NEW fd, Dies(op, fd)
  PROVE  ReadKept' /\ WriteKept' /\ ClosedAtStart'
<1>1. call' = Idle /\ opened' = opened /\ offset' = offset
  BY DEF Dies
<1>2. QED
  BY <1>1, IdleKept DEF TransferInv, ClosedAtStart

LEMMA DescriptorKept ==
  ASSUME TransferInv,
         \/ Open
         \/ \E fd : Close(fd)
         \/ \E fd \in Called, off \in 0 .. size + 1 : Lseek(fd, off)
  PROVE  ReadKept' /\ WriteKept' /\ ClosedAtStart'
<1>1. offset \in [Fds -> 0 .. size] /\ opened \subseteq Fds /\ Called \subseteq Fds
  BY OffsetType, FileIOAssumption DEF TransferInv, FileInv, TypeOK, Called, FileIOAssumption
<1>2. call' = Idle
  BY DEF Open, Close, Lseek, Dies, Returns
<1>3. ClosedAtStart'
  <2>1. CASE Open
    <3>1. \/ opened' = opened /\ offset' = offset
          \/ \E fd : opened' = opened \union {fd} /\ offset' = [offset EXCEPT ![fd] = 0]
      BY <2>1 DEF Open
    <3>2. QED
      BY <1>1, <3>1 DEF TransferInv, ClosedAtStart
  <2>2. CASE \E fd : Close(fd)
    <3>1. PICK fd : opened' = opened \ {fd} /\ offset' = [offset EXCEPT ![fd] = 0]
      BY <2>2 DEF Close
    <3>2. QED
      BY <1>1, <3>1 DEF TransferInv, ClosedAtStart
  <2>3. CASE \E fd \in Called, off \in 0 .. size + 1 : Lseek(fd, off)
    <3>1. PICK fd \in Called, off \in 0 .. size + 1 : Lseek(fd, off)
      BY <2>3
    <3>2. \/ opened' = opened /\ offset' = offset
          \/ fd \in opened /\ opened' = opened /\ offset' = [offset EXCEPT ![fd] = off]
      BY <3>1 DEF Lseek, Dies
    <3>3. QED
      BY <1>1, <3>2 DEF TransferInv, ClosedAtStart
  <2>4. QED
    BY <2>1, <2>2, <2>3
<1>4. QED
  BY <1>2, <1>3, IdleKept

LEMMA ReadBeginKept ==
  ASSUME TransferInv, NEW fd \in Called, NEW n \in ReadCounts, ReadBegin(fd, n)
  PROVE  ReadKept' /\ WriteKept' /\ ClosedAtStart'
<1>1. CASE Dies("read", fd)
  BY <1>1, DiesKept
<1>2. CASE /\ call' = Reading(fd, n, offset[fd], << >>)
           /\ UNCHANGED << blocks, data, size, opened, offset, ret, alive >>
  <2>1. call'.op = "read" /\ call'.n = n /\ call'.buf = << >> /\ Len(call'.buf) = 0
    BY <1>2 DEF Reading
  <2>2. n \in Nat
    BY FileIOAssumption DEF FileIOAssumption
  <2>3. ReadKept' /\ WriteKept'
    BY <2>1, <2>2 DEF ReadKept, WriteKept
  <2>4. ClosedAtStart'
    BY <1>2 DEF TransferInv, ClosedAtStart
  <2>5. QED
    BY <2>3, <2>4
<1>3. QED
  BY <1>1, <1>2 DEF ReadBegin

\* A copy out of one block holds the bytes of the file from its offset on.
LEMMA CopiedBytes ==
  ASSUME NEW off \in Nat, NEW k \in Nat, k <= RestOfBlock(off), NEW j \in 1 .. k
  PROVE  Copied(off, k)[j] = ByteAt(off + j)
<1>1. j - 1 \in Nat /\ RestOfBlock(off) \in Nat
  BY OffsetBounds, Sizes
<1>2. j - 1 < RestOfBlock(off)
  BY <1>1
<1>3. BlockOf(off + (j - 1)) = BlockOf(off) /\ (off + (j - 1)) % BSize = (off % BSize) + (j - 1)
  BY <1>1, <1>2, PlaceInBlock
<1>4. (off + j) - 1 = off + (j - 1)
  BY <1>1
<1>5. off % BSize \in Nat
  BY OffsetParts, Sizes
<1>6. (off % BSize) + j - 1 = (off % BSize) + (j - 1)
  BY <1>5
<1>7. Copied(off, k)[j] = data[blocks[BlockOf(off)]][(off % BSize) + j - 1]
  BY DEF Copied
<1>8. QED
  BY <1>3, <1>4, <1>6, <1>7 DEF ByteAt

LEMMA ConcatElement ==
  ASSUME NEW S, NEW s \in Seq(S), NEW t \in Seq(S), NEW x \in 1 .. Len(s) + Len(t)
  PROVE  (s \o t)[x] = IF x <= Len(s) THEN s[x] ELSE t[x - Len(s)]
  OBVIOUS

\* The place of a byte in the part that is copied.
LEMMA ShiftedSum ==
  ASSUME NEW a \in Nat, NEW b \in Nat, NEW c \in Nat, NEW x \in Int, a = b + c
  PROVE  a + (x - c) = b + x
  OBVIOUS

LEMMA ReadTurnKept ==
  ASSUME TransferInv, ReadTurn
  PROVE  ReadKept' /\ WriteKept' /\ ClosedAtStart'
<1> DEFINE k == ReadSize
           part == Copied(call.off, k)
           p == offset[call.fd]
<1>1. call.op = "read" /\ ReadGoesOn /\ FileInv
  BY DEF ReadTurn, TransferInv
<1>2. CASE Dies("read", call.fd)
  BY <1>2, DiesKept
<1>3. CASE /\ k >= 0
           /\ call' = Reading(call.fd, call.n - k, call.off + k, call.buf \o part)
           /\ UNCHANGED << blocks, data, size, opened, offset, ret, alive >>
  <2>1. k \in Nat /\ k <= RestOfBlock(call.off) /\ k <= call.n
    BY <1>1, <1>3, ReadSizeBounds
  <2>2. /\ call.buf \in Seq(Bytes \union {0}) /\ Len(call.buf) \in Nat
        /\ call.off = p + Len(call.buf) /\ p \in Nat /\ call.off \in Nat /\ call.n \in Nat
    BY <1>1, ReadLocals
  <2>3. part \in Seq(Bytes \union {0}) /\ Len(part) = k
    <3>1. InRange(call.off) /\ blocks[BlockOf(call.off)] # 0
      BY <1>1 DEF ReadGoesOn
    <3>2. QED
      BY <1>1, <2>1, <2>2, <3>1, CopiedType DEF FileInv
  <2>4. \A j \in 1 .. k : part[j] = ByteAt(call.off + j)
    BY <2>1, <2>2, CopiedBytes
  <2>5. \A x \in 1 .. Len(call.buf) : call.buf[x] = ByteAt(p + x)
    BY <1>1 DEF TransferInv, ReadKept
  <2>6. call.n + Len(call.buf) \in ReadCounts
    BY <1>1 DEF TransferInv, ReadKept
  <2> HIDE DEF k, part, p
  <2> DEFINE buf == call.buf \o part
  <2>7. Len(buf) = Len(call.buf) + k
    BY <2>2, <2>3
  <2>15. \A x \in 1 .. Len(call.buf) + k :
           buf[x] = IF x <= Len(call.buf) THEN call.buf[x] ELSE part[x - Len(call.buf)]
    BY <2>2, <2>3, ConcatElement
  <2> HIDE DEF buf
  <2>8. ASSUME NEW x \in 1 .. Len(call.buf) + k PROVE buf[x] = ByteAt(p + x)
    <3>1. CASE x <= Len(call.buf)
      <4>1. buf[x] = call.buf[x] /\ x \in 1 .. Len(call.buf)
        BY <2>2, <2>15, <3>1
      <4>2. QED
        BY <2>5, <4>1
    <3>2. CASE x > Len(call.buf)
      <4> DEFINE j == x - Len(call.buf)
      <4>0. call.off = p + Len(call.buf) /\ p \in Nat /\ Len(call.buf) \in Nat /\ k \in Nat
        BY <2>1, <2>2
      <4>1. j \in 1 .. k
        BY <4>0, <3>2
      <4>3. call.off + j = p + x
        <5> DEFINE o == call.off
                   c == Len(call.buf)
        <5>1. o \in Nat /\ c \in Nat /\ p \in Nat /\ o = p + c /\ x \in Int /\ j = x - c
          BY <2>2, <4>0
        <5> HIDE DEF o, c, j
        <5>2. o + (x - c) = p + x
          BY <5>1, ShiftedSum
        <5>3. QED
          BY <5>1, <5>2 DEF o
      <4>4. buf[x] = part[j]
        <5>1. buf[x] = IF x <= Len(call.buf) THEN call.buf[x] ELSE part[x - Len(call.buf)]
          BY <2>15
        <5>2. ~ (x <= Len(call.buf))
          BY <3>2, <4>0
        <5>3. QED
          BY <5>1, <5>2
      <4> HIDE DEF j
      <4>2. QED
        BY <2>4, <4>1, <4>3, <4>4
    <3>3. QED
      BY <2>1, <2>2, <3>1, <3>2
  <2>9. /\ call'.op = "read" /\ call'.fd = call.fd /\ call'.n = call.n - k /\ call'.buf = buf
    BY <1>3 DEF Reading, buf, k, part
  <2>10. call'.n + Len(call'.buf) = call.n + Len(call.buf)
    BY <2>1, <2>2, <2>7, <2>9
  <2>11. (\A x \in 1 .. Len(call.buf) : call.buf[x] = ByteAt(offset[call.fd] + x))'
    BY <1>3, <2>7, <2>8, <2>9 DEF ByteAt, p
  <2>12. ReadKept'
    <3>1. (call.n + Len(call.buf) \in ReadCounts)'
      BY <2>6, <2>10
    <3>2. QED
      BY <2>11, <3>1 DEF ReadKept
  <2>13. WriteKept' /\ ClosedAtStart'
    BY <1>3, <2>9 DEF TransferInv, WriteKept, ClosedAtStart
  <2>14. QED
    BY <2>12, <2>13
<1>4. QED
  BY <1>2, <1>3 DEF ReadTurn

LEMMA WriteBeginKept ==
  ASSUME TransferInv, NEW fd \in Called, NEW buf \in Buffers, WriteBegin(fd, buf)
  PROVE  ReadKept' /\ WriteKept' /\ ClosedAtStart'
<1>1. CASE Dies("write", fd)
  BY <1>1, DiesKept
<1>2. CASE /\ fd \in opened
           /\ call' = Writing(fd, buf, Len(buf), offset[fd], Content)
           /\ UNCHANGED << blocks, data, size, opened, offset, ret, alive >>
  <2>1. /\ call'.op = "write" /\ call'.fd = fd /\ call'.n = Len(buf) /\ call'.buf = buf
        /\ call'.off = offset[fd] /\ call'.before = Content
    BY <1>2 DEF Writing
  <2>2. offset[fd] \in Nat /\ offset[fd] <= size /\ size \in Nat /\ Len(buf) \in Nat
    <3>1. fd \in Fds /\ buf \in Seq(Bytes)
      BY <1>2, FileIOAssumption DEF TransferInv, FileInv, TypeOK, FileIOAssumption
    <3>2. QED
      BY <3>1, OffsetType DEF TransferInv
  <2>3. (call.off = offset[call.fd] + Written)'
    BY <1>2, <2>1, <2>2 DEF Written
  <2>4. /\ Len(Content) = size
        /\ \A x \in 1 .. size : Content[x] = ByteAt(x)
    BY ContentIs DEF TransferInv
  <2>5. (Len(call.before) = size)'
    BY <1>2, <2>1, <2>4
  <2>6. ASSUME NEW x \in Nat \ {0}, x <= size \/ x <= offset[fd]
        PROVE  ByteAt(x) = Content[x] /\ ~ (x > offset[fd] /\ x <= offset[fd])
    BY <2>2, <2>4, <2>6
  <2>7. (\A x \in Nat \ {0} :
           x <= size \/ x <= call.off => ByteAt(x) = WrittenByte(x))'
    BY <1>2, <2>1, <2>6 DEF ByteAt, WrittenByte
  <2>8. ReadKept' /\ WriteKept'
    BY <2>1, <2>3, <2>5, <2>7 DEF ReadKept, WriteKept
  <2>9. ClosedAtStart'
    BY <1>2 DEF TransferInv, ClosedAtStart
  <2>10. QED
    BY <2>8, <2>9
<1>3. QED
  BY <1>1, <1>2 DEF WriteBegin

\* A turn of do_write leaves a byte before the end of the file, or of what was
\* written, alone, if it is not one of the k bytes from the offset on.
LEMMA ByteOutside ==
  ASSUME TransferInv, WriteTurn, NEW k \in Nat,
         data' = [data EXCEPT ![Target(call.off)] = Filled(@, k)],
         k <= RestOfBlock(call.off),
         NEW y \in Nat, y < size \/ y < call.off,
         y < call.off \/ call.off + k <= y
  PROVE  data'[blocks'[BlockOf(y)]][(y % BSize)] = data[blocks[BlockOf(y)]][(y % BSize)]
<1> DEFINE off == call.off
           q == BlockOf(off)
           r == BlockOf(y)
           t == Target(off)
           rest == off % BSize
           z == y % BSize
<1>1. FileInv /\ call.op = "write" /\ InRange(off) /\ off \in Nat
  BY WriteLocals DEF WriteTurn, TransferInv
<1>2. r \in 0 .. NBlocks /\ blocks[r] \in Blocks /\ blocks[r] # 0
  BY <1>1, HeldBlock
<1>3. /\ q \in 0 .. NBlocks /\ t \in Blocks /\ t # 0
      /\ blocks[q] # 0 => t = blocks[q]
      /\ blocks[q] = 0 => \A b \in 0 .. NBlocks : blocks[b] # t
  BY <1>1, TargetType DEF FileInv
<1>4. /\ blocks' = [blocks EXCEPT ![q] = t]
      /\ blocks \in [0 .. NBlocks -> Blocks \union {0}]
      /\ data \in [Blocks -> [0 .. BSize - 1 -> Bytes \union {0}]]
      /\ data' = [data EXCEPT ![t] = Filled(data[t], k)]
  BY <1>1 DEF WriteTurn, FileInv, TypeOK
<1>5. CASE r = q
  <2>1. blocks'[r] = t /\ blocks[r] = t
    BY <1>2, <1>3, <1>4, <1>5
  <2>2. data'[t] = Filled(data[t], k)
    BY <1>3, <1>4
  <2>3. z - rest \notin 0 .. k - 1
    <3>1. /\ q * BSize \in Nat /\ off = q * BSize + rest /\ y = q * BSize + z
          /\ rest \in 0 .. BSize - 1 /\ z \in 0 .. BSize - 1
      BY <1>1, <1>5, OffsetParts, OffsetBounds
    <3> DEFINE start == q * BSize
    <3>2. /\ start \in Nat /\ off = start + rest /\ y = start + z
          /\ rest \in Int /\ z \in Int /\ off \in Int
      BY <1>1, <3>1, Sizes
    <3> HIDE DEF start, rest, z, off
    <3>3. z - rest = y - off
      BY <3>2
    <3>4. y - off \notin 0 .. k - 1
      BY <3>2 DEF off
    <3>5. QED
      BY <3>3, <3>4
  <2>4. z \in 0 .. BSize - 1
    BY OffsetParts
  <2>5. Filled(data[t], k)[z] = data[t][z]
    BY <2>3, <2>4 DEF Filled
  <2>6. QED
    BY <2>1, <2>2, <2>5
<1>6. CASE r # q
  <2>1. blocks'[r] = blocks[r]
    BY <1>2, <1>4, <1>6
  <2>2. blocks[r] # t
    <3>1. \A b, c \in 0 .. NBlocks : blocks[b] = blocks[c] /\ b # c => blocks[b] = 0
      BY <1>1 DEF FileInv, NoHoles
    <3>2. QED
      BY <1>2, <1>3, <1>6, <3>1
  <2>3. data'[blocks[r]] = data[blocks[r]]
    BY <1>2, <1>4, <2>2
  <2>4. QED
    BY <2>1, <2>3
<1>7. QED
  BY <1>5, <1>6

\* ... and puts the next k bytes of the buffer from there on.
LEMMA ByteInside ==
  ASSUME TransferInv, WriteTurn, NEW k \in Nat,
         data' = [data EXCEPT ![Target(call.off)] = Filled(@, k)],
         k <= RestOfBlock(call.off),
         NEW y \in Nat, call.off <= y, y < call.off + k
  PROVE  data'[blocks'[BlockOf(y)]][(y % BSize)] = call.buf[Written + (y - call.off) + 1]
<1> DEFINE off == call.off
           q == BlockOf(off)
           t == Target(off)
           rest == off % BSize
           j == y - off
<1>1. FileInv /\ call.op = "write" /\ InRange(off) /\ off \in Nat
  BY WriteLocals DEF WriteTurn, TransferInv
<1>2. q \in 0 .. NBlocks /\ t \in Blocks
  BY <1>1, TargetType DEF FileInv
<1>3. /\ blocks' = [blocks EXCEPT ![q] = t]
      /\ blocks \in [0 .. NBlocks -> Blocks \union {0}]
      /\ data \in [Blocks -> [0 .. BSize - 1 -> Bytes \union {0}]]
      /\ data' = [data EXCEPT ![t] = Filled(data[t], k)]
  BY <1>1 DEF WriteTurn, FileInv, TypeOK
<1>4. j \in Nat /\ j \in 0 .. k - 1 /\ off + j = y /\ j < RestOfBlock(off)
  BY <1>1, OffsetBounds, Sizes
<1>5. BlockOf(y) = q /\ y % BSize = rest + j
  <2>1. BlockOf(off + j) = q /\ (off + j) % BSize = rest + j
    BY <1>1, <1>4, PlaceInBlock
  <2>2. QED
    BY <1>4, <2>1
<1>6. blocks'[q] = t /\ data'[t] = Filled(data[t], k)
  BY <1>2, <1>3
<1>7. y % BSize \in 0 .. BSize - 1 /\ rest \in 0 .. BSize - 1
  BY <1>1, OffsetParts
<1>8. (y % BSize) - rest = j
  <2>1. rest \in Int
    BY <1>7, Sizes
  <2> HIDE DEF rest, j
  <2>2. QED
    BY <1>4, <1>5, <2>1
<1> HIDE DEF j
<1>9. Filled(data[t], k)[(y % BSize)] = call.buf[Written + j + 1]
  BY <1>4, <1>7, <1>8 DEF Filled
<1>10. QED
  BY <1>5, <1>6, <1>9 DEF j

LEMMA WriteTurnKept ==
  ASSUME TransferInv, WriteTurn
  PROVE  ReadKept' /\ WriteKept' /\ ClosedAtStart'
<1> DEFINE k == Smaller(call.n, RestOfBlock(call.off))
           p == offset[call.fd]
<1>1. FileInv /\ call.op = "write" /\ call.n > 0
  BY DEF WriteTurn, TransferInv
<1>2. /\ data' = [data EXCEPT ![Target(call.off)] = Filled(@, k)]
      /\ call' = Writing(call.fd, call.buf, call.n - k, call.off + k, call.before)
      /\ UNCHANGED << size, opened, offset, ret, alive >>
  BY DEF WriteTurn
<1>3. k \in Nat /\ k <= call.n /\ k <= RestOfBlock(call.off)
  BY <1>1, TurnSize
<1>4. /\ call'.op = "write" /\ call'.fd = call.fd /\ call'.buf = call.buf
      /\ call'.n = call.n - k /\ call'.off = call.off + k /\ call'.before = call.before
  BY <1>2 DEF Writing
<1>5. /\ call.off = p + Written /\ Len(call.before) = size
      /\ \A x \in Nat \ {0} : x <= size \/ x <= call.off => ByteAt(x) = WrittenByte(x)
  BY <1>1 DEF TransferInv, WriteKept
<1>6. /\ p \in Nat /\ size \in Nat /\ call.off \in Nat /\ call.n \in Nat
      /\ Len(call.buf) \in Nat /\ Written \in Nat
  <2>1. call.fd \in Fds /\ call.n \in 0 .. Len(call.buf) /\ Len(call.buf) \in Nat /\ call.off \in Nat
    BY <1>1, WriteLocals
  <2>2. QED
    BY <1>1, <2>1, OffsetType DEF Written
<1>7. call'.off = p + Written'
  <2>1. Written' = Len(call.buf) - (call.n - k)
    BY <1>4 DEF Written
  <2> DEFINE l == Len(call.buf)
             n == call.n
             off == call.off
  <2>2. l \in Nat /\ n \in Nat /\ off = p + (l - n) /\ Written' = l - (n - k)
        /\ call'.off = off + k
    BY <1>4, <1>5, <1>6, <2>1 DEF Written
  <2> HIDE DEF l, n, off, k, p
  <2>3. QED
    BY <1>3, <1>6, <2>2
<1>8. ASSUME NEW x \in Nat \ {0}, x <= size \/ x <= call.off + k
      PROVE  data'[blocks'[BlockOf(x - 1)]][((x - 1) % BSize)]
             = IF x > p /\ x <= call.off + k THEN call.buf[x - p] ELSE call.before[x]
  <2> DEFINE y == x - 1
             off == call.off
             new == data'[blocks'[BlockOf(y)]][(y % BSize)]
  <2>1. y \in Nat /\ x = y + 1
    OBVIOUS
  <2>2. CASE off <= y /\ y < off + k
    <3>1. new = call.buf[Written + (y - off) + 1]
      BY <1>2, <1>3, <2>1, <2>2, ByteInside
    <3>2. Written + (y - off) + 1 = x - p /\ x > p /\ x <= off + k
      <4> HIDE DEF y, off, k, p
      <4>1. y \in Nat /\ x = y + 1 /\ off \in Nat /\ off = p + Written
        BY <1>5, <1>6, <2>1 DEF off, p
      <4>2. QED
        BY <1>3, <1>6, <2>2, <4>1
    <3>3. QED
      BY <3>1, <3>2
  <2>3. CASE y < off \/ off + k <= y
    <3>1. y < size \/ y < off
      BY <1>3, <1>6, <1>8, <2>1, <2>3
    <3>2. new = ByteAt(x)
      BY <1>2, <1>3, <2>1, <2>3, <3>1, ByteOutside DEF ByteAt
    <3>3. ByteAt(x) = WrittenByte(x)
      BY <1>5, <1>6, <2>1, <3>1
    <3>4. x > p /\ x <= off + k <=> x > p /\ x <= off
      <4> HIDE DEF y, off, k, p
      <4>1. y \in Nat /\ x = y + 1 /\ off \in Nat /\ off = p + Written
        BY <1>5, <1>6, <2>1 DEF off, p
      <4>2. QED
        BY <1>3, <1>6, <2>3, <4>1
    <3>5. QED
      BY <3>2, <3>3, <3>4 DEF WrittenByte
  <2>4. QED
    BY <1>3, <1>6, <2>1, <2>2, <2>3
<1>9. WriteKept'
  <2>1. (\A x \in Nat \ {0} : x <= size \/ x <= call.off => ByteAt(x) = WrittenByte(x))'
    BY <1>2, <1>4, <1>8 DEF ByteAt, WrittenByte
  <2>2. (call.off = offset[call.fd] + Written /\ Len(call.before) = size)'
    BY <1>2, <1>4, <1>5, <1>7
  <2>3. QED
    BY <2>1, <2>2 DEF WriteKept
<1>10. ReadKept' /\ ClosedAtStart'
  BY <1>2, <1>4 DEF TransferInv, ReadKept, ClosedAtStart
<1>11. QED
  BY <1>9, <1>10

LEMMA EndKept ==
  ASSUME TransferInv, ReadEnd \/ WriteEnd
  PROVE  ReadKept' /\ WriteKept' /\ ClosedAtStart'
<1>1. call' = Idle
  BY DEF ReadEnd, WriteEnd, Returns
<1>2. call.fd \in opened /\ offset \in [Fds -> 0 .. size]
  BY ReadLocals, WriteLocals, OffsetType DEF ReadEnd, WriteEnd, TransferInv
<1>3. \/ opened' = opened /\ offset' = offset
      \/ \E off : opened' = opened /\ offset' = [offset EXCEPT ![call.fd] = off]
  <2>1. CASE ReadEnd
    <3>1. opened' = opened /\ offset' = [offset EXCEPT ![call.fd] = @ + Len(call.buf)]
      BY <2>1 DEF ReadEnd
    <3>2. QED
      BY <3>1
  <2>2. CASE WriteEnd
    BY <2>2 DEF WriteEnd
  <2>3. QED
    BY <2>1, <2>2
<1>4. ClosedAtStart'
  BY <1>2, <1>3 DEF TransferInv, ClosedAtStart
<1>5. QED
  BY <1>1, <1>4, IdleKept

\* A step of the program keeps what the calls move.
LEMMA TransferNext ==
  ASSUME TransferInv, [Next]_vars
  PROVE  TransferInv'
<1>1. FileInv'
  BY NextInv DEF TransferInv
<1>2. ReadKept' /\ WriteKept' /\ ClosedAtStart'
  <2>1. CASE Open \/ (\E fd \in Called : Close(fd))
             \/ \E fd \in Called, off \in 0 .. size + 1 : Lseek(fd, off)
    BY <2>1, DescriptorKept
  <2>2. CASE \E fd \in Called, n \in ReadCounts : ReadBegin(fd, n)
    BY <2>2, ReadBeginKept
  <2>3. CASE ReadTurn
    BY <2>3, ReadTurnKept
  <2>4. CASE ReadEnd \/ WriteEnd
    BY <2>4, EndKept
  <2>5. CASE \E fd \in Called, buf \in Buffers : WriteBegin(fd, buf)
    BY <2>5, WriteBeginKept
  <2>6. CASE WriteTurn
    BY <2>6, WriteTurnKept
  <2>7. CASE UNCHANGED vars
    BY <2>7 DEF vars, TransferInv, ReadKept, WriteKept, ClosedAtStart, ByteAt, WrittenByte, Written
  <2>8. QED
    BY <2>1, <2>2, <2>3, <2>4, <2>5, <2>6, <2>7 DEF Next
<1>3. QED
  BY <1>1, <1>2 DEF TransferInv

LEMMA TransferInvariant == Spec => []TransferInv
<1>1. Init => TransferInv
  BY TransferInit
<1>2. TransferInv /\ [Next]_vars => TransferInv'
  BY TransferNext
<1>3. QED
  BY <1>1, <1>2, PTL DEF Spec

-----------------------------------------------------------------------------
(* Every step is one of the sequence of bytes, or none.                     *)

\* The bytes of the file as a caller sees them: those of a write in progress
\* are not there yet.
Shown == IF call.op = "write" THEN call.before ELSE Content

LEMMA ContentSame ==
  ASSUME UNCHANGED << blocks, data, size >>
  PROVE  Content' = Content
  BY DEF Content

LEMMA RefuseStep ==
  ASSUME Shown' = Shown, UNCHANGED << opened, offset >>, ret'.buf = << >>
  PROVE  AbstractFile!Next
  BY DEF AbstractFile!Next, AbstractFile!Refuse, Shown

LEMMA InternalStep ==
  ASSUME Shown' = Shown, UNCHANGED << opened, offset, ret >>
  PROVE  UNCHANGED AbstractFile!avars
  BY DEF AbstractFile!avars, Shown

LEMMA DiesStep ==
  ASSUME call.op # "write", NEW op, NEW fd, Dies(op, fd)
  PROVE  AbstractFile!Next
<1>1. call'.op # "write" /\ ret'.buf = << >> /\ UNCHANGED << blocks, data, size, opened, offset >>
  BY DEF Dies, Idle, Result
<1>2. Shown' = Shown
  BY <1>1, ContentSame DEF Shown
<1>3. QED
  BY <1>1, <1>2, RefuseStep

LEMMA InitStep ==
  ASSUME Init
  PROVE  AbstractFile!Init
<1>1. call.op # "write" /\ ret.buf = << >> /\ size = 0
  BY DEF Init, Idle, Result
<1>2. FileInv
  BY InitInv
<1>3. Content \in Seq(Bytes \union {0}) /\ Len(Content) = 0
  BY <1>1, <1>2, ContentIs
<1>4. Content = << >>
  BY <1>3, EmptySeq
<1>5. QED
  BY <1>1, <1>4 DEF Init, AbstractFile!Init

LEMMA OpenStep ==
  ASSUME FileInv, Open
  PROVE  AbstractFile!Next
<1>1. /\ call.op # "write" /\ call'.op # "write" /\ ret'.buf = << >>
      /\ UNCHANGED << blocks, data, size >>
  BY ReadyIdle DEF Open, Returns, Idle, Result
<1>2. Shown' = Shown
  BY <1>1, ContentSame DEF Shown
<1> DEFINE free == Fds \ opened
           fd == Lowest(free)
<1>3. CASE UNCHANGED << opened, offset >>
  BY <1>1, <1>2, <1>3, RefuseStep
<1>4. CASE /\ free # {}
           /\ opened' = opened \union {fd} /\ offset' = [offset EXCEPT ![fd] = 0]
  <2>1. fd \in Fds /\ fd \notin opened
    <3>1. free \subseteq Nat
      BY FileIOAssumption DEF FileIOAssumption
    <3>2. PICK m \in free : \A n \in free : m <= n
      BY <1>4, <3>1, NatMinimum
    <3>3. fd \in free
      BY <3>2 DEF Lowest
    <3>4. QED
      BY <3>3
  <2>2. AbstractFile!Open(fd)
    BY <1>1, <1>2, <1>4, <2>1 DEF AbstractFile!Open, Shown
  <2>3. QED
    BY <2>1, <2>2 DEF AbstractFile!Next
<1>5. QED
  BY <1>3, <1>4 DEF Open

\* To close a descriptor that is not in use changes nothing: it is at 0.
LEMMA CloseStep ==
  ASSUME TransferInv, NEW fd \in Called, Close(fd)
  PROVE  AbstractFile!Next
<1>1. /\ call.op # "write" /\ call'.op # "write" /\ ret'.buf = << >>
      /\ UNCHANGED << blocks, data, size >>
      /\ opened' = opened \ {fd} /\ offset' = [offset EXCEPT ![fd] = 0]
  BY ReadyIdle DEF Close, Returns, Idle, Result
<1>2. Shown' = Shown
  BY <1>1, ContentSame DEF Shown
<1>3. offset \in [Fds -> 0 .. size] /\ opened \subseteq Fds /\ fd \in Fds
  BY OffsetType, FileIOAssumption DEF TransferInv, FileInv, TypeOK, Called, FileIOAssumption
<1>4. CASE fd \in opened
  <2>1. AbstractFile!Close(fd)
    BY <1>1, <1>2, <1>4 DEF AbstractFile!Close, Shown
  <2>2. QED
    BY <1>3, <2>1 DEF AbstractFile!Next
<1>5. CASE fd \notin opened
  <2>1. offset[fd] = 0
    BY <1>3, <1>5 DEF TransferInv, ClosedAtStart
  <2>2. opened' = opened /\ offset' = offset
    BY <1>1, <1>3, <1>5, <2>1
  <2>3. QED
    BY <1>1, <1>2, <2>2, RefuseStep
<1>6. QED
  BY <1>4, <1>5

LEMMA LseekStep ==
  ASSUME FileInv, NEW fd \in Called, NEW off \in 0 .. size + 1, Lseek(fd, off)
  PROVE  AbstractFile!Next
<1>1. call.op # "write"
  BY ReadyIdle DEF Lseek
<1>2. CASE Dies("lseek", fd)
  BY <1>1, <1>2, DiesStep
<1>3. CASE /\ Returns("lseek", fd, "EINVAL", 0)
           /\ UNCHANGED << blocks, data, size, opened, offset, alive >>
  <2>1. call'.op # "write" /\ ret'.buf = << >>
    BY <1>3 DEF Returns, Idle, Result
  <2>2. Shown' = Shown
    BY <1>1, <1>3, <2>1, ContentSame DEF Shown
  <2>3. QED
    BY <1>3, <2>1, <2>2, RefuseStep
<1>4. CASE /\ fd \in opened /\ off <= size
           /\ Returns("lseek", fd, "OK", off)
           /\ offset' = [offset EXCEPT ![fd] = off]
           /\ UNCHANGED << blocks, data, size, opened, alive >>
  <2>1. call'.op # "write" /\ ret'.buf = << >>
    BY <1>4 DEF Returns, Idle, Result
  <2>2. Shown' = Shown
    BY <1>1, <1>4, <2>1, ContentSame DEF Shown
  <2>3. Len(Shown) = size /\ size \in Nat
    BY <1>1, ContentIs, OffsetType DEF Shown
  <2>4. fd \in Fds /\ off \in 0 .. size
    BY <1>4 DEF FileInv, TypeOK
  <2>5. AbstractFile!Seek(fd, off)
    BY <1>4, <2>1, <2>2, <2>3 DEF AbstractFile!Seek, Shown
  <2>6. QED
    BY <2>3, <2>4, <2>5 DEF AbstractFile!Next, Shown
<1>5. QED
  BY <1>2, <1>3, <1>4 DEF Lseek

LEMMA ReadBeginStep ==
  ASSUME NEW fd \in Called, NEW n \in ReadCounts, ReadBegin(fd, n)
  PROVE  AbstractFile!Next \/ UNCHANGED AbstractFile!avars
<1>1. call.op # "write"
  BY ReadyIdle DEF ReadBegin
<1>2. CASE Dies("read", fd)
  BY <1>1, <1>2, DiesStep
<1>3. CASE /\ call' = Reading(fd, n, offset[fd], << >>)
           /\ UNCHANGED << blocks, data, size, opened, offset, ret, alive >>
  <2>1. Shown' = Shown
    BY <1>1, <1>3, ContentSame DEF Shown, Reading
  <2>2. QED
    BY <1>3, <2>1, InternalStep
<1>4. QED
  BY <1>2, <1>3 DEF ReadBegin

LEMMA ReadTurnStep ==
  ASSUME ReadTurn
  PROVE  AbstractFile!Next \/ UNCHANGED AbstractFile!avars
<1>1. call.op # "write"
  BY DEF ReadTurn
<1>2. CASE Dies("read", call.fd)
  BY <1>1, <1>2, DiesStep
<1>3. CASE /\ \E n, off, buf : call' = Reading(call.fd, n, off, buf)
           /\ UNCHANGED << blocks, data, size, opened, offset, ret, alive >>
  <2>1. Shown' = Shown
    BY <1>1, <1>3, ContentSame DEF Shown, Reading
  <2>2. QED
    BY <1>3, <2>1, InternalStep
<1>4. QED
  BY <1>2, <1>3 DEF ReadTurn

\* A read that ends has copied what is left of the file, or what it was asked
\* for: a loop that stops early would have met a hole.
LEMMA ReadEndIs ==
  ASSUME TransferInv, ReadEnd
  PROVE  /\ AbstractFile!Read(call.fd, call.n + Len(call.buf))
         /\ call.n + Len(call.buf) \in ReadCounts /\ call.fd \in Fds
<1> DEFINE p == offset[call.fd]
           len == Len(call.buf)
           n == call.n + len
<1>1. /\ FileInv /\ call.op = "read" /\ call.op # "write" /\ call'.op # "write"
      /\ UNCHANGED << blocks, data, size, opened >>
      /\ offset' = [offset EXCEPT ![call.fd] = p + len]
  BY DEF ReadEnd, Idle, TransferInv
<1>2. ret'.buf = call.buf
  BY DEF ReadEnd, Result
<1>3. /\ call.fd \in opened /\ call.fd \in Fds /\ call.n \in Nat
      /\ call.buf \in Seq(Bytes \union {0}) /\ len \in Nat /\ p \in Nat
      /\ call.off = p + len /\ call.off \in Nat /\ call.off <= size /\ size \in Nat
  BY <1>1, ReadLocals
<1>4. call.n = 0 \/ call.off = size
  <2>1. SUFFICES ASSUME call.off < size PROVE call.n = 0
    BY <1>3
  <2>2. BlockOf(call.off) \in 0 .. NBlocks /\ blocks[BlockOf(call.off)] # 0
    BY <1>1, <1>3, <2>1, HeldBlock
  <2>3. InRange(call.off)
    BY <2>2, Sizes DEF InRange
  <2>4. QED
    BY <1>3, <2>1, <2>2, <2>3 DEF ReadEnd, ReadGoesOn
<1>5. /\ n \in ReadCounts
      /\ \A x \in 1 .. len : call.buf[x] = ByteAt(p + x)
  BY <1>1 DEF TransferInv, ReadKept
<1>6. /\ Content \in Seq(Bytes \union {0}) /\ Len(Content) = size
      /\ \A x \in 1 .. size : Content[x] = ByteAt(x)
  BY <1>1, ContentIs
<1>7. (IF p + n > Len(Content) THEN Len(Content) - p ELSE n) = len
  <2> HIDE DEF p, len
  <2>1. QED
    BY <1>3, <1>4, <1>6
<1>8. SubSeq(Content, p + 1, p + len) = call.buf
  <2> DEFINE sub == SubSeq(Content, p + 1, p + len)
  <2>1. p + len <= size /\ p \in Nat /\ len \in Nat /\ size \in Nat
    BY <1>3
  <2>2. \A i \in p + 1 .. p + len : Content[i] \in Bytes \union {0}
    BY <1>1, <1>3, <1>6, <2>1, ByteType
  <2>3. p + 1 \in Int /\ p + len \in Int
    BY <2>1
  <2>4. /\ sub \in Seq(Bytes \union {0})
        /\ Len(sub) = IF p + 1 <= p + len THEN (p + len) - (p + 1) + 1 ELSE 0
        /\ \A i \in 1 .. (p + len) - (p + 1) + 1 : sub[i] = Content[(p + 1) + i - 1]
    BY <2>2, <2>3, SubSeqProperties
  <2> HIDE DEF sub
  <2>5. Len(sub) = len
    <3> HIDE DEF len, p
    <3>1. QED
      BY <2>1, <2>4
  <2>6. ASSUME NEW i \in 1 .. len PROVE sub[i] = call.buf[i]
    <3>1. call.buf[i] = ByteAt(p + i)
      BY <1>5
    <3> HIDE DEF len, p
    <3>2. (p + len) - (p + 1) + 1 = len /\ (p + 1) + i - 1 = p + i /\ p + i \in 1 .. size
      BY <2>1
    <3>3. sub[i] = Content[p + i]
      BY <2>4, <3>2
    <3>4. QED
      BY <1>6, <3>1, <3>2, <3>3
  <2>7. Len(call.buf) = len
    OBVIOUS
  <2> HIDE DEF len
  <2>8. sub = call.buf
    BY <1>3, <2>4, <2>5, <2>6, <2>7, SeqEqual
  <2>9. QED
    BY <2>8 DEF sub
<1>9. Shown = Content /\ Shown' = Shown
  BY <1>1, ContentSame DEF Shown
<1> HIDE DEF n, len
<1>10. AbstractFile!Read(call.fd, n)
  <2>1. /\ call.fd \in opened /\ ret'.buf = SubSeq(Content, p + 1, p + len)
        /\ offset' = [offset EXCEPT ![call.fd] = p + len]
        /\ UNCHANGED opened
    BY <1>1, <1>2, <1>3, <1>8
  <2>2. QED
    BY <1>7, <1>9, <2>1 DEF AbstractFile!Read, Shown
<1>11. QED
  BY <1>3, <1>5, <1>10 DEF n, len

LEMMA ReadEndStep ==
  ASSUME TransferInv, ReadEnd
  PROVE  AbstractFile!Next
  BY ReadEndIs DEF AbstractFile!Next

LEMMA WriteBeginStep ==
  ASSUME NEW fd \in Called, NEW buf \in Buffers, WriteBegin(fd, buf)
  PROVE  AbstractFile!Next \/ UNCHANGED AbstractFile!avars
<1>1. call.op # "write"
  BY ReadyIdle DEF WriteBegin
<1>2. CASE Dies("write", fd)
  BY <1>1, <1>2, DiesStep
<1>3. CASE /\ call' = Writing(fd, buf, Len(buf), offset[fd], Content)
           /\ UNCHANGED << blocks, data, size, opened, offset, ret, alive >>
  <2>1. Shown' = Shown
    BY <1>1, <1>3 DEF Shown, Writing
  <2>2. QED
    BY <1>3, <2>1, InternalStep
<1>4. QED
  BY <1>2, <1>3 DEF WriteBegin

LEMMA WriteTurnStep ==
  ASSUME WriteTurn
  PROVE  UNCHANGED AbstractFile!avars
<1>1. \E n, off : call' = Writing(call.fd, call.buf, n, off, call.before)
  BY DEF WriteTurn
<1>2. call.op = "write" /\ UNCHANGED << opened, offset, ret >>
  BY DEF WriteTurn
<1>3. Shown' = Shown
  BY <1>1, <1>2 DEF Shown, Writing
<1>4. QED
  BY <1>2, <1>3, InternalStep

\* A write that ends has put the first bytes of its buffer at the position.
LEMMA WriteEndIs ==
  ASSUME TransferInv, WriteEnd
  PROVE  /\ Content' = AbstractFile!Overwrite(call.before, offset[call.fd],
                                              SubSeq(call.buf, 1, Written))
         /\ offset' = [offset EXCEPT ![call.fd] = @ + Written]
         /\ Written \in 0 .. Len(call.buf) /\ call.buf \in Buffers /\ call.fd \in opened
         /\ call.fd \in Fds /\ ret'.buf = << >> /\ call' = Idle /\ opened' = opened
<1> DEFINE p == offset[call.fd]
           k == Written
           end == IF call.off > size THEN call.off ELSE size
           sub == SubSeq(call.buf, 1, k)
           over == [x \in 1 .. end |->
                      IF x \in p + 1 .. p + k THEN sub[x - p] ELSE call.before[x]]
<1>1. /\ FileInv /\ call.op = "write" /\ call' = Idle
      /\ call'.op # "write" /\ ret'.buf = << >> /\ UNCHANGED << blocks, data, opened >>
  BY DEF WriteEnd, Returns, Idle, Result, TransferInv
<1>2. /\ call.off = p + k /\ Len(call.before) = size
      /\ \A x \in Nat \ {0} : x <= size \/ x <= call.off => ByteAt(x) = WrittenByte(x)
  BY <1>1 DEF TransferInv, WriteKept
<1>3. /\ call.fd \in opened /\ call.fd \in Fds /\ call.off \in Nat
      /\ call.buf \in Buffers /\ call.buf \in Seq(Bytes) /\ Len(call.buf) \in Nat
      /\ call.n \in 0 .. Len(call.buf)
  BY <1>1, WriteLocals
<1>4. /\ offset \in [Fds -> 0 .. size] /\ p \in Nat /\ p <= size /\ size \in Nat
  BY <1>1, <1>3, OffsetType
<1>5. k \in 0 .. Len(call.buf)
  BY <1>3 DEF Written
<1>6. offset' = [offset EXCEPT ![call.fd] = p + k] /\ size' = end
  <2>1. CASE call.n = 0 /\ Written = 0
    <3>1. UNCHANGED << offset, size >>
      BY <2>1 DEF WriteEnd
    <3>2. p + k = p /\ end = size
      BY <1>2, <1>4, <2>1
    <3> HIDE DEF end
    <3>3. QED
      BY <1>3, <1>4, <3>1, <3>2
  <2>2. CASE ~ (call.n = 0 /\ Written = 0)
    BY <1>2, <2>2 DEF WriteEnd
  <2>3. QED
    BY <2>1, <2>2
<1>7. /\ Len(sub) = k
      /\ \A i \in 1 .. k : sub[i] = call.buf[i]
  <2>1. \A i \in 1 .. k : call.buf[i] \in Bytes
    BY <1>3, <1>5
  <2>2. /\ Len(sub) = IF 1 <= k THEN k - 1 + 1 ELSE 0
        /\ \A i \in 1 .. k - 1 + 1 : sub[i] = call.buf[1 + i - 1]
    BY <1>5, <2>1, SubSeqProperties
  <2> HIDE DEF sub, k
  <2>3. k - 1 + 1 = k /\ (k < 1 => k = 0)
    BY <1>3, <1>5
  <2>4. QED
    BY <1>3, <1>5, <2>2, <2>3
<1>8. Content' = over
  <2>1. end \in Nat /\ (\A x \in 1 .. end : x \in Nat \ {0} /\ (x <= size \/ x <= call.off))
    BY <1>3, <1>4
  <2>2. Content' = [x \in 1 .. end |-> ByteAt(x)]
    BY <1>1, <1>6 DEF Content, ByteAt, BlockOf
  <2>3. ASSUME NEW x \in 1 .. end
        PROVE  ByteAt(x) = IF x \in p + 1 .. p + k THEN sub[x - p] ELSE call.before[x]
    <3>1. ByteAt(x) = IF x > p /\ x <= call.off THEN call.buf[x - p] ELSE call.before[x]
      BY <1>2, <2>1 DEF WrittenByte
    <3>2. x \in Int /\ p \in Int /\ k \in Int
      BY <1>3, <1>4, <1>5, <2>1
    <3>3. x > p /\ x <= call.off <=> x \in p + 1 .. p + k
      <4> HIDE DEF p, k
      <4>1. QED
        BY <1>2, <3>2
    <3>4. x \in p + 1 .. p + k => sub[x - p] = call.buf[x - p]
      <4>1. x \in p + 1 .. p + k => x - p \in 1 .. k
        <5> HIDE DEF p, k
        <5>1. QED
          BY <3>2
      <4> HIDE DEF sub, k
      <4>2. QED
        BY <1>7, <4>1
    <3>5. QED
      BY <3>1, <3>3, <3>4
  <2> HIDE DEF end, sub, k, p
  <2>4. QED
    BY <2>2, <2>3
<1>9. Shown = call.before /\ Shown' = Content'
  BY <1>1 DEF Shown
<1>10. AbstractFile!Overwrite(Shown, p, sub) = over
  <2>1. (IF p + Len(sub) > Len(Shown) THEN p + Len(sub) ELSE Len(Shown)) = end
    BY <1>2, <1>7, <1>9
  <2>2. p + Len(sub) = p + k
    BY <1>7
  <2> HIDE DEF end, sub, k, p
  <2>3. QED
    BY <1>9, <2>1, <2>2 DEF AbstractFile!Overwrite
<1> HIDE DEF sub, over, k
<1>11. Content' = AbstractFile!Overwrite(call.before, p, SubSeq(call.buf, 1, k))
  BY <1>8, <1>9, <1>10 DEF sub
<1>12. QED
  BY <1>1, <1>3, <1>5, <1>6, <1>11 DEF k

LEMMA WriteEndStep ==
  ASSUME TransferInv, WriteEnd
  PROVE  AbstractFile!Next
<1>1. call.op = "write"
  BY DEF WriteEnd
<1>2. call'.op # "write"
  BY WriteEndIs DEF Idle
<1>3. AbstractFile!Write(call.fd, call.buf)
  BY <1>1, <1>2, WriteEndIs DEF AbstractFile!Write
<1>4. QED
  BY <1>3, WriteEndIs DEF AbstractFile!Next

\* Every call of the data interface, whatever its copies through the block
\* table are, is a read, a write or a seek in one sequence of bytes, or is
\* refused (fs_open, fs_close, fs_lseek, fs_read, fs_write).
THEOREM FileImplements == Spec => ImplementsFile
<1>1. Init => AbstractFile!Init
  BY InitStep
<1>2. TransferInv /\ [Next]_vars => [AbstractFile!Next]_(AbstractFile!avars)
  <2>1. SUFFICES ASSUME TransferInv, [Next]_vars
                 PROVE  AbstractFile!Next \/ UNCHANGED AbstractFile!avars
    OBVIOUS
  <2>2. FileInv
    BY <2>1 DEF TransferInv
  <2>3. CASE Open
    BY <2>2, <2>3, OpenStep
  <2>4. CASE \E fd \in Called : Close(fd)
    BY <2>1, <2>4, CloseStep
  <2>5. CASE \E fd \in Called, off \in 0 .. size + 1 : Lseek(fd, off)
    BY <2>2, <2>5, LseekStep
  <2>6. CASE \E fd \in Called, n \in ReadCounts : ReadBegin(fd, n)
    BY <2>6, ReadBeginStep
  <2>7. CASE ReadTurn
    BY <2>7, ReadTurnStep
  <2>8. CASE ReadEnd
    BY <2>1, <2>8, ReadEndStep
  <2>9. CASE \E fd \in Called, buf \in Buffers : WriteBegin(fd, buf)
    BY <2>9, WriteBeginStep
  <2>10. CASE WriteTurn
    BY <2>10, WriteTurnStep
  <2>11. CASE WriteEnd
    BY <2>1, <2>11, WriteEndStep
  <2>12. CASE UNCHANGED vars
    <3>1. Shown' = Shown
      BY <2>12, ContentSame DEF vars, Shown
    <3>2. QED
      BY <2>12, <3>1, InternalStep DEF vars
  <2>13. QED
    BY <2>1, <2>3, <2>4, <2>5, <2>6, <2>7, <2>8, <2>9, <2>10, <2>11, <2>12 DEF Next
<1>3. QED
  BY <1>1, <1>2, TransferInvariant, PTL DEF Spec, ImplementsFile, AbstractFile!Spec
=============================================================================
