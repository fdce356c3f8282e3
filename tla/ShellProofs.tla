---------------------------- MODULE ShellProofs -----------------------------
(***************************************************************************)
(* cat prints the file and loadf stores its source, whatever the sizes of  *)
(* the buffer, the blocks and the file are.  A command and the calls it    *)
(* waits for advance together: between two calls the command knows how far *)
(* its descriptor is (CatOK, LoadOK); during one, what the call has moved  *)
(* is in TransferInv of FileIOProofs.                                      *)
(***************************************************************************)
EXTENDS ShellSafety, FileIOProofs
-----------------------------------------------------------------------------
\* The first k bytes of the file.
Upto(k) == SubSeq(Content, 1, k)

CatOK ==
  /\ task = [cmd |-> "cat", at |-> task.at, paths |-> task.paths, fd |-> task.fd,
             whole |-> task.whole]
  /\ task.at \in {"open", "read", "print", "close"}
  /\ task.at # "print" => call = Idle
  /\ task.at # "open" => task.fd \in opened
  /\ task.at = "read" /\ task.whole => stdout = Upto(offset[task.fd])
  /\ task.at = "close" /\ task.whole => stdout = Content
  /\ task.at = "print" /\ call # Idle =>
       /\ call.op = "read" /\ call.fd = task.fd /\ call.n + Len(call.buf) = BufSize
       /\ task.whole => stdout = Upto(offset[task.fd])
  /\ task.at = "print" /\ Ready =>
       /\ ret.buf \in Seq(Bytes \union {0}) /\ ret.n = Len(ret.buf)
       /\ task.whole => stdout \o ret.buf = Upto(offset[task.fd])
       /\ task.whole /\ ret.n = 0 => stdout = Content

\* How much of the source loadf has read, and the file with k bytes of it.
Moved == Len(task.source) - Len(task.rest)
Loaded(k) == AbstractFile!Overwrite(task.before, 0, SubSeq(task.source, 1, k))

LoadTyped ==
  /\ task = [cmd |-> "loadf", at |-> task.at, path |-> task.path, fd |-> task.fd,
             source |-> task.source, rest |-> task.rest, cut |-> task.cut,
             before |-> task.before]
  /\ task.at \in {"open", "fread", "write", "close"}
  /\ task.source \in Seq(Bytes) /\ task.before \in Seq(Bytes \union {0})
  /\ Moved \in 0 .. Len(task.source)
  /\ task.rest = SubSeq(task.source, Moved + 1, Len(task.source))

LoadOK ==
  /\ LoadTyped
  /\ task.at # "write" => call = Idle
  /\ task.at # "open" => task.fd \in opened
  /\ task.at = "open" => Moved = 0 /\ Content = task.before
  /\ task.at \in {"fread", "close"} => offset[task.fd] = Moved /\ Content = Loaded(Moved)
  /\ task.at = "close" /\ ~ task.cut => Moved = Len(task.source)
  /\ task.at = "write" /\ call # Idle =>
       LET k == offset[task.fd]
       IN  /\ call.op = "write" /\ call.fd = task.fd
           /\ k + Len(call.buf) = Moved
           /\ call.buf = SubSeq(task.source, k + 1, Moved)
           /\ call.before = Loaded(k)
  /\ task.at = "write" /\ Ready /\ ret.code = "OK" =>
       offset[task.fd] = Moved /\ Content = Loaded(Moved)

TaskOK == (task = NoTask /\ call = Idle) \/ CatOK \/ LoadOK

ShellInv == TransferInv /\ TaskOK
-----------------------------------------------------------------------------
(* Sequences.                                                               *)

\* The elements i to j of a sequence.
LEMMA PartIs ==
  ASSUME NEW S, NEW s \in Seq(S), NEW i \in Nat, NEW j \in Nat,
         1 <= i, i <= j + 1, j <= Len(s)
  PROVE  /\ SubSeq(s, i, j) \in Seq(S)
         /\ Len(SubSeq(s, i, j)) = j + 1 - i
         /\ \A x \in 1 .. j + 1 - i : SubSeq(s, i, j)[x] = s[i + x - 1]
<1> DEFINE part == SubSeq(s, i, j)
<1>1. \A x \in i .. j : s[x] \in S
  OBVIOUS
<1>2. /\ part \in Seq(S)
      /\ Len(part) = IF i <= j THEN j - i + 1 ELSE 0
      /\ \A x \in 1 .. j - i + 1 : part[x] = s[i + x - 1]
  BY <1>1, SubSeqProperties
<1> HIDE DEF part
<1>3. j - i + 1 = j + 1 - i /\ (~ (i <= j) => j + 1 - i = 0)
  OBVIOUS
<1>4. QED
  BY <1>2, <1>3 DEF part

\* The part before k and the part after it.
LEMMA Halves ==
  ASSUME NEW S, NEW s \in Seq(S), NEW k \in Nat, NEW m \in Nat, k <= m, m <= Len(s)
  PROVE  SubSeq(s, 1, k) \o SubSeq(s, k + 1, m) = SubSeq(s, 1, m)
<1> DEFINE a == SubSeq(s, 1, k)
           b == SubSeq(s, k + 1, m)
           c == SubSeq(s, 1, m)
<1>1. Len(s) \in Nat /\ k <= Len(s)
  OBVIOUS
<1>2. a \in Seq(S) /\ Len(a) = k /\ \A x \in 1 .. k : a[x] = s[x]
  <2>1. a \in Seq(S) /\ Len(a) = k + 1 - 1 /\ \A x \in 1 .. k + 1 - 1 : a[x] = s[1 + x - 1]
    BY <1>1, PartIs
  <2> HIDE DEF a
  <2>2. QED
    BY <2>1
<1>3. b \in Seq(S) /\ Len(b) = m - k /\ \A x \in 1 .. m - k : b[x] = s[k + x]
  <2>1. /\ b \in Seq(S) /\ Len(b) = m + 1 - (k + 1)
        /\ \A x \in 1 .. m + 1 - (k + 1) : b[x] = s[k + 1 + x - 1]
    BY <1>1, PartIs
  <2> HIDE DEF b
  <2>2. QED
    BY <2>1
<1>4. c \in Seq(S) /\ Len(c) = m /\ \A x \in 1 .. m : c[x] = s[x]
  <2>1. c \in Seq(S) /\ Len(c) = m + 1 - 1 /\ \A x \in 1 .. m + 1 - 1 : c[x] = s[1 + x - 1]
    BY <1>1, PartIs
  <2> HIDE DEF c
  <2>2. QED
    BY <2>1
<1> HIDE DEF a, b, c
<1> DEFINE d == a \o b
<1>5. /\ d \in Seq(S) /\ Len(d) = m
      /\ \A x \in 1 .. m : d[x] = IF x <= k THEN a[x] ELSE b[x - k]
  <2>1. d \in Seq(S) /\ Len(d) = Len(a) + Len(b)
    BY <1>2, <1>3, ConcatType
  <2>2. \A x \in 1 .. Len(a) + Len(b) : d[x] = IF x <= Len(a) THEN a[x] ELSE b[x - Len(a)]
    BY <1>2, <1>3, ConcatElement
  <2> HIDE DEF d
  <2>3. Len(a) + Len(b) = m
    BY <1>2, <1>3
  <2>4. QED
    BY <1>2, <2>1, <2>2, <2>3
<1> HIDE DEF d
<1>6. ASSUME NEW x \in 1 .. m PROVE d[x] = c[x]
  <2>1. CASE x <= k
    BY <1>2, <1>4, <1>5, <2>1
  <2>2. CASE x > k
    <3>1. x - k \in 1 .. m - k /\ k + (x - k) = x
      BY <2>2
    <3>2. b[x - k] = s[x]
      BY <1>3, <3>1
    <3>3. d[x] = b[x - k]
      BY <1>5, <2>2
    <3>4. QED
      BY <1>4, <3>2, <3>3
  <2>3. QED
    BY <2>1, <2>2
<1>7. d = c
  BY <1>4, <1>5, <1>6, SeqEqual
<1>8. QED
  BY <1>7 DEF a, b, c, d

\* All of a sequence.
LEMMA WholeIs ==
  ASSUME NEW S, NEW s \in Seq(S)
  PROVE  SubSeq(s, 1, Len(s)) = s
<1> DEFINE l == Len(s)
           a == SubSeq(s, 1, l)
<1>1. l \in Nat
  OBVIOUS
<1>2. /\ a \in Seq(S) /\ Len(a) = l + 1 - 1
      /\ \A x \in 1 .. l + 1 - 1 : a[x] = s[1 + x - 1]
  BY <1>1, PartIs
<1> HIDE DEF a
<1>3. Len(a) = Len(s) /\ \A x \in 1 .. Len(a) : a[x] = s[x]
  BY <1>1, <1>2
<1>4. QED
  BY <1>2, <1>3, SeqEqual DEF a

\* A part of what is left of a sequence.
LEMMA PartOfRest ==
  ASSUME NEW S, NEW s \in Seq(S), NEW k \in Nat, NEW i \in Nat, NEW j \in Nat,
         1 <= i, i <= j + 1, k + j <= Len(s)
  PROVE  SubSeq(SubSeq(s, k + 1, Len(s)), i, j) = SubSeq(s, k + i, k + j)
<1> DEFINE rest == SubSeq(s, k + 1, Len(s))
           a == SubSeq(rest, i, j)
           b == SubSeq(s, k + i, k + j)
           l == Len(s)
<1>1. l \in Nat /\ k <= l
  OBVIOUS
<1>2. rest \in Seq(S) /\ Len(rest) = l - k /\ \A x \in 1 .. l - k : rest[x] = s[k + x]
  <2>1. /\ rest \in Seq(S) /\ Len(rest) = Len(s) + 1 - (k + 1)
        /\ \A x \in 1 .. Len(s) + 1 - (k + 1) : rest[x] = s[k + 1 + x - 1]
    BY <1>1, PartIs
  <2> HIDE DEF rest
  <2>2. QED
    BY <1>1, <2>1
<1> HIDE DEF rest
<1>3. /\ a \in Seq(S) /\ Len(a) = j + 1 - i
      /\ \A x \in 1 .. j + 1 - i : a[x] = rest[i + x - 1]
  BY <1>1, <1>2, PartIs
<1>4. /\ b \in Seq(S) /\ Len(b) = j + 1 - i
      /\ \A x \in 1 .. j + 1 - i : b[x] = s[k + i + x - 1]
  <2>1. /\ b \in Seq(S) /\ Len(b) = k + j + 1 - (k + i)
        /\ \A x \in 1 .. k + j + 1 - (k + i) : b[x] = s[k + i + x - 1]
    BY <1>1, PartIs
  <2> HIDE DEF b
  <2>2. k + j + 1 - (k + i) = j + 1 - i
    OBVIOUS
  <2>3. QED
    BY <2>1, <2>2
<1> HIDE DEF a, b, l
<1>5. ASSUME NEW x \in 1 .. j + 1 - i PROVE a[x] = b[x]
  <2>1. i + x - 1 \in 1 .. l - k /\ k + (i + x - 1) = k + i + x - 1
    BY <1>1 DEF l
  <2>2. rest[i + x - 1] = s[k + i + x - 1]
    BY <1>2, <2>1
  <2>3. QED
    BY <1>3, <1>4, <2>2
<1>6. a = b
  BY <1>3, <1>4, <1>5, SeqEqual
<1>7. QED
  BY <1>6 DEF a, b, rest

-----------------------------------------------------------------------------
(* A file with the first bytes of it overwritten.                           *)

\* over is s with a at p, and has end bytes.
Overwritten(S, over, s, p, a, end) ==
  /\ over \in Seq(S) /\ Len(over) = end
  /\ \A x \in 1 .. end : over[x] = IF x > p /\ x <= p + Len(a) THEN a[x - p] ELSE s[x]

LEMMA OverwriteIs ==
  ASSUME NEW S, NEW s \in Seq(S), NEW a \in Seq(S), NEW p \in Nat, p <= Len(s),
         NEW end \in Nat, end = IF p + Len(a) > Len(s) THEN p + Len(a) ELSE Len(s)
  PROVE  Overwritten(S, AbstractFile!Overwrite(s, p, a), s, p, a, end)
<1> DEFINE over == [x \in 1 .. end |-> IF x \in p + 1 .. p + Len(a) THEN a[x - p] ELSE s[x]]
           l == Len(a)
<1>1. AbstractFile!Overwrite(s, p, a) = over
  BY DEF AbstractFile!Overwrite
<1>2. l \in Nat /\ Len(s) \in Nat
  OBVIOUS
<1>3. ASSUME NEW x \in 1 .. end
      PROVE  /\ over[x] = IF x > p /\ x <= p + l THEN a[x - p] ELSE s[x]
             /\ over[x] \in S
  <2>1. over[x] = IF x \in p + 1 .. p + Len(a) THEN a[x - p] ELSE s[x]
    OBVIOUS
  <2> HIDE DEF over
  <2>2. x \in p + 1 .. p + Len(a) <=> x > p /\ x <= p + Len(a)
    OBVIOUS
  <2>3. CASE x > p /\ x <= p + l
    <3>1. x - p \in 1 .. Len(a)
      BY <1>2, <2>3
    <3>2. a[x - p] \in S
      BY <3>1
    <3>3. QED
      BY <2>1, <2>2, <2>3, <3>2
  <2>4. CASE ~ (x > p /\ x <= p + l)
    <3>1. x \in 1 .. Len(s)
      BY <1>2, <2>4
    <3>2. s[x] \in S
      BY <3>1
    <3>3. QED
      BY <2>1, <2>2, <2>4, <3>2
  <2>5. QED
    BY <2>3, <2>4
<1>4. over \in [1 .. end -> S]
  BY <1>3
<1> HIDE DEF over
<1>5. over \in Seq(S) /\ Len(over) = end
  BY <1>4, LenOf
<1>6. QED
  BY <1>1, <1>3, <1>5 DEF Overwritten

\* No byte is overwritten, and the bytes after those that were are.
LEMMA OverwriteNone ==
  ASSUME NEW S, NEW s \in Seq(S)
  PROVE  AbstractFile!Overwrite(s, 0, << >>) = s
<1> DEFINE over == AbstractFile!Overwrite(s, 0, << >>)
           l == Len(s)
<1>1. l \in Nat /\ << >> \in Seq(S) /\ Len(<< >>) = 0
  OBVIOUS
<1>2. l = IF 0 + Len(<< >>) > Len(s) THEN 0 + Len(<< >>) ELSE Len(s)
  BY <1>1
<1>3. /\ over \in Seq(S) /\ Len(over) = l
      /\ \A x \in 1 .. l : over[x] = IF x > 0 /\ x <= 0 + Len(<< >>) THEN << >>[x - 0] ELSE s[x]
  <2>1. 0 <= Len(s) /\ 0 \in Nat
    BY <1>1
  <2> HIDE DEF l
  <2>2. Overwritten(S, over, s, 0, << >>, l)
    BY <1>1, <1>2, <2>1, OverwriteIs
  <2> HIDE DEF over
  <2>3. QED
    BY <2>2 DEF Overwritten
<1> HIDE DEF over
<1>4. \A x \in 1 .. l : over[x] = s[x]
  BY <1>1, <1>3
<1>5. over = s
  BY <1>3, <1>4, SeqEqual
<1>6. QED
  BY <1>5 DEF over

LEMMA OverwriteOn ==
  ASSUME NEW S, NEW s \in Seq(S), NEW a \in Seq(S), NEW b \in Seq(S)
  PROVE  AbstractFile!Overwrite(AbstractFile!Overwrite(s, 0, a), Len(a), b)
         = AbstractFile!Overwrite(s, 0, a \o b)
<1> DEFINE la == Len(a)
           lb == Len(b)
           ls == Len(s)
           e == IF 0 + Len(a) > Len(s) THEN 0 + Len(a) ELSE Len(s)
           end == IF Len(a) + Len(b) > Len(s) THEN Len(a) + Len(b) ELSE Len(s)
           once == AbstractFile!Overwrite(s, 0, a)
           twice == AbstractFile!Overwrite(once, Len(a), b)
           c == a \o b
           whole == AbstractFile!Overwrite(s, 0, c)
<1>1. la \in Nat /\ lb \in Nat /\ ls \in Nat /\ e \in Nat /\ end \in Nat /\ 0 + la = la
  OBVIOUS
<1>2. /\ c \in Seq(S) /\ Len(c) = la + lb
      /\ \A x \in 1 .. la + lb : c[x] = IF x <= la THEN a[x] ELSE b[x - la]
  BY ConcatType, ConcatElement
<1>3. /\ once \in Seq(S) /\ Len(once) = e
      /\ \A x \in 1 .. e : once[x] = IF x > 0 /\ x <= 0 + la THEN a[x - 0] ELSE s[x]
  <2>1. e \in Nat /\ 0 <= Len(s)
    BY <1>1
  <2>2. e = IF 0 + Len(a) > Len(s) THEN 0 + Len(a) ELSE Len(s)
    OBVIOUS
  <2> HIDE DEF e
  <2>3. Overwritten(S, once, s, 0, a, e)
    BY <2>1, <2>2, OverwriteIs
  <2> HIDE DEF once
  <2>4. QED
    BY <2>3 DEF Overwritten
<1> HIDE DEF once
<1>4. /\ twice \in Seq(S) /\ Len(twice) = end
      /\ \A x \in 1 .. end : twice[x] = IF x > la /\ x <= la + lb THEN b[x - la] ELSE once[x]
  <2>1. once \in Seq(S) /\ Len(once) = e
    BY <1>3
  <2>2. end \in Nat /\ Len(a) \in Nat /\ Len(b) \in Nat /\ Len(s) \in Nat
    BY <1>1
  <2>3. Len(a) <= e /\ end = IF Len(a) + Len(b) > e THEN Len(a) + Len(b) ELSE e
    BY <2>2
  <2> HIDE DEF end, e
  <2>4. Len(a) <= Len(once)
        /\ end = IF Len(a) + Len(b) > Len(once) THEN Len(a) + Len(b) ELSE Len(once)
    BY <2>1, <2>3
  <2>5. Overwritten(S, twice, once, Len(a), b, end)
    BY <2>1, <2>2, <2>4, OverwriteIs
  <2> HIDE DEF twice
  <2>6. QED
    BY <2>5 DEF Overwritten
<1> HIDE DEF c
<1>5. /\ whole \in Seq(S) /\ Len(whole) = end
      /\ \A x \in 1 .. end : whole[x] = IF x > 0 /\ x <= 0 + Len(c) THEN c[x - 0] ELSE s[x]
  <2>1. end = IF 0 + Len(c) > Len(s) THEN 0 + Len(c) ELSE Len(s)
    BY <1>1, <1>2
  <2>2. end \in Nat /\ 0 <= Len(s)
    BY <1>1
  <2>3. c \in Seq(S)
    BY <1>2
  <2> HIDE DEF end
  <2>4. Overwritten(S, whole, s, 0, c, end)
    BY <2>1, <2>2, <2>3, OverwriteIs
  <2> HIDE DEF whole
  <2>5. QED
    BY <2>4 DEF Overwritten
<1> HIDE DEF twice, whole
<1>6. ASSUME NEW x \in 1 .. end PROVE twice[x] = whole[x]
  <2>1. CASE x <= la
    <3>1. twice[x] = once[x] /\ x \in 1 .. e /\ x - 0 = x
      BY <1>1, <1>4, <2>1
    <3>2. once[x] = a[x]
      BY <1>1, <1>3, <2>1, <3>1
    <3>3. whole[x] = c[x] /\ c[x] = a[x]
      BY <1>1, <1>2, <1>5, <2>1, <3>1
    <3>4. QED
      BY <3>1, <3>2, <3>3
  <2>2. CASE x > la /\ x <= la + lb
    <3>1. twice[x] = b[x - la]
      BY <1>4, <2>2
    <3>2. whole[x] = c[x - 0] /\ x - 0 = x /\ x \in 1 .. la + lb
      BY <1>1, <1>2, <1>5, <2>2
    <3>3. c[x] = b[x - la]
      BY <1>1, <1>2, <2>2, <3>2
    <3>4. QED
      BY <3>1, <3>2, <3>3
  <2>3. CASE x > la + lb
    <3>1. twice[x] = once[x] /\ x \in 1 .. e /\ ~ (x <= la)
      BY <1>1, <1>4, <2>3
    <3>2. once[x] = s[x]
      BY <1>1, <1>3, <3>1
    <3>3. whole[x] = s[x]
      BY <1>1, <1>2, <1>5, <2>3
    <3>4. QED
      BY <3>1, <3>2, <3>3
  <2>4. QED
    BY <1>1, <2>1, <2>2, <2>3
<1>7. twice = whole
  BY <1>4, <1>5, <1>6, SeqEqual
<1>8. QED
  BY <1>7 DEF once, twice, whole, c

LEMMA OverwriteFront ==
  ASSUME NEW S, NEW s \in Seq(S), NEW a \in Seq(S)
  PROVE  AbstractFile!Overwrite(s, 0, a) = a \o SubSeq(s, Len(a) + 1, Len(s))
<1> DEFINE la == Len(a)
           ls == Len(s)
           end == IF 0 + Len(a) > Len(s) THEN 0 + Len(a) ELSE Len(s)
           over == AbstractFile!Overwrite(s, 0, a)
           rest == SubSeq(s, Len(a) + 1, Len(s))
           c == a \o rest
<1>1. la \in Nat /\ ls \in Nat /\ end \in Nat /\ end = (IF la > ls THEN la ELSE ls)
  OBVIOUS
<1>2. /\ rest \in Seq(S) /\ Len(rest) = end - la
      /\ \A x \in 1 .. end - la : rest[x] = s[la + x]
  <2>1. CASE la <= ls
    <3>1. /\ rest \in Seq(S) /\ Len(rest) = ls + 1 - (la + 1)
          /\ \A x \in 1 .. ls + 1 - (la + 1) : rest[x] = s[la + 1 + x - 1]
      BY <1>1, <2>1, PartIs
    <3> HIDE DEF rest, end, la, ls
    <3>2. QED
      BY <1>1, <2>1, <3>1
  <2>2. CASE la > ls
    <3>1. rest = << >>
      BY <1>1, <2>2, SubSeqEmpty
    <3>2. << >> \in Seq(S) /\ Len(<< >>) = 0
      OBVIOUS
    <3> HIDE DEF rest, end, la, ls
    <3>3. QED
      BY <1>1, <2>2, <3>1, <3>2
  <2>3. QED
    BY <1>1, <2>1, <2>2
<1>3. /\ over \in Seq(S) /\ Len(over) = end
      /\ \A x \in 1 .. end : over[x] = IF x > 0 /\ x <= 0 + la THEN a[x - 0] ELSE s[x]
  <2>1. end = (IF 0 + Len(a) > Len(s) THEN 0 + Len(a) ELSE Len(s)) /\ end \in Nat /\ 0 <= Len(s)
    BY <1>1
  <2> HIDE DEF end
  <2>2. Overwritten(S, over, s, 0, a, end)
    BY <2>1, OverwriteIs
  <2> HIDE DEF over
  <2>3. QED
    BY <2>2 DEF Overwritten
<1> HIDE DEF rest, over
<1>4. /\ c \in Seq(S) /\ Len(c) = la + Len(rest)
      /\ \A x \in 1 .. la + Len(rest) : c[x] = IF x <= la THEN a[x] ELSE rest[x - la]
  BY <1>2, ConcatType, ConcatElement
<1> HIDE DEF c, end, la, ls
<1>5. Len(c) = end /\ la + Len(rest) = end
  BY <1>1, <1>2, <1>4
<1>6. ASSUME NEW x \in 1 .. end PROVE over[x] = c[x]
  <2>1. CASE x <= la
    <3>1. over[x] = a[x - 0] /\ x - 0 = x
      BY <1>1, <1>3, <2>1
    <3>2. QED
      BY <1>4, <1>5, <2>1, <3>1
  <2>2. CASE x > la
    <3>1. over[x] = s[x]
      BY <1>1, <1>3, <2>2
    <3>2. x - la \in 1 .. end - la /\ la + (x - la) = x
      BY <1>1, <2>2
    <3>3. rest[x - la] = s[x]
      BY <1>2, <3>2
    <3>4. c[x] = rest[x - la]
      BY <1>1, <1>4, <1>5, <2>2
    <3>5. QED
      BY <3>1, <3>3, <3>4
  <2>3. QED
    BY <1>1, <2>1, <2>2
<1>7. over = c
  BY <1>3, <1>4, <1>5, <1>6, SeqEqual
<1>8. QED
  BY <1>7 DEF over, c, rest, la, ls

-----------------------------------------------------------------------------
(* The calls, as a command sees them.                                       *)

LEMMA TransferKeeps ==
  ASSUME TransferInv,
         \/ Open \/ \E fd : Close(fd)
         \/ ReadTurn \/ ReadEnd \/ WriteTurn \/ WriteEnd
         \/ UNCHANGED fileVars
  PROVE  TransferInv'
<1>1. CASE \E fd : Close(fd)
  <2>1. FileInv'
    BY <1>1, CloseInv DEF TransferInv
  <2>2. ReadKept' /\ WriteKept' /\ ClosedAtStart'
    BY <1>1, DescriptorKept
  <2>3. QED
    BY <2>1, <2>2 DEF TransferInv
<1>2. CASE Open \/ ReadTurn \/ ReadEnd \/ WriteTurn \/ WriteEnd
  BY <1>2, TransferNext DEF Next
<1>3. CASE UNCHANGED fileVars
  BY <1>3, TransferNext DEF fileVars, vars
<1>4. QED
  BY <1>1, <1>2, <1>3

LEMMA BeginKeeps ==
  ASSUME TransferInv, NEW fd \in opened,
         \/ ReadBegin(fd, BufSize)
         \/ \E buf \in Buffers : WriteBegin(fd, buf)
  PROVE  TransferInv'
<1>1. fd \in Called
  BY DEF Called
<1>2. BufSize \in ReadCounts
  BY ShellAssumption DEF ShellAssumption
<1>3. Next
  BY <1>1, <1>2 DEF Next
<1>4. QED
  BY <1>3, TransferNext

\* There is a call in progress, or none.
LEMMA CallIs ==
  ASSUME TransferInv
  PROVE  (call.op = "read" \/ call.op = "write") <=> call # Idle
BY DEF TransferInv, FileInv, TypeOK, CallOK, Idle, Reading, Writing

LEMMA BufSizeIs == BufSize \in Nat /\ BufSize > 0
BY ShellAssumption, FileIOAssumption DEF ShellAssumption, FileIOAssumption

LEMMA OpenIs ==
  ASSUME TransferInv, Open, Fds \ opened # {}
  PROVE  /\ ret'.fd \in opened' /\ offset'[ret'.fd] = 0 /\ call' = Idle
         /\ UNCHANGED << blocks, data, size >>
<1> DEFINE free == Fds \ opened
           fd == Lowest(free)
<1>1. /\ opened' = opened \union {fd} /\ offset' = [offset EXCEPT ![fd] = 0]
      /\ Returns("open", fd, "OK", 0) /\ UNCHANGED << blocks, data, size >>
  BY DEF Open
<1>2. fd \in free
  <2>1. free \subseteq Nat
    BY FileIOAssumption DEF FileIOAssumption
  <2>2. PICK m \in free : \A n \in free : m <= n
    BY <2>1, NatMinimum
  <2>3. QED
    BY <2>2 DEF Lowest
<1>3. offset \in [Fds -> 0 .. size]
  BY OffsetType DEF TransferInv
<1> HIDE DEF fd
<1>4. call' = Idle /\ ret'.fd = fd
  BY <1>1 DEF Returns, Result
<1>5. QED
  BY <1>1, <1>2, <1>3, <1>4

\* What a read that ends has got.
LEMMA ReadEndGets ==
  ASSUME TransferInv, ReadEnd, call.n + Len(call.buf) = BufSize
  PROVE  LET p == offset[call.fd]
             k == Len(ret'.buf)
         IN  /\ p \in Nat /\ k \in Nat /\ p + k <= Len(Content)
             /\ ret'.buf = SubSeq(Content, p + 1, p + k)
             /\ offset'[call.fd] = p + k
             /\ ret'.n = k
             /\ k = 0 => p = Len(Content)
             /\ opened' = opened /\ Content' = Content
<1> DEFINE p == offset[call.fd]
           k == IF p + BufSize > Len(Content) THEN Len(Content) - p ELSE BufSize
           l == Len(Content)
<1>1. AbstractFile!Read(call.fd, BufSize) /\ call.fd \in Fds
  BY ReadEndIs
<1>2. UNCHANGED << blocks, data, size, opened >> /\ call.op = "read" /\ call' = Idle
      /\ ret' = [Result("read", call.fd, "OK", Len(call.buf)) EXCEPT !.buf = call.buf]
  BY DEF ReadEnd
<1>3. ret'.n = Len(ret'.buf)
  BY <1>2 DEF Result
<1>4. /\ l \in Nat /\ l = size /\ Content \in Seq(Bytes \union {0})
      /\ offset \in [Fds -> 0 .. size] /\ p \in Nat /\ p <= l
  BY <1>1, ContentIs, OffsetType DEF TransferInv
<1>5. ret'.buf = SubSeq(Content, p + 1, p + k) /\ offset' = [offset EXCEPT ![call.fd] = p + k]
  BY <1>1, <1>2 DEF AbstractFile!Read, Idle
<1>6. k \in Nat /\ p + k <= l /\ (k = 0 => p = l)
  <2>1. BufSize \in Nat /\ BufSize > 0
    BY BufSizeIs
  <2> HIDE DEF p, l
  <2>2. QED
    BY <1>4, <2>1 DEF l
<1> HIDE DEF k
<1>7. Len(SubSeq(Content, p + 1, p + k)) = k
  <2> HIDE DEF p, l
  <2>0. /\ p + 1 \in Nat /\ p + k \in Nat /\ 1 <= p + 1 /\ p + 1 <= (p + k) + 1
        /\ p + k <= Len(Content) /\ Content \in Seq(Bytes \union {0})
    BY <1>4, <1>6 DEF l
  <2>1. Len(SubSeq(Content, p + 1, p + k)) = p + k + 1 - (p + 1)
    BY <2>0, PartIs
  <2>2. p + k + 1 - (p + 1) = k
    <3> HIDE DEF p
    <3>1. QED
      BY <1>4, <1>6
  <2>3. QED
    BY <2>1, <2>2
<1>8. offset'[call.fd] = p + k
  BY <1>1, <1>4, <1>5
<1>9. Content' = Content
  BY <1>2, ContentSame
<1>10. QED
  BY <1>2, <1>3, <1>4, <1>5, <1>6, <1>7, <1>8, <1>9

\* The first bytes of the file, with those that follow them.
LEMMA UptoGrows ==
  ASSUME TransferInv, NEW p \in Nat, NEW k \in Nat, p + k <= Len(Content)
  PROVE  Upto(p) \o SubSeq(Content, p + 1, p + k) = Upto(p + k)
<1>1. Content \in Seq(Bytes \union {0})
  BY ContentIs DEF TransferInv
<1>2. QED
  BY <1>1, Halves DEF Upto

LEMMA UptoEnd ==
  ASSUME TransferInv
  PROVE  Upto(Len(Content)) = Content /\ Upto(0) = << >>
<1>1. Content \in Seq(Bytes \union {0}) /\ Len(Content) \in Nat
  BY ContentIs DEF TransferInv
<1>3. SubSeq(Content, 1, Len(Content)) = Content
  BY <1>1, WholeIs
<1>4. SubSeq(Content, 1, 0) = << >>
  BY SubSeqEmpty
<1>5. QED
  BY <1>3, <1>4 DEF Upto

-----------------------------------------------------------------------------
(* cat.                                                                     *)

LEMMA CatIs ==
  ASSUME CatOK
  PROVE  task.cmd = "cat" /\ task # NoTask
BY DEF CatOK, NoTask

\* The next argument, or no other.
LEMMA NextKeeps ==
  ASSUME NextFile, call' = Idle
  PROVE  TaskOK'
<1>1. CASE task' = NoTask
  BY <1>1 DEF TaskOK
<1>2. CASE task' = CatTask(Tail(task.paths))
  <2> DEFINE paths == Tail(task.paths)
  <2>1. task' = [cmd |-> "cat", at |-> "open", paths |-> paths, fd |-> 0, whole |-> TRUE]
    BY <1>2 DEF CatTask
  <2> HIDE DEF paths
  <2>2. task'.at = "open" /\ task'.paths = paths /\ task'.fd = 0 /\ task'.whole
    BY <2>1
  <2>3. CatOK'
    BY <2>1, <2>2 DEF CatOK
  <2>4. QED
    BY <2>3 DEF TaskOK
<1>3. QED
  BY <1>1, <1>2 DEF NextFile

\* The task with another place of the program, maybe a descriptor, or a write
\* that was short.
CatFields(at, fd, whole) ==
  [cmd |-> "cat", at |-> at, paths |-> task.paths, fd |-> fd, whole |-> whole]

LEMMA CatAt ==
  ASSUME CatOK, NEW at, NEW fd, NEW whole,
         \/ task' = [task EXCEPT !.at = at, !.fd = fd] /\ whole = task.whole
         \/ task' = [task EXCEPT !.at = at] /\ fd = task.fd /\ whole = task.whole
         \/ task' = [task EXCEPT !.at = at, !.whole = whole] /\ fd = task.fd
  PROVE  /\ task'.at = at /\ task'.fd = fd /\ task'.whole = whole
         /\ task' = [cmd |-> "cat", at |-> task'.at, paths |-> task'.paths, fd |-> task'.fd,
                     whole |-> task'.whole]
<1> DEFINE a == task.at
           q == task.paths
           f == task.fd
           w == task.whole
           Made(x, y, z) == [cmd |-> "cat", at |-> x, paths |-> q, fd |-> y, whole |-> z]
<1>1. task = Made(a, f, w)
  BY DEF CatOK
<1>2. CatFields(at, fd, whole) = Made(at, fd, whole)
  BY DEF CatFields
<1>3. \/ task' = [task EXCEPT !.at = at, !.fd = fd] /\ whole = w
      \/ task' = [task EXCEPT !.at = at] /\ fd = f /\ whole = w
      \/ task' = [task EXCEPT !.at = at, !.whole = whole] /\ fd = f
  OBVIOUS
<1> HIDE DEF a, q, f, w
<1>4. \A x, y, z, u : [Made(x, y, z) EXCEPT !.at = u] = Made(u, y, z)
  OBVIOUS
<1>5. \A x, y, z, u : [Made(x, y, z) EXCEPT !.fd = u] = Made(x, u, z)
  OBVIOUS
<1>6. \A x, y, z, u : [Made(x, y, z) EXCEPT !.whole = u] = Made(x, y, u)
  OBVIOUS
<1> HIDE DEF Made
<1>7. /\ [task EXCEPT !.at = at, !.fd = fd] = [[task EXCEPT !.at = at] EXCEPT !.fd = fd]
      /\ [task EXCEPT !.at = at, !.whole = whole]
         = [[task EXCEPT !.at = at] EXCEPT !.whole = whole]
  OBVIOUS
<1>8. [task EXCEPT !.at = at] = Made(at, f, w)
  BY <1>1, <1>4
<1>9. /\ [task EXCEPT !.at = at, !.fd = fd] = Made(at, fd, w)
      /\ [task EXCEPT !.at = at, !.whole = whole] = Made(at, f, whole)
  <2>1. /\ [Made(at, f, w) EXCEPT !.fd = fd] = Made(at, fd, w)
        /\ [Made(at, f, w) EXCEPT !.whole = whole] = Made(at, f, whole)
    BY <1>5, <1>6
  <2> DEFINE new == Made(at, f, w)
             t == [task EXCEPT !.at = at]
  <2>2. t = new
    BY <1>8
  <2>3. /\ [new EXCEPT !.fd = fd] = Made(at, fd, w)
        /\ [new EXCEPT !.whole = whole] = Made(at, f, whole)
    BY <2>1
  <2>4. /\ [task EXCEPT !.at = at, !.fd = fd] = [t EXCEPT !.fd = fd]
        /\ [task EXCEPT !.at = at, !.whole = whole] = [t EXCEPT !.whole = whole]
    BY <1>7
  <2> HIDE DEF new, t
  <2>5. QED
    BY <2>2, <2>3, <2>4
<1>10. task' = CatFields(at, fd, whole)
  BY <1>2, <1>3, <1>8, <1>9
<1>11. QED
  BY <1>10 DEF CatFields

LEMMA CatOpenKeeps ==
  ASSUME TransferInv, CatOK, CatOpen
  PROVE  TransferInv' /\ TaskOK'
<1>1. task.at = "open" /\ call = Idle
  BY DEF CatOpen, At, CatOK
<1>2. CASE OpensFile(task.paths[1])
  <2>1. Open /\ task' = [task EXCEPT !.at = "read", !.fd = ret'.fd] /\ stdout' = << >>
    BY <1>2 DEF CatOpen
  <2>2. TransferInv'
    BY <2>1, TransferKeeps
  <2>3. /\ ret'.fd \in opened' /\ offset'[ret'.fd] = 0 /\ call' = Idle
    BY <1>2, <2>1, OpenIs DEF OpensFile
  <2>4. /\ task'.at = "read" /\ task'.fd = ret'.fd
        /\ task' = [cmd |-> "cat", at |-> task'.at, paths |-> task'.paths, fd |-> task'.fd,
                    whole |-> task'.whole]
    BY <2>1, CatAt
  <2>5. (Upto(0) = << >>)'
    BY SubSeqEmpty DEF Upto
  <2>6. (stdout = Upto(offset[task.fd]))'
    BY <2>1, <2>3, <2>4, <2>5
  <2>7. CatOK'
    BY <2>3, <2>4, <2>6 DEF CatOK
  <2>8. QED
    BY <2>2, <2>7 DEF TaskOK
<1>3. CASE ~ OpensFile(task.paths[1])
  <2>1. NextFile /\ UNCHANGED fileVars
    BY <1>3 DEF CatOpen
  <2>2. call' = Idle
    BY <1>1, <2>1 DEF fileVars
  <2>3. QED
    BY <2>1, <2>2, NextKeeps, TransferKeeps
<1>4. QED
  BY <1>2, <1>3

LEMMA CatReadKeeps ==
  ASSUME TransferInv, CatOK, CatRead
  PROVE  TransferInv' /\ TaskOK'
<1>1. /\ task.at = "read" /\ task.fd \in opened
      /\ task.whole => stdout = Upto(offset[task.fd])
      /\ ReadBegin(task.fd, BufSize) /\ stdout' = stdout
      /\ task' = [task EXCEPT !.at = "print"]
  BY DEF CatRead, At, CatOK
<1>2. TransferInv'
  BY <1>1, BeginKeeps
<1>3. /\ call' = Reading(task.fd, BufSize, offset[task.fd], << >>)
      /\ UNCHANGED << blocks, data, size, opened, offset, ret, alive >>
  BY <1>1 DEF ReadBegin
<1>4. /\ call'.op = "read" /\ call'.fd = task.fd /\ call'.n = BufSize
      /\ call'.buf = << >> /\ call' # Idle
  BY <1>3 DEF Reading, Idle
<1>5. Len(<< >>) = 0 /\ BufSize + 0 = BufSize
  BY BufSizeIs
<1>6. call'.n + Len(call'.buf) = BufSize
  BY <1>4, <1>5
<1>7. /\ task'.at = "print" /\ task'.fd = task.fd /\ task'.whole = task.whole
      /\ task' = [cmd |-> "cat", at |-> task'.at, paths |-> task'.paths, fd |-> task'.fd,
                  whole |-> task'.whole]
  BY <1>1, CatAt
<1>8. (task.whole => stdout = Upto(offset[task.fd]))'
  <2>1. Content' = Content
    BY <1>3, ContentSame
  <2>2. Upto(offset[task.fd])' = Upto(offset[task.fd])
    BY <1>3, <1>7, <2>1 DEF Upto
  <2>3. QED
    BY <1>1, <1>7, <2>2
<1>9. ~ Ready'
  BY <1>4 DEF Ready
<1>10. CatOK'
  BY <1>1, <1>3, <1>4, <1>6, <1>7, <1>8, <1>9 DEF CatOK
<1>11. QED
  BY <1>2, <1>10 DEF TaskOK

\* While cat waits for its read.
LEMMA CatTransferKeeps ==
  ASSUME TransferInv, CatOK, Transfer
  PROVE  TransferInv' /\ TaskOK'
<1>1. TransferInv' /\ task' = task /\ stdout' = stdout
  BY TransferKeeps DEF Transfer
<1>2. /\ task.at = "print" /\ call # Idle
      /\ call.op = "read" /\ call.fd = task.fd /\ call.n + Len(call.buf) = BufSize
      /\ task.whole => stdout = Upto(offset[task.fd])
      /\ task.fd \in opened
  <2>1. call # Idle
    BY DEF Transfer, ReadTurn, ReadEnd, WriteTurn, WriteEnd, Idle
  <2>2. QED
    BY <2>1 DEF CatOK
<1>3. CASE ReadTurn
  <2>1. CASE Dies("read", call.fd)
    <3>1. call' = Idle /\ ~ Ready' /\ opened' = opened
      BY <2>1 DEF Dies, Ready
    <3>2. CatOK'
      BY <1>1, <1>2, <3>1 DEF CatOK
    <3>3. QED
      BY <1>1, <3>2 DEF TaskOK
  <2>2. CASE /\ ReadSize >= 0
             /\ call' = Reading(call.fd, call.n - ReadSize, call.off + ReadSize,
                                call.buf \o Copied(call.off, ReadSize))
             /\ UNCHANGED << blocks, data, size, opened, offset, ret, alive >>
    <3> DEFINE k == ReadSize
               part == Copied(call.off, k)
               buf == call.buf \o part
               n == call.n
               l == Len(call.buf)
    <3>1. FileInv /\ ReadGoesOn
      BY <1>3 DEF ReadTurn, TransferInv
    <3>2. k \in Nat /\ k <= RestOfBlock(call.off)
      BY <1>2, <2>2, <3>1, ReadSizeBounds
    <3>3. n \in Nat /\ l \in Nat /\ call.buf \in Seq(Bytes \union {0}) /\ call.off \in Nat
      BY <1>2, <3>1, ReadLocals
    <3>4. part \in Seq(Bytes \union {0}) /\ Len(part) = k
      <4>1. InRange(call.off) /\ blocks[BlockOf(call.off)] # 0
        BY <3>1 DEF ReadGoesOn
      <4>2. QED
        BY <3>1, <3>2, <3>3, <4>1, CopiedType DEF FileInv
    <3>5. Len(buf) = l + k
      BY <3>3, <3>4, ConcatType
    <3> HIDE DEF buf, k
    <3>6. call'.op = "read" /\ call'.fd = call.fd /\ call'.n = n - k /\ call'.buf = buf
      BY <2>2 DEF Reading, buf, k
    <3>7. call' # Idle
      BY <3>6 DEF Idle
    <3>8. call'.n + Len(call'.buf) = BufSize
      <4>1. n + l = BufSize
        BY <1>2
      <4> HIDE DEF n, l
      <4>2. (n - k) + (l + k) = n + l
        BY <3>2, <3>3
      <4>3. QED
        BY <3>5, <3>6, <4>1, <4>2
    <3>9. Upto(offset[task.fd])' = Upto(offset[task.fd])
      <4>1. Content' = Content
        BY <2>2, ContentSame
      <4>2. QED
        BY <1>1, <2>2, <4>1 DEF Upto
    <3>10. ~ Ready'
      BY <3>7 DEF Ready
    <3>11. CatOK'
      BY <1>1, <1>2, <2>2, <3>6, <3>7, <3>8, <3>9, <3>10 DEF CatOK
    <3>12. QED
      BY <1>1, <3>11 DEF TaskOK
  <2>3. QED
    BY <1>3, <2>1, <2>2 DEF ReadTurn
<1>4. CASE ReadEnd
  <2> DEFINE p == offset[call.fd]
             k == Len(ret'.buf)
  <2>1. /\ p \in Nat /\ k \in Nat /\ p + k <= Len(Content)
        /\ ret'.buf = SubSeq(Content, p + 1, p + k)
        /\ offset'[call.fd] = p + k
        /\ ret'.n = k
        /\ k = 0 => p = Len(Content)
        /\ opened' = opened /\ Content' = Content
    BY <1>2, <1>4, ReadEndGets
  <2> HIDE DEF k
  <2>2. task.whole => stdout \o ret'.buf = Upto(p + k)
    <3>1. task.whole => stdout = Upto(p)
      BY <1>2
    <3> HIDE DEF p
    <3>2. Upto(p) \o SubSeq(Content, p + 1, p + k) = Upto(p + k)
      BY <2>1, UptoGrows
    <3>3. QED
      BY <2>1, <3>1, <3>2
  <2>3. (task.whole => stdout \o ret.buf = Upto(offset[task.fd]))'
    <3>1. Upto(offset[task.fd])' = Upto(p + k)
      BY <1>1, <1>2, <2>1 DEF Upto
    <3>2. QED
      BY <1>1, <2>2, <3>1
  <2>4. task'.whole /\ ret'.n = 0 => stdout' = Content'
    BY <1>1, <1>2, <2>1, UptoEnd
  <2>8. ret'.buf \in Seq(Bytes \union {0}) /\ ret'.n = Len(ret'.buf)
    <3>1. Content \in Seq(Bytes \union {0}) /\ p + 1 \in Nat /\ p + k \in Nat
          /\ 1 <= p + 1 /\ p + 1 <= (p + k) + 1
      <4> HIDE DEF p
      <4>1. QED
        BY <2>1, ContentIs DEF TransferInv
    <3>2. ret'.buf \in Seq(Bytes \union {0})
      <4> HIDE DEF p
      <4>1. SubSeq(Content, p + 1, p + k) \in Seq(Bytes \union {0})
        BY <2>1, <3>1, PartIs
      <4>2. QED
        BY <2>1, <4>1
    <3>3. QED
      BY <2>1, <3>2 DEF k
  <2>5. call' = Idle
    BY <1>4 DEF ReadEnd
  <2>6. CatOK'
    BY <1>1, <1>2, <2>1, <2>3, <2>4, <2>5, <2>8 DEF CatOK
  <2>7. QED
    BY <1>1, <2>6 DEF TaskOK
<1>5. CASE WriteTurn \/ WriteEnd
  BY <1>2, <1>5 DEF WriteTurn, WriteEnd
<1>6. QED
  BY <1>3, <1>4, <1>5 DEF Transfer

LEMMA CatPrintKeeps ==
  ASSUME TransferInv, CatOK, CatPrint
  PROVE  TransferInv' /\ TaskOK'
<1>1. /\ task.at = "print" /\ Ready /\ call = Idle /\ UNCHANGED fileVars
      /\ ret.buf \in Seq(Bytes \union {0}) /\ ret.n = Len(ret.buf)
      /\ task.whole => stdout \o ret.buf = Upto(offset[task.fd])
      /\ task.whole /\ ret.n = 0 => stdout = Content
      /\ task.fd \in opened
  BY DEF CatPrint, At, CatOK, Ready
<1>2. TransferInv' /\ call' = Idle
  BY <1>1, TransferKeeps DEF fileVars
<1>3. /\ opened' = opened /\ Content' = Content
      /\ Upto(offset[task.fd]) = SubSeq(Content, 1, offset[task.fd])
      /\ offset' = offset
  BY <1>1, ContentSame DEF fileVars, Upto
<1>4. CASE ret.n = 0 /\ task' = [task EXCEPT !.at = "close"] /\ UNCHANGED stdout
  <2>1. /\ task'.at = "close" /\ task'.fd = task.fd /\ task'.whole = task.whole
        /\ task' = [cmd |-> "cat", at |-> task'.at, paths |-> task'.paths, fd |-> task'.fd,
                    whole |-> task'.whole]
    BY <1>4, CatAt
  <2>2. CatOK'
    BY <1>1, <1>2, <1>3, <1>4, <2>1 DEF CatOK
  <2>3. QED
    BY <1>2, <2>2 DEF TaskOK
<1>5. ASSUME NEW k \in 1 .. ret.n, stdout' = stdout \o SubSeq(ret.buf, 1, k),
             task' = [task EXCEPT !.at = "read", !.whole = @ /\ k = ret.n]
      PROVE  TaskOK'
  <2> DEFINE w == task.whole /\ k = ret.n
  <2>0. task' = [task EXCEPT !.at = "read", !.whole = w]
    BY <1>5
  <2> HIDE DEF w
  <2>1. /\ task'.at = "read" /\ task'.fd = task.fd /\ task'.whole = w
        /\ task' = [cmd |-> "cat", at |-> task'.at, paths |-> task'.paths, fd |-> task'.fd,
                    whole |-> task'.whole]
    BY <2>0, CatAt
  <2>2. (task.whole => stdout = Upto(offset[task.fd]))'
    <3>1. SUFFICES ASSUME w PROVE stdout' = Upto(offset[task.fd])'
      BY <2>1
    <3>2. task.whole /\ k = ret.n
      BY <3>1 DEF w
    <3>3. SubSeq(ret.buf, 1, k) = ret.buf
      BY <1>1, <3>2, WholeIs
    <3>4. Upto(offset[task.fd])' = Upto(offset[task.fd])
      BY <1>3, <2>1 DEF Upto
    <3>5. QED
      BY <1>1, <1>5, <3>2, <3>3, <3>4
  <2>3. CatOK'
    BY <1>1, <1>2, <1>3, <2>1, <2>2 DEF CatOK
  <2>4. QED
    BY <2>3 DEF TaskOK
<1>6. CASE NextFile
  BY <1>2, <1>6, NextKeeps
<1>7. QED
  BY <1>2, <1>4, <1>5, <1>6 DEF CatPrint

LEMMA CatCloseKeeps ==
  ASSUME TransferInv, CatClose
  PROVE  TransferInv' /\ TaskOK'
<1>1. Close(task.fd) /\ NextFile
  BY DEF CatClose
<1>2. call' = Idle
  BY <1>1 DEF Close, Returns
<1>3. TransferInv'
  BY <1>1, TransferKeeps
<1>4. QED
  BY <1>1, <1>2, <1>3, NextKeeps

-----------------------------------------------------------------------------
(* loadf.                                                                   *)

LEMMA LoadIs ==
  ASSUME LoadOK
  PROVE  task.cmd = "loadf" /\ task # NoTask
BY DEF LoadOK, LoadTyped, NoTask

\* The task with another place of the program, a descriptor, a fread that failed,
\* or less to load.
LoadFields(at, fd, rest, cut) ==
  [cmd |-> "loadf", at |-> at, path |-> task.path, fd |-> fd,
   source |-> task.source, rest |-> rest, cut |-> cut, before |-> task.before]

LEMMA LoadAt ==
  ASSUME LoadTyped, NEW at, NEW fd, NEW rest, NEW cut,
         \/ task' = [task EXCEPT !.at = at] /\ fd = task.fd /\ rest = task.rest /\ cut = task.cut
         \/ task' = [task EXCEPT !.at = at, !.fd = fd] /\ rest = task.rest /\ cut = task.cut
         \/ task' = [task EXCEPT !.at = at, !.cut = cut] /\ fd = task.fd /\ rest = task.rest
         \/ task' = [task EXCEPT !.at = at, !.cut = cut, !.rest = rest] /\ fd = task.fd
  PROVE  task' = LoadFields(at, fd, rest, cut)
<1> DEFINE a == task.at
           q == task.path
           f == task.fd
           s == task.source
           r == task.rest
           c == task.cut
           b == task.before
           Made(x, y, z, w) == [cmd |-> "loadf", at |-> x, path |-> q, fd |-> y,
                                source |-> s, rest |-> z, cut |-> w, before |-> b]
<1>1. task = Made(a, f, r, c)
  BY DEF LoadTyped
<1>2. LoadFields(at, fd, rest, cut) = Made(at, fd, rest, cut)
  BY DEF LoadFields
<1>3. \/ task' = [task EXCEPT !.at = at] /\ fd = f /\ rest = r /\ cut = c
      \/ task' = [task EXCEPT !.at = at, !.fd = fd] /\ rest = r /\ cut = c
      \/ task' = [task EXCEPT !.at = at, !.cut = cut] /\ fd = f /\ rest = r
      \/ task' = [task EXCEPT !.at = at, !.cut = cut, !.rest = rest] /\ fd = f
  OBVIOUS
<1> HIDE DEF a, q, f, s, r, c, b
<1>4. \A x, y, z, w, u : [Made(x, y, z, w) EXCEPT !.at = u] = Made(u, y, z, w)
  OBVIOUS
<1>5. \A x, y, z, w, u : [Made(x, y, z, w) EXCEPT !.fd = u] = Made(x, u, z, w)
  OBVIOUS
<1>6. \A x, y, z, w, u : [Made(x, y, z, w) EXCEPT !.rest = u] = Made(x, y, u, w)
  OBVIOUS
<1>7. \A x, y, z, w, u : [Made(x, y, z, w) EXCEPT !.cut = u] = Made(x, y, z, u)
  OBVIOUS
<1> HIDE DEF Made
<1> DEFINE t == [task EXCEPT !.at = at]
           t2 == [t EXCEPT !.cut = cut]
<1>8. t = Made(at, f, r, c)
  BY <1>1, <1>4
<1>9. /\ [task EXCEPT !.at = at, !.fd = fd] = [t EXCEPT !.fd = fd]
      /\ [task EXCEPT !.at = at, !.cut = cut] = t2
      /\ [task EXCEPT !.at = at, !.cut = cut, !.rest = rest] = [t2 EXCEPT !.rest = rest]
  OBVIOUS
<1> DEFINE new == Made(at, f, r, c)
<1>10. [new EXCEPT !.fd = fd] = Made(at, fd, r, c) /\ [new EXCEPT !.cut = cut] = Made(at, f, r, cut)
  BY <1>5, <1>7
<1>11. t = new
  BY <1>8
<1> HIDE DEF t, new
<1>12. [t EXCEPT !.fd = fd] = Made(at, fd, r, c) /\ t2 = Made(at, f, r, cut)
  BY <1>10, <1>11
<1> DEFINE cutOne == Made(at, f, r, cut)
<1>13. [cutOne EXCEPT !.rest = rest] = Made(at, f, rest, cut)
  BY <1>6
<1>14. t2 = cutOne
  BY <1>12
<1> HIDE DEF t2, cutOne
<1>15. [t2 EXCEPT !.rest = rest] = Made(at, f, rest, cut)
  BY <1>13, <1>14
<1>16. /\ [task EXCEPT !.at = at] = Made(at, f, r, c)
       /\ [task EXCEPT !.at = at, !.fd = fd] = Made(at, fd, r, c)
       /\ [task EXCEPT !.at = at, !.cut = cut] = Made(at, f, r, cut)
       /\ [task EXCEPT !.at = at, !.cut = cut, !.rest = rest] = Made(at, f, rest, cut)
  <2>1. [task EXCEPT !.at = at] = Made(at, f, r, c)
    BY <1>8 DEF t
  <2>2. [task EXCEPT !.at = at, !.fd = fd] = Made(at, fd, r, c)
    BY <1>9, <1>12
  <2>3. [task EXCEPT !.at = at, !.cut = cut] = Made(at, f, r, cut)
    BY <1>9, <1>12
  <2>4. [task EXCEPT !.at = at, !.cut = cut, !.rest = rest] = Made(at, f, rest, cut)
    BY <1>9, <1>15
  <2>5. QED
    BY <2>1, <2>2, <2>3, <2>4
<1>17. QED
  BY <1>2, <1>3, <1>16

\* What is left to load changes with what has been moved.
LEMMA LoadTypedNext ==
  ASSUME LoadTyped, NEW at \in {"open", "fread", "write", "close"}, NEW fd, NEW cut,
         NEW k \in Nat, Moved + k <= Len(task.source),
         task' = LoadFields(at, fd, SubSeq(task.source, Moved + k + 1, Len(task.source)), cut)
  PROVE  /\ LoadTyped' /\ Moved' = Moved + k
         /\ task'.at = at /\ task'.fd = fd /\ task'.cut = cut
         /\ task'.source = task.source /\ task'.before = task.before
<1> DEFINE s == task.source
           m == Moved
           l == Len(s)
           rest == SubSeq(s, m + k + 1, l)
<1>1. s \in Seq(Bytes) /\ l \in Nat /\ m \in 0 .. l
  BY DEF LoadTyped
<1> HIDE DEF m, rest
<1>2. /\ task' = [cmd |-> "loadf", at |-> at, path |-> task.path, fd |-> fd,
                  source |-> s, rest |-> rest, cut |-> cut, before |-> task.before]
  BY DEF LoadFields, rest, m
<1>3. /\ task'.at = at /\ task'.fd = fd /\ task'.path = task.path /\ task'.source = s
      /\ task'.rest = rest /\ task'.before = task.before /\ task'.cut = cut
  BY <1>2
<1>4. Len(rest) = l - (m + k)
  <2>1. m + k + 1 \in Nat /\ 1 <= m + k + 1 /\ m + k + 1 <= l + 1 /\ l <= Len(s)
    BY <1>1 DEF m
  <2>2. Len(rest) = l + 1 - (m + k + 1)
    BY <1>1, <2>1, PartIs DEF rest
  <2> HIDE DEF l
  <2>3. QED
    BY <1>1, <2>2
<1>5. Moved' = m + k
  <2>1. Moved' = l - Len(rest)
    BY <1>3 DEF Moved
  <2> HIDE DEF l
  <2>2. QED
    BY <1>1, <1>4, <2>1
<1>6. m + k \in 0 .. l
  <2> HIDE DEF l
  <2>1. QED
    BY <1>1 DEF m, l
<1>7. task'.rest = SubSeq(task'.source, Moved' + 1, Len(task'.source))
  BY <1>3, <1>5 DEF rest
<1>8. LoadTyped'
  BY <1>1, <1>2, <1>3, <1>5, <1>6, <1>7 DEF LoadTyped
<1>9. QED
  BY <1>3, <1>5, <1>8 DEF m

\* The next place, with nothing read.
LEMMA LoadTurns ==
  ASSUME LoadTyped, NEW at \in {"open", "fread", "write", "close"}, NEW fd, NEW cut,
         \/ task' = [task EXCEPT !.at = at] /\ fd = task.fd /\ cut = task.cut
         \/ task' = [task EXCEPT !.at = at, !.fd = fd] /\ cut = task.cut
         \/ task' = [task EXCEPT !.at = at, !.cut = cut] /\ fd = task.fd
  PROVE  /\ LoadTyped' /\ Moved' = Moved
         /\ task'.at = at /\ task'.fd = fd /\ task'.cut = cut
         /\ task'.source = task.source /\ task'.before = task.before
<1>1. task' = LoadFields(at, fd, task.rest, cut)
  BY LoadAt
<1>2. Moved \in 0 .. Len(task.source) /\ task.rest = SubSeq(task.source, Moved + 1, Len(task.source))
      /\ Len(task.source) \in Nat
  BY DEF LoadTyped
<1>3. Moved + 0 = Moved /\ Moved + 0 <= Len(task.source)
  BY <1>2
<1>4. task' = LoadFields(at, fd, SubSeq(task.source, Moved + 0 + 1, Len(task.source)), cut)
  BY <1>1, <1>2, <1>3
<1>5. QED
  BY <1>3, <1>4, LoadTypedNext

LEMMA LoadedNone ==
  ASSUME LoadTyped
  PROVE  Loaded(0) = task.before
<1>1. SubSeq(task.source, 1, 0) = << >>
  BY SubSeqEmpty
<1>2. QED
  BY <1>1, OverwriteNone DEF Loaded, LoadTyped

\* The next bytes of the source, put after those that are there.
LEMMA LoadedMore ==
  ASSUME LoadTyped, NEW k \in Nat, NEW m \in Nat, k <= m, m <= Len(task.source)
  PROVE  AbstractFile!Overwrite(Loaded(k), k, SubSeq(task.source, k + 1, m)) = Loaded(m)
<1> DEFINE s == task.source
           B == Bytes \union {0}
           a == SubSeq(s, 1, k)
           b == SubSeq(s, k + 1, m)
<1>1. s \in Seq(B) /\ task.before \in Seq(B) /\ Len(s) \in Nat /\ k <= Len(s)
  BY DEF LoadTyped
<1>2. a \in Seq(B) /\ Len(a) = k
  <2>1. a \in Seq(B) /\ Len(a) = k + 1 - 1
    BY <1>1, PartIs
  <2> HIDE DEF a
  <2>2. QED
    BY <2>1
<1>3. b \in Seq(B)
  BY <1>1, PartIs
<1>4. a \o b = SubSeq(s, 1, m)
  BY <1>1, Halves
<1> HIDE DEF a, b
<1>5. AbstractFile!Overwrite(AbstractFile!Overwrite(task.before, 0, a), Len(a), b)
      = AbstractFile!Overwrite(task.before, 0, a \o b)
  BY <1>1, <1>2, <1>3, OverwriteOn
<1>6. QED
  BY <1>2, <1>4, <1>5 DEF Loaded, a, b

\* The file with the first bytes of the source, and what it had after them.
LEMMA LoadedFront ==
  ASSUME LoadTyped
  PROVE  Loaded(Moved) = SubSeq(task.source, 1, Moved)
                           \o SubSeq(task.before, Moved + 1, Len(task.before))
<1> DEFINE s == task.source
           m == Moved
           a == SubSeq(s, 1, m)
           B == Bytes \union {0}
<1>1. s \in Seq(B) /\ task.before \in Seq(B) /\ m \in Nat /\ m <= Len(s)
  <2>1. s \in Seq(Bytes) /\ m \in 0 .. Len(s) /\ task.before \in Seq(B)
    BY DEF LoadTyped
  <2> HIDE DEF m
  <2>2. QED
    BY <2>1
<1>2. a \in Seq(B) /\ Len(a) = m
  <2> HIDE DEF m, B
  <2>1. a \in Seq(B) /\ Len(a) = m + 1 - 1
    BY <1>1, PartIs
  <2> HIDE DEF a
  <2>2. QED
    BY <1>1, <2>1
<1> HIDE DEF a
<1>3. AbstractFile!Overwrite(task.before, 0, a)
      = a \o SubSeq(task.before, Len(a) + 1, Len(task.before))
  BY <1>1, <1>2, OverwriteFront
<1>4. QED
  BY <1>2, <1>3 DEF Loaded, a

LEMMA LoadOpenKeeps ==
  ASSUME TransferInv, LoadOK, LoadOpen
  PROVE  TransferInv' /\ TaskOK'
<1>1. /\ task.at = "open" /\ call = Idle /\ LoadTyped
      /\ Moved = 0 /\ Content = task.before
  BY DEF LoadOpen, At, LoadOK
<1>2. CASE OpensFile(task.path)
  <2>1. Open /\ task' = [task EXCEPT !.at = "fread", !.fd = ret'.fd]
    BY <1>2 DEF LoadOpen
  <2>2. TransferInv'
    BY <2>1, TransferKeeps
  <2>3. /\ ret'.fd \in opened' /\ offset'[ret'.fd] = 0 /\ call' = Idle
        /\ UNCHANGED << blocks, data, size >>
    BY <1>2, <2>1, OpenIs DEF OpensFile
  <2>4. /\ LoadTyped' /\ Moved' = Moved
        /\ task'.at = "fread" /\ task'.fd = ret'.fd
        /\ task'.source = task.source /\ task'.before = task.before
    BY <1>1, <2>1, LoadTurns
  <2>5. Content' = Loaded(0)'
    <3>1. Content' = Content
      BY <2>3, ContentSame
    <3>2. Loaded(0)' = Loaded(0)
      BY <2>4 DEF Loaded
    <3>3. QED
      BY <1>1, <3>1, <3>2, LoadedNone
  <2>6. (offset[task.fd] = Moved /\ Content = Loaded(Moved))'
    <3>1. Moved' = 0
      BY <1>1, <2>4
    <3>2. Loaded(Moved)' = Loaded(0)'
      BY <3>1 DEF Loaded
    <3>3. QED
      BY <2>3, <2>4, <2>5, <3>1, <3>2
  <2>7. LoadOK'
    BY <2>3, <2>4, <2>6 DEF LoadOK
  <2>8. QED
    BY <2>2, <2>7 DEF TaskOK
<1>3. CASE ~ OpensFile(task.path)
  <2>1. task' = NoTask /\ UNCHANGED fileVars
    BY <1>3 DEF LoadOpen
  <2>2. call' = Idle
    BY <1>1, <2>1 DEF fileVars
  <2>3. QED
    BY <2>1, <2>2, TransferKeeps DEF TaskOK
<1>4. QED
  BY <1>2, <1>3

\* fread, of as much as the buffer takes, or of less when it fails.
LEMMA LoadReadKeeps ==
  ASSUME TransferInv, LoadOK, LoadRead
  PROVE  TransferInv' /\ TaskOK'
<1> DEFINE s == task.source
           rest == task.rest
           m == Moved
           l == Len(s)
           most == Smaller(BufSize, Len(rest))
<1>1. /\ task.at = "fread" /\ call = Idle /\ LoadTyped /\ task.fd \in opened
      /\ offset[task.fd] = m /\ Content = Loaded(m)
  BY DEF LoadRead, At, LoadOK
<1>2. /\ s \in Seq(Bytes) /\ l \in Nat /\ m \in 0 .. l /\ rest = SubSeq(s, m + 1, l)
  BY <1>1 DEF LoadTyped
<1>3. rest \in Seq(Bytes) /\ Len(rest) = l - m
  <2>1. rest \in Seq(Bytes) /\ Len(rest) = l + 1 - (m + 1)
    <3>1. m + 1 \in Nat /\ 1 <= m + 1 /\ m + 1 <= l + 1 /\ l <= Len(s)
      <4> HIDE DEF m
      <4>1. QED
        BY <1>2
    <3> HIDE DEF m, l
    <3>2. SubSeq(s, m + 1, l) \in Seq(Bytes) /\ Len(SubSeq(s, m + 1, l)) = l + 1 - (m + 1)
      BY <1>2, <3>1, PartIs
    <3>3. QED
      BY <1>2, <3>2
  <2> HIDE DEF rest, l, m
  <2>2. QED
    BY <1>2, <2>1
<1>4. most \in 0 .. l - m /\ most <= BufSize /\ (most = 0 => m = l) /\ most <= Len(rest)
  <2>1. BufSize \in Nat /\ BufSize > 0
    BY BufSizeIs
  <2> HIDE DEF rest, l, m
  <2>2. QED
    BY <1>2, <1>3, <2>1 DEF Smaller
<1>5. PICK n \in 0 .. most :
        IF n = 0
        THEN /\ task' = [task EXCEPT !.at = "close", !.cut = @ \/ most > 0]
             /\ UNCHANGED fileVars
        ELSE /\ WriteBegin(task.fd, SubSeq(rest, 1, n))
             /\ task' = [task EXCEPT !.at = "write", !.cut = @ \/ n < most,
                           !.rest = SubSeq(@, n + 1, Len(@))]
  BY DEF LoadRead
<1>6. CASE n = 0
  <2> DEFINE cut == task.cut \/ most > 0
  <2>1. task' = [task EXCEPT !.at = "close", !.cut = cut] /\ UNCHANGED fileVars
    BY <1>5, <1>6
  <2> HIDE DEF cut
  <2>2. TransferInv'
    BY <2>1, TransferKeeps
  <2>3. /\ LoadTyped' /\ Moved' = Moved
        /\ task'.at = "close" /\ task'.fd = task.fd /\ task'.cut = cut
        /\ task'.source = task.source /\ task'.before = task.before
    BY <1>1, <2>1, LoadTurns
  <2>4. /\ Content' = Content /\ opened' = opened /\ offset' = offset /\ call' = call
    BY <2>1, ContentSame DEF fileVars
  <2>5. Loaded(Moved)' = Loaded(Moved)
    BY <2>3 DEF Loaded
  <2>6. ~ task'.cut => Moved' = Len(task'.source)
    <3>1. SUFFICES ASSUME ~ cut PROVE m = l
      BY <2>3
    <3>2. ~ (most > 0)
      BY <3>1 DEF cut
    <3> HIDE DEF most, m, rest
    <3>3. most = 0
      BY <1>2, <1>4, <3>2
    <3>4. QED
      BY <1>4, <3>3
  <2>7. LoadOK'
    BY <1>1, <2>3, <2>4, <2>5, <2>6 DEF LoadOK
  <2>8. QED
    BY <2>2, <2>7 DEF TaskOK
<1>7. CASE n # 0
  <2> DEFINE piece == SubSeq(rest, 1, n)
             cut == task.cut \/ n < most
  <2>0. n \in Nat /\ n \in 1 .. l - m /\ n <= BufSize /\ n <= Len(rest)
    <3> HIDE DEF most, m, rest, l
    <3>1. QED
      BY <1>2, <1>3, <1>4, <1>7, BufSizeIs
  <2> HIDE DEF most
  <2>1. /\ WriteBegin(task.fd, piece)
        /\ task' = [task EXCEPT !.at = "write", !.cut = cut, !.rest = SubSeq(rest, n + 1, Len(rest))]
    BY <1>5, <1>7
  <2> HIDE DEF cut
  <2>2. piece \in [1 .. n -> Bytes] /\ piece \in Seq(Bytes) /\ Len(piece) = n
    <3>1. /\ piece \in Seq(Bytes) /\ Len(piece) = n + 1 - 1
      <4> HIDE DEF rest, m, l
      <4>1. n \in Nat /\ 1 <= n + 1
        BY <2>0
      <4>2. QED
        BY <1>3, <2>0, <4>1, PartIs
    <3> HIDE DEF piece, rest, m, l
    <3>2. Len(piece) = n
      BY <1>2, <2>0, <3>1
    <3>3. QED
      BY <3>1, <3>2
  <2>3. piece \in Buffers
    <3>1. n \in 0 .. BufSize
      <4>1. QED
        BY <2>0, BufSizeIs
    <3> HIDE DEF piece
    <3>2. QED
      BY <2>2, <3>1, ShellAssumption DEF ShellAssumption
  <2>4. piece = SubSeq(s, m + 1, m + n)
    <3>1. n \in Nat /\ m \in Nat /\ 1 <= n + 1 /\ m + n <= Len(s)
      <4> HIDE DEF m, rest
      <4>1. QED
        BY <1>2, <2>0
    <3> HIDE DEF m
    <3>2. SubSeq(SubSeq(s, m + 1, Len(s)), 1, n) = SubSeq(s, m + 1, m + n)
      BY <1>2, <3>1, PartOfRest
    <3>3. QED
      BY <1>2, <3>2
  <2>5. SubSeq(rest, n + 1, Len(rest)) = SubSeq(s, m + n + 1, l)
    <3>1. /\ n + 1 \in Nat /\ l - m \in Nat /\ m \in Nat /\ 1 <= n + 1 /\ n + 1 <= (l - m) + 1
          /\ m + (l - m) = l /\ m + (l - m) <= Len(s) /\ m + (n + 1) = m + n + 1
      <4>1. l = Len(s)
        OBVIOUS
      <4> HIDE DEF m, l, s, rest
      <4>2. m \in Nat /\ l \in Nat /\ n \in Nat /\ n <= l - m
        BY <1>2, <2>0
      <4>3. n + 1 \in Nat /\ l - m \in Nat /\ 1 <= n + 1 /\ n + 1 <= (l - m) + 1
        BY <1>2, <4>2
      <4>4. m + (l - m) = l /\ l <= Len(s) /\ m + (n + 1) = m + n + 1
        BY <4>1, <4>2
      <4>5. QED
        BY <4>2, <4>3, <4>4
    <3> HIDE DEF m
    <3>2. SubSeq(SubSeq(s, m + 1, Len(s)), n + 1, l - m) = SubSeq(s, m + (n + 1), m + (l - m))
      <4> DEFINE i == n + 1
                 j == l - m
      <4>1. s \in Seq(Bytes) /\ m \in Nat /\ i \in Nat /\ j \in Nat
        BY <1>2, <3>1
      <4>2. 1 <= i /\ i <= j + 1 /\ m + j <= Len(s)
        BY <3>1
      <4> HIDE DEF i, j, s, l
      <4>3. SubSeq(SubSeq(s, m + 1, Len(s)), i, j) = SubSeq(s, m + i, m + j)
        BY <4>1, <4>2, PartOfRest
      <4>4. QED
        BY <4>3 DEF i, j
    <3>3. rest = SubSeq(s, m + 1, Len(s)) /\ Len(rest) = l - m
      BY <1>2, <1>3
    <3>4. m + (n + 1) = m + n + 1 /\ m + (l - m) = l
      BY <3>1
    <3> HIDE DEF s, l, rest
    <3>5. QED
      BY <3>2, <3>3, <3>4
  <2>6. /\ LoadTyped' /\ Moved' = Moved + n
        /\ task'.at = "write" /\ task'.fd = task.fd
        /\ task'.source = task.source /\ task'.before = task.before
    <3>1. task' = LoadFields("write", task.fd, SubSeq(rest, n + 1, Len(rest)), cut)
      BY <1>1, <2>1, LoadAt
    <3>3. task' = LoadFields("write", task.fd,
                             SubSeq(task.source, Moved + n + 1, Len(task.source)), cut)
      BY <2>5, <3>1
    <3>4. n \in Nat /\ Moved + n <= Len(task.source)
      <4>1. n \in Nat /\ m + n <= l
        <5> HIDE DEF m, l, rest
        <5>1. QED
          BY <1>2, <2>0
      <4>2. QED
        BY <4>1
    <3>5. QED
      BY <1>1, <3>3, <3>4, LoadTypedNext
  <2>7. TransferInv'
    BY <1>1, <2>1, <2>3, BeginKeeps
  <2>8. /\ call' = Writing(task.fd, piece, Len(piece), offset[task.fd], Content)
        /\ UNCHANGED << blocks, data, size, opened, offset, ret, alive >>
    BY <1>1, <2>1 DEF WriteBegin
  <2>9. /\ call'.op = "write" /\ call'.fd = task.fd /\ call'.buf = piece
        /\ call'.before = Content /\ call' # Idle
    BY <2>8 DEF Writing, Idle
  <2>10. ~ Ready'
    BY <2>9 DEF Ready
  <2>11. offset'[task'.fd] = m /\ m + Len(piece) = Moved'
    <3>1. offset'[task'.fd] = m
      BY <1>1, <2>6, <2>8
    <3>2. QED
      BY <2>2, <2>6, <3>1
  <2>12. Loaded(offset[task.fd])' = Loaded(m)
    <3> HIDE DEF m
    <3>1. offset'[task'.fd] = m /\ task'.source = task.source /\ task'.before = task.before
      BY <2>6, <2>11
    <3>2. QED
      BY <3>1 DEF Loaded
  <2>13. (LET k == offset[task.fd]
          IN  /\ call.op = "write" /\ call.fd = task.fd
              /\ k + Len(call.buf) = Moved
              /\ call.buf = SubSeq(task.source, k + 1, Moved)
              /\ call.before = Loaded(k))'
    <3>1. call'.before = Loaded(offset[task.fd])'
      BY <1>1, <2>9, <2>12
    <3>2. call'.buf = SubSeq(task'.source, offset'[task'.fd] + 1, Moved')
      BY <2>4, <2>6, <2>9, <2>11
    <3>3. call'.op = "write" /\ call'.fd = task'.fd /\ offset'[task'.fd] + Len(call'.buf) = Moved'
      BY <2>6, <2>9, <2>11
    <3>4. QED
      BY <3>1, <3>2, <3>3
  <2>14. LoadOK'
    <3>1. task'.fd \in opened'
      BY <1>1, <2>6, <2>8
    <3>2. QED
      BY <2>6, <2>10, <2>13, <3>1 DEF LoadOK
  <2>15. QED
    BY <2>7, <2>14 DEF TaskOK
<1>8. QED
  BY <1>6, <1>7

\* While loadf waits for its write.
LEMMA LoadTransferKeeps ==
  ASSUME TransferInv, LoadOK, Transfer
  PROVE  TransferInv' /\ TaskOK'
<1> DEFINE k == offset[task.fd]
<1>1. TransferInv' /\ task' = task
  BY TransferKeeps DEF Transfer
<1>2. /\ task.at = "write" /\ call # Idle /\ LoadTyped
      /\ call.op = "write" /\ call.fd = task.fd
      /\ k + Len(call.buf) = Moved
      /\ call.buf = SubSeq(task.source, k + 1, Moved)
      /\ call.before = Loaded(k) /\ task.fd \in opened
  <2>1. call # Idle
    BY DEF Transfer, ReadTurn, ReadEnd, WriteTurn, WriteEnd, Idle
  <2>2. QED
    BY <2>1 DEF LoadOK
<1>3. LoadTyped' /\ Moved' = Moved /\ \A j : Loaded(j)' = Loaded(j)
  BY <1>1, <1>2 DEF LoadTyped, Moved, Loaded
<1>4. CASE WriteTurn
  <2>1. /\ \E n, off : call' = Writing(call.fd, call.buf, n, off, call.before)
        /\ UNCHANGED << size, opened, offset, ret, alive >>
    BY <1>4 DEF WriteTurn
  <2>2. /\ call'.op = "write" /\ call'.fd = call.fd /\ call'.buf = call.buf
        /\ call'.before = call.before /\ call' # Idle
    BY <2>1 DEF Writing, Idle
  <2>3. ~ Ready'
    BY <2>2 DEF Ready
  <2>4. offset'[task'.fd] = k
    BY <1>1, <2>1
  <2>5. Loaded(offset[task.fd])' = Loaded(k)
    <3> HIDE DEF k
    <3>1. QED
      BY <1>1, <2>4 DEF Loaded
  <2>6. (LET j == offset[task.fd]
         IN  /\ call.op = "write" /\ call.fd = task.fd
             /\ j + Len(call.buf) = Moved
             /\ call.buf = SubSeq(task.source, j + 1, Moved)
             /\ call.before = Loaded(j))'
    BY <1>1, <1>2, <1>3, <2>2, <2>4, <2>5
  <2>7. LoadOK'
    BY <1>1, <1>2, <1>3, <2>1, <2>3, <2>6 DEF LoadOK
  <2>8. QED
    BY <1>1, <2>7 DEF TaskOK
<1>5. CASE WriteEnd
  <2>1. /\ Content' = AbstractFile!Overwrite(call.before, offset[call.fd],
                                              SubSeq(call.buf, 1, Written))
        /\ offset' = [offset EXCEPT ![call.fd] = @ + Written]
        /\ Written \in 0 .. Len(call.buf) /\ call.buf \in Buffers
        /\ call.fd \in Fds /\ call' = Idle /\ opened' = opened
    BY <1>5, WriteEndIs
  <2>2. ASSUME ret'.code = "OK"
        PROVE  offset'[task'.fd] = Moved' /\ Content' = Loaded(Moved)'
    <3>1. call.n = 0
      <4>1. SUFFICES ASSUME call.n # 0 PROVE FALSE
        OBVIOUS
      <4>2. ret' = Result("write", call.fd, "EALLOC", 0)
        BY <1>5, <4>1 DEF WriteEnd, Returns
      <4>3. ret'.code = "EALLOC"
        BY <4>2 DEF Result
      <4>4. QED
        BY <2>2, <4>3
    <3>2. call.buf \in Seq(Bytes) /\ Len(call.buf) \in Nat
      BY <2>1, FileIOAssumption DEF FileIOAssumption
    <3>3. Written = Len(call.buf)
      BY <3>1, <3>2 DEF Written
    <3>4. SubSeq(call.buf, 1, Written) = call.buf
      BY <3>2, <3>3, WholeIs
    <3>5. k \in Nat /\ Moved \in Nat /\ k <= Moved /\ Moved <= Len(task.source)
      <4>1. offset \in [Fds -> 0 .. size]
        BY OffsetType DEF TransferInv
      <4>2. k \in Nat
        BY <1>2, <2>1, <4>1
      <4>3. Moved \in 0 .. Len(task.source) /\ Len(task.source) \in Nat
        BY <1>2 DEF LoadTyped
      <4> HIDE DEF k
      <4>4. QED
        BY <1>2, <3>2, <4>2, <4>3
    <3>6. AbstractFile!Overwrite(Loaded(k), k, SubSeq(task.source, k + 1, Moved)) = Loaded(Moved)
      <4> HIDE DEF k
      <4>1. QED
        BY <1>2, <3>5, LoadedMore
    <3>7. Content' = Loaded(Moved)
      <4>1. Content' = AbstractFile!Overwrite(Loaded(k), k, SubSeq(task.source, k + 1, Moved))
        BY <1>2, <2>1, <3>4
      <4>2. QED
        BY <3>6, <4>1
    <3>8. offset'[task'.fd] = Moved
      <4>1. offset \in [Fds -> 0 .. size]
        BY OffsetType DEF TransferInv
      <4>2. offset'[call.fd] = k + Written
        BY <1>2, <2>1, <4>1
      <4>3. QED
        BY <1>1, <1>2, <3>3, <4>2
    <3>9. Loaded(Moved)' = Loaded(Moved)
      BY <1>1, <1>3 DEF Loaded
    <3>10. QED
      BY <1>3, <3>7, <3>8, <3>9
  <2>3. LoadOK'
    BY <1>1, <1>2, <1>3, <2>1, <2>2 DEF LoadOK
  <2>4. QED
    BY <1>1, <2>3 DEF TaskOK
<1>6. CASE ReadTurn \/ ReadEnd
  BY <1>2, <1>6 DEF ReadTurn, ReadEnd
<1>7. QED
  BY <1>4, <1>5, <1>6 DEF Transfer

LEMMA LoadWrittenKeeps ==
  ASSUME TransferInv, LoadOK, LoadWritten
  PROVE  TransferInv' /\ TaskOK'
<1>1. /\ task.at = "write" /\ Ready /\ call = Idle /\ UNCHANGED fileVars /\ LoadTyped
      /\ ret.code = "OK" => offset[task.fd] = Moved /\ Content = Loaded(Moved)
      /\ task.fd \in opened
  BY DEF LoadWritten, At, LoadOK, Ready
<1>2. /\ TransferInv' /\ call' = Idle /\ opened' = opened /\ offset' = offset
      /\ Content' = Content
  BY <1>1, TransferKeeps, ContentSame DEF fileVars
<1>3. CASE ret.code = "OK"
  <2>1. task' = [task EXCEPT !.at = "fread"]
    BY <1>3 DEF LoadWritten
  <2>2. /\ LoadTyped' /\ Moved' = Moved
        /\ task'.at = "fread" /\ task'.fd = task.fd
        /\ task'.source = task.source /\ task'.before = task.before
    BY <1>1, <2>1, LoadTurns
  <2>3. Loaded(Moved)' = Loaded(Moved)
    BY <2>2 DEF Loaded
  <2>4. LoadOK'
    BY <1>1, <1>2, <1>3, <2>2, <2>3 DEF LoadOK
  <2>5. QED
    BY <1>2, <2>4 DEF TaskOK
<1>4. CASE ret.code # "OK"
  BY <1>2, <1>4 DEF LoadWritten, TaskOK
<1>5. QED
  BY <1>3, <1>4

LEMMA LoadCloseKeeps ==
  ASSUME TransferInv, LoadClose
  PROVE  TransferInv' /\ TaskOK'
<1>1. Close(task.fd) /\ task' = NoTask
  BY DEF LoadClose
<1>2. call' = Idle
  BY <1>1 DEF Close, Returns
<1>3. QED
  BY <1>1, <1>2, TransferKeeps DEF TaskOK

-----------------------------------------------------------------------------
(* Lines.                                                                   *)

LEMMA BuiltinKeeps ==
  ASSUME TransferInv, Ready, NEW line, Builtin(line)
  PROVE  TransferInv' /\ TaskOK'
<1>1. TransferInv' /\ UNCHANGED fileVars /\ call' = Idle
  BY TransferKeeps DEF Builtin, Ready, fileVars
<1>2. CASE task' = NoTask
  BY <1>1, <1>2 DEF TaskOK
<1>3. CASE task' = CatTask(Tail(line))
  <2> DEFINE paths == Tail(line)
  <2>1. task' = [cmd |-> "cat", at |-> "open", paths |-> paths, fd |-> 0, whole |-> TRUE]
    BY <1>3 DEF CatTask
  <2> HIDE DEF paths
  <2>2. task'.at = "open" /\ task'.paths = paths /\ task'.fd = 0 /\ task'.whole
    BY <2>1
  <2>3. CatOK'
    BY <1>1, <2>1, <2>2 DEF CatOK
  <2>4. QED
    BY <1>1, <2>3 DEF TaskOK
<1>4. CASE line[2] \in DOMAIN Sources /\ task' = LoadTask(Sources[line[2]], line[3])
  <2> DEFINE source == Sources[line[2]]
             path == line[3]
             l == Len(source)
  <2>1. task' = [cmd |-> "loadf", at |-> "open", path |-> path, fd |-> 0,
                 source |-> source, rest |-> source, cut |-> FALSE, before |-> Content]
    BY <1>4 DEF LoadTask
  <2>2. source \in Seq(Bytes) /\ l \in Nat
    BY <1>4, ShellAssumption DEF ShellAssumption
  <2>3. Content \in Seq(Bytes \union {0})
    BY ContentIs DEF TransferInv
  <2>4. SubSeq(source, 1, l) = source
    BY <2>2, WholeIs
  <2> HIDE DEF source, path, l
  <2>5. /\ task'.at = "open" /\ task'.path = path /\ task'.fd = 0 /\ task'.source = source
        /\ task'.rest = source /\ task'.before = Content /\ ~ task'.cut
    BY <2>1
  <2>6. Moved' = 0
    BY <2>2, <2>5 DEF Moved, l
  <2>7. task'.rest = SubSeq(task'.source, Moved' + 1, Len(task'.source))
    BY <2>4, <2>5, <2>6 DEF l
  <2>8. Moved' \in 0 .. Len(task'.source)
    BY <2>2, <2>5, <2>6 DEF l
  <2>9. LoadTyped'
    BY <2>1, <2>2, <2>3, <2>5, <2>7, <2>8 DEF LoadTyped
  <2>10. Content' = task'.before
    BY <1>1, <2>5, ContentSame DEF fileVars
  <2>11. LoadOK'
    BY <1>1, <2>5, <2>6, <2>9, <2>10 DEF LoadOK
  <2>12. QED
    BY <1>1, <2>11 DEF TaskOK
<1>5. QED
  BY <1>2, <1>3, <1>4 DEF Builtin

LEMMA ProcessKeeps ==
  ASSUME TransferInv, NEW line, process(line)
  PROVE  TransferInv' /\ TaskOK'
<1>1. Ready /\ task = NoTask /\ call = Idle
  BY DEF process, Ready
<1>2. CASE Builtin(line)
  BY <1>1, <1>2, BuiltinKeeps
<1>3. CASE UNCHANGED << fileVars, task >>
  <2>1. call' = Idle
    BY <1>1, <1>3 DEF fileVars
  <2>2. QED
    BY <1>1, <1>3, <2>1, TransferKeeps DEF TaskOK
<1>4. CASE Syscall(line)
  <2>1. task' = NoTask
    BY <1>1, <1>4 DEF Syscall
  <2>2. Open \/ (\E fd : Close(fd)) \/ UNCHANGED fileVars \/ Dies("close", -1)
    BY <1>4 DEF Syscall, Effect, CloseFar
  <2>3. call' = Idle
    BY <1>1, <2>2 DEF Open, Close, Returns, Dies, fileVars
  <2>4. TransferInv'
    <3>1. CASE Dies("close", -1)
      <4>1. FileInv'
        BY <1>1, <3>1, DiesInv DEF TransferInv, Idle
      <4>2. QED
        BY <3>1, <4>1, DiesKept DEF TransferInv
    <3>2. QED
      BY <2>2, <3>1, TransferKeeps
  <2>5. QED
    BY <2>1, <2>3, <2>4 DEF TaskOK
<1>5. QED
  BY <1>2, <1>3, <1>4 DEF process, Refused

LEMMA CommandKeeps ==
  ASSUME ShellInv, Commands
  PROVE  ShellInv'
<1>1. TransferInv /\ TaskOK
  BY DEF ShellInv
<1>2. call # Idle => CatOK \/ LoadOK
  BY <1>1 DEF TaskOK
<1>3. NoTask.cmd = "none"
  BY DEF NoTask
<1>4. CASE CatOpen \/ CatRead \/ CatPrint
  <2>1. task.cmd = "cat"
    BY <1>4 DEF CatOpen, CatRead, CatPrint, At
  <2>2. CatOK
    BY <1>1, <1>3, <2>1, LoadIs DEF TaskOK
  <2>3. QED
    BY <1>1, <1>4, <2>2, CatOpenKeeps, CatReadKeeps, CatPrintKeeps DEF ShellInv
<1>5. CASE LoadOpen \/ LoadRead \/ LoadWritten
  <2>1. task.cmd = "loadf"
    BY <1>5 DEF LoadOpen, LoadRead, LoadWritten, At
  <2>2. LoadOK
    BY <1>1, <1>3, <2>1, CatIs DEF TaskOK
  <2>3. QED
    BY <1>1, <1>5, <2>2, LoadOpenKeeps, LoadReadKeeps, LoadWrittenKeeps DEF ShellInv
<1>6. CASE CatClose \/ LoadClose
  BY <1>1, <1>6, CatCloseKeeps, LoadCloseKeeps DEF ShellInv
<1>7. CASE Transfer
  <2>1. call # Idle
    BY <1>7 DEF Transfer, ReadTurn, ReadEnd, WriteTurn, WriteEnd, Idle
  <2>2. QED
    BY <1>1, <1>2, <1>7, <2>1, CatTransferKeeps, LoadTransferKeeps DEF ShellInv
<1>8. QED
  BY <1>4, <1>5, <1>6, <1>7 DEF Commands

\* The run checks what ShellInv says of a task as well, on its small instance.
LEMMA ShellInvariant == ShSpec => []ShellInv
<1>1. ShInit => ShellInv
  BY TransferInit DEF ShInit, Init, ShellInv, TaskOK
<1>2. ShellInv /\ [ShNext]_allVars => ShellInv'
  <2>1. SUFFICES ASSUME ShellInv, [ShNext]_allVars PROVE ShellInv'
    OBVIOUS
  <2>2. CASE \E line \in Lines : process(line)
    BY <2>1, <2>2, ProcessKeeps DEF ShellInv
  <2>3. CASE Commands
    BY <2>1, <2>3, CommandKeeps
  <2>4. CASE UNCHANGED allVars
    <3>1. UNCHANGED fileVars /\ task' = task /\ stdout' = stdout
      BY <2>4 DEF allVars
    <3>2. TransferInv'
      BY <2>1, <3>1, TransferKeeps DEF ShellInv
    <3>3. Content' = Content /\ UNCHANGED << opened, offset, call, ret, alive >>
      BY <3>1, ContentSame DEF fileVars
    <3>4. TaskOK'
      BY <2>1, <3>1, <3>3 DEF ShellInv, TaskOK, CatOK, LoadOK, LoadTyped, Moved, Loaded, Upto, Ready
    <3>5. QED
      BY <3>2, <3>4 DEF ShellInv
  <2>5. QED
    BY <2>1, <2>2, <2>3, <2>4 DEF ShNext
<1>3. QED
  BY <1>1, <1>2, PTL DEF ShSpec

-----------------------------------------------------------------------------
(* The properties.                                                          *)

\* What cat has printed when it closes its file is the file, for every size of
\* its buffer and of the blocks (cat, do_read).
THEOREM CatPrintsFileCorrect == ShSpec => []CatPrintsFile
<1>1. ShellInv => CatPrintsFile
  BY LoadIs DEF ShellInv, TaskOK, CatOK, CatPrintsFile, At, NoTask
<1>2. QED
  BY <1>1, ShellInvariant, PTL

\* A loadf that gets to its end has put what it read of its source over the start
\* of the file, in pieces of any size, and nothing else; and it has read all of it
\* unless a fread failed (loadf, do_write).
THEOREM LoadStoresCorrect == ShSpec => []LoadStores
<1>1. ShellInv => LoadStores
  <2>1. SUFFICES ASSUME ShellInv, At("loadf", "close")
                 PROVE  /\ Content = SubSeq(task.source, 1, Moved)
                                       \o SubSeq(task.before, Moved + 1, Len(task.before))
                        /\ ~ task.cut => Moved = Len(task.source)
    BY DEF LoadStores, Moved
  <2>2. LoadOK /\ task.at = "close"
    BY <2>1, CatIs DEF ShellInv, TaskOK, At, NoTask
  <2>3. LoadTyped /\ Content = Loaded(Moved) /\ (~ task.cut => Moved = Len(task.source))
    BY <2>2 DEF LoadOK
  <2>4. QED
    BY <2>3, LoadedFront
<1>2. QED
  BY <1>1, ShellInvariant, PTL

ArgsInv == DOMAIN sysargs = 0 .. 1 /\ ArgsFresh

\* process leaves the words of a line that is not too long at the start of argv[].
LEMMA WordsParsed ==
  ASSUME NEW line \in Seq(STRING), line # << >>, Len(line) <= MaxArgs, ~ Quits(line), Parsed(line)
  PROVE  argc' = Len(line) /\ \A k \in 0 .. Len(line) - 1 : argv'[k] = line[k + 1]
<1> DEFINE l == Len(line)
<1>1. l \in Nat /\ l <= MaxArgs /\ MaxArgs \in Nat
  BY ShellAssumption DEF ShellAssumption
<1> HIDE DEF l
<1>2. Smaller(l, MaxArgs) = l
  BY <1>1 DEF Smaller
<1>3. /\ argc' = l
      /\ argv' = [k \in 0 .. MaxArgs - 1 |->
                    IF k < l THEN line[k + 1]
                    ELSE IF k = 0 \/ argv[k] = NoWord THEN NoWord ELSE Stale]
  BY <1>2 DEF Parsed, l
<1>4. ASSUME NEW k \in 0 .. l - 1 PROVE argv'[k] = line[k + 1]
  <2>1. k \in 0 .. MaxArgs - 1 /\ k < l
    BY <1>1
  <2>2. QED
    BY <1>3, <2>1
<1>5. QED
  BY <1>3, <1>4 DEF l

LEMMA SyscallArgs ==
  ASSUME ArgsInv, NEW line \in Seq(STRING), line # << >>, Len(line) <= MaxArgs,
         Parsed(line), Syscall(line)
  PROVE  ArgsInv'
<1> DEFINE l == Len(line)
<1>0. ~ Quits(line)
  <2>1. SUFFICES ASSUME line[1] \in {"quit", "q"} PROVE FALSE
    BY DEF Quits
  <2>2. argv'[0] = line[1]
    <3>1. 0 \in 0 .. MaxArgs - 1
      BY ShellAssumption DEF ShellAssumption
    <3>2. QED
      BY <2>1, <3>1 DEF Parsed, Quits
  <2>3. QED
    BY <2>1, <2>2 DEF Syscall, Arity
<1>1. argc' = l /\ (\A k \in 0 .. l - 1 : argv'[k] = line[k + 1]) /\ l \in Nat /\ l > 0
  BY <1>0, WordsParsed
<1>2. CASE UNCHANGED << sysargs, called >>
  BY <1>2 DEF ArgsInv, ArgsFresh
<1>3. CASE ArgsGiven(argv'[0], argc')
  <2> DEFINE name == argv'[0]
             arity == Arity[name]
  <2>1. /\ l = arity + 1 /\ name \in DOMAIN Arity
        /\ sysargs' = [k \in DOMAIN sysargs |->
                         IF k < arity THEN Value(name, argv'[k + 1]) ELSE sysargs[k]]
        /\ called' = [name |-> name, args |-> sysargs', line |-> line]
    BY <1>1, <1>3 DEF Syscall, ArgsGiven
  <2> HIDE DEF l, name
  <2>2. arity \in 0 .. 2
    BY <2>1 DEF Arity
  <2>3. DOMAIN sysargs' = 0 .. 1
    BY <2>1 DEF ArgsInv
  <2>4. called'.name = name /\ called'.args = sysargs' /\ called'.line = line
    BY <2>1
  <2>5. ASSUME NEW k \in 0 .. arity - 1
        PROVE  k + 2 <= l /\ sysargs'[k] = Value(name, line[k + 2])
    <3> HIDE DEF arity
    <3>1. k \in 0 .. 1 /\ k < arity /\ k + 2 <= l /\ k + 1 \in 0 .. l - 1 /\ k + 1 + 1 = k + 2
      BY <2>1, <2>2
    <3>2. k \in DOMAIN sysargs
      BY <3>1 DEF ArgsInv
    <3>3. argv'[k + 1] = line[k + 2]
      <4>1. argv'[k + 1] = line[k + 1 + 1]
        BY <1>1, <3>1
      <4>2. QED
        BY <3>1, <4>1
    <3>4. QED
      BY <2>1, <3>1, <3>2, <3>3 DEF arity
  <2>6. ArgsFresh'
    <3>1. \A k \in 0 .. Arity[called'.name] - 1 :
            /\ k + 2 <= Len(called'.line)
            /\ called'.args[k] = Value(called'.name, called'.line[k + 2])
      BY <2>4, <2>5 DEF l
    <3>2. QED
      BY <3>1 DEF ArgsFresh
  <2>7. QED
    BY <2>3, <2>6 DEF ArgsInv
<1>4. QED
  BY <1>2, <1>3 DEF Syscall

\* A system call gets the words of its own line, or their numbers, however long
\* argv[] is and whatever lines before left in it (process, syscall_handler).
THEOREM ArgsFreshCorrect == ShSpec => []ArgsFresh
<1>1. ShInit => ArgsInv
  BY DEF ShInit, ArgsInv, ArgsFresh
<1>2. ArgsInv /\ [ShNext]_allVars => ArgsInv'
  <2>1. SUFFICES ASSUME ArgsInv, [ShNext]_allVars PROVE ArgsInv'
    OBVIOUS
  <2>2. CASE \E line \in Lines : process(line)
    <3>1. PICK line \in Lines : process(line)
      BY <2>2
    <3>2. CASE Syscall(line) /\ line # << >> /\ Len(line) <= MaxArgs
      <4>1. line \in Seq(STRING) /\ Parsed(line)
        BY <3>1, ShellAssumption DEF ShellAssumption, process
      <4>2. QED
        BY <2>1, <3>2, <4>1, SyscallArgs
    <3>3. CASE UNCHANGED << sysargs, called >>
      BY <2>1, <3>3 DEF ArgsInv, ArgsFresh
    <3>4. QED
      BY <3>1, <3>2, <3>3 DEF process, Refused, Builtin
  <2>3. CASE Commands \/ UNCHANGED allVars
    <3>1. UNCHANGED << sysargs, called >>
      BY <2>3 DEF Commands, CatOpen, CatRead, CatPrint, CatClose, LoadOpen, LoadRead,
                  LoadWritten, LoadClose, Transfer, shVars, allVars
    <3>2. QED
      BY <2>1, <3>1 DEF ArgsInv, ArgsFresh
  <2>4. QED
    BY <2>1, <2>2, <2>3 DEF ShNext
<1>3. ArgsInv => ArgsFresh
  BY DEF ArgsInv
<1>4. QED
  BY <1>1, <1>2, <1>3, PTL DEF ShSpec
=============================================================================
