------------------------------ MODULE AbsFile -------------------------------
(***************************************************************************)
(* What the comments over fs_open, fs_lseek, fs_read and fs_write promise  *)
(* of one regular file: a sequence of bytes, and for every descriptor a    *)
(* position in it.  A read returns the bytes at the position, as many as   *)
(* were asked for or are left; a write puts a prefix of its buffer there.  *)
(***************************************************************************)
EXTENDS Integers, Sequences

CONSTANTS Fds, Bytes, Buffers, ReadCounts

VARIABLES
  content,  \* the bytes of the file
  opened,   \* the descriptors in use
  pos,      \* the position of each descriptor
  out       \* the bytes that the last call returned

avars == << content, opened, pos, out >>

\* content with buf at position p.
Overwrite(s, p, buf) ==
  [x \in 1 .. (IF p + Len(buf) > Len(s) THEN p + Len(buf) ELSE Len(s)) |->
     IF x \in p + 1 .. p + Len(buf) THEN buf[x - p] ELSE s[x]]

Open(fd) ==
  /\ fd \notin opened
  /\ opened' = opened \union {fd}
  /\ pos' = [pos EXCEPT ![fd] = 0]
  /\ out' = << >>
  /\ UNCHANGED content

Close(fd) ==
  /\ fd \in opened
  /\ opened' = opened \ {fd}
  /\ pos' = [pos EXCEPT ![fd] = 0]
  /\ out' = << >>
  /\ UNCHANGED content

Seek(fd, p) ==
  /\ fd \in opened
  /\ p <= Len(content)
  /\ pos' = [pos EXCEPT ![fd] = p]
  /\ out' = << >>
  /\ UNCHANGED << content, opened >>

Read(fd, n) ==
  LET p == pos[fd]
      k == IF p + n > Len(content) THEN Len(content) - p ELSE n
  IN  /\ fd \in opened
      /\ out' = SubSeq(content, p + 1, p + k)
      /\ pos' = [pos EXCEPT ![fd] = p + k]
      /\ UNCHANGED << content, opened >>

Write(fd, buf) ==
  /\ fd \in opened
  /\ \E k \in 0 .. Len(buf) :
       /\ content' = Overwrite(content, pos[fd], SubSeq(buf, 1, k))
       /\ pos' = [pos EXCEPT ![fd] = @ + k]
  /\ out' = << >>
  /\ UNCHANGED opened

\* A call that is refused.
Refuse == out' = << >> /\ UNCHANGED << content, opened, pos >>

Init ==
  /\ content = << >>
  /\ opened = {}
  /\ pos = [fd \in Fds |-> 0]
  /\ out = << >>

Next ==
  \/ Refuse
  \/ \E fd \in Fds :
      \/ Open(fd)
      \/ Close(fd)
      \/ \E p \in 0 .. Len(content) : Seek(fd, p)
      \/ \E n \in ReadCounts : Read(fd, n)
      \/ \E buf \in Buffers : Write(fd, buf)

Spec == Init /\ [][Next]_avars
=============================================================================
