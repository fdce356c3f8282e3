------------------------------ MODULE LruList -------------------------------
(* The doubly linked list of the dirhash tables (src/dirhash.c), relinked   *)
(* by hand: head and tail, and prev and next of every table.                *)
EXTENDS Integers

CONSTANT Size   \* the number of tables (HFS_DIRHASH_SIZE)

ASSUME LruListAssumption == Size \in Nat /\ Size > 1

Table == 0 .. Size - 1

\* The pointer NULL.
Null == -1

\* The list of the tables in order, as init_dirhash_tables leaves it.
init_dirhash_tables ==
  [head |-> 0, tail |-> Size - 1,
   prev |-> [t \in Table |-> IF t = 0 THEN Null ELSE t - 1],
   next |-> [t \in Table |-> IF t = Size - 1 THEN Null ELSE t + 1]]

lru_demote(l, t) ==
  LET p == l.prev[t]
      n == l.next[t]
      out == IF p = Null THEN [l EXCEPT !.prev[n] = Null, !.head = n]
             ELSE [l EXCEPT !.prev[n] = p, !.next[p] = n]
  IN  IF n = Null THEN l
      ELSE [out EXCEPT !.next[t] = Null, !.prev[t] = l.tail,
                       !.next[l.tail] = t, !.tail = t]

\* (A fault: the tail is not moved when it is the tail that is used.)
TouchKeepsTail(l, t) ==
  LET p == l.prev[t]
      n == l.next[t]
      out == IF n = Null THEN [l EXCEPT !.next[p] = Null]
             ELSE [l EXCEPT !.next[p] = n, !.prev[n] = p]
  IN  IF p = Null THEN l
      ELSE [out EXCEPT !.prev[t] = Null, !.next[t] = l.head,
                       !.prev[l.head] = t, !.head = t]

lru_touch(l, t) ==
  LET p == l.prev[t]
      n == l.next[t]
      out == IF n = Null THEN [l EXCEPT !.next[p] = Null, !.tail = p]
             ELSE [l EXCEPT !.next[p] = n, !.prev[n] = p]
  IN  IF p = Null THEN l
      ELSE [out EXCEPT !.prev[t] = Null, !.next[t] = l.head,
                       !.prev[l.head] = t, !.head = t]

\* The tables from the head along next, as hfs_dirhash_dump visits them; Null
\* where the list has ended before it had Size of them.
Order(l) ==
  LET at[i \in 1 .. Size] ==
        IF i = 1 THEN l.head ELSE IF at[i - 1] = Null THEN Null ELSE l.next[at[i - 1]]
  IN  at
=============================================================================
