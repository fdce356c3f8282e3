------------------------------- MODULE AbsLru -------------------------------
(* What the list of dirhash tables is for: the tables in the order of their *)
(* last use, of which only the one used longest ago is given to another     *)
(* directory.                                                               *)
EXTENDS Integers

CONSTANTS Size, Owners

VARIABLES
  order,  \* the tables, the one used last first
  owner   \* the directory each table is for, or None

vars == << order, owner >>

Table == 0 .. Size - 1

None == 0

\* The order o with table t moved to the front, or to the back.
Place(o, t) == CHOOSE k \in 1 .. Size : o[k] = t

ToFront(o, t) ==
  [i \in 1 .. Size |-> IF i = 1 THEN t ELSE IF i <= Place(o, t) THEN o[i - 1] ELSE o[i]]

ToBack(o, t) ==
  [i \in 1 .. Size |-> IF i < Place(o, t) THEN o[i] ELSE IF i < Size THEN o[i + 1] ELSE t]

Use(t) == UNCHANGED owner /\ order' = ToFront(order, t)

\* A table that was found full is the next to be taken.
GiveUp(t) == UNCHANGED owner /\ order' = ToBack(order, t)

\* The table used longest ago becomes d's, and the one used last; or it stays
\* where it is, when d has outgrown the table that it takes.
Take(d) ==
  LET last == order[Size]
  IN  /\ owner' = [owner EXCEPT ![last] = d]
      /\ order' \in {order, ToFront(order, last)}

\* d takes table 0, which it cannot find again (0 means no table), and in the
\* same call the next one.
TakeTwo(d) ==
  LET then == ToFront(order, 0)
      last == then[Size]
  IN  /\ order[Size] = 0
      /\ owner' = [owner EXCEPT ![0] = d, ![last] = d]
      /\ order' \in {then, ToFront(then, last)}

Clear == owner' = [t \in Table |-> None] /\ UNCHANGED order

Start == order = [i \in 1 .. Size |-> i - 1] /\ owner = [t \in Table |-> None]

Restart == order' = [i \in 1 .. Size |-> i - 1] /\ owner' = [t \in Table |-> None]

Next ==
  \/ \E t \in Table : Use(t) \/ GiveUp(t)
  \/ \E d \in Owners : Take(d) \/ TakeTwo(d)
  \/ Clear
  \/ Restart

Spec == Start /\ [][Next]_vars
=============================================================================
