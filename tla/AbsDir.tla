------------------------------- MODULE AbsDir -------------------------------
(* What a directory is: names, each for one inode (0: not in use).          *)
EXTENDS Naturals

CONSTANTS Names, Dots, Files

VARIABLE entries

Start == entries = [n \in Names |-> IF n \in DOMAIN Dots THEN Dots[n] ELSE 0]

Free(n) == entries[n] = 0
Removable(n) == ~ Free(n) /\ n \notin DOMAIN Dots

Link(n, i) == Free(n) /\ entries' = [entries EXCEPT ![n] = i]

Unlink(n) == Removable(n) /\ entries' = [entries EXCEPT ![n] = 0]

Rename(n, m) ==
  /\ Removable(n) /\ (Free(m) \/ Removable(m)) /\ n # m
  /\ entries' = [entries EXCEPT ![n] = 0, ![m] = entries[n]]

Next ==
  \E n \in Names :
    \/ \E i \in Files : Link(n, i)
    \/ Unlink(n)
    \/ \E m \in Names : Rename(n, m)

Spec == Start /\ [][Next]_entries
=============================================================================
