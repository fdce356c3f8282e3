------------------------------ MODULE NatSets -------------------------------
(***************************************************************************)
(* Facts about sets of natural numbers: the least element, and induction   *)
(* in a form that names a set.  They come from the well-foundedness of <.  *)
(***************************************************************************)
EXTENDS Integers, NaturalsInduction, WellFoundedInduction, TLAPS

\* < is well-founded on Nat, as a set of pairs.
LEMMA NatLessWF == IsWellFoundedOn({p \in Nat \X Nat : p[1] < p[2]}, Nat)
  BY NatLessThanWellFounded DEF OpToRel

\* A nonempty set of natural numbers has a least element (what a scan of a
\* bitmap or of a list of entries finds first).
LEMMA NatMinimum ==
  ASSUME NEW T \in SUBSET Nat, T # {}
  PROVE  \E x \in T : \A y \in T : x <= y
<1> DEFINE Less == {p \in Nat \X Nat : p[1] < p[2]}
<1>1. PICK x \in T : \A y \in T : ~ (<<y, x>> \in Less)
  BY NatLessWF, WFMin
<1>2. ASSUME NEW y \in T PROVE x <= y
  <2>1. x \in Nat /\ y \in Nat
    BY <1>1
  <2>2. ~ (<<y, x>> \in Less)
    BY <1>1
  <2>3. ~ (y < x)
    BY <2>1, <2>2
  <2>4. QED
    BY <2>1, <2>3
<1>3. QED
  BY <1>2

\* A set that holds 0 and the successors of its elements holds every number.
LEMMA NatSetInduction ==
  ASSUME NEW T, 0 \in T, \A n \in Nat : n \in T => n + 1 \in T
  PROVE  Nat \subseteq T
<1>1. SUFFICES ASSUME Nat \ T # {} PROVE FALSE
  OBVIOUS
<1>2. PICK x \in Nat \ T : \A y \in Nat \ T : x <= y
  BY <1>1, NatMinimum
<1>3. x # 0 /\ x - 1 \in Nat /\ x - 1 \in T
  BY <1>2
<1>4. QED
  BY <1>2, <1>3

\* A set of positive numbers up to n can be listed in increasing order.
LEMMA Enumeration ==
  ASSUME NEW n \in Nat, NEW S \in SUBSET (1 .. n)
  PROVE  \E m \in 0 .. n : \E f \in [1 .. m -> 1 .. n] :
            /\ \A j, k \in 1 .. m : j < k => f[j] < f[k]
            /\ {f[k] : k \in 1 .. m} = S
<1> DEFINE Lists(m, f, A) == /\ \A j, k \in 1 .. m : j < k => f[j] < f[k]
                             /\ {f[k] : k \in 1 .. m} = A
           Listed(i, A) ==
             \E m \in 0 .. i : \E f \in [1 .. m -> 1 .. i] : Lists(m, f, A)
           T == {i \in Nat : \A A \in SUBSET (1 .. i) : Listed(i, A)}
<1>1. 0 \in T
  <2>1. ASSUME NEW A \in SUBSET (1 .. 0) PROVE Listed(0, A)
    <3>1. A = {} /\ 1 .. 0 = {}
      OBVIOUS
    <3>2. [k \in 1 .. 0 |-> k] \in [1 .. 0 -> 1 .. 0]
      OBVIOUS
    <3>3. Lists(0, [k \in 1 .. 0 |-> k], A)
      BY <3>1
    <3> HIDE DEF Lists
    <3>4. \E f \in [1 .. 0 -> 1 .. 0] : Lists(0, f, A)
      BY <3>2, <3>3
    <3>5. 0 \in 0 .. 0
      OBVIOUS
    <3>6. QED
      BY <3>4, <3>5
  <2> HIDE DEF Listed
  <2>2. QED
    BY <2>1
<1>2. ASSUME NEW i \in Nat, i \in T PROVE i + 1 \in T
  <2>1. ASSUME NEW A \in SUBSET (1 .. i + 1) PROVE Listed(i + 1, A)
    <3> DEFINE B == A \ {i + 1}
    <3>1. Listed(i, B)
      <4>1. B \in SUBSET (1 .. i)
        OBVIOUS
      <4> HIDE DEF Listed, B
      <4>2. QED
        BY <1>2, <4>1
    <3>2. PICK m \in 0 .. i : \E g \in [1 .. m -> 1 .. i] : Lists(m, g, B)
      BY <3>1
    <3>3. PICK g \in [1 .. m -> 1 .. i] : Lists(m, g, B)
      BY <3>2
    <3>4. CASE i + 1 \notin A
      <4>1. B = A /\ g \in [1 .. m -> 1 .. i + 1] /\ m \in 0 .. i + 1
        BY <3>4
      <4>2. Lists(m, g, A)
        BY <3>3, <4>1
      <4> HIDE DEF Lists
      <4>3. QED
        BY <4>1, <4>2
    <3>5. CASE i + 1 \in A
      <4> DEFINE f == [k \in 1 .. m + 1 |-> IF k = m + 1 THEN i + 1 ELSE g[k]]
      <4>1. f \in [1 .. m + 1 -> 1 .. i + 1] /\ m + 1 \in 0 .. i + 1
        OBVIOUS
      <4>2. \A j, k \in 1 .. m + 1 : j < k => f[j] < f[k]
        BY <3>3
      <4>3. {f[k] : k \in 1 .. m + 1} = {g[k] : k \in 1 .. m} \union {i + 1}
        OBVIOUS
      <4>4. {f[k] : k \in 1 .. m + 1} = A
        BY <3>3, <3>5, <4>3
      <4>5. Lists(m + 1, f, A)
        BY <4>2, <4>4
      <4> HIDE DEF Lists, f
      <4>6. QED
        BY <4>1, <4>5
    <3>6. QED
      BY <3>4, <3>5
  <2> HIDE DEF Listed
  <2>2. QED
    BY <2>1
<1>3. Nat \subseteq T
  <2> HIDE DEF T
  <2>1. QED
    BY <1>1, <1>2, NatSetInduction
<1>4. QED
  BY <1>3
=============================================================================
