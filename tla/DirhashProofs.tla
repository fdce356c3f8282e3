--------------------------- MODULE DirhashProofs ----------------------------
(***************************************************************************)
(* Proofs about the dirhash (Dirhash), for tables and lists of any size.   *)
(* First what lru_touch and lru_demote make of the list, then what         *)
(* put_dentry and put_directory make of a table, then the calls.           *)
(***************************************************************************)
EXTENDS DirhashSafety, NatSets, FiniteSetTheorems

USE LruListAssumption

-----------------------------------------------------------------------------
(* The list.                                                                *)

ToFront(o, t) == Lru!ToFront(o, t)
ToBack(o, t) == Lru!ToBack(o, t)
Place(o, t) == Lru!Place(o, t)

Links == [head : Table, tail : Table, prev : [Table -> Table \union {Null}],
          next : [Table -> Table \union {Null}]]

\* The ways to put every table in order.
Orders ==
  {o \in [1 .. Size -> Table] : /\ \A i, j \in 1 .. Size : o[i] = o[j] => i = j
                                /\ \A t \in Table : \E i \in 1 .. Size : o[i] = t}

\* The list l has the tables in the order o.
Ordered(l, o) ==
  /\ l \in Links /\ o \in Orders
  /\ l.head = o[1] /\ l.tail = o[Size]
  /\ \A i \in 1 .. Size : /\ l.next[o[i]] = IF i = Size THEN Null ELSE o[i + 1]
                          /\ l.prev[o[i]] = IF i = 1 THEN Null ELSE o[i - 1]

\* What hfs_dirhash_dump visits is that order.
LEMMA OrderIs ==
  ASSUME NEW l, NEW o, Ordered(l, o)
  PROVE  Order(l) = o
<1> DEFINE Walk(f) ==
      [i \in 1 .. Size |-> IF i = 1 THEN l.head
                           ELSE IF f[i - 1] = Null THEN Null ELSE l.next[f[i - 1]]]
           at == CHOOSE f : f = Walk(f)
<1>1. o = Walk(o)
  <2>1. ASSUME NEW i \in 1 .. Size PROVE o[i] = Walk(o)[i]
    <3>1. CASE i = 1
      BY <3>1 DEF Ordered
    <3>2. CASE i # 1
      <4>1. i - 1 \in 1 .. Size /\ i - 1 # Size /\ o[i - 1] # Null
        BY <3>2 DEF Ordered, Orders, Table, Null
      <4>2. l.next[o[i - 1]] = o[i]
        BY <4>1 DEF Ordered
      <4>3. QED
        BY <3>2, <4>1, <4>2
    <3>3. QED
      BY <3>1, <3>2
  <2>2. o \in [1 .. Size -> Table]
    BY DEF Ordered, Orders
  <2>3. QED
    BY <2>1, <2>2
<1>2. at = Walk(at)
  <2> HIDE DEF Walk
  <2>1. QED
    BY <1>1
<1>3. Order(l) = at
  BY DEF Order
<1>4. \A i \in Nat : i \in 1 .. Size => at[i] = o[i]
  <2> HIDE DEF at
  <2> DEFINE T == {i \in Nat : i \in 1 .. Size => at[i] = o[i]}
  <2>1. 0 \in T
    OBVIOUS
  <2>2. ASSUME NEW i \in Nat, i \in T PROVE i + 1 \in T
    <3>1. SUFFICES ASSUME i + 1 \in 1 .. Size PROVE at[i + 1] = o[i + 1]
      OBVIOUS
    <3>2. at[i + 1] = Walk(at)[i + 1] /\ o[i + 1] = Walk(o)[i + 1]
      BY <1>1, <1>2
    <3>3. i # 0 => at[i] = o[i]
      BY <2>2, <3>1
    <3>4. QED
      BY <3>1, <3>2, <3>3
  <2>3. Nat \subseteq T
    <3> HIDE DEF T
    <3>1. QED
      BY <2>1, <2>2, NatSetInduction
  <2>4. QED
    BY <2>3
<1>5. QED
  <2> HIDE DEF at
  <2>1. at = [i \in 1 .. Size |-> at[i]]
    BY <1>2
  <2>2. o = [i \in 1 .. Size |-> o[i]]
    BY DEF Ordered, Orders
  <2>3. QED
    BY <1>3, <1>4, <2>1, <2>2

\* Every table has one place in an order.
LEMMA PlaceIs ==
  ASSUME NEW o \in Orders, NEW t \in Table
  PROVE  /\ Place(o, t) \in 1 .. Size /\ o[Place(o, t)] = t
         /\ \A k \in 1 .. Size : o[k] = t => Place(o, t) = k
  BY DEF Orders, Place, Lru!Place

LEMMA MovesAreOrders ==
  ASSUME NEW o \in Orders, NEW t \in Table
  PROVE  /\ ToFront(o, t) \in Orders /\ ToBack(o, t) \in Orders
         /\ ToFront(o, t)[1] = t /\ ToBack(o, t)[Size] = t
<1> DEFINE k == Place(o, t)
           f == ToFront(o, t)
           b == ToBack(o, t)
<1>1. k \in 1 .. Size /\ o[k] = t
  BY PlaceIs
<1>2. /\ f = [i \in 1 .. Size |-> IF i = 1 THEN t ELSE IF i <= k THEN o[i - 1] ELSE o[i]]
      /\ b = [i \in 1 .. Size |-> IF i < k THEN o[i] ELSE IF i < Size THEN o[i + 1] ELSE t]
  BY DEF ToFront, ToBack, Place, Lru!ToFront, Lru!ToBack
<1> HIDE DEF k, f, b
<1>3. /\ o \in [1 .. Size -> Table]
      /\ \A i, j \in 1 .. Size : o[i] = o[j] => i = j
      /\ \A u \in Table : \E i \in 1 .. Size : o[i] = u
  BY DEF Orders
<1>4. f \in [1 .. Size -> Table] /\ b \in [1 .. Size -> Table]
  BY <1>1, <1>2, <1>3
<1>5. ASSUME NEW i \in 1 .. Size, NEW j \in 1 .. Size, i < j
      PROVE  f[i] # f[j] /\ b[i] # b[j]
  BY <1>1, <1>2, <1>3, <1>5
<1>6. ASSUME NEW u \in Table
      PROVE  (\E i \in 1 .. Size : f[i] = u) /\ (\E i \in 1 .. Size : b[i] = u)
  <2>1. PICK i \in 1 .. Size : o[i] = u
    BY <1>3
  <2>2. /\ f[IF i = k THEN 1 ELSE IF i < k THEN i + 1 ELSE i] = u
        /\ b[IF i = k THEN Size ELSE IF i < k THEN i ELSE i - 1] = u
    BY <1>1, <1>2, <2>1
  <2>3. /\ (IF i = k THEN 1 ELSE IF i < k THEN i + 1 ELSE i) \in 1 .. Size
        /\ (IF i = k THEN Size ELSE IF i < k THEN i ELSE i - 1) \in 1 .. Size
    BY <1>1
  <2>4. QED
    BY <2>2, <2>3
<1>7. \A i, j \in 1 .. Size : i # j => f[i] # f[j] /\ b[i] # b[j]
  BY <1>5
<1>8. f[1] = t /\ b[Size] = t
  BY <1>1, <1>2
<1>9. QED
  BY <1>4, <1>6, <1>7, <1>8 DEF Orders, f, b

\* A table moved twice is where it was moved last; the last one is there already.
LEMMA MovesOfMoves ==
  ASSUME NEW o \in Orders, NEW t \in Table, NEW f \in {ToFront(o, t), ToBack(o, t)}
  PROVE  /\ ToFront(f, t) = ToFront(o, t) /\ ToBack(f, t) = ToBack(o, t)
         /\ ToBack(o, o[Size]) = o /\ ToFront(o, o[1]) = o
<1>1. /\ Place(o, t) \in 1 .. Size /\ o[Place(o, t)] = t
      /\ Place(o, o[Size]) = Size /\ Place(o, o[1]) = 1
      /\ o \in [1 .. Size -> Table]
  <2>1. o \in [1 .. Size -> Table]
    BY DEF Orders
  <2>2. o[1] \in Table /\ o[Size] \in Table
    BY <2>1
  <2>3. QED
    BY <2>1, <2>2, PlaceIs
<1>2. /\ Place(ToFront(o, t), t) = 1
      /\ Place(ToBack(o, t), t) = Size
  BY MovesAreOrders, PlaceIs
<1>3. ASSUME NEW h
      PROVE  /\ ToFront(h, t) = [i \in 1 .. Size |-> IF i = 1 THEN t
                                   ELSE IF i <= Place(h, t) THEN h[i - 1] ELSE h[i]]
             /\ ToBack(h, t) = [i \in 1 .. Size |-> IF i < Place(h, t) THEN h[i]
                                   ELSE IF i < Size THEN h[i + 1] ELSE t]
  BY DEF ToFront, ToBack, Place, Lru!ToFront, Lru!ToBack
<1>4. /\ ToFront(ToFront(o, t), t) = ToFront(o, t)
      /\ ToBack(ToFront(o, t), t) = ToBack(o, t)
  <2> DEFINE h == ToFront(o, t)
             k == Place(o, t)
  <2>1. h = [i \in 1 .. Size |-> IF i = 1 THEN t ELSE IF i <= k THEN o[i - 1] ELSE o[i]]
    BY <1>3
  <2>2. ToFront(h, t) = [i \in 1 .. Size |-> IF i = 1 THEN t ELSE h[i]]
    BY <1>2, <1>3
  <2>3. ToBack(h, t) = [i \in 1 .. Size |-> IF i < Size THEN h[i + 1] ELSE t]
    BY <1>2, <1>3
  <2>4. ToBack(o, t) = [i \in 1 .. Size |-> IF i < k THEN o[i]
                                            ELSE IF i < Size THEN o[i + 1] ELSE t]
    BY <1>3
  <2>5. k \in 1 .. Size /\ o[k] = t /\ o \in [1 .. Size -> Table]
    BY <1>1
  <2> HIDE DEF h, k
  <2>6. ToFront(h, t) = h
    BY <2>1, <2>2
  <2>7. ToBack(h, t) = ToBack(o, t)
    <3>1. ASSUME NEW i \in 1 .. Size, i < Size
          PROVE  h[i + 1] = IF i < k THEN o[i] ELSE o[i + 1]
      BY <2>1, <2>5, <3>1
    <3>2. ASSUME NEW i \in 1 .. Size
          PROVE  (IF i < Size THEN h[i + 1] ELSE t) =
                   IF i < k THEN o[i] ELSE IF i < Size THEN o[i + 1] ELSE t
      <4>1. CASE i = Size
        BY <2>5, <4>1
      <4>2. CASE i < Size
        BY <3>1, <4>2
      <4>3. QED
        BY <4>1, <4>2
    <3>3. QED
      BY <2>3, <2>4, <3>2
  <2>8. QED
    BY <2>6, <2>7 DEF h
<1>5. /\ ToFront(ToBack(o, t), t) = ToFront(o, t)
      /\ ToBack(ToBack(o, t), t) = ToBack(o, t)
  <2> DEFINE h == ToBack(o, t)
             k == Place(o, t)
  <2>1. h = [i \in 1 .. Size |-> IF i < k THEN o[i] ELSE IF i < Size THEN o[i + 1] ELSE t]
    BY <1>3
  <2>2. ToFront(h, t) = [i \in 1 .. Size |-> IF i = 1 THEN t ELSE h[i - 1]]
    BY <1>2, <1>3
  <2>3. ToBack(h, t) = [i \in 1 .. Size |-> IF i < Size THEN h[i] ELSE t]
    BY <1>2, <1>3
  <2>4. ToFront(o, t) = [i \in 1 .. Size |-> IF i = 1 THEN t
                                             ELSE IF i <= k THEN o[i - 1] ELSE o[i]]
    BY <1>3
  <2>5. k \in 1 .. Size /\ o[k] = t /\ o \in [1 .. Size -> Table]
    BY <1>1
  <2> HIDE DEF h, k
  <2>6. ToBack(h, t) = h
    BY <2>1, <2>3, <2>5
  <2>7. ToFront(h, t) = ToFront(o, t)
    <3>1. ASSUME NEW i \in 1 .. Size, i # 1
          PROVE  h[i - 1] = IF i <= k THEN o[i - 1] ELSE o[i]
      BY <2>1, <2>5, <3>1
    <3>2. ASSUME NEW i \in 1 .. Size
          PROVE  (IF i = 1 THEN t ELSE h[i - 1]) =
                   IF i = 1 THEN t ELSE IF i <= k THEN o[i - 1] ELSE o[i]
      BY <3>1
    <3>3. QED
      BY <2>2, <2>4, <3>2
  <2>8. QED
    BY <2>6, <2>7 DEF h
<1>6. ToBack(o, o[Size]) = o
  <2>1. ToBack(o, o[Size]) = [i \in 1 .. Size |-> IF i < Size THEN o[i]
                               ELSE IF i < Size THEN o[i + 1] ELSE o[Size]]
    BY <1>1 DEF ToBack, Place, Lru!ToBack
  <2>2. QED
    BY <1>1, <2>1
<1>7. ToFront(o, o[1]) = o
  <2>1. ToFront(o, o[1]) = [i \in 1 .. Size |-> IF i = 1 THEN o[1]
                               ELSE IF i <= 1 THEN o[i - 1] ELSE o[i]]
    BY <1>1 DEF ToFront, Place, Lru!ToFront
  <2>2. QED
    BY <1>1, <2>1
<1>8. QED
  BY <1>4, <1>5, <1>6, <1>7

\* What the assignments of lru_touch leave in the four fields.
LEMMA TouchFields ==
  ASSUME NEW l \in Links, NEW t \in Table, l.prev[t] # Null
  PROVE  LET p == l.prev[t]
             n == l.next[t]
             h == l.head
             m == lru_touch(l, t)
         IN
         /\ m = [head |-> m.head, tail |-> m.tail, prev |-> m.prev, next |-> m.next]
         /\ m.head = t /\ m.tail = IF n = Null THEN p ELSE l.tail
         /\ m.next = [[l.next EXCEPT ![p] = n] EXCEPT ![t] = h]
         /\ n = Null => m.prev = [[l.prev EXCEPT ![t] = Null] EXCEPT ![h] = t]
         /\ n # Null => m.prev = [[[l.prev EXCEPT ![n] = p] EXCEPT ![t] = Null] EXCEPT ![h] = t]
<1>1. CASE l.next[t] = Null
  BY <1>1 DEF Links, lru_touch
<1>2. CASE l.next[t] # Null
  BY <1>2 DEF Links, lru_touch
<1>3. QED
  BY <1>1, <1>2

LEMMA DemoteIsList ==
  ASSUME NEW l \in Links, NEW t \in Table, l.next[t] # Null, NEW m, m = lru_demote(l, t)
  PROVE  m = [head |-> m.head, tail |-> m.tail, prev |-> m.prev, next |-> m.next]
<1>1. CASE l.prev[t] = Null
  BY <1>1 DEF Links, lru_demote
<1>2. CASE l.prev[t] # Null
  BY <1>2 DEF Links, lru_demote
<1>3. QED
  BY <1>1, <1>2

LEMMA DemoteFields ==
  ASSUME NEW l \in Links, NEW t \in Table, l.next[t] # Null
  PROVE  LET p == l.prev[t]
             n == l.next[t]
             g == l.tail
             m == lru_demote(l, t)
         IN
         /\ m.tail = t /\ m.head = IF p = Null THEN n ELSE l.head
         /\ m.prev = [[l.prev EXCEPT ![n] = p] EXCEPT ![t] = g]
         /\ p = Null => m.next = [[l.next EXCEPT ![t] = Null] EXCEPT ![g] = t]
         /\ p # Null => m.next = [[[l.next EXCEPT ![p] = n] EXCEPT ![t] = Null] EXCEPT ![g] = t]
<1>1. CASE l.prev[t] = Null
  BY <1>1 DEF Links, lru_demote
<1>2. CASE l.prev[t] # Null
  BY <1>2 DEF Links, lru_demote
<1>3. QED
  BY <1>1, <1>2

\* lru_touch moves a table to the head, wherever it was.
LEMMA TouchOrdered ==
  ASSUME NEW l, NEW o, Ordered(l, o), NEW t \in Table
  PROVE  Ordered(lru_touch(l, t), ToFront(o, t))
<1> DEFINE k == Place(o, t)
           f == ToFront(o, t)
           m == lru_touch(l, t)
<1>1. /\ k \in 1 .. Size /\ o[k] = t /\ o \in [1 .. Size -> Table]
      /\ \A i, j \in 1 .. Size : o[i] = o[j] => i = j
  BY PlaceIs DEF Ordered, Orders
<1>2. f = [i \in 1 .. Size |-> IF i = 1 THEN t ELSE IF i <= k THEN o[i - 1] ELSE o[i]]
  BY DEF ToFront, Place, Lru!ToFront
<1>3. f \in Orders
  BY MovesAreOrders DEF Ordered
<1>4. /\ l \in Links /\ l.head = o[1] /\ l.tail = o[Size]
      /\ \A i \in 1 .. Size : /\ l.next[o[i]] = IF i = Size THEN Null ELSE o[i + 1]
                              /\ l.prev[o[i]] = IF i = 1 THEN Null ELSE o[i - 1]
  BY DEF Ordered
<1>5. CASE k = 1
  <2>1. f = o
    BY <1>1, <1>5, MovesOfMoves DEF Ordered
  <2>2. l.prev[t] = Null
    BY <1>1, <1>4, <1>5
  <2>3. m = l
    BY <2>2 DEF lru_touch
  <2>4. QED
    BY <2>1, <2>3
<1>6. CASE k # 1
  <2> DEFINE p == o[k - 1]
             h == o[1]
  <2>1. l.prev[t] = p /\ p \in Table /\ p # Null /\ h \in Table /\ p # t /\ h # t
    BY <1>1, <1>4, <1>6 DEF Table, Null
  <2>2. CASE k = Size
    <3>1. l.next[t] = Null
      BY <1>1, <1>4, <2>2
    <3>2. /\ m = [head |-> m.head, tail |-> m.tail, prev |-> m.prev, next |-> m.next]
          /\ m.head = t /\ m.tail = p
          /\ m.next = [[l.next EXCEPT ![p] = Null] EXCEPT ![t] = h]
          /\ m.prev = [[l.prev EXCEPT ![t] = Null] EXCEPT ![h] = t]
      <4>1. l.prev[t] # Null /\ l \in Links
        BY <1>4, <2>1
      <4>2. /\ m = [head |-> m.head, tail |-> m.tail, prev |-> m.prev, next |-> m.next]
            /\ m.head = t /\ m.tail = l.prev[t]
            /\ m.next = [[l.next EXCEPT ![l.prev[t]] = Null] EXCEPT ![t] = l.head]
            /\ m.prev = [[l.prev EXCEPT ![t] = Null] EXCEPT ![l.head] = t]
        BY <3>1, <4>1, TouchFields
      <4>3. l.head = h /\ l.prev[t] = p
        BY <1>4, <2>1
      <4> HIDE DEF m, p, h, k
      <4>4. QED
        BY <4>2, <4>3
    <3> HIDE DEF m
    <3>3. /\ m.next = [u \in Table |-> IF u = t THEN h ELSE IF u = p THEN Null ELSE l.next[u]]
          /\ m.prev = [u \in Table |-> IF u = h THEN t ELSE IF u = t THEN Null ELSE l.prev[u]]
      BY <1>4, <2>1, <3>2 DEF Links
    <3>4. m \in Links
      BY <1>4, <2>1, <3>2, <3>3 DEF Links
    <3> HIDE DEF f, k
    <3>5. ASSUME NEW i \in 1 .. Size
          PROVE  /\ m.next[f[i]] = IF i = Size THEN Null ELSE f[i + 1]
                 /\ m.prev[f[i]] = IF i = 1 THEN Null ELSE f[i - 1]
      <4>1. CASE i = 1
        BY <1>1, <1>2, <1>4, <2>1, <2>2, <3>3, <4>1
      <4>2. CASE i # 1
        <5>1. f[i] = o[i - 1] /\ f[i] \in Table /\ f[i] # t
          BY <1>1, <1>2, <2>2, <4>2
        <5>2. m.next[f[i]] = IF i = Size THEN Null ELSE f[i + 1]
          <6>1. CASE i = Size
            BY <1>1, <1>2, <2>1, <2>2, <3>3, <5>1, <6>1
          <6>2. CASE i # Size
            <7>1. f[i] # p /\ f[i + 1] = o[i] /\ l.next[f[i]] = o[i]
              BY <1>1, <1>2, <1>4, <2>2, <4>2, <5>1, <6>2
            <7>2. QED
              BY <3>3, <5>1, <6>2, <7>1
          <6>3. QED
            BY <6>1, <6>2
        <5>3. m.prev[f[i]] = f[i - 1]
          BY <1>1, <1>2, <1>4, <2>1, <2>2, <3>3, <4>2, <5>1
        <5>4. QED
          BY <4>2, <5>2, <5>3
      <4>3. QED
        BY <4>1, <4>2
    <3>6. f[1] = t /\ f[Size] = p
      BY <1>1, <1>2, <1>6, <2>2
    <3>7. QED
      BY <1>3, <3>2, <3>4, <3>5, <3>6 DEF Ordered, m, f
  <2>3. CASE k # Size
    <3> DEFINE n == o[k + 1]
    <3>1. /\ l.next[t] = n /\ n \in Table /\ n # Null /\ n # t /\ n # p /\ n # h
      <4> HIDE DEF k
      <4>1. k + 1 \in 1 .. Size /\ k - 1 \in 1 .. Size
        BY <1>1, <1>6, <2>3
      <4>2. QED
        BY <1>1, <1>4, <2>3, <4>1, SMTT(20) DEF Table, Null
    <3>2. /\ m = [head |-> m.head, tail |-> m.tail, prev |-> m.prev, next |-> m.next]
          /\ m.head = t /\ m.tail = l.tail
          /\ m.next = [[l.next EXCEPT ![p] = n] EXCEPT ![t] = h]
          /\ m.prev = [[[l.prev EXCEPT ![n] = p] EXCEPT ![t] = Null] EXCEPT ![h] = t]
      <4>1. l.prev[t] # Null /\ l.next[t] # Null /\ l \in Links
        BY <1>4, <2>1, <3>1
      <4>2. /\ m = [head |-> m.head, tail |-> m.tail, prev |-> m.prev, next |-> m.next]
            /\ m.head = t /\ m.tail = l.tail
            /\ m.next = [[l.next EXCEPT ![l.prev[t]] = l.next[t]] EXCEPT ![t] = l.head]
            /\ m.prev = [[[l.prev EXCEPT ![l.next[t]] = l.prev[t]] EXCEPT ![t] = Null]
                            EXCEPT ![l.head] = t]
        <5> HIDE DEF k, f, p, h, n
        <5>1. m = [head |-> m.head, tail |-> m.tail, prev |-> m.prev, next |-> m.next]
          BY <4>1, TouchFields, ZenonT(30)
        <5>2. m.head = t /\ m.tail = l.tail
          BY <4>1, TouchFields, ZenonT(30)
        <5>3. m.next = [[l.next EXCEPT ![l.prev[t]] = l.next[t]] EXCEPT ![t] = l.head]
          BY <4>1, TouchFields, ZenonT(30)
        <5>4. m.prev = [[[l.prev EXCEPT ![l.next[t]] = l.prev[t]] EXCEPT ![t] = Null]
                            EXCEPT ![l.head] = t]
          BY <4>1, TouchFields, ZenonT(60)
        <5>5. QED
          BY <5>1, <5>2, <5>3, <5>4
      <4>3. l.head = h /\ l.prev[t] = p /\ l.next[t] = n
        BY <1>4, <2>1, <3>1
      <4> HIDE DEF m, p, n, h, k
      <4>4. QED
        BY <4>2, <4>3
    <3> HIDE DEF m
    <3>3. /\ m.next = [u \in Table |-> IF u = t THEN h ELSE IF u = p THEN n ELSE l.next[u]]
          /\ m.prev = [u \in Table |-> IF u = h THEN t ELSE IF u = t THEN Null
                                         ELSE IF u = n THEN p ELSE l.prev[u]]
      BY <1>4, <2>1, <3>1, <3>2 DEF Links
    <3>4. m \in Links
      BY <1>4, <2>1, <3>1, <3>2, <3>3 DEF Links
    <3> HIDE DEF f, k
    <3>5. ASSUME NEW i \in 1 .. Size
          PROVE  /\ m.next[f[i]] = IF i = Size THEN Null ELSE f[i + 1]
                 /\ m.prev[f[i]] = IF i = 1 THEN Null ELSE f[i - 1]
      <4>1. CASE i = 1
        BY <1>1, <1>2, <1>4, <1>6, <2>1, <3>3, <4>1
      <4>2. CASE i # 1 /\ i <= k
        <5>1. f[i] = o[i - 1] /\ f[i] \in Table /\ f[i] # t /\ f[i] # n
          BY <1>1, <1>2, <2>3, <4>2
        <5>2. m.next[f[i]] = IF i = Size THEN Null ELSE f[i + 1]
          <6>1. CASE i = k
            <7>1. f[i] = p /\ f[i + 1] = n /\ i # Size
              BY <1>1, <1>2, <2>3, <5>1, <6>1
            <7>2. QED
              BY <2>1, <3>1, <3>3, <7>1
          <6>2. CASE i # k
            <7>1. f[i] # p /\ f[i + 1] = o[i] /\ l.next[f[i]] = o[i] /\ i # Size
              BY <1>1, <1>2, <1>4, <4>2, <5>1, <6>2
            <7>2. QED
              BY <3>3, <5>1, <6>2, <7>1
          <6>3. QED
            BY <6>1, <6>2
        <5>3. m.prev[f[i]] = f[i - 1]
          BY <1>1, <1>2, <1>4, <2>1, <2>3, <3>3, <4>2, <5>1
        <5>4. QED
          BY <4>2, <5>2, <5>3
      <4>3. CASE i > k
        <5>1. f[i] = o[i] /\ f[i] \in Table /\ f[i] # t /\ f[i] # p /\ f[i] # h /\ i # 1
          BY <1>1, <1>2, <1>6, <2>3, <4>3
        <5>2. m.next[f[i]] = IF i = Size THEN Null ELSE f[i + 1]
          BY <1>1, <1>2, <1>4, <2>1, <2>3, <3>3, <4>3, <5>1
        <5>3. m.prev[f[i]] = f[i - 1]
          BY <1>1, <1>2, <1>4, <2>1, <2>3, <3>3, <4>3, <5>1
        <5>4. QED
          BY <5>1, <5>2, <5>3
      <4>4. QED
        BY <1>1, <4>1, <4>2, <4>3
    <3>6. f[1] = t /\ f[Size] = l.tail
      BY <1>1, <1>2, <1>4, <1>6, <2>3
    <3>7. QED
      BY <1>3, <3>2, <3>4, <3>5, <3>6 DEF Ordered, m, f
  <2>4. QED
    BY <2>2, <2>3
<1>7. QED
  BY <1>5, <1>6

\* lru_demote moves a table to the tail.
LEMMA DemoteOrdered ==
  ASSUME NEW l, NEW o, Ordered(l, o), NEW t \in Table
  PROVE  Ordered(lru_demote(l, t), ToBack(o, t))
<1> DEFINE k == Place(o, t)
           b == ToBack(o, t)
           m == lru_demote(l, t)
<1>1. /\ k \in 1 .. Size /\ o[k] = t /\ o \in [1 .. Size -> Table]
      /\ \A i, j \in 1 .. Size : o[i] = o[j] => i = j
  BY PlaceIs DEF Ordered, Orders
<1>2. b = [i \in 1 .. Size |-> IF i < k THEN o[i] ELSE IF i < Size THEN o[i + 1] ELSE t]
  BY DEF ToBack, Place, Lru!ToBack
<1>3. b \in Orders
  BY MovesAreOrders DEF Ordered
<1>4. /\ l \in Links /\ l.head = o[1] /\ l.tail = o[Size]
      /\ \A i \in 1 .. Size : /\ l.next[o[i]] = IF i = Size THEN Null ELSE o[i + 1]
                              /\ l.prev[o[i]] = IF i = 1 THEN Null ELSE o[i - 1]
  BY DEF Ordered
<1>5. CASE k = Size
  <2>1. b = o
    BY <1>1, <1>5, MovesOfMoves DEF Ordered
  <2>2. l.next[t] = Null
    BY <1>1, <1>4, <1>5
  <2>3. m = l
    BY <2>2 DEF lru_demote
  <2>4. QED
    BY <2>1, <2>3
<1>6. CASE k # Size
  <2> DEFINE n == o[k + 1]
             g == o[Size]
             p == IF k = 1 THEN Null ELSE o[k - 1]
  <2>1. /\ l.next[t] = n /\ n \in Table /\ n # Null /\ g \in Table /\ n # t /\ g # t
        /\ l.prev[t] = p /\ p \in Table \union {Null} /\ p # t /\ p # g
    <3> HIDE DEF k
    <3>1. k + 1 \in 1 .. Size /\ (k # 1 => k - 1 \in 1 .. Size)
      BY <1>1, <1>6
    <3>2. QED
      BY <1>1, <1>4, <1>6, <3>1 DEF Table, Null
  <2>2. /\ m = [head |-> m.head, tail |-> m.tail, prev |-> m.prev, next |-> m.next]
        /\ m.tail = t /\ m.head = IF p = Null THEN n ELSE o[1]
        /\ m.prev = [[l.prev EXCEPT ![n] = p] EXCEPT ![t] = g]
        /\ p = Null => m.next = [[l.next EXCEPT ![t] = Null] EXCEPT ![g] = t]
        /\ p # Null => m.next = [[[l.next EXCEPT ![p] = n] EXCEPT ![t] = Null]
                                  EXCEPT ![g] = t]
    <3>1. l.next[t] # Null /\ l \in Links /\ l.tail = g /\ l.head = o[1]
      BY <1>4, <2>1
    <3> HIDE DEF k, b, n, g, p
    <3>2. m = [head |-> m.head, tail |-> m.tail, prev |-> m.prev, next |-> m.next]
      BY <3>1, DemoteIsList
    <3>3. m.tail = t /\ m.head = IF l.prev[t] = Null THEN l.next[t] ELSE l.head
      BY <3>1, DemoteFields, ZenonT(30)
    <3>4. m.prev = [[l.prev EXCEPT ![l.next[t]] = l.prev[t]] EXCEPT ![t] = l.tail]
      BY <3>1, DemoteFields
    <3>5. l.prev[t] = Null =>
            m.next = [[l.next EXCEPT ![t] = Null] EXCEPT ![l.tail] = t]
      BY <3>1, DemoteFields
    <3>6. l.prev[t] # Null =>
            m.next = [[[l.next EXCEPT ![l.prev[t]] = l.next[t]] EXCEPT ![t] = Null]
                        EXCEPT ![l.tail] = t]
      BY <3>1, DemoteFields
    <3> HIDE DEF m
    <3>7. QED
      BY <2>1, <3>1, <3>2, <3>3, <3>4, <3>5, <3>6
  <2> HIDE DEF m
  <2>3. /\ m.next = [u \in Table |-> IF u = g THEN t ELSE IF u = t THEN Null
                                     ELSE IF u = p THEN n ELSE l.next[u]]
        /\ m.prev = [u \in Table |-> IF u = t THEN g ELSE IF u = n THEN p ELSE l.prev[u]]
    <3> HIDE DEF k, b, n, g, p
    <3>1. Null \notin Table
      BY DEF Null, Table
    <3>2. QED
      BY <1>4, <2>1, <2>2, <3>1 DEF Links
  <2>4. m \in Links
    <3> HIDE DEF k, b, n, g, p
    <3>1. m.head \in Table
      BY <1>1, <2>1, <2>2
    <3>2. QED
      BY <1>4, <2>1, <2>2, <2>3, <3>1 DEF Links
  <2> HIDE DEF k, b
  <2>5. ASSUME NEW i \in 1 .. Size
        PROVE  /\ m.next[b[i]] = IF i = Size THEN Null ELSE b[i + 1]
               /\ m.prev[b[i]] = IF i = 1 THEN Null ELSE b[i - 1]
    <3>1. CASE i = Size
      <4>1. b[i] = t /\ b[i - 1] = g /\ i # 1
        BY <1>1, <1>2, <1>6, <3>1
      <4>2. QED
        BY <2>1, <2>3, <3>1, <4>1
    <3>2. CASE i < k
      <4>1. b[i] = o[i] /\ o[i] \in Table /\ o[i] # t /\ o[i] # g /\ o[i] # n /\ i # Size
        BY <1>1, <1>2, <1>6, <3>2
      <4>2. m.prev[b[i]] = IF i = 1 THEN Null ELSE b[i - 1]
        BY <1>1, <1>2, <1>4, <2>3, <3>2, <4>1
      <4>3. m.next[b[i]] = b[i + 1]
        <5>1. CASE i + 1 = k
          <6>1. o[i] = p /\ b[i + 1] = n
            BY <1>1, <1>2, <1>6, <5>1
          <6>2. QED
            BY <2>3, <4>1, <6>1
        <5>2. CASE i + 1 # k
          <6>1. b[i + 1] = o[i + 1] /\ o[i] # p /\ l.next[o[i]] = o[i + 1]
            BY <1>1, <1>2, <1>4, <3>2, <4>1, <5>2 DEF Null, Table
          <6>2. QED
            BY <2>3, <4>1, <6>1
        <5>3. QED
          BY <5>1, <5>2
      <4>4. QED
        BY <4>1, <4>2, <4>3
    <3>3. CASE k <= i /\ i < Size
      <4>1. b[i] = o[i + 1] /\ o[i + 1] \in Table /\ o[i + 1] # t /\ o[i + 1] # p
        BY <1>1, <1>2, <3>3 DEF Null, Table
      <4>2. m.next[b[i]] = b[i + 1]
        <5>1. CASE i + 1 = Size
          BY <1>1, <1>2, <2>3, <4>1, <5>1
        <5>2. CASE i + 1 # Size
          <6>1. b[i + 1] = o[i + 2] /\ o[i + 1] # g /\ l.next[o[i + 1]] = o[i + 2]
            BY <1>1, <1>2, <1>4, <3>3, <5>2
          <6>2. QED
            BY <2>3, <4>1, <6>1
        <5>3. QED
          BY <5>1, <5>2
      <4>3. m.prev[b[i]] = IF i = 1 THEN Null ELSE b[i - 1]
        <5>1. CASE i = k
          <6>1. b[i] = n /\ (i # 1 => b[i - 1] = o[i - 1])
            BY <1>1, <1>2, <4>1, <5>1
          <6>2. QED
            BY <2>1, <2>3, <5>1, <6>1
        <5>2. CASE i # k
          <6>1. i # 1 /\ b[i - 1] = o[i] /\ o[i + 1] # n /\ l.prev[o[i + 1]] = o[i]
            BY <1>1, <1>2, <1>4, <1>6, <3>3, <5>2
          <6>2. QED
            BY <2>3, <4>1, <6>1
        <5>3. QED
          BY <5>1, <5>2
      <4>4. QED
        BY <3>3, <4>2, <4>3
    <3>4. QED
      BY <1>1, <3>1, <3>2, <3>3
  <2>6. b[1] = m.head /\ b[Size] = t
    <3>1. p = Null <=> k = 1
      BY <1>1 DEF Null, Table
    <3>2. QED
      BY <1>1, <1>2, <1>6, <2>2, <3>1
  <2>7. QED
    BY <1>3, <2>2, <2>4, <2>5, <2>6 DEF Ordered, m, b
<1>7. QED
  BY <1>5, <1>6

-----------------------------------------------------------------------------
(* A table.                                                                 *)

Slot == [seqno : Nat, hash : Names \union {NoHash}, dent : Pointers \union {NoPointer}]

TableRec ==
  [seqno : Nat, inum : Dirs \union {0}, capacity : 0 .. Limit, data : [Places -> Slot]]

\* The places with entries of the generation of the table.
InUse(table) == {s \in Places : table.data[s].seqno = table.seqno}

\* No entry is of a later generation, and those of this one are counted and
\* point to an entry of a directory.
TabOK(table) ==
  /\ table \in TableRec
  /\ \A s \in Places : table.data[s].seqno <= table.seqno
  /\ table.inum # 0 => /\ Cardinality(InUse(table)) <= table.capacity
                       /\ \A s \in InUse(table) : table.data[s].dent # NoPointer

\* The j-th place that probing for n comes to.
At(n, j) == (Index[n] + j) % TableSize

\* Probing for n ends at an entry with its hash that points to p.
Holds(table, n, p) ==
  \E j \in Places :
    /\ table.data[At(n, j)] = [seqno |-> table.seqno, hash |-> n, dent |-> p]
    /\ \A i \in Places : i < j =>
         LET e == table.data[At(n, i)]
         IN  e.seqno = table.seqno /\ e.hash # n /\ e.dent # NoPointer

\* Probing comes to every place, and to each place once.
LEMMA ProbeCovers ==
  ASSUME NEW n \in Names
  PROVE  /\ \A j \in Places : At(n, j) \in Places
         /\ \A s \in Places : \E j \in Places : At(n, j) = s
         /\ \A i, j \in Places : At(n, i) = At(n, j) => i = j
<1>1. TableSize \in Nat /\ Index[n] \in 0 .. TableSize - 1
  BY DirhashAssumption
<1>2. ASSUME NEW j \in Places
      PROVE  /\ Index[n] + j < TableSize => At(n, j) = Index[n] + j
             /\ Index[n] + j >= TableSize => At(n, j) = Index[n] + j - TableSize
  <2>1. PICK a \in Nat : a = Index[n] + j /\ a < 2 * TableSize
    BY <1>1 DEF Places
  <2>2. /\ a < TableSize => a % TableSize = a
        /\ a >= TableSize => a % TableSize = a - TableSize
    BY <1>1, <2>1
  <2>3. At(n, j) = a % TableSize
    BY <2>1 DEF At
  <2>4. /\ a < TableSize => At(n, j) = a
        /\ a >= TableSize => At(n, j) = a - TableSize
    BY <2>2, <2>3, Zenon
  <2>5. j \in Nat /\ Index[n] \in Nat
    BY <1>1 DEF Places
  <2>6. QED
    BY <1>1, <2>1, <2>4, <2>5
<1>3. ASSUME NEW s \in Places PROVE \E j \in Places : At(n, j) = s
  <2> DEFINE j == IF Index[n] <= s THEN s - Index[n] ELSE s - Index[n] + TableSize
  <2>1. j \in Places
    BY <1>1 DEF Places
  <2>2. At(n, j) = s
    BY <1>1, <1>2, <2>1 DEF Places
  <2>3. QED
    BY <2>1, <2>2
<1>4. \A j \in Places : At(n, j) \in Places
  BY <1>1, <1>2 DEF Places
<1>5. \A i, j \in Places : At(n, i) = At(n, j) => i = j
  BY <1>1, <1>2 DEF Places
<1>6. QED
  BY <1>3, <1>4, <1>5

\* The probing loops end at the first place that stops them.
LEMMA ProbeIs ==
  ASSUME NEW n \in Names, NEW stops \in SUBSET Places, stops # {}
  PROVE  \E j \in Places : /\ Probe(n, stops) = At(n, j) /\ At(n, j) \in stops
                           /\ \A i \in Places : i < j => At(n, i) \notin stops
<1> DEFINE T == {j \in Places : At(n, j) \in stops}
<1>1. T # {}
  BY ProbeCovers
<1>2. Places \in SUBSET Nat
  BY DirhashAssumption DEF Places
<1>3. PICK x \in T : \A y \in T : x <= y
  <2>1. T \in SUBSET Nat
    BY <1>2
  <2> HIDE DEF T
  <2>2. QED
    BY <1>1, <2>1, NatMinimum
<1>4. Min(T) \in T /\ \A y \in T : Min(T) <= y
  <2> HIDE DEF T
  <2>1. QED
    BY <1>3 DEF Min
<1>5. Probe(n, stops) = At(n, Min(T))
  BY DEF Probe, At
<1>6. ASSUME NEW i \in Places, i < Min(T) PROVE At(n, i) \notin stops
  <2>1. i \in Nat /\ Min(T) \in Nat
    BY <1>2, <1>4
  <2>2. i \notin T
    BY <1>4, <1>6, <2>1
  <2>3. QED
    BY <2>2
<1>7. QED
  BY <1>4, <1>5, <1>6

\* A table that is not full has a place where put_dentry ends.
LEMMA RoomLeft ==
  ASSUME NEW table, TabOK(table), table.inum # 0
  PROVE  /\ \E s \in Places : table.data[s].seqno # table.seqno
         /\ IsFiniteSet(InUse(table))
<1>1. Limit \in Nat /\ TableSize \in Nat /\ Limit < TableSize
  BY DirhashAssumption
<1>2. IsFiniteSet(Places) /\ Cardinality(Places) = TableSize
  <2>1. Cardinality(0 .. TableSize - 1) = TableSize /\ IsFiniteSet(0 .. TableSize - 1)
    BY <1>1, FS_Interval
  <2>2. QED
    BY <2>1 DEF Places
<1>3. InUse(table) # Places
  BY <1>1, <1>2 DEF TabOK, TableRec
<1>4. IsFiniteSet(InUse(table))
  BY <1>2, FS_Subset DEF InUse
<1>5. QED
  BY <1>3, <1>4 DEF InUse

\* The table with an entry for name n put where probing ends.
Stops(table, n) == {s \in Places : table.data[s].seqno # table.seqno \/ table.data[s].hash = n}

NewEntry(table, n, p) == [seqno |-> table.seqno, hash |-> n, dent |-> p]

Put(table, n, p) ==
  [table EXCEPT !.data[Probe(n, Stops(table, n))] = NewEntry(table, n, p), !.capacity = @ + 1]

LEMMA PutFields ==
  ASSUME NEW table \in TableRec, NEW n, NEW p
  PROVE  /\ Put(table, n, p).seqno = table.seqno /\ Put(table, n, p).inum = table.inum
         /\ Put(table, n, p).capacity = table.capacity + 1
         /\ Put(table, n, p).data =
              [table.data EXCEPT ![Probe(n, Stops(table, n))] = NewEntry(table, n, p)]
         /\ Put(table, n, p) =
              [seqno |-> table.seqno, inum |-> table.inum, capacity |-> table.capacity + 1,
               data |-> Put(table, n, p).data]
<1> DEFINE at == Probe(n, Stops(table, n))
           entry == NewEntry(table, n, p)
<1> HIDE DEF at, entry
<1>1. Put(table, n, p) = [table EXCEPT !.data[at] = entry, !.capacity = @ + 1]
  BY DEF Put, at, entry
<1>2. /\ Put(table, n, p).seqno = table.seqno /\ Put(table, n, p).inum = table.inum
      /\ Put(table, n, p).capacity = table.capacity + 1
  BY <1>1 DEF TableRec
<1>3. Put(table, n, p).data = [table.data EXCEPT ![at] = entry]
  BY <1>1 DEF TableRec
<1>4. Put(table, n, p) = [seqno |-> Put(table, n, p).seqno, inum |-> Put(table, n, p).inum,
                          capacity |-> Put(table, n, p).capacity,
                          data |-> Put(table, n, p).data]
  BY <1>1 DEF TableRec
<1>5. QED
  BY <1>2, <1>3, <1>4 DEF at, entry

LEMMA PutScalars ==
  ASSUME NEW table \in TableRec, NEW n, NEW p
  PROVE  /\ Put(table, n, p).seqno = table.seqno /\ Put(table, n, p).inum = table.inum
         /\ Put(table, n, p).capacity = table.capacity + 1
<1> DEFINE at == Probe(n, Stops(table, n))
           entry == NewEntry(table, n, p)
<1> HIDE DEF at, entry
<1>1. Put(table, n, p) = [table EXCEPT !.data[at] = entry, !.capacity = @ + 1]
  BY DEF Put, at, entry
<1>2. QED
  BY <1>1 DEF TableRec

\* put_dentry keeps the entries of the other names where probing finds them.
LEMMA PutKeeps ==
  ASSUME NEW table, TabOK(table), table.inum # 0, ~ Full(table),
         NEW n \in Names, NEW p \in Pointers
  PROVE  /\ TabOK(Put(table, n, p))
         /\ Holds(Put(table, n, p), n, p)
         /\ \A m \in Names \ {n}, q \in Pointers :
               Holds(table, m, q) => Holds(Put(table, n, p), m, q)
<1> DEFINE after == Put(table, n, p)
           entry == NewEntry(table, n, p)
           stops == Stops(table, n)
           at == Probe(n, stops)
<1>1. table \in TableRec /\ TableSize \in Nat /\ Limit \in Nat /\ p # NoPointer
  BY DirhashAssumption DEF TabOK, Pointers, NoPointer
<1>2. stops \in SUBSET Places /\ stops # {}
  BY RoomLeft DEF Stops
<1>3. PICK j \in Places : /\ at = At(n, j) /\ at \in stops
                         /\ \A i \in Places : i < j => At(n, i) \notin stops
  <2> HIDE DEF stops
  <2>1. QED
    BY <1>2, ProbeIs
<1>4. /\ after.seqno = table.seqno /\ after.inum = table.inum
      /\ after.capacity = table.capacity + 1
      /\ after.data = [table.data EXCEPT ![at] = entry]
      /\ after = [seqno |-> table.seqno, inum |-> table.inum,
                  capacity |-> table.capacity + 1, data |-> after.data]
  BY <1>1, PutFields
<1> HIDE DEF after, at
<1>5. entry \in Slot /\ entry.seqno = table.seqno /\ entry.hash = n /\ entry.dent = p
  BY <1>1 DEF TableRec, Slot, NewEntry
<1>6. at \in Places
  BY <1>2, <1>3
<1> HIDE DEF stops, entry
<1>7. \A s \in Places : after.data[s] = IF s = at THEN entry ELSE table.data[s]
  BY <1>1, <1>4, <1>6 DEF TableRec
<1>8. after \in TableRec
  <2>1. after.data \in [Places -> Slot]
    BY <1>1, <1>4, <1>5, <1>6 DEF TableRec
  <2>2. table.capacity + 1 \in 0 .. Limit
    BY <1>1 DEF TableRec, Full
  <2>3. QED
    BY <1>1, <1>4, <2>1, <2>2 DEF TableRec
<1>9. TabOK(after)
  <2>1. \A s \in Places : after.data[s].seqno <= after.seqno
    BY <1>1, <1>4, <1>5, <1>7 DEF TabOK, TableRec
  <2>2. \A s \in InUse(after) : after.data[s].dent # NoPointer
    BY <1>1, <1>4, <1>5, <1>7 DEF TabOK, InUse
  <2>3. Cardinality(InUse(after)) <= after.capacity
    <3>1. InUse(after) = InUse(table) \union {at}
      BY <1>4, <1>5, <1>6, <1>7 DEF InUse
    <3>2. IsFiniteSet(InUse(table)) /\ Cardinality(InUse(table)) <= table.capacity
      BY RoomLeft DEF TabOK
    <3>3. Cardinality(InUse(table)) \in Nat /\ table.capacity \in Nat
      BY <1>1, <3>2, FS_CardinalityType DEF TableRec
    <3>4. Cardinality(InUse(after)) <= Cardinality(InUse(table)) + 1
      <4>1. Cardinality(InUse(table) \union {at}) =
              IF at \in InUse(table) THEN Cardinality(InUse(table))
              ELSE Cardinality(InUse(table)) + 1
        BY <3>2, FS_AddElement
      <4>2. QED
        BY <3>1, <3>3, <4>1
    <3>5. IsFiniteSet(InUse(after)) /\ Cardinality(InUse(after)) \in Nat
      BY <3>1, <3>2, FS_AddElement, FS_CardinalityType
    <3>6. QED
      BY <1>4, <3>2, <3>3, <3>4, <3>5
  <2>4. QED
    BY <1>8, <2>1, <2>2, <2>3 DEF TabOK
<1>10. Holds(after, n, p)
  <2>1. after.data[At(n, j)] = [seqno |-> after.seqno, hash |-> n, dent |-> p]
    BY <1>3, <1>4, <1>6, <1>7 DEF entry, NewEntry
  <2>2. ASSUME NEW i \in Places, i < j
        PROVE  /\ after.data[At(n, i)].seqno = after.seqno
               /\ after.data[At(n, i)].hash # n
               /\ after.data[At(n, i)].dent # NoPointer
    <3>1. At(n, i) \in Places /\ At(n, i) \notin stops /\ At(n, i) # at
      BY <1>3, <2>2, ProbeCovers
    <3>2. table.data[At(n, i)].seqno = table.seqno /\ table.data[At(n, i)].hash # n
      BY <3>1 DEF stops, Stops
    <3>3. table.data[At(n, i)].dent # NoPointer
      BY <3>1, <3>2 DEF TabOK, InUse
    <3>4. QED
      BY <1>4, <1>7, <3>1, <3>2, <3>3
  <2>3. QED
    BY <2>1, <2>2 DEF Holds
<1>11. ASSUME NEW m \in Names \ {n}, NEW q \in Pointers, Holds(table, m, q)
       PROVE  Holds(after, m, q)
  <2>1. PICK k \in Places :
          /\ table.data[At(m, k)] = [seqno |-> table.seqno, hash |-> m, dent |-> q]
          /\ \A i \in Places : i < k =>
               /\ table.data[At(m, i)].seqno = table.seqno
               /\ table.data[At(m, i)].hash # m
               /\ table.data[At(m, i)].dent # NoPointer
    BY <1>11 DEF Holds
  <2>2. \A i \in Places : At(m, i) \in Places
    BY ProbeCovers
  <2>3. At(m, k) # at
    BY <1>3, <2>1, <2>2 DEF stops, Stops
  <2>4. after.data[At(m, k)] = [seqno |-> after.seqno, hash |-> m, dent |-> q]
    BY <1>4, <1>7, <2>1, <2>2, <2>3
  <2>5. ASSUME NEW i \in Places, i < k
        PROVE  /\ after.data[At(m, i)].seqno = after.seqno
               /\ after.data[At(m, i)].hash # m
               /\ after.data[At(m, i)].dent # NoPointer
    BY <1>1, <1>4, <1>5, <1>7, <2>1, <2>2, <2>5
  <2>6. QED
    BY <2>4, <2>5 DEF Holds
<1>12. QED
  BY <1>9, <1>10, <1>11 DEF after

-----------------------------------------------------------------------------
(* put_dentry and put_directory.                                            *)

Blocks == {s \in Seq(Entry) : Len(s) <= Slots}

DirRec == [mode : {"inline", "hashed", "regular"}, seqno : Nat, id : Table, ents : Blocks]

States == [tab : [Table -> TableRec], lru : Links, dir : [Dirs -> DirRec]]

NameOf(w, p) == w.dir[p.dir].ents[p.k].name

LEMMA PutDentryOk ==
  ASSUME NEW w, NEW t, NEW p
  PROVE  put_dentry(w, t, p).ok = ~ Full(w.tab[t])
<1>1. CASE Full(w.tab[t])
  BY <1>1 DEF put_dentry
<1>2. CASE ~ Full(w.tab[t])
  BY <1>2 DEF put_dentry
<1>3. QED
  BY <1>1, <1>2

LEMMA PutDentryFields ==
  ASSUME NEW w \in States, NEW t \in Table, NEW p,
         NEW done, done = put_dentry(w, t, p)
  PROVE  /\ done.ok = ~ Full(w.tab[t])
         /\ done.w.dir = w.dir
         /\ Full(w.tab[t]) => done.w.tab = w.tab /\ done.w.lru = lru_demote(w.lru, t)
         /\ ~ Full(w.tab[t]) =>
              /\ done.w.lru = lru_touch(w.lru, t)
              /\ done.w.tab = [w.tab EXCEPT ![t] = Put(w.tab[t], NameOf(w, p), p)]
         /\ done.w = [tab |-> done.w.tab, lru |-> done.w.lru, dir |-> done.w.dir]
<1> DEFINE n == NameOf(w, p)
           table == w.tab[t]
           at == Probe(n, Stops(table, n))
           entry == NewEntry(table, n, p)
           low == lru_demote(w.lru, t)
           high == lru_touch(w.lru, t)
           full == [w EXCEPT !.lru = low]
           put == [w EXCEPT !.tab[t].data[at] = entry, !.tab[t].capacity = @ + 1, !.lru = high]
<1>1. done = IF Full(table) THEN [ok |-> FALSE, w |-> full] ELSE [ok |-> TRUE, w |-> put]
  BY DEF put_dentry, Stops, NewEntry, NameOf
<1>2. Put(table, n, p) = [table EXCEPT !.data[at] = entry, !.capacity = @ + 1]
  BY DEF Put
<1> HIDE DEF at, entry, low, high, n
<1>3. full = [tab |-> w.tab, lru |-> low, dir |-> w.dir]
  BY DEF States
<1>4. put = [w EXCEPT !.tab[t].data[at] = entry, !.tab[t].capacity = @ + 1, !.lru = high]
  OBVIOUS
<1> HIDE DEF full, put
<1>5. put.lru = high /\ put.dir = w.dir
      /\ put.tab = [w.tab EXCEPT ![t].data[at] = entry, ![t].capacity = @ + 1]
  BY <1>4 DEF States
<1>6. put = [tab |-> put.tab, lru |-> put.lru, dir |-> put.dir]
  BY <1>4 DEF States
<1>7. put.tab = [w.tab EXCEPT ![t] = Put(table, n, p)]
  BY <1>2, <1>5 DEF States
<1> HIDE DEF table
<1>8. CASE Full(table)
  <2>1. done.ok = FALSE /\ done.w = full
    BY <1>1, <1>8
  <2>2. done.w.tab = w.tab /\ done.w.lru = low /\ done.w.dir = w.dir
    BY <1>3, <2>1
  <2>3. QED
    BY <1>3, <1>8, <2>1, <2>2 DEF table, low
<1>9. CASE ~ Full(table)
  <2>1. done.ok = TRUE /\ done.w = put
    BY <1>1, <1>9
  <2>2. QED
    BY <1>5, <1>6, <1>7, <1>9, <2>1 DEF table, high, n
<1>10. QED
  BY <1>8, <1>9

LEMMA PutDentryFull ==
  ASSUME NEW w \in States, NEW t \in Table, NEW p, Full(w.tab[t]),
         NEW done, done = put_dentry(w, t, p)
  PROVE  /\ done.w.dir = w.dir /\ done.w.lru = lru_demote(w.lru, t) /\ done.w.tab = w.tab
         /\ done.w = [tab |-> done.w.tab, lru |-> done.w.lru, dir |-> done.w.dir]
<1> DEFINE low == lru_demote(w.lru, t)
<1>1. done.w = [w EXCEPT !.lru = low]
  BY DEF put_dentry
<1> HIDE DEF low
<1>2. done.w = [tab |-> w.tab, lru |-> low, dir |-> w.dir]
  BY <1>1 DEF States
<1>3. QED
  BY <1>2 DEF low

LEMMA DisableFields ==
  ASSUME NEW w \in States, NEW d \in Dirs, NEW v, v = disable(w, d)
  PROVE  /\ v.tab = w.tab /\ v.lru = w.lru
         /\ v.dir \in [Dirs -> DirRec]
         /\ \A e \in Dirs \ {d} : v.dir[e] = w.dir[e]
         /\ v.dir[d].mode = "regular" /\ v.dir[d].id = 0 /\ v.dir[d].seqno = 0
         /\ v.dir[d].ents = w.dir[d].ents
         /\ v = [tab |-> v.tab, lru |-> v.lru, dir |-> v.dir]
<1> DEFINE rec == [mode |-> "regular", seqno |-> 0, id |-> 0, ents |-> w.dir[d].ents]
<1>1. v = [w EXCEPT !.dir[d].mode = "regular", !.dir[d].id = 0, !.dir[d].seqno = 0]
  BY DEF disable
<1>2. v.tab = w.tab /\ v.lru = w.lru /\ v = [tab |-> v.tab, lru |-> v.lru, dir |-> v.dir]
  BY <1>1 DEF States
<1>3. v.dir = [w.dir EXCEPT ![d].mode = "regular", ![d].id = 0, ![d].seqno = 0]
  BY <1>1 DEF States
<1>4. DOMAIN v.dir = Dirs /\ v.dir = [e \in Dirs |-> v.dir[e]]
  BY <1>3 DEF States
<1>5. \A e \in Dirs \ {d} : v.dir[e] = w.dir[e]
  BY <1>3 DEF States
<1>6. v.dir[d] = [w.dir[d] EXCEPT !.mode = "regular", !.id = 0, !.seqno = 0]
  BY <1>3 DEF States
<1>7. v.dir[d] = rec
  <2> DEFINE r == w.dir[d]
  <2>1. r \in DirRec
    BY DEF States
  <2>2. v.dir[d] = [r EXCEPT !.mode = "regular", !.id = 0, !.seqno = 0]
    BY <1>6
  <2> HIDE DEF r
  <2>3. v.dir[d] = [mode |-> "regular", seqno |-> 0, id |-> 0, ents |-> r.ents]
    BY <2>1, <2>2 DEF DirRec
  <2>4. QED
    BY <2>3 DEF r
<1>8. rec \in DirRec
  BY DEF States, DirRec, Table
<1>9. \A e \in Dirs : v.dir[e] \in DirRec
  BY <1>5, <1>7, <1>8 DEF States
<1>10. v.dir \in [Dirs -> DirRec]
  BY <1>4, <1>9
<1>11. QED
  BY <1>2, <1>5, <1>7, <1>10

\* The entries in use, up to the k-th.
LiveTo(ents, k) == {j \in 1 .. k : ents[j].live}

LEMMA LiveToNext ==
  ASSUME NEW ents, NEW k \in Nat
  PROVE  /\ Cardinality(LiveTo(ents, k)) \in Nat
         /\ ents[k + 1].live => /\ LiveTo(ents, k + 1) = LiveTo(ents, k) \union {k + 1}
                                /\ Cardinality(LiveTo(ents, k + 1)) =
                                     Cardinality(LiveTo(ents, k)) + 1
         /\ ~ ents[k + 1].live => LiveTo(ents, k + 1) = LiveTo(ents, k)
<1>1. IsFiniteSet(LiveTo(ents, k)) /\ Cardinality(LiveTo(ents, k)) \in Nat
  <2>1. IsFiniteSet(1 .. k)
    BY FS_Interval
  <2>2. IsFiniteSet(LiveTo(ents, k))
    BY <2>1, FS_Subset DEF LiveTo
  <2>3. QED
    BY <2>2, FS_CardinalityType
<1>2. ASSUME ents[k + 1].live PROVE LiveTo(ents, k + 1) = LiveTo(ents, k) \union {k + 1}
  BY <1>2 DEF LiveTo
<1>3. ASSUME ~ ents[k + 1].live PROVE LiveTo(ents, k + 1) = LiveTo(ents, k)
  BY <1>3 DEF LiveTo
<1>4. Cardinality(LiveTo(ents, k) \union {k + 1}) = Cardinality(LiveTo(ents, k)) + 1
  <2>1. k + 1 \notin LiveTo(ents, k)
    BY DEF LiveTo
  <2>2. QED
    BY <1>1, <2>1, FS_AddElement
<1>5. QED
  BY <1>1, <1>2, <1>3, <1>4

\* No two entries in use have the same name.
Distinct(ents) ==
  \A i, j \in DOMAIN ents :
    ents[i].live /\ ents[j].live /\ ents[i].name = ents[j].name => i = j

Ptr(d, k) == [dir |-> d, k |-> k]

\* The loop of put_directory after k entries: all of those in use are in the
\* table, or the directory was disabled because they are too many.
InTable(v, w, t, d, o, k) ==
  /\ v.dir[d] = w.dir[d] /\ Ordered(v.lru, ToFront(o, t))
  /\ v.tab[t].capacity = Cardinality(LiveTo(w.dir[d].ents, k))
  /\ \A j \in LiveTo(w.dir[d].ents, k) :
       Holds(v.tab[t], w.dir[d].ents[j].name, Ptr(d, j))

Outgrown(v, w, t, d, o, k) ==
  /\ v.dir[d].mode = "regular" /\ v.dir[d].id = 0 /\ v.dir[d].seqno = 0
  /\ Ordered(v.lru, ToBack(o, t))
  /\ Full(v.tab[t]) /\ Cardinality(LiveTo(w.dir[d].ents, k)) > Limit

Loading(v, w, t, d, o, k) ==
  /\ v \in States
  /\ \A u \in Table \ {t} : v.tab[u] = w.tab[u]
  /\ TabOK(v.tab[t]) /\ v.tab[t].inum = d /\ v.tab[t].seqno = w.tab[t].seqno
  /\ \A e \in Dirs \ {d} : v.dir[e] = w.dir[e]
  /\ v.dir[d].ents = w.dir[d].ents
  /\ InTable(v, w, t, d, o, k) \/ Outgrown(v, w, t, d, o, k)

\* put_directory for one entry.
PutNext(v, ents, t, d, k) ==
  LET done == put_dentry(v, t, [dir |-> d, k |-> k])
  IN  IF ~ ents[k].live THEN v
      ELSE IF done.ok THEN done.w ELSE disable(done.w, d)

LEMMA LoadingStep ==
  ASSUME NEW w \in States, NEW v, NEW t \in Table, NEW d \in Dirs, NEW o \in Orders,
         NEW k \in Nat, k + 1 \in DOMAIN w.dir[d].ents, Distinct(w.dir[d].ents),
         Loading(v, w, t, d, o, k)
  PROVE  Loading(PutNext(v, w.dir[d].ents, t, d, k + 1), w, t, d, o, k + 1)
<1> DEFINE ents == w.dir[d].ents
           p == Ptr(d, k + 1)
           n == ents[k + 1].name
           done == put_dentry(v, t, p)
           next == PutNext(v, ents, t, d, k + 1)
<1>1. /\ v \in States /\ TabOK(v.tab[t]) /\ v.tab[t].inum = d
      /\ v.dir[d].ents = ents
      /\ NameOf(v, p) = n
  BY DEF Loading, NameOf, Ptr
<1>2. /\ ents \in Seq(Entry) /\ Len(ents) <= Slots /\ k + 1 \in 1 .. Slots
      /\ n \in Names /\ ents[k + 1] \in Entry
  <2>1. ents \in Seq(Entry) /\ Len(ents) <= Slots
    BY DEF States, DirRec, Blocks
  <2>2. ents[k + 1] \in Entry /\ k + 1 \in 1 .. Len(ents)
    BY <2>1
  <2>3. Slots \in Nat /\ Len(ents) \in Nat
    BY <2>1, DirhashAssumption
  <2>4. QED
    BY <2>1, <2>2, <2>3 DEF Entry
<1>3. p \in Pointers /\ d # 0 /\ Limit \in Nat
  BY <1>2, DirhashAssumption DEF Pointers, Ptr
<1>4. /\ Cardinality(LiveTo(ents, k)) \in Nat
      /\ ents[k + 1].live => /\ LiveTo(ents, k + 1) = LiveTo(ents, k) \union {k + 1}
                             /\ Cardinality(LiveTo(ents, k + 1)) =
                                  Cardinality(LiveTo(ents, k)) + 1
      /\ ~ ents[k + 1].live => LiveTo(ents, k + 1) = LiveTo(ents, k)
  BY LiveToNext
<1>5. CASE ~ ents[k + 1].live
  <2>1. next = v
    BY <1>5 DEF PutNext
  <2>2. LiveTo(ents, k + 1) = LiveTo(ents, k)
    BY <1>4, <1>5
  <2>3. QED
    BY <2>1, <2>2 DEF Loading, InTable, Outgrown
<1>6. CASE ents[k + 1].live /\ ~ Full(v.tab[t])
  <2>1. next = done.w
    <3>1. done.ok = ~ Full(v.tab[t])
      BY PutDentryOk
    <3> HIDE DEF done
    <3>2. next = IF ~ ents[k + 1].live THEN v
                 ELSE IF done.ok THEN done.w ELSE disable(done.w, d)
      BY DEF PutNext, Ptr, done
    <3> HIDE DEF next, ents
    <3>3. ents[k + 1].live /\ ~ Full(v.tab[t])
      BY <1>6 DEF ents
    <3>4. QED
      BY <3>1, <3>2, <3>3
  <2>2. /\ next.dir = v.dir /\ next.lru = lru_touch(v.lru, t)
        /\ next.tab = [v.tab EXCEPT ![t] = Put(v.tab[t], n, p)]
        /\ next = [tab |-> next.tab, lru |-> next.lru, dir |-> next.dir]
    <3> HIDE DEF p, n, done
    <3>1. QED
      BY <1>1, <1>6, <2>1, PutDentryFields DEF done
  <2>3. InTable(v, w, t, d, o, k)
    BY <1>6 DEF Loading, Outgrown
  <2> HIDE DEF next, done, p, n, ents
  <2>4. /\ TabOK(Put(v.tab[t], n, p)) /\ Holds(Put(v.tab[t], n, p), n, p)
        /\ \A m \in Names \ {n}, q \in Pointers :
              Holds(v.tab[t], m, q) => Holds(Put(v.tab[t], n, p), m, q)
    BY <1>1, <1>2, <1>3, <1>6, PutKeeps
  <2>5. /\ Put(v.tab[t], n, p).seqno = v.tab[t].seqno
        /\ Put(v.tab[t], n, p).inum = v.tab[t].inum
        /\ Put(v.tab[t], n, p).capacity = v.tab[t].capacity + 1
    <3>1. v.tab[t] \in TableRec
      BY <1>1 DEF TabOK
    <3>2. QED
      BY <3>1, PutScalars
  <2>6. next.tab[t] = Put(v.tab[t], n, p) /\ \A u \in Table \ {t} : next.tab[u] = v.tab[u]
    BY <1>1, <2>2 DEF States
  <2>7. Ordered(next.lru, ToFront(o, t))
    <3>1. Ordered(next.lru, ToFront(ToFront(o, t), t))
      BY <2>2, <2>3, TouchOrdered DEF InTable
    <3>2. QED
      BY <3>1, MovesOfMoves
  <2>8. next \in States
    <3>1. next.tab \in [Table -> TableRec]
      BY <1>1, <2>2, <2>4 DEF States, TabOK
    <3>2. QED
      BY <1>1, <2>2, <2>7, <3>1 DEF States, Ordered
  <2>9. next.tab[t].capacity = Cardinality(LiveTo(ents, k + 1))
    BY <1>4, <1>6, <2>3, <2>5, <2>6 DEF InTable, ents
  <2>10. ASSUME NEW j \in LiveTo(ents, k + 1)
         PROVE  Holds(next.tab[t], ents[j].name, Ptr(d, j))
    <3>1. CASE j = k + 1
      BY <2>4, <2>6, <3>1 DEF p, n
    <3>2. CASE j \in LiveTo(ents, k) /\ j # k + 1
      <4>1. Holds(v.tab[t], ents[j].name, Ptr(d, j))
        <5>1. \A i \in LiveTo(ents, k) : Holds(v.tab[t], ents[i].name, Ptr(d, i))
          BY <2>3 DEF InTable, ents
        <5> HIDE DEF ents
        <5>2. QED
          BY <3>2, <5>1
      <4>2. j \in 1 .. Len(ents) /\ j \in 1 .. Slots /\ ents[j].live
        <5>1. k + 1 \in 1 .. Len(ents) /\ Len(ents) \in Nat /\ Slots \in Nat
          <6>1. ents \in Seq(Entry) /\ k + 1 \in DOMAIN ents
            BY <1>2 DEF ents
          <6> HIDE DEF ents
          <6>2. QED
            BY <6>1, DirhashAssumption
        <5>2. j \in 1 .. k /\ ents[j].live
          BY <3>2 DEF LiveTo
        <5>3. QED
          BY <1>2, <5>1, <5>2
      <4>3. ents[j].name \in Names /\ Ptr(d, j) \in Pointers
        <5>1. ents[j] \in Entry
          BY <1>2, <4>2
        <5>2. QED
          BY <4>2, <5>1 DEF Entry, Ptr, Pointers
      <4>4. ents[j].name # n
        BY <1>2, <1>6, <3>2, <4>2 DEF Distinct, ents, n
      <4>5. QED
        BY <2>4, <2>6, <4>1, <4>3, <4>4
    <3>3. QED
      BY <1>4, <1>6, <3>1, <3>2
  <2>11. InTable(next, w, t, d, o, k + 1)
    BY <2>2, <2>3, <2>7, <2>9, <2>10 DEF InTable, ents
  <2>12. QED
    BY <1>1, <2>2, <2>4, <2>5, <2>6, <2>8, <2>11 DEF Loading, next, ents
<1>7. CASE ents[k + 1].live /\ Full(v.tab[t])
  <2>1. next = disable(done.w, d)
    <3>1. done.ok = ~ Full(v.tab[t])
      BY PutDentryOk
    <3> HIDE DEF done
    <3>2. next = IF ~ ents[k + 1].live THEN v
                 ELSE IF done.ok THEN done.w ELSE disable(done.w, d)
      BY DEF PutNext, Ptr, done
    <3> HIDE DEF next, ents
    <3>3. ents[k + 1].live /\ Full(v.tab[t])
      BY <1>7 DEF ents
    <3>4. QED
      BY <3>1, <3>2, <3>3
  <2>2. /\ done.w.dir = v.dir /\ done.w.lru = lru_demote(v.lru, t) /\ done.w.tab = v.tab
        /\ done.w = [tab |-> done.w.tab, lru |-> done.w.lru, dir |-> done.w.dir]
    <3>1. done = put_dentry(v, t, p) /\ v \in States /\ Full(v.tab[t])
      BY <1>1, <1>7
    <3> HIDE DEF p, n, done
    <3>2. QED
      BY <3>1, PutDentryFull
  <2> HIDE DEF next, done, p, n, ents
  <2>3. Ordered(done.w.lru, ToBack(o, t))
    <3>1. CASE InTable(v, w, t, d, o, k)
      <4>1. Ordered(done.w.lru, ToBack(ToFront(o, t), t))
        BY <2>2, <3>1, DemoteOrdered DEF InTable
      <4>2. QED
        BY <4>1, MovesOfMoves
    <3>2. CASE Outgrown(v, w, t, d, o, k)
      <4>1. Ordered(done.w.lru, ToBack(ToBack(o, t), t))
        BY <2>2, <3>2, DemoteOrdered DEF Outgrown
      <4>2. QED
        BY <4>1, MovesOfMoves
    <3>3. QED
      BY <3>1, <3>2 DEF Loading
  <2>4. done.w \in States
    BY <1>1, <2>2, <2>3 DEF States, Ordered
  <2>5. /\ next.tab = v.tab /\ next.lru = done.w.lru /\ next.dir \in [Dirs -> DirRec]
        /\ \A e \in Dirs \ {d} : next.dir[e] = v.dir[e]
        /\ next.dir[d].mode = "regular" /\ next.dir[d].id = 0 /\ next.dir[d].seqno = 0
        /\ next.dir[d].ents = v.dir[d].ents
        /\ next = [tab |-> next.tab, lru |-> next.lru, dir |-> next.dir]
    BY <2>1, <2>2, <2>4, DisableFields
  <2>6. next \in States
    BY <1>1, <2>3, <2>5 DEF States, Ordered
  <2>7. Cardinality(LiveTo(ents, k + 1)) > Limit
    <3>1. Cardinality(LiveTo(ents, k)) >= Limit
      BY <1>3, <1>4, <1>7 DEF Loading, InTable, Outgrown, Full, ents
    <3>2. QED
      BY <1>3, <1>4, <1>7, <3>1
  <2>8. Outgrown(next, w, t, d, o, k + 1)
    BY <1>7, <2>3, <2>5, <2>7 DEF Outgrown, ents
  <2>9. QED
    BY <1>1, <2>5, <2>6, <2>8 DEF Loading, next, ents
<1>8. QED
  BY <1>5, <1>6, <1>7

\* The loop has been through all the entries in the end.
LEMMA PutDirectoryLoads ==
  ASSUME NEW w \in States, NEW t \in Table, NEW d \in Dirs, NEW o \in Orders,
         Distinct(w.dir[d].ents), Loading(w, w, t, d, o, 0)
  PROVE  Loading(put_directory(w, t, d), w, t, d, o, Len(w.dir[d].ents))
<1> DEFINE ents == w.dir[d].ents
           Walk(f, n) ==
             [k \in 0 .. n |-> IF k = 0 THEN w ELSE PutNext(f[k - 1], ents, t, d, k)]
           after == CHOOSE f : f = Walk(f, Len(ents))
           T == {n \in Nat : \E f : f = Walk(f, n)}
<1>1. Len(ents) \in Nat /\ DOMAIN ents = 1 .. Len(ents)
  <2>1. ents \in Seq(Entry)
    BY DEF States, DirRec, Blocks
  <2>2. QED
    BY <2>1
<1>2. put_directory(w, t, d) = after[Len(ents)]
  BY DEF put_directory, PutNext
<1>3. Nat \subseteq T
  <2>1. 0 \in T
    <3>1. [k \in 0 .. 0 |-> w] = Walk([k \in 0 .. 0 |-> w], 0)
      OBVIOUS
    <3>2. QED
      BY <3>1
  <2>2. ASSUME NEW n \in Nat, n \in T PROVE n + 1 \in T
    <3>1. PICK f : f = Walk(f, n)
      BY <2>2
    <3> DEFINE g == [k \in 0 .. n + 1 |->
                       IF k = n + 1 THEN PutNext(f[n], ents, t, d, n + 1) ELSE f[k]]
    <3>2. ASSUME NEW k \in 0 .. n + 1
          PROVE  g[k] = IF k = 0 THEN w ELSE PutNext(g[k - 1], ents, t, d, k)
      <4>1. CASE k = n + 1
        <5>1. k # 0 /\ k - 1 = n /\ g[n] = f[n] /\ g[k] = PutNext(f[n], ents, t, d, k)
          BY <4>1
        <5>2. QED
          BY <5>1
      <4>2. CASE k = 0
        <5>1. g[0] = f[0] /\ f[0] = w
          BY <3>1
        <5>2. QED
          BY <4>2, <5>1
      <4>3. CASE k # n + 1 /\ k # 0
        <5>1. k \in 0 .. n /\ k - 1 \in 0 .. n + 1 /\ k - 1 # n + 1
          BY <4>3
        <5>2. g[k] = f[k] /\ g[k - 1] = f[k - 1]
          BY <4>3, <5>1
        <5>3. f[k] = PutNext(f[k - 1], ents, t, d, k)
          <6> HIDE DEF g
          <6>1. f[k] = Walk(f, n)[k]
            BY <3>1
          <6>2. QED
            BY <4>3, <5>1, <6>1
        <5> HIDE DEF g
        <5>4. QED
          BY <4>3, <5>2, <5>3
      <4>4. QED
        BY <4>1, <4>2, <4>3
    <3>3. g = Walk(g, n + 1)
      <4>1. g = [k \in 0 .. n + 1 |-> g[k]]
        OBVIOUS
      <4> HIDE DEF g
      <4>2. QED
        BY <3>2, <4>1
    <3> HIDE DEF Walk, g
    <3>4. QED
      BY <3>3
  <2> HIDE DEF T
  <2>3. QED
    BY <2>1, <2>2, NatSetInduction
<1>4. after = Walk(after, Len(ents))
  <2>1. \E f : f = Walk(f, Len(ents))
    BY <1>1, <1>3
  <2> HIDE DEF Walk
  <2>2. QED
    BY <2>1
<1> HIDE DEF after, T
<1>5. after[0] = w
  BY <1>1, <1>4
<1>6. ASSUME NEW k \in 1 .. Len(ents) PROVE after[k] = PutNext(after[k - 1], ents, t, d, k)
  BY <1>1, <1>4
<1> DEFINE L == {k \in Nat : k <= Len(ents) => Loading(after[k], w, t, d, o, k)}
<1>7. 0 \in L
  BY <1>5
<1>8. ASSUME NEW k \in Nat, k \in L PROVE k + 1 \in L
  <2>1. SUFFICES ASSUME k + 1 <= Len(ents)
                 PROVE  Loading(after[k + 1], w, t, d, o, k + 1)
    OBVIOUS
  <2>2. Loading(after[k], w, t, d, o, k) /\ k + 1 \in 1 .. Len(ents) /\ (k + 1) - 1 = k
    BY <1>1, <1>8, <2>1
  <2>3. after[k + 1] = PutNext(after[k], ents, t, d, k + 1)
    BY <1>6, <2>2
  <2>4. k + 1 \in DOMAIN w.dir[d].ents
    BY <1>1, <2>2
  <2>5. QED
    BY <2>2, <2>3, <2>4, LoadingStep
<1>9. Nat \subseteq L
  <2> HIDE DEF L
  <2>1. QED
    BY <1>7, <1>8, NatSetInduction
<1>10. Loading(after[Len(ents)], w, t, d, o, Len(ents))
  BY <1>1, <1>9
<1>11. QED
  BY <1>2, <1>10

-----------------------------------------------------------------------------
(* dir_alloc_table.                                                         *)

LiveOf(ents) == {k \in DOMAIN ents : ents[k].live}

Stored(w, d, t) ==
  \A k \in LiveOf(w.dir[d].ents) : Holds(w.tab[t], w.dir[d].ents[k].name, Ptr(d, k))

\* A hashed directory has no more entries in use than a table may hold, and
\* the table it would find by its id has them all.
HashedOK(w, d) ==
  w.dir[d].mode = "hashed" =>
    /\ Cardinality(LiveOf(w.dir[d].ents)) <= Limit
    /\ Cached(w, d) =>
         /\ Cardinality(LiveOf(w.dir[d].ents)) <= w.tab[w.dir[d].id].capacity
         /\ Stored(w, d, w.dir[d].id)

\* The tables in the order o; a generation that a directory remembers was one
\* of a table before this mount or in it.
Sound(w, o) ==
  /\ w \in States /\ Ordered(w.lru, o)
  /\ \A t \in Table : TabOK(w.tab[t])
  /\ \A d \in Dirs : /\ Distinct(w.dir[d].ents)
                     /\ \/ w.dir[d].seqno <= MaxSeq
                        \/ \E t \in Table : w.dir[d].seqno <= w.tab[t].seqno

LEMMA LiveOfIsLiveTo ==
  ASSUME NEW ents \in Blocks
  PROVE  /\ LiveOf(ents) = LiveTo(ents, Len(ents))
         /\ IsFiniteSet(LiveOf(ents)) /\ Cardinality(LiveOf(ents)) \in Nat
<1>1. Len(ents) \in Nat /\ DOMAIN ents = 1 .. Len(ents)
  BY DEF Blocks
<1>2. LiveOf(ents) = LiveTo(ents, Len(ents))
  BY <1>1 DEF LiveOf, LiveTo
<1>3. IsFiniteSet(LiveOf(ents))
  <2>1. IsFiniteSet(1 .. Len(ents))
    BY <1>1, FS_Interval
  <2>2. QED
    BY <1>1, <2>1, FS_Subset DEF LiveOf
<1>4. QED
  BY <1>2, <1>3, FS_CardinalityType

\* The table that dir_alloc_table loads: of a new generation, and d's.
Refreshed(table, d) == [dt_refresh(table) EXCEPT !.inum = d]

LEMMA DtRefreshIs ==
  ASSUME NEW table \in TableRec
  PROVE  dt_refresh(table) = [seqno |-> table.seqno + 1, inum |-> 0, capacity |-> 0,
                              data |-> table.data]
<1>1. PICK r : r = [table EXCEPT !.capacity = 0, !.seqno = @ + 1, !.inum = 0]
  OBVIOUS
<1>2. r.seqno = table.seqno + 1 /\ r.inum = 0 /\ r.capacity = 0 /\ r.data = table.data
  BY <1>1 DEF TableRec
<1>3. r = [seqno |-> r.seqno, inum |-> r.inum, capacity |-> r.capacity, data |-> r.data]
  BY <1>1 DEF TableRec
<1>4. r = dt_refresh(table)
  BY <1>1 DEF dt_refresh
<1>5. QED
  BY <1>2, <1>3, <1>4

LEMMA RefreshedFields ==
  ASSUME NEW table, TabOK(table), NEW d \in Dirs
  PROVE  /\ Refreshed(table, d) = [seqno |-> table.seqno + 1, inum |-> d, capacity |-> 0,
                                   data |-> table.data]
         /\ TabOK(Refreshed(table, d))
<1> DEFINE r == Refreshed(table, d)
<1>1. table \in TableRec /\ Limit \in Nat
  BY DirhashAssumption DEF TabOK
<1>2. r = [seqno |-> table.seqno + 1, inum |-> d, capacity |-> 0, data |-> table.data]
  <2>1. dt_refresh(table) = [seqno |-> table.seqno + 1, inum |-> 0, capacity |-> 0,
                             data |-> table.data]
    BY <1>1, DtRefreshIs
  <2>2. QED
    BY <2>1 DEF Refreshed
<1>3. r \in TableRec
  BY <1>1, <1>2 DEF TableRec
<1>4. \A s \in Places : r.data[s].seqno <= table.seqno
  BY <1>2 DEF TabOK
<1>5. table.seqno \in Nat /\ \A s \in Places : r.data[s].seqno \in Nat
  BY <1>1, <1>2 DEF TableRec, Slot
<1>6. InUse(r) = {}
  BY <1>2, <1>4, <1>5 DEF InUse
<1> HIDE DEF r
<1>7. \A s \in Places : r.data[s].seqno <= r.seqno
  BY <1>2, <1>4, <1>5
<1>8. Cardinality(InUse(r)) <= r.capacity
  BY <1>2, <1>6, FS_EmptySet
<1>9. TabOK(r)
  BY <1>3, <1>6, <1>7, <1>8 DEF TabOK
<1>10. QED
  BY <1>2, <1>9 DEF r

FreshFor(w, d) ==
  LET last == lru_get_last(w.lru)
      table == Refreshed(w.tab[last.t], d)
  IN  [w EXCEPT !.lru = last.lru, !.tab[last.t] = table,
                !.dir[d].seqno = table.seqno, !.dir[d].id = last.t]

LEMMA FreshFields ==
  ASSUME NEW w, NEW o, Sound(w, o), NEW d \in Dirs, NEW v, v = FreshFor(w, d)
  PROVE  /\ v \in States
         /\ Ordered(v.lru, ToFront(o, o[Size]))
         /\ v.tab[o[Size]] = Refreshed(w.tab[o[Size]], d)
         /\ \A u \in Table \ {o[Size]} : v.tab[u] = w.tab[u]
         /\ \A e \in Dirs \ {d} : v.dir[e] = w.dir[e]
         /\ v.dir[d].ents = w.dir[d].ents /\ v.dir[d].mode = w.dir[d].mode
         /\ v.dir[d].id = o[Size] /\ v.dir[d].seqno = w.tab[o[Size]].seqno + 1
<1> DEFINE t == o[Size]
           table == Refreshed(w.tab[t], d)
           high == lru_touch(w.lru, t)
<1>1. /\ w \in States /\ w.lru.tail = t /\ t \in Table /\ o \in Orders
      /\ TabOK(w.tab[t])
  BY DEF Sound, Ordered, Orders
<1>2. v = [w EXCEPT !.lru = high, !.tab[t] = table, !.dir[d].seqno = table.seqno,
                    !.dir[d].id = t]
  BY <1>1 DEF FreshFor, lru_get_last
<1>3. table = [seqno |-> w.tab[t].seqno + 1, inum |-> d, capacity |-> 0,
               data |-> w.tab[t].data] /\ TabOK(table)
  BY <1>1, RefreshedFields
<1>4. Ordered(high, ToFront(o, t))
  BY <1>1, TouchOrdered DEF Sound
<1> HIDE DEF t, table, high
<1>5. v.lru = high /\ v.tab = [w.tab EXCEPT ![t] = table]
      /\ v = [tab |-> v.tab, lru |-> v.lru, dir |-> v.dir]
  BY <1>1, <1>2 DEF States
<1>6. v.dir = [w.dir EXCEPT ![d].seqno = table.seqno, ![d].id = t]
  BY <1>1, <1>2 DEF States
<1>7. DOMAIN v.dir = Dirs /\ v.dir = [e \in Dirs |-> v.dir[e]]
  BY <1>1, <1>6 DEF States
<1>8. \A e \in Dirs \ {d} : v.dir[e] = w.dir[e]
  BY <1>1, <1>6 DEF States
<1>9. v.dir[d] = [w.dir[d] EXCEPT !.seqno = table.seqno, !.id = t]
  BY <1>1, <1>6 DEF States
<1>10. v.dir[d] = [mode |-> w.dir[d].mode, seqno |-> table.seqno, id |-> t,
                   ents |-> w.dir[d].ents]
  <2> DEFINE r == w.dir[d]
  <2>1. r \in DirRec
    BY <1>1 DEF States
  <2>2. v.dir[d] = [r EXCEPT !.seqno = table.seqno, !.id = t]
    BY <1>9
  <2> HIDE DEF r
  <2>3. v.dir[d] = [mode |-> r.mode, seqno |-> table.seqno, id |-> t, ents |-> r.ents]
    BY <2>1, <2>2 DEF DirRec
  <2>4. QED
    BY <2>3 DEF r
<1>11. v.dir[d] \in DirRec
  BY <1>1, <1>3, <1>10 DEF States, DirRec, TabOK, TableRec
<1>12. v.dir \in [Dirs -> DirRec]
  BY <1>1, <1>7, <1>8, <1>11 DEF States
<1>13. v.tab \in [Table -> TableRec]
  BY <1>1, <1>3, <1>5 DEF States, TabOK
<1>14. v \in States
  BY <1>4, <1>5, <1>12, <1>13 DEF States, Ordered
<1>15. v.tab[t] = table /\ \A u \in Table \ {t} : v.tab[u] = w.tab[u]
  <2>1. w.tab \in [Table -> TableRec] /\ t \in Table
    BY <1>1 DEF States
  <2>2. v.tab = [w.tab EXCEPT ![t] = table]
    BY <1>5
  <2>3. QED
    BY <2>1, <2>2
<1>16. /\ v.dir[d].ents = w.dir[d].ents /\ v.dir[d].mode = w.dir[d].mode
       /\ v.dir[d].id = t /\ v.dir[d].seqno = table.seqno
  BY <1>10
<1>17. table.seqno = w.tab[t].seqno + 1
  BY <1>3
<1>18. Ordered(v.lru, ToFront(o, t))
  BY <1>4, <1>5
<1>19. QED
  BY <1>8, <1>14, <1>15, <1>16, <1>17, <1>18 DEF t, table

\* What loading a table for d makes of the state.
Loads(w, v, t, d, o) ==
  /\ t = o[Size] /\ t \in Table
  /\ Sound(v, o) \/ Sound(v, ToFront(o, t))
  /\ \A e \in Dirs : v.dir[e].ents = w.dir[e].ents /\ HashedOK(v, e)
  /\ \A e \in Dirs \ {d} : v.dir[e] = w.dir[e]
  /\ \A u \in Table : v.tab[u].inum = IF u = t THEN d ELSE w.tab[u].inum
  /\ Cardinality(LiveOf(w.dir[d].ents)) <= Limit =>
       /\ Sound(v, ToFront(o, t))
       /\ v.dir[d].mode = "hashed" /\ v.dir[d].id = t
       /\ v.dir[d].seqno = v.tab[t].seqno
       /\ Stored(v, d, t)

LEMMA AllocTable ==
  ASSUME NEW w, NEW o, Sound(w, o), NEW d \in Dirs, w.dir[d].mode = "hashed",
         \A e \in Dirs \ {d} : HashedOK(w, e),
         NEW a, a = dir_alloc_table(w, d)
  PROVE  Loads(w, a.w, a.t, d, o)
<1> DEFINE t == o[Size]
           g == FreshFor(w, d)
           v == put_directory(g, t, d)
           ents == w.dir[d].ents
<1>1. /\ w \in States /\ t \in Table /\ o \in Orders /\ w.lru.tail = t
      /\ TabOK(w.tab[t]) /\ ents \in Blocks /\ Limit \in Nat /\ d # 0
  <2>1. w \in States /\ o \in Orders /\ w.lru.tail = t
    BY DEF Sound, Ordered
  <2>2. t \in Table
    BY <2>1 DEF Orders
  <2>3. TabOK(w.tab[t])
    BY <2>2 DEF Sound
  <2>4. ents \in Blocks
    BY <2>1 DEF States, DirRec
  <2>5. QED
    BY <2>1, <2>2, <2>3, <2>4, DirhashAssumption
<1>2. a.t = t /\ a.w = v
  BY <1>1 DEF dir_alloc_table, FreshFor, lru_get_last, Refreshed
<1>3. /\ g \in States /\ Ordered(g.lru, ToFront(o, t))
      /\ g.tab[t] = Refreshed(w.tab[t], d)
      /\ \A u \in Table \ {t} : g.tab[u] = w.tab[u]
      /\ \A e \in Dirs \ {d} : g.dir[e] = w.dir[e]
      /\ g.dir[d].ents = ents /\ g.dir[d].mode = "hashed"
      /\ g.dir[d].id = t /\ g.dir[d].seqno = w.tab[t].seqno + 1
  <2> HIDE DEF g
  <2>1. g = FreshFor(w, d)
    BY DEF g
  <2>2. QED
    BY <2>1, FreshFields
<1>4. Refreshed(w.tab[t], d) = [seqno |-> w.tab[t].seqno + 1, inum |-> d, capacity |-> 0,
                                data |-> w.tab[t].data]
      /\ TabOK(Refreshed(w.tab[t], d))
  BY <1>1, RefreshedFields
<1>5. g.tab[t] = Refreshed(w.tab[t], d) /\ \A u \in Table \ {t} : g.tab[u] = w.tab[u]
  BY <1>3
<1> HIDE DEF g
<1>6. Loading(g, g, t, d, o, 0)
  <2>1. LiveTo(g.dir[d].ents, 0) = {}
    BY DEF LiveTo
  <2>2. InTable(g, g, t, d, o, 0)
    <3>1. Cardinality({}) = 0
      BY FS_EmptySet
    <3>2. g.tab[t].capacity = 0
      BY <1>4, <1>5
    <3>3. QED
      BY <1>3, <2>1, <3>1, <3>2 DEF InTable
  <2>3. QED
    BY <1>3, <1>4, <1>5, <2>2 DEF Loading
<1>7. Loading(v, g, t, d, o, Len(ents))
  <2>1. Distinct(ents)
    BY DEF Sound
  <2>2. QED
    BY <1>1, <1>3, <1>6, <2>1, PutDirectoryLoads
<1> HIDE DEF v
<1>8. LiveOf(ents) = LiveTo(ents, Len(ents)) /\ Cardinality(LiveOf(ents)) \in Nat
  BY <1>1, LiveOfIsLiveTo
<1> DEFINE In == InTable(v, g, t, d, o, Len(ents))
           Out == Outgrown(v, g, t, d, o, Len(ents))
<1>9. In \/ Out
  BY <1>7 DEF Loading
<1>10. In => /\ v.dir[d] = g.dir[d] /\ Ordered(v.lru, ToFront(o, t))
             /\ v.tab[t].capacity = Cardinality(LiveOf(ents))
             /\ Stored(v, d, t)
  BY <1>3, <1>8 DEF InTable, Stored
<1>11. Out => /\ v.dir[d].mode = "regular" /\ v.dir[d].seqno = 0
              /\ Ordered(v.lru, o) /\ Cardinality(LiveOf(ents)) > Limit
  <2>1. ToBack(o, t) = o
    BY <1>1, MovesOfMoves
  <2>2. QED
    BY <1>3, <1>8, <2>1 DEF Outgrown
<1> HIDE DEF In, Out
<1>12. /\ v \in States /\ v.dir[d].ents = ents
       /\ \A u \in Table \ {t} : v.tab[u] = w.tab[u]
       /\ TabOK(v.tab[t]) /\ v.tab[t].inum = d
       /\ v.tab[t].seqno = w.tab[t].seqno + 1
       /\ \A e \in Dirs \ {d} : v.dir[e] = w.dir[e]
  BY <1>3, <1>4, <1>5, <1>7 DEF Loading
<1>13. ASSUME NEW b, Ordered(v.lru, b) PROVE Sound(v, b)
  <2>1. \A u \in Table : TabOK(v.tab[u])
    BY <1>12 DEF Sound
  <2>2. \A e \in Dirs : Distinct(v.dir[e].ents)
    BY <1>12 DEF Sound
  <2>3. ASSUME NEW e \in Dirs
        PROVE  \/ v.dir[e].seqno <= MaxSeq
               \/ \E u \in Table : v.dir[e].seqno <= v.tab[u].seqno
    <3>1. CASE e = d
      <4>1. v.dir[d].seqno = 0 \/ v.dir[d].seqno = v.tab[t].seqno
        BY <1>3, <1>9, <1>10, <1>11, <1>12
      <4>2. MaxSeq \in Nat /\ v.tab[t].seqno \in Nat
        BY <1>1, <1>12, DirhashAssumption DEF TabOK, TableRec
      <4>3. QED
        BY <1>1, <3>1, <4>1, <4>2
    <3>2. CASE e # d
      <4>1. v.dir[e].seqno = w.dir[e].seqno /\ w.dir[e].seqno \in Nat
        BY <1>1, <1>12, <3>2 DEF States, DirRec
      <4>2. CASE w.dir[e].seqno <= MaxSeq
        BY <4>1, <4>2
      <4>3. CASE \E u \in Table : w.dir[e].seqno <= w.tab[u].seqno
        <5>1. PICK u \in Table : w.dir[e].seqno <= w.tab[u].seqno
          BY <4>3
        <5>2. w.tab[u].seqno \in Nat /\ v.tab[u].seqno \in Nat
              /\ w.tab[u].seqno <= v.tab[u].seqno
          <6>1. w.tab[u].seqno \in Nat
            BY <1>1 DEF States, TableRec
          <6>2. QED
            BY <1>12, <6>1
        <5>3. v.dir[e].seqno <= v.tab[u].seqno
          BY <4>1, <5>1, <5>2
        <5>4. QED
          BY <5>3
      <4>4. QED
        BY <4>2, <4>3 DEF Sound
    <3>3. QED
      BY <3>1, <3>2
  <2>4. QED
    BY <1>12, <1>13, <2>1, <2>2, <2>3 DEF Sound
<1>14. Sound(v, o) \/ Sound(v, ToFront(o, t))
  BY <1>9, <1>10, <1>11, <1>13
<1>15. ASSUME NEW e \in Dirs PROVE HashedOK(v, e)
  <2>1. CASE e = d
    <3>1. CASE Out
      BY <1>11, <2>1, <3>1 DEF HashedOK
    <3>2. CASE In
      <4>1. v.tab[t].capacity <= Limit
        BY <1>12, DirhashAssumption DEF TabOK, TableRec
      <4>2. v.dir[d].id = t /\ Cardinality(LiveOf(ents)) = v.tab[t].capacity
        BY <1>3, <1>10, <3>2
      <4>3. Cardinality(LiveOf(ents)) <= Limit
            /\ Cardinality(LiveOf(ents)) <= v.tab[t].capacity
        BY <1>8, <4>1, <4>2
      <4>4. QED
        BY <1>10, <1>12, <2>1, <3>2, <4>2, <4>3 DEF HashedOK
    <3>3. QED
      BY <1>9, <3>1, <3>2
  <2>2. CASE e # d
    <3>1. v.dir[e] = w.dir[e] /\ w.dir[e].id \in Table
      BY <1>1, <1>12, <2>2 DEF States, DirRec
    <3>2. CASE w.dir[e].id = t
      <4>1. ~ Cached(v, e)
        BY <1>12, <2>2, <3>1, <3>2 DEF Cached
      <4>2. QED
        BY <2>2, <3>1, <4>1 DEF HashedOK
    <3>3. CASE w.dir[e].id # t
      <4>1. v.tab[w.dir[e].id] = w.tab[w.dir[e].id]
        BY <1>12, <3>1, <3>3
      <4>2. Cached(v, e) = Cached(w, e)
            /\ Stored(v, e, w.dir[e].id) = Stored(w, e, w.dir[e].id)
        BY <3>1, <4>1 DEF Cached, Stored
      <4>3. HashedOK(w, e)
        BY <2>2
      <4>4. QED
        BY <3>1, <4>1, <4>2, <4>3 DEF HashedOK
    <3>4. QED
      BY <3>2, <3>3
  <2>3. QED
    BY <2>1, <2>2
<1>16. \A u \in Table : v.tab[u].inum = IF u = t THEN d ELSE w.tab[u].inum
  BY <1>12
<1>17. ASSUME Cardinality(LiveOf(ents)) <= Limit
       PROVE  /\ Sound(v, ToFront(o, t))
              /\ v.dir[d].mode = "hashed" /\ v.dir[d].id = t
              /\ v.dir[d].seqno = v.tab[t].seqno /\ Stored(v, d, t)
  <2>1. In
    BY <1>1, <1>8, <1>9, <1>11, <1>17
  <2>2. QED
    BY <1>3, <1>10, <1>12, <1>13, <2>1
<1>18. QED
  <2>1. \A e \in Dirs : v.dir[e].ents = w.dir[e].ents
    BY <1>12
  <2>2. QED
    BY <1>1, <1>2, <1>12, <1>14, <1>15, <1>16, <1>17, <2>1 DEF Loads, t, ents

-----------------------------------------------------------------------------
(* Lookups.                                                                 *)

\* Other links of the list are all that a state differs in.
LEMMA SameButList ==
  ASSUME NEW w, NEW o, Sound(w, o), NEW v, NEW b, Ordered(v.lru, b),
         v.tab = w.tab, v.dir = w.dir, v = [tab |-> v.tab, lru |-> v.lru, dir |-> v.dir]
  PROVE  /\ Sound(v, b)
         /\ \A d \in Dirs : HashedOK(w, d) => HashedOK(v, d)
         /\ \A d \in Dirs, t \in Table : Stored(w, d, t) => Stored(v, d, t)
<1>1. v \in States
  BY DEF Sound, States, Ordered
<1>2. Sound(v, b)
  BY <1>1 DEF Sound
<1>3. \A d \in Dirs : HashedOK(w, d) => HashedOK(v, d)
  BY DEF HashedOK, Cached, Stored
<1>4. QED
  BY <1>2, <1>3 DEF Stored

LEMMA Touched ==
  ASSUME NEW w, NEW o, Sound(w, o), NEW t \in Table,
         NEW v, v = [w EXCEPT !.lru = lru_touch(@, t)]
  PROVE  /\ v.tab = w.tab /\ v.dir = w.dir
         /\ Sound(v, ToFront(o, t))
         /\ \A d \in Dirs : HashedOK(w, d) => HashedOK(v, d)
         /\ \A d \in Dirs, u \in Table : Stored(w, d, u) => Stored(v, d, u)
<1> DEFINE high == lru_touch(w.lru, t)
<1>1. Ordered(high, ToFront(o, t)) /\ w \in States
  BY TouchOrdered DEF Sound
<1>2. v = [w EXCEPT !.lru = high]
  OBVIOUS
<1> HIDE DEF high
<1>3. /\ v.tab = w.tab /\ v.dir = w.dir /\ v.lru = high
      /\ v = [tab |-> v.tab, lru |-> v.lru, dir |-> v.dir]
  BY <1>1, <1>2 DEF States
<1>4. Ordered(v.lru, ToFront(o, t))
  BY <1>1, <1>3
<1> HIDE DEF Stored
<1>5. QED
  BY <1>3, <1>4, SameButList

\* do_lookup ends at the entry, if the table holds it.
LEMMA LookupInTable ==
  ASSUME NEW w, NEW o, Sound(w, o), NEW t \in Table, w.tab[t].inum # 0, NEW n \in Names,
         NEW r, r = do_lookup(w, t, n)
  PROVE  /\ r.w = [w EXCEPT !.lru = lru_touch(@, t)] /\ r.t = t
         /\ r.at # Null => r.at \in Places
         /\ \A p \in Pointers : Holds(w.tab[t], n, p) =>
               r.at # Null /\ w.tab[t].data[r.at].dent = p
<1> DEFINE table == w.tab[t]
           stops == {s \in Places : \/ table.data[s].seqno # table.seqno
                                    \/ table.data[s].hash = n
                                    \/ table.data[s].dent = NoPointer}
           at == Probe(n, stops)
<1>1. r = [w |-> [w EXCEPT !.lru = lru_touch(@, t)], t |-> t,
           at |-> IF table.data[at].hash = n THEN at ELSE Null]
  BY DEF do_lookup
<1>2. TabOK(table) /\ table.inum # 0
  BY DEF Sound
<1>3. stops # {} /\ stops \in SUBSET Places
  BY <1>2, RoomLeft
<1>4. PICK j \in Places : /\ at = At(n, j) /\ At(n, j) \in stops
                         /\ \A i \in Places : i < j => At(n, i) \notin stops
  <2> HIDE DEF stops
  <2>1. QED
    BY <1>3, ProbeIs
<1>5. at \in Places
  BY <1>3, <1>4
<1>6. ASSUME NEW p \in Pointers, Holds(table, n, p)
      PROVE  table.data[at].hash = n /\ table.data[at].dent = p
  <2>1. PICK k \in Places :
          /\ table.data[At(n, k)] = [seqno |-> table.seqno, hash |-> n, dent |-> p]
          /\ \A i \in Places : i < k =>
               /\ table.data[At(n, i)].seqno = table.seqno
               /\ table.data[At(n, i)].hash # n
               /\ table.data[At(n, i)].dent # NoPointer
    BY <1>6 DEF Holds
  <2>2. At(n, k) \in stops
    BY <2>1, ProbeCovers
  <2>3. \A i \in Places : i < k => At(n, i) \notin stops
    BY <2>1
  <2> HIDE DEF stops
  <2>4. j \in Int /\ k \in Int
    BY DirhashAssumption DEF Places
  <2>5. k = j
    BY <1>4, <2>2, <2>3, <2>4
  <2>6. QED
    BY <1>4, <2>1, <2>5
<1> HIDE DEF at, stops
<1>7. at # Null
  BY <1>5, DirhashAssumption DEF Places, Null
<1>8. QED
  BY <1>1, <1>5, <1>6, <1>7

LEMMA HashedOKLimit ==
  ASSUME NEW w, NEW d \in Dirs, HashedOK(w, d), w.dir[d].mode = "hashed"
  PROVE  Cardinality(LiveOf(w.dir[d].ents)) <= Limit
  BY DEF HashedOK

\* Looking up in a hashed directory touches its table, or loads one.
LEMMA DirhashLookup ==
  ASSUME NEW w, NEW o, Sound(w, o), \A e \in Dirs : HashedOK(w, e),
         NEW d \in Dirs, w.dir[d].mode = "hashed", NEW n \in Names,
         NEW r, r = hfs_dirhash_lookup(w, d, n)
  PROVE  /\ r.t \in Table /\ Stored(r.w, d, r.t)
         /\ Sound(r.w, ToFront(o, r.t)) /\ \A e \in Dirs : HashedOK(r.w, e)
         /\ Cached(w, d) => r.t = w.dir[d].id /\ r.w.tab = w.tab /\ r.w.dir = w.dir
         /\ ~ Cached(w, d) => Loads(w, r.w, r.t, d, o)
         /\ r.at # Null => r.at \in Places
         /\ \A p \in Pointers : Holds(r.w.tab[r.t], n, p) =>
               r.at # Null /\ r.w.tab[r.t].data[r.at].dent = p
<1>1. w \in States /\ w.dir[d].id \in Table /\ d # 0 /\ o \in Orders
  BY DirhashAssumption DEF Sound, States, DirRec, Ordered
<1>2. CASE Cached(w, d)
  <2> DEFINE t == w.dir[d].id
  <2>1. r = do_lookup(w, t, n)
    BY <1>2 DEF hfs_dirhash_lookup
  <2>2. w.tab[t].inum # 0 /\ Stored(w, d, t)
    BY <1>1, <1>2 DEF Cached, HashedOK
  <2> HIDE DEF t
  <2>3. t \in Table
    BY <1>1 DEF t
  <2>4. /\ r.w = [w EXCEPT !.lru = lru_touch(@, t)] /\ r.t = t
        /\ r.at # Null => r.at \in Places
        /\ \A p \in Pointers : Holds(w.tab[t], n, p) =>
              r.at # Null /\ w.tab[t].data[r.at].dent = p
    BY <2>1, <2>2, <2>3, LookupInTable
  <2>5. /\ r.w.tab = w.tab /\ r.w.dir = w.dir /\ Sound(r.w, ToFront(o, t))
        /\ \A e \in Dirs : HashedOK(r.w, e)
        /\ Stored(r.w, d, t)
    BY <2>2, <2>3, <2>4, Touched
  <2>6. QED
    BY <1>2, <2>3, <2>4, <2>5 DEF t
<1>3. CASE ~ Cached(w, d)
  <2> DEFINE a == dir_alloc_table(w, d)
             v == a.w
             t == a.t
  <2>1. r = do_lookup(v, t, n)
    BY <1>3 DEF hfs_dirhash_lookup
  <2>2. Loads(w, v, t, d, o)
    BY AllocTable
  <2>3. Cardinality(LiveOf(w.dir[d].ents)) <= Limit
    BY HashedOKLimit
  <2> HIDE DEF a, v, t
  <2>4. /\ Sound(v, ToFront(o, t)) /\ t \in Table /\ v.tab[t].inum = d
        /\ \A e \in Dirs : HashedOK(v, e)
        /\ Stored(v, d, t)
    BY <2>2, <2>3 DEF Loads
  <2>5. /\ r.w = [v EXCEPT !.lru = lru_touch(@, t)] /\ r.t = t
        /\ r.at # Null => r.at \in Places
        /\ \A p \in Pointers : Holds(v.tab[t], n, p) =>
              r.at # Null /\ v.tab[t].data[r.at].dent = p
    BY <1>1, <2>1, <2>4, LookupInTable
  <2>6. /\ r.w.tab = v.tab /\ r.w.dir = v.dir /\ Sound(r.w, ToFront(ToFront(o, t), t))
        /\ \A e \in Dirs : HashedOK(r.w, e)
        /\ Stored(r.w, d, t)
    BY <2>4, <2>5, Touched
  <2>7. ToFront(ToFront(o, t), t) = ToFront(o, t)
    BY <1>1, <2>4, MovesOfMoves
  <2>8. Loads(w, r.w, t, d, o)
    BY <2>2, <2>6, <2>7 DEF Loads
  <2>9. QED
    BY <1>3, <2>4, <2>5, <2>6, <2>7, <2>8
<1>4. QED
  BY <1>2, <1>3

\* What a lookup in d makes of the state w with the order o.
LookedUp(w, v, d, o) ==
  /\ \A e \in Dirs : v.dir[e].ents = w.dir[e].ents /\ HashedOK(v, e)
  /\ v.dir[d].mode = w.dir[d].mode
  /\ \/ w.dir[d].mode # "hashed" /\ v = w
     \/ /\ w.dir[d].mode = "hashed" /\ Cached(w, d)
        /\ v.tab = w.tab /\ v.dir = w.dir /\ w.dir[d].id \in Table
        /\ Sound(v, ToFront(o, w.dir[d].id))
     \/ /\ w.dir[d].mode = "hashed" /\ ~ Cached(w, d)
        /\ Loads(w, v, o[Size], d, o)
        /\ Sound(v, ToFront(o, o[Size]))

LEMMA PointersOf ==
  ASSUME NEW w, NEW o, Sound(w, o), NEW d \in Dirs, NEW k \in DOMAIN w.dir[d].ents
  PROVE  Ptr(d, k) \in Pointers /\ w.dir[d].ents[k] \in Entry
<1>1. w.dir[d].ents \in Seq(Entry) /\ Len(w.dir[d].ents) <= Slots
  BY DEF Sound, States, DirRec, Blocks
<1>2. k \in 1 .. Len(w.dir[d].ents) /\ Len(w.dir[d].ents) \in Nat
  BY <1>1
<1>3. k \in 1 .. Slots
  BY <1>1, <1>2, DirhashAssumption
<1>4. QED
  BY <1>1, <1>2, <1>3 DEF Pointers, Ptr

\* find_dent_in_block finds the one entry with the name, if there is one.
LEMMA NamedFinds ==
  ASSUME NEW w, NEW o, Sound(w, o), NEW d \in Dirs, NEW n \in Names
  PROVE  /\ Named(w, d, n) \in SUBSET Pointers
         /\ \A k \in LiveOf(w.dir[d].ents) :
              w.dir[d].ents[k].name = n => Named(w, d, n) = {Ptr(d, k)}
<1> DEFINE ents == w.dir[d].ents
<1>1. Named(w, d, n) =
        {Ptr(d, k) : k \in {j \in DOMAIN ents : ents[j] = [name |-> n, live |-> TRUE]}}
  BY DEF Named, Ptr
<1>2. Named(w, d, n) \in SUBSET Pointers
  BY <1>1, PointersOf
<1>3. ASSUME NEW k \in LiveOf(ents), ents[k].name = n PROVE Named(w, d, n) = {Ptr(d, k)}
  <2>1. k \in DOMAIN ents /\ ents[k].live
    BY <1>3 DEF LiveOf
  <2>2. ents[k] \in Entry
    BY <2>1, PointersOf
  <2>3. ents[k] = [name |-> n, live |-> TRUE]
    BY <1>3, <2>1, <2>2 DEF Entry
  <2>4. ASSUME NEW j \in DOMAIN ents, ents[j] = [name |-> n, live |-> TRUE] PROVE j = k
    <3>1. ents[j].name = n /\ ents[j].live
      BY <2>4
    <3>2. Distinct(ents)
      BY DEF Sound
    <3>3. QED
      BY <1>3, <2>1, <3>1, <3>2 DEF Distinct
  <2>5. {j \in DOMAIN ents : ents[j] = [name |-> n, live |-> TRUE]} = {k}
    BY <2>1, <2>3, <2>4
  <2>6. QED
    BY <1>1, <2>5
<1>4. QED
  BY <1>2, <1>3

LEMMA LookupIs ==
  ASSUME NEW w, NEW o, Sound(w, o), \A e \in Dirs : HashedOK(w, e),
         NEW d \in Dirs, NEW n \in Names, NEW f, f = Lookup(w, d, n)
  PROVE  /\ f.dent \in Pointers \union {NoPointer}
         /\ \A k \in LiveOf(w.dir[d].ents) :
              w.dir[d].ents[k].name = n => f.dent = Ptr(d, k)
         /\ LookedUp(w, f.w, d, o)
<1> DEFINE r == hfs_dirhash_lookup(w, d, n)
           named == Named(w, d, n)
<1>1. CASE w.dir[d].mode # "hashed"
  <2>1. f.w = w /\ f.dent = IF named = {} THEN NoPointer ELSE CHOOSE p \in named : TRUE
    BY <1>1 DEF Lookup
  <2>2. /\ named \in SUBSET Pointers
        /\ \A k \in LiveOf(w.dir[d].ents) :
              w.dir[d].ents[k].name = n => named = {Ptr(d, k)}
    BY NamedFinds
  <2> HIDE DEF named
  <2>3. f.dent \in Pointers \union {NoPointer}
    BY <2>1, <2>2
  <2>4. ASSUME NEW k \in LiveOf(w.dir[d].ents), w.dir[d].ents[k].name = n
        PROVE  f.dent = Ptr(d, k)
    <3>1. named = {Ptr(d, k)}
      BY <2>2, <2>4
    <3>2. QED
      BY <2>1, <3>1
  <2>5. LookedUp(w, f.w, d, o)
    BY <1>1, <2>1 DEF LookedUp
  <2>6. QED
    BY <2>3, <2>4, <2>5
<1>2. CASE w.dir[d].mode = "hashed"
  <2>1. f.w = r.w /\ f.dent = IF r.at = Null THEN NoPointer ELSE r.w.tab[r.t].data[r.at].dent
    BY <1>2 DEF Lookup
  <2>2. /\ r.t \in Table /\ Stored(r.w, d, r.t)
        /\ Sound(r.w, ToFront(o, r.t)) /\ \A e \in Dirs : HashedOK(r.w, e)
        /\ Cached(w, d) => r.t = w.dir[d].id /\ r.w.tab = w.tab /\ r.w.dir = w.dir
        /\ ~ Cached(w, d) => Loads(w, r.w, r.t, d, o)
        /\ r.at # Null => r.at \in Places
        /\ \A p \in Pointers : Holds(r.w.tab[r.t], n, p) =>
              r.at # Null /\ r.w.tab[r.t].data[r.at].dent = p
    BY <1>2, DirhashLookup
  <2> HIDE DEF r
  <2>3. f.dent \in Pointers \union {NoPointer}
    <3>1. CASE r.at = Null
      BY <2>1, <3>1
    <3>2. CASE r.at # Null
      <4>1. r.w.tab[r.t] \in TableRec
        BY <2>2 DEF Sound, States
      <4>2. r.w.tab[r.t].data[r.at] \in Slot
        BY <2>2, <3>2, <4>1 DEF TableRec
      <4>3. QED
        BY <2>1, <3>2, <4>2 DEF Slot
    <3>3. QED
      BY <3>1, <3>2
  <2>4. \A e \in Dirs : r.w.dir[e].ents = w.dir[e].ents
    BY <2>2 DEF Loads
  <2>5. ASSUME NEW k \in LiveOf(w.dir[d].ents), w.dir[d].ents[k].name = n
        PROVE  f.dent = Ptr(d, k)
    <3>1. Ptr(d, k) \in Pointers
      BY PointersOf DEF LiveOf
    <3>2. Holds(r.w.tab[r.t], n, Ptr(d, k))
      BY <2>2, <2>4, <2>5 DEF Stored
    <3>3. QED
      BY <2>1, <2>2, <3>1, <3>2
  <2>6. LookedUp(w, r.w, d, o)
    <3>1. CASE Cached(w, d)
      BY <1>2, <2>2, <3>1 DEF LookedUp
    <3>2. CASE ~ Cached(w, d)
      <4>1. Loads(w, r.w, r.t, d, o) /\ r.t = o[Size]
        BY <2>2, <3>2 DEF Loads
      <4>2. r.w.dir[d].mode = "hashed"
        BY <1>2, <4>1, HashedOKLimit DEF Loads
      <4>3. QED
        BY <1>2, <2>2, <2>4, <3>2, <4>1, <4>2 DEF LookedUp
    <3>3. QED
      BY <3>1, <3>2
  <2>7. QED
    BY <2>1, <2>3, <2>5, <2>6
<1>3. QED
  BY <1>1, <1>2

-----------------------------------------------------------------------------
(* hfs_dirhash_put and new_dentry.                                          *)

\* Other entries of one directory are all that a state differs in.
WithEnts(w, d, es) == [w EXCEPT !.dir[d].ents = es]

LEMMA WithFields ==
  ASSUME NEW w, NEW o, Sound(w, o), NEW d \in Dirs, NEW es \in Blocks, Distinct(es),
         NEW v, v = WithEnts(w, d, es)
  PROVE  /\ Sound(v, o) /\ v.tab = w.tab /\ v.lru = w.lru
         /\ \A e \in Dirs \ {d} : v.dir[e] = w.dir[e]
         /\ v.dir[d].ents = es /\ v.dir[d].mode = w.dir[d].mode
         /\ v.dir[d].id = w.dir[d].id /\ v.dir[d].seqno = w.dir[d].seqno
         /\ \A e \in Dirs : Cached(v, e) = Cached(w, e)
         /\ \A e \in Dirs \ {d} : HashedOK(w, e) => HashedOK(v, e)
<1>1. w \in States /\ v = [w EXCEPT !.dir[d].ents = es]
  BY DEF Sound, WithEnts
<1>2. v.tab = w.tab /\ v.lru = w.lru /\ v = [tab |-> v.tab, lru |-> v.lru, dir |-> v.dir]
  BY <1>1 DEF States
<1>3. v.dir = [w.dir EXCEPT ![d].ents = es]
  BY <1>1 DEF States
<1>4. DOMAIN v.dir = Dirs /\ v.dir = [e \in Dirs |-> v.dir[e]]
  BY <1>1, <1>3 DEF States
<1>5. \A e \in Dirs \ {d} : v.dir[e] = w.dir[e]
  BY <1>1, <1>3 DEF States
<1>6. v.dir[d] = [w.dir[d] EXCEPT !.ents = es]
  BY <1>1, <1>3 DEF States
<1>7. v.dir[d] = [mode |-> w.dir[d].mode, seqno |-> w.dir[d].seqno, id |-> w.dir[d].id,
                  ents |-> es]
  BY <1>1, <1>6 DEF States, DirRec
<1>8. v.dir[d] \in DirRec
  BY <1>1, <1>7 DEF States, DirRec
<1>9. v.dir \in [Dirs -> DirRec]
  BY <1>1, <1>4, <1>5, <1>8 DEF States
<1>10. v \in States
  BY <1>1, <1>2, <1>9 DEF States
<1>11. \A e \in Dirs : v.dir[e].seqno = w.dir[e].seqno /\ v.dir[e].id = w.dir[e].id
                       /\ Distinct(v.dir[e].ents)
  BY <1>5, <1>7 DEF Sound
<1>12. Sound(v, o)
  BY <1>2, <1>10, <1>11 DEF Sound
<1>13. \A e \in Dirs : Cached(v, e) = Cached(w, e)
  BY <1>2, <1>11 DEF Cached
<1>14. \A e \in Dirs \ {d} : HashedOK(w, e) => HashedOK(v, e)
  BY <1>2, <1>5, <1>13 DEF HashedOK, Stored
<1>15. QED
  BY <1>2, <1>5, <1>7, <1>12, <1>13, <1>14

LEMMA LiveWithout ==
  ASSUME NEW ents \in Blocks, NEW k \in LiveOf(ents)
  PROVE  /\ Cardinality(LiveOf(ents) \ {k}) \in Nat
         /\ Cardinality(LiveOf(ents)) = Cardinality(LiveOf(ents) \ {k}) + 1
<1> DEFINE S == LiveOf(ents) \ {k}
<1>1. IsFiniteSet(LiveOf(ents))
  BY LiveOfIsLiveTo
<1>2. IsFiniteSet(S) /\ k \notin S /\ LiveOf(ents) = S \union {k}
  BY <1>1, FS_Subset
<1> HIDE DEF S
<1>3. Cardinality(S \union {k}) = Cardinality(S) + 1 /\ Cardinality(S) \in Nat
  BY <1>2, FS_AddElement, FS_CardinalityType
<1>4. QED
  BY <1>2, <1>3 DEF S

\* The table that d would find has all its entries in use but the k-th.
AllBut(w, d, k) ==
  Cached(w, d) =>
    /\ Cardinality(LiveOf(w.dir[d].ents) \ {k}) <= w.tab[w.dir[d].id].capacity
    /\ \A j \in LiveOf(w.dir[d].ents) \ {k} :
         Holds(w.tab[w.dir[d].id], w.dir[d].ents[j].name, Ptr(d, j))

LEMMA DirhashPut ==
  ASSUME NEW w, NEW o, Sound(w, o), NEW d \in Dirs, w.dir[d].mode = "hashed",
         \A e \in Dirs \ {d} : HashedOK(w, e),
         NEW k \in LiveOf(w.dir[d].ents), AllBut(w, d, k),
         NEW v, v = hfs_dirhash_put(w, Ptr(d, k))
  PROVE  /\ \A e \in Dirs : v.dir[e].ents = w.dir[e].ents /\ HashedOK(v, e)
         /\ Cached(w, d) =>
              /\ Sound(v, ToFront(o, w.dir[d].id)) \/ Sound(v, ToBack(o, w.dir[d].id))
              /\ \A t \in Table : v.tab[t].inum = w.tab[t].inum
         /\ ~ Cached(w, d) => Loads(w, v, o[Size], d, o)
<1> DEFINE p == Ptr(d, k)
           t == w.dir[d].id
           ents == w.dir[d].ents
           n == ents[k].name
           done == put_dentry(w, t, p)
<1>1. /\ w \in States /\ t \in Table /\ ents \in Blocks /\ d # 0 /\ Limit \in Nat
      /\ p.dir = d /\ p.k = k /\ p \in Pointers /\ n \in Names /\ Distinct(ents)
      /\ k \in DOMAIN ents /\ ents[k].live
      /\ \A j \in LiveOf(ents) : /\ ents[j].name \in Names /\ Ptr(d, j) \in Pointers
                                 /\ j # k => ents[j].name # n
  <2>1. w \in States /\ d # 0 /\ Limit \in Nat /\ Distinct(ents)
    BY DirhashAssumption DEF Sound
  <2>2. t \in Table /\ ents \in Blocks
    BY <2>1 DEF States, DirRec
  <2>3. \A j \in LiveOf(ents) : ents[j] \in Entry /\ Ptr(d, j) \in Pointers
    BY PointersOf DEF LiveOf
  <2>4. k \in DOMAIN ents /\ ents[k].live
    BY DEF LiveOf
  <2>5. \A j \in LiveOf(ents) : j # k => ents[j].name # n
    BY <2>1, <2>4 DEF Distinct, LiveOf
  <2>6. QED
    BY <2>1, <2>2, <2>3, <2>4, <2>5 DEF Entry, Ptr
<1>2. v = IF ~ Cached(w, d) THEN dir_alloc_table(w, d).w
          ELSE IF done.ok THEN done.w ELSE disable(done.w, d)
  BY <1>1 DEF hfs_dirhash_put
<1>3. CASE ~ Cached(w, d)
  <2>1. Loads(w, v, dir_alloc_table(w, d).t, d, o)
    BY <1>2, <1>3, AllocTable
  <2>2. QED
    BY <1>3, <2>1 DEF Loads
<1>4. CASE Cached(w, d)
  <2>1. w.tab[t].inum = d /\ TabOK(w.tab[t])
    BY <1>1, <1>4 DEF Cached, Sound
  <2>2. /\ done.ok = ~ Full(w.tab[t])
        /\ done.w.dir = w.dir
        /\ Full(w.tab[t]) => done.w.tab = w.tab /\ done.w.lru = lru_demote(w.lru, t)
        /\ ~ Full(w.tab[t]) =>
             /\ done.w.lru = lru_touch(w.lru, t)
             /\ done.w.tab = [w.tab EXCEPT ![t] = Put(w.tab[t], n, p)]
        /\ done.w = [tab |-> done.w.tab, lru |-> done.w.lru, dir |-> done.w.dir]
    <3>1. NameOf(w, p) = n
      BY <1>1 DEF NameOf
    <3> HIDE DEF p, t, n
    <3>2. QED
      BY <1>1, <3>1, PutDentryFields
  <2> HIDE DEF done, p, n, ents, t
  <2>3. CASE Full(w.tab[t])
    <3>1. v = disable(done.w, d)
      BY <1>2, <1>4, <2>2, <2>3
    <3>2. Ordered(done.w.lru, ToBack(o, t))
      BY <1>1, <2>2, <2>3, DemoteOrdered DEF Sound
    <3>3. Sound(done.w, ToBack(o, t))
      BY <2>2, <2>3, <3>2, SameButList
    <3>4. /\ v.tab = w.tab /\ v.lru = done.w.lru
          /\ v.dir \in [Dirs -> DirRec]
          /\ \A e \in Dirs \ {d} : v.dir[e] = w.dir[e]
          /\ v.dir[d].mode = "regular" /\ v.dir[d].id = 0 /\ v.dir[d].seqno = 0
          /\ v.dir[d].ents = w.dir[d].ents
          /\ v = [tab |-> v.tab, lru |-> v.lru, dir |-> v.dir]
      <4>1. done.w \in States
        BY <3>3 DEF Sound
      <4>2. QED
        BY <2>2, <2>3, <3>1, <4>1, DisableFields
    <3>5. v \in States
      BY <1>1, <3>2, <3>4 DEF States, Ordered
    <3>6. \A e \in Dirs : \/ v.dir[e].seqno <= MaxSeq
                          \/ \E u \in Table : v.dir[e].seqno <= v.tab[u].seqno
      <4>1. \A e \in Dirs : \/ w.dir[e].seqno <= MaxSeq
                            \/ \E u \in Table : w.dir[e].seqno <= w.tab[u].seqno
        BY DEF Sound
      <4>2. 0 <= MaxSeq
        BY DirhashAssumption
      <4>3. QED
        BY <3>4, <4>1, <4>2
    <3>7. Sound(v, ToBack(o, t))
      BY <3>2, <3>4, <3>5, <3>6 DEF Sound
    <3>8. \A e \in Dirs \ {d} : HashedOK(v, e)
      <4>1. ASSUME NEW e \in Dirs \ {d} PROVE HashedOK(v, e)
        <5>1. HashedOK(w, e) /\ v.dir[e] = w.dir[e] /\ v.tab = w.tab
          BY <3>4, <4>1
        <5>2. QED
          BY <5>1 DEF HashedOK, Cached, Stored
      <4>2. QED
        BY <4>1
    <3>9. HashedOK(v, d)
      BY <3>4 DEF HashedOK
    <3>10. QED
      BY <1>4, <3>4, <3>7, <3>8, <3>9 DEF t
  <2>4. CASE ~ Full(w.tab[t])
    <3>1. /\ v.dir = w.dir /\ v.lru = lru_touch(w.lru, t)
          /\ v.tab = [w.tab EXCEPT ![t] = Put(w.tab[t], n, p)]
          /\ v = [tab |-> v.tab, lru |-> v.lru, dir |-> v.dir]
      BY <1>2, <1>4, <2>2, <2>4
    <3>2. /\ TabOK(Put(w.tab[t], n, p)) /\ Holds(Put(w.tab[t], n, p), n, p)
          /\ \A m \in Names \ {n}, q \in Pointers :
                Holds(w.tab[t], m, q) => Holds(Put(w.tab[t], n, p), m, q)
      BY <1>1, <2>1, <2>4, PutKeeps
    <3>3. /\ Put(w.tab[t], n, p).seqno = w.tab[t].seqno
          /\ Put(w.tab[t], n, p).inum = w.tab[t].inum
          /\ Put(w.tab[t], n, p).capacity = w.tab[t].capacity + 1
      <4>1. w.tab[t] \in TableRec
        BY <2>1 DEF TabOK
      <4>2. QED
        BY <4>1, PutScalars
    <3>4. v.tab[t] = Put(w.tab[t], n, p) /\ \A u \in Table \ {t} : v.tab[u] = w.tab[u]
      BY <1>1, <3>1 DEF States
    <3>5. Ordered(v.lru, ToFront(o, t))
      BY <1>1, <3>1, TouchOrdered DEF Sound
    <3>6. v \in States
      <4>1. v.tab \in [Table -> TableRec]
        BY <1>1, <3>1, <3>2 DEF States, TabOK
      <4>2. QED
        BY <1>1, <3>1, <3>5, <4>1 DEF States, Ordered
    <3>7. \A u \in Table : v.tab[u].seqno = w.tab[u].seqno /\ v.tab[u].inum = w.tab[u].inum
                           /\ TabOK(v.tab[u])
      BY <3>2, <3>3, <3>4 DEF Sound
    <3>8. Sound(v, ToFront(o, t))
      BY <3>1, <3>5, <3>6, <3>7 DEF Sound
    <3>9. ASSUME NEW e \in Dirs \ {d} PROVE HashedOK(v, e)
      <4>1. w.dir[e].id \in Table
        BY <1>1 DEF States, DirRec
      <4>2. Cached(v, e) = Cached(w, e)
        BY <3>1, <3>7, <4>1 DEF Cached
      <4>3. CASE w.dir[e].id = t
        <5>1. ~ Cached(v, e)
          BY <2>1, <4>2, <4>3 DEF Cached
        <5>2. QED
          BY <3>1, <5>1 DEF HashedOK
      <4>4. CASE w.dir[e].id # t
        <5>1. v.tab[w.dir[e].id] = w.tab[w.dir[e].id]
          BY <3>4, <4>1, <4>4
        <5>2. QED
          BY <3>1, <4>2, <5>1 DEF HashedOK, Stored
      <4>5. QED
        BY <4>3, <4>4
    <3>10. HashedOK(v, d)
      <4>1. /\ Cardinality(LiveOf(ents) \ {k}) <= w.tab[t].capacity
            /\ \A j \in LiveOf(ents) \ {k} : Holds(w.tab[t], ents[j].name, Ptr(d, j))
        BY <1>4 DEF AllBut, ents, t
      <4>2. Cardinality(LiveOf(ents) \ {k}) \in Nat
            /\ Cardinality(LiveOf(ents)) = Cardinality(LiveOf(ents) \ {k}) + 1
        BY <1>1, LiveWithout DEF ents
      <4>3. w.tab[t].capacity \in Nat /\ v.tab[t].capacity = w.tab[t].capacity + 1
            /\ v.tab[t].capacity <= Limit
        <5>1. w.tab[t].capacity \in Nat
          BY <1>1, <2>1 DEF TabOK, TableRec
        <5>2. v.tab[t].capacity \in 0 .. Limit
          BY <3>2, <3>4 DEF TabOK, TableRec
        <5>3. QED
          BY <1>1, <3>3, <3>4, <5>1, <5>2
      <4>4. Cardinality(LiveOf(ents)) <= v.tab[t].capacity
            /\ Cardinality(LiveOf(ents)) <= Limit
        BY <1>1, <4>1, <4>2, <4>3
      <4>5. ASSUME NEW j \in LiveOf(ents) PROVE Holds(v.tab[t], ents[j].name, Ptr(d, j))
        <5>1. CASE j = k
          BY <3>2, <3>4, <5>1 DEF n, p
        <5>2. CASE j # k
          BY <1>1, <3>2, <3>4, <4>1, <5>2
        <5>3. QED
          BY <5>1, <5>2
      <4>6. QED
        BY <3>1, <4>4, <4>5 DEF HashedOK, Stored, ents, t
    <3>11. QED
      BY <1>4, <3>1, <3>7, <3>8, <3>9, <3>10 DEF t
  <2>5. QED
    BY <2>3, <2>4
<1>5. QED
  BY <1>3, <1>4

\* What adding an entry to d makes of the state w with the order o.
Added(w, v, d, o) ==
  /\ \A e \in Dirs : HashedOK(v, e)
  /\ \/ w.dir[d].mode # "hashed" /\ Sound(v, o) /\ v.tab = w.tab /\ v.lru = w.lru
     \/ /\ w.dir[d].mode = "hashed" /\ Cached(w, d)
        /\ Sound(v, ToFront(o, w.dir[d].id)) \/ Sound(v, ToBack(o, w.dir[d].id))
        /\ \A t \in Table : v.tab[t].inum = w.tab[t].inum
     \/ /\ w.dir[d].mode = "hashed" /\ ~ Cached(w, d)
        /\ o[Size] \in Table
        /\ Sound(v, o) \/ Sound(v, ToFront(o, o[Size]))
        /\ \A t \in Table : v.tab[t].inum = IF t = o[Size] THEN d ELSE w.tab[t].inum

\* The entries with a new one for n, in the place of one that is not in use or
\* at the end.
WithNew(ents, n) ==
  LET k == FreeSlot(ents)
      new == [name |-> n, live |-> TRUE]
  IN  IF k > Len(ents) THEN Append(ents, new) ELSE [ents EXCEPT ![k] = new]

LEMMA WithNewIs ==
  ASSUME NEW ents \in Blocks, Distinct(ents), NEW n \in Names, FreeSlot(ents) <= Slots,
         \A j \in LiveOf(ents) : ents[j].name # n
  PROVE  /\ WithNew(ents, n) \in Blocks /\ Distinct(WithNew(ents, n))
         /\ LiveOf(WithNew(ents, n)) = LiveOf(ents) \union {FreeSlot(ents)}
         /\ FreeSlot(ents) \notin LiveOf(ents)
         /\ WithNew(ents, n)[FreeSlot(ents)] = [name |-> n, live |-> TRUE]
         /\ \A j \in LiveOf(ents) : WithNew(ents, n)[j] = ents[j]
<1> DEFINE k == FreeSlot(ents)
           new == [name |-> n, live |-> TRUE]
           es == WithNew(ents, n)
           dead == {j \in DOMAIN ents : ~ ents[j].live}
<1>1. /\ ents \in Seq(Entry) /\ Len(ents) \in Nat /\ Len(ents) <= Slots
      /\ DOMAIN ents = 1 .. Len(ents) /\ new \in Entry /\ Slots \in Nat
  BY DirhashAssumption DEF Blocks, Entry
<1>2. k = IF dead = {} THEN Len(ents) + 1 ELSE Min(dead)
  BY DEF FreeSlot
<1>3. dead # {} => Min(dead) \in dead
  <2>1. SUFFICES ASSUME dead # {} PROVE Min(dead) \in dead
    OBVIOUS
  <2>2. dead \in SUBSET Nat
    BY <1>1
  <2> HIDE DEF dead
  <2>3. PICK x \in dead : \A y \in dead : x <= y
    BY <2>1, <2>2, NatMinimum
  <2>4. QED
    BY <2>3 DEF Min
<1>4. k \in 1 .. Len(ents) + 1 /\ (k \in 1 .. Len(ents) => ~ ents[k].live)
  <2>1. CASE dead = {}
    BY <1>1, <1>2, <2>1
  <2>2. CASE dead # {}
    BY <1>1, <1>2, <1>3, <2>2
  <2>3. QED
    BY <2>1, <2>2
<1> HIDE DEF k, dead
<1>5. k <= Slots
  BY DEF k
<1>6. /\ es \in Seq(Entry) /\ Len(es) <= Slots
      /\ DOMAIN es = (1 .. Len(ents)) \union {k}
      /\ \A j \in DOMAIN es : es[j] = IF j = k THEN new ELSE ents[j]
  <2>1. CASE k > Len(ents)
    <3>1. es = Append(ents, new) /\ k = Len(ents) + 1
      BY <1>1, <1>4, <2>1 DEF WithNew, k
    <3> HIDE DEF es, new
    <3>2. es \in Seq(Entry) /\ Len(es) = Len(ents) + 1
      BY <1>1, <3>1
    <3>3. \A j \in 1 .. Len(ents) + 1 : es[j] = IF j = k THEN new ELSE ents[j]
      BY <1>1, <3>1
    <3>4. DOMAIN es = 1 .. Len(ents) + 1
      BY <1>1, <3>2
    <3>5. QED
      BY <1>1, <1>5, <3>1, <3>2, <3>3, <3>4
  <2>2. CASE ~ (k > Len(ents))
    <3>1. es = [ents EXCEPT ![k] = new] /\ k \in 1 .. Len(ents)
      BY <1>1, <1>4, <2>2 DEF WithNew, k
    <3> HIDE DEF es, new
    <3>2. es \in Seq(Entry) /\ Len(es) = Len(ents)
      BY <1>1, <3>1
    <3>3. \A j \in 1 .. Len(ents) : es[j] = IF j = k THEN new ELSE ents[j]
      BY <1>1, <3>1
    <3>4. DOMAIN es = 1 .. Len(ents)
      BY <1>1, <3>2
    <3>5. QED
      BY <1>1, <3>1, <3>2, <3>3, <3>4
  <2>3. QED
    BY <2>1, <2>2
<1> HIDE DEF es
<1>7. es \in Blocks
  BY <1>6 DEF Blocks
<1>8. LiveOf(es) = LiveOf(ents) \union {k}
  BY <1>1, <1>4, <1>6 DEF LiveOf
<1>9. k \notin LiveOf(ents)
  BY <1>1, <1>4 DEF LiveOf
<1>10. \A j \in LiveOf(ents) : es[j] = ents[j]
  BY <1>1, <1>6, <1>9 DEF LiveOf
<1>11. Distinct(es)
  <2>1. SUFFICES ASSUME NEW i \in LiveOf(es), NEW j \in LiveOf(es), es[i].name = es[j].name
                 PROVE  i = j
    BY DEF Distinct, LiveOf
  <2>2. es[k].name = n
    BY <1>6
  <2>3. CASE i = k \/ j = k
    BY <1>8, <1>10, <2>1, <2>2, <2>3
  <2>4. CASE i # k /\ j # k
    <3>1. i \in LiveOf(ents) /\ j \in LiveOf(ents) /\ ents[i].name = ents[j].name
      BY <1>8, <1>10, <2>1, <2>4
    <3>2. QED
      BY <3>1 DEF Distinct, LiveOf
  <2>5. QED
    BY <2>3, <2>4
<1>12. QED
  BY <1>6, <1>7, <1>8, <1>9, <1>10, <1>11 DEF es, k

LEMMA NewDentry ==
  ASSUME NEW w, NEW o, Sound(w, o), \A e \in Dirs : HashedOK(w, e),
         NEW d \in Dirs, NEW n \in Names, FreeSlot(w.dir[d].ents) <= Slots,
         \A j \in LiveOf(w.dir[d].ents) : w.dir[d].ents[j].name # n,
         NEW v, v = new_dentry(w, d, n)
  PROVE  Added(w, v, d, o)
<1> DEFINE ents == w.dir[d].ents
           k == FreeSlot(ents)
           es == WithNew(ents, n)
           u == WithEnts(w, d, es)
<1>1. v = IF w.dir[d].mode = "hashed" THEN hfs_dirhash_put(u, Ptr(d, k)) ELSE u
  BY DEF new_dentry, WithNew, Ptr, WithEnts
<1>2. ents \in Blocks /\ Distinct(ents) /\ w.dir[d].id \in Table
  BY DEF Sound, States, DirRec
<1>3. /\ es \in Blocks /\ Distinct(es)
      /\ LiveOf(es) = LiveOf(ents) \union {k} /\ k \notin LiveOf(ents)
      /\ es[k] = [name |-> n, live |-> TRUE]
      /\ \A j \in LiveOf(ents) : es[j] = ents[j]
  BY <1>2, WithNewIs
<1> HIDE DEF es, ents, k
<1>4. /\ Sound(u, o) /\ u.tab = w.tab /\ u.lru = w.lru
      /\ \A e \in Dirs \ {d} : u.dir[e] = w.dir[e]
      /\ u.dir[d].ents = es /\ u.dir[d].mode = w.dir[d].mode
      /\ u.dir[d].id = w.dir[d].id
      /\ \A e \in Dirs : Cached(u, e) = Cached(w, e)
      /\ \A e \in Dirs \ {d} : HashedOK(w, e) => HashedOK(u, e)
  BY <1>3, WithFields
<1> HIDE DEF u
<1>5. CASE w.dir[d].mode # "hashed"
  <2>1. v = u
    BY <1>1, <1>5
  <2>2. \A e \in Dirs : HashedOK(u, e)
    BY <1>4, <1>5 DEF HashedOK
  <2>3. QED
    BY <1>4, <1>5, <2>1, <2>2 DEF Added
<1>6. CASE w.dir[d].mode = "hashed"
  <2>1. v = hfs_dirhash_put(u, Ptr(d, k)) /\ u.dir[d].mode = "hashed"
    BY <1>1, <1>4, <1>6
  <2>2. k \in LiveOf(u.dir[d].ents) /\ LiveOf(u.dir[d].ents) \ {k} = LiveOf(ents)
    BY <1>3, <1>4
  <2>3. AllBut(u, d, k)
    <3>1. SUFFICES ASSUME Cached(u, d)
                   PROVE  /\ Cardinality(LiveOf(ents)) <= u.tab[u.dir[d].id].capacity
                          /\ \A j \in LiveOf(ents) :
                               Holds(u.tab[u.dir[d].id], u.dir[d].ents[j].name, Ptr(d, j))
      BY <2>2 DEF AllBut
    <3>2. /\ Cardinality(LiveOf(ents)) <= w.tab[w.dir[d].id].capacity
          /\ Stored(w, d, w.dir[d].id)
      BY <1>4, <1>6, <3>1 DEF HashedOK, ents
    <3>3. QED
      BY <1>3, <1>4, <3>2 DEF Stored, ents
  <2>4. /\ \A e \in Dirs : v.dir[e].ents = u.dir[e].ents /\ HashedOK(v, e)
        /\ Cached(u, d) =>
             /\ Sound(v, ToFront(o, u.dir[d].id)) \/ Sound(v, ToBack(o, u.dir[d].id))
             /\ \A t \in Table : v.tab[t].inum = u.tab[t].inum
        /\ ~ Cached(u, d) => Loads(u, v, o[Size], d, o)
    BY <1>4, <2>1, <2>2, <2>3, DirhashPut
  <2>5. CASE Cached(w, d)
    BY <1>4, <1>6, <2>4, <2>5 DEF Added
  <2>6. CASE ~ Cached(w, d)
    <3>1. Loads(u, v, o[Size], d, o)
      BY <1>4, <2>4, <2>6
    <3>2. QED
      BY <1>4, <1>6, <2>4, <2>6, <3>1 DEF Added, Loads
  <2>7. QED
    BY <2>5, <2>6
<1>7. QED
  BY <1>5, <1>6

-----------------------------------------------------------------------------
(* Calls, as AbsLru sees them.                                              *)

Same(w, v) == \A u \in Table : v.tab[u].inum = w.tab[u].inum

Taken(w, v, S, d) ==
  \A u \in Table : v.tab[u].inum = IF u \in S THEN d ELSE w.tab[u].inum

Good(v) == \A e \in Dirs : HashedOK(v, e)

\* From the order o to the order b: nothing, one table moved, or one or two
\* tables taken.
Moved(w, v, o, b) ==
  \/ Same(w, v) /\ b = o
  \/ Same(w, v) /\ \E t \in Table : b \in {ToFront(o, t), ToBack(o, t)}
  \/ \E d \in Dirs : Taken(w, v, {o[Size]}, d) /\ b \in {o, ToFront(o, o[Size])}
  \/ /\ o[Size] = 0
     /\ \E d \in Dirs : Taken(w, v, {0, ToFront(o, 0)[Size]}, d)
     /\ b \in {ToFront(o, 0), ToFront(ToFront(o, 0), ToFront(o, 0)[Size])}

LEMMA LookupMoves ==
  ASSUME NEW w, NEW o, Sound(w, o), Good(w), NEW d \in Dirs, NEW v, LookedUp(w, v, d, o)
  PROVE  Good(v) /\ \E b : Sound(v, b) /\ Moved(w, v, o, b)
<1>1. Good(v)
  BY DEF LookedUp, Good
<1>2. CASE w.dir[d].mode # "hashed"
  <2>1. v = w
    BY <1>2 DEF LookedUp
  <2>2. QED
    BY <1>1, <2>1 DEF Moved, Same
<1>3. CASE w.dir[d].mode = "hashed" /\ Cached(w, d)
  <2>1. v.tab = w.tab /\ w.dir[d].id \in Table /\ Sound(v, ToFront(o, w.dir[d].id))
    BY <1>3 DEF LookedUp
  <2>2. QED
    BY <1>1, <2>1 DEF Moved, Same
<1>4. CASE w.dir[d].mode = "hashed" /\ ~ Cached(w, d)
  <2>1. Loads(w, v, o[Size], d, o) /\ Sound(v, ToFront(o, o[Size]))
    BY <1>4 DEF LookedUp
  <2>2. Taken(w, v, {o[Size]}, d)
    BY <2>1 DEF Loads, Taken
  <2>3. QED
    BY <1>1, <2>1, <2>2 DEF Moved
<1>5. QED
  BY <1>2, <1>3, <1>4

LEMMA AddMoves ==
  ASSUME NEW w, NEW o, NEW d \in Dirs, NEW v, Added(w, v, d, o), w.dir[d].id \in Table
  PROVE  Good(v) /\ \E b : Sound(v, b) /\ Moved(w, v, o, b)
<1>1. Good(v)
  BY DEF Added, Good
<1>2. CASE w.dir[d].mode # "hashed"
  <2>1. Sound(v, o) /\ Same(w, v)
    BY <1>2 DEF Added, Same
  <2>2. QED
    BY <1>1, <2>1 DEF Moved
<1>3. CASE w.dir[d].mode = "hashed" /\ Cached(w, d)
  <2>1. Same(w, v) /\ (Sound(v, ToFront(o, w.dir[d].id)) \/ Sound(v, ToBack(o, w.dir[d].id)))
    BY <1>3 DEF Added, Same
  <2>2. QED
    BY <1>1, <2>1 DEF Moved
<1>4. CASE w.dir[d].mode = "hashed" /\ ~ Cached(w, d)
  <2>1. Taken(w, v, {o[Size]}, d) /\ (Sound(v, o) \/ Sound(v, ToFront(o, o[Size])))
    BY <1>4 DEF Added, Taken
  <2>2. QED
    BY <1>1, <2>1 DEF Moved
<1>5. QED
  BY <1>2, <1>3, <1>4

\* The order that LookedUp says.
OrderAfter(w, d, o) ==
  IF w.dir[d].mode # "hashed" THEN o
  ELSE IF Cached(w, d) THEN ToFront(o, w.dir[d].id) ELSE ToFront(o, o[Size])

LEMMA SoundAfterLookup ==
  ASSUME NEW w, NEW o, Sound(w, o), NEW d \in Dirs, NEW v, LookedUp(w, v, d, o)
  PROVE  Sound(v, OrderAfter(w, d, o))
  BY DEF LookedUp, OrderAfter

\* A lookup that finds nothing, and then the new entry.
LEMMA LookupAddMoves ==
  ASSUME NEW w, NEW o, Sound(w, o), Good(w), NEW d \in Dirs, NEW x, LookedUp(w, x, d, o),
         NEW v, Added(x, v, d, OrderAfter(w, d, o))
  PROVE  Good(v) /\ \E b : Sound(v, b) /\ Moved(w, v, o, b)
<1>1. Good(v)
  BY DEF Added, Good
<1>2. o \in Orders /\ w.dir[d].id \in Table /\ o[Size] \in Table /\ d # 0
  BY DirhashAssumption DEF Sound, Ordered, States, DirRec, Orders
<1>3. x.dir[d].mode = w.dir[d].mode
  BY DEF LookedUp
<1>4. CASE w.dir[d].mode # "hashed"
  <2>1. x = w /\ Sound(v, o) /\ Same(x, v)
    BY <1>3, <1>4 DEF LookedUp, Added, OrderAfter, Same
  <2>2. QED
    BY <1>1, <2>1 DEF Moved
<1>5. CASE w.dir[d].mode = "hashed" /\ Cached(w, d)
  <2> DEFINE t == w.dir[d].id
             b == ToFront(o, t)
  <2>1. x.tab = w.tab /\ x.dir = w.dir
    BY <1>5 DEF LookedUp
  <2>2. Cached(x, d) /\ x.dir[d].id = t /\ x.dir[d].mode = "hashed"
    BY <1>5, <2>1 DEF Cached
  <2>3. Same(x, v) /\ (Sound(v, ToFront(b, t)) \/ Sound(v, ToBack(b, t)))
    BY <1>5, <2>2 DEF Added, OrderAfter, Same
  <2>4. Same(w, v)
    BY <2>1, <2>3 DEF Same
  <2>5. ToFront(b, t) = ToFront(o, t) /\ ToBack(b, t) = ToBack(o, t)
    BY <1>2, MovesOfMoves
  <2> HIDE DEF b, t
  <2>6. t \in Table
    BY <1>2 DEF t
  <2>7. QED
    BY <1>1, <2>3, <2>4, <2>5, <2>6 DEF Moved
<1>6. CASE w.dir[d].mode = "hashed" /\ ~ Cached(w, d)
  <2> DEFINE t == o[Size]
             b == ToFront(o, t)
             s == b[Size]
  <2>1. Loads(w, x, t, d, o) /\ Cardinality(LiveOf(w.dir[d].ents)) <= Limit
    BY <1>6, HashedOKLimit DEF LookedUp, Good
  <2>2. /\ x.dir[d].mode = "hashed" /\ x.dir[d].id = t /\ x.dir[d].seqno = x.tab[t].seqno
        /\ x.tab[t].inum = d /\ Taken(w, x, {t}, d)
    BY <1>2, <2>1 DEF Loads, Taken
  <2>3. Cached(x, d) <=> t # 0
    BY <2>2 DEF Cached
  <2>4. OrderAfter(w, d, o) = b
    BY <1>6 DEF OrderAfter
  <2>5. CASE t # 0
    <3>1. Same(x, v) /\ (Sound(v, ToFront(b, t)) \/ Sound(v, ToBack(b, t)))
      BY <2>2, <2>3, <2>4, <2>5 DEF Added, Same
    <3>2. ToFront(b, t) = b /\ ToBack(b, t) = o
      BY <1>2, MovesOfMoves
    <3>3. Taken(w, v, {t}, d)
      BY <2>2, <3>1 DEF Taken, Same
    <3>4. QED
      BY <1>1, <3>1, <3>2, <3>3 DEF Moved
  <2>6. CASE t = 0
    <3>1. /\ Sound(v, b) \/ Sound(v, ToFront(b, s))
          /\ \A u \in Table : v.tab[u].inum = IF u = s THEN d ELSE x.tab[u].inum
      BY <2>2, <2>3, <2>4, <2>6 DEF Added
    <3>2. Taken(w, v, {0, s}, d)
      BY <2>2, <2>6, <3>1 DEF Taken
    <3>3. b = ToFront(o, 0)
      BY <2>6
    <3>4. QED
      BY <1>1, <2>6, <3>1, <3>2, <3>3 DEF Moved
  <2>7. QED
    BY <2>5, <2>6
<1>7. QED
  BY <1>4, <1>5, <1>6

-----------------------------------------------------------------------------
(* The invariant.                                                           *)

\* The list has the tables in an order, a hashed directory fits into a table
\* and is whole in the one it would find, and generations are bounded.
CacheInv ==
  /\ Sound(W, Order(lru)) /\ Good(W)
  /\ \A t \in Table : tab[t].seqno <= MaxSeq
  /\ \A d \in Dirs : dir[d].seqno <= MaxSeq

Owner(w) == [t \in Table |-> w.tab[t].inum]

LEMMA Reached ==
  ASSUME NEW v, NEW b, Sound(v, b), Good(v), Becomes(v)
  PROVE  CacheInv' /\ Order(lru)' = b /\ W' = v
<1>1. v \in States /\ Order(v.lru) = b
  BY OrderIs DEF Sound
<1>2. W' = v /\ lru' = v.lru /\ tab' = v.tab /\ dir' = v.dir
  BY <1>1 DEF Becomes, W, States
<1>3. Order(lru)' = b
  BY <1>1, <1>2
<1>4. \A t \in Table : v.tab[t].seqno <= MaxSeq
  BY DEF Becomes
<1>5. ASSUME NEW d \in Dirs PROVE v.dir[d].seqno <= MaxSeq
  <2>1. v.dir[d].seqno \in Nat /\ MaxSeq \in Nat
        /\ \A t \in Table : v.tab[t].seqno \in Nat
    BY <1>1, DirhashAssumption DEF States, DirRec, TableRec
  <2>2. QED
    BY <1>4, <2>1 DEF Sound
<1>6. CacheInv'
  BY <1>2, <1>3, <1>4, <1>5 DEF CacheInv
<1>7. QED
  BY <1>2, <1>3, <1>6

\* A step to a state with the tables moved so is one of AbsLru.
LEMMA MovedIsStep ==
  ASSUME CacheInv, NEW v, NEW b, Sound(v, b), Good(v), Becomes(v),
         Moved(W, v, Order(lru), b)
  PROVE  CacheInv' /\ [Lru!Next]_(Lru!vars)
<1> DEFINE o == Order(lru)
           owner == [t \in Table |-> tab[t].inum]
<1>1. CacheInv' /\ Order(lru)' = b /\ tab' = v.tab
  BY Reached DEF Becomes
<1>2. owner' = [t \in Table |-> v.tab[t].inum]
  BY <1>1
<1>3. \A t \in Table : owner[t] = W.tab[t].inum
  BY DEF W
<1>4. o \in Orders /\ o[Size] \in Table
  BY DEF CacheInv, Sound, Ordered, Orders
<1>5. Same(W, v) => owner' = owner
  BY <1>2 DEF Same, W
<1>6. \A d \in Dirs, s \in Table :
        Taken(W, v, {s}, d) => owner' = [owner EXCEPT ![s] = d]
  BY <1>2 DEF Taken, W
<1>7. \A d \in Dirs, s \in Table :
        Taken(W, v, {0, s}, d) => owner' = [owner EXCEPT ![0] = d, ![s] = d]
  BY <1>2 DEF Taken, W, Table
<1> HIDE DEF owner
<1>8. CASE Same(W, v) /\ b = o
  BY <1>1, <1>5, <1>8 DEF Lru!vars, owner
<1>9. CASE Same(W, v) /\ \E t \in Table : b \in {ToFront(o, t), ToBack(o, t)}
  <2>1. PICK t \in Table : b \in {ToFront(o, t), ToBack(o, t)}
    BY <1>9
  <2>2. Lru!Use(t) \/ Lru!GiveUp(t)
    BY <1>1, <1>5, <1>9, <2>1 DEF Lru!Use, Lru!GiveUp, owner, ToFront, ToBack
  <2>3. t \in Lru!Table
    BY DEF Table, Lru!Table
  <2>4. QED
    BY <1>1, <2>2, <2>3 DEF Lru!Next
<1>10. CASE \E d \in Dirs : Taken(W, v, {o[Size]}, d) /\ b \in {o, ToFront(o, o[Size])}
  <2>1. PICK d \in Dirs : Taken(W, v, {o[Size]}, d) /\ b \in {o, ToFront(o, o[Size])}
    BY <1>10
  <2>2. owner' = [owner EXCEPT ![o[Size]] = d]
    BY <1>4, <1>6, <2>1
  <2>3. Lru!Take(d)
    BY <1>1, <2>1, <2>2 DEF Lru!Take, owner, ToFront
  <2>4. QED
    BY <1>1, <2>3 DEF Lru!Next
<1>11. CASE /\ o[Size] = 0
            /\ \E d \in Dirs : Taken(W, v, {0, ToFront(o, 0)[Size]}, d)
            /\ b \in {ToFront(o, 0), ToFront(ToFront(o, 0), ToFront(o, 0)[Size])}
  <2> DEFINE s == ToFront(o, 0)[Size]
  <2>1. PICK d \in Dirs : Taken(W, v, {0, s}, d)
    BY <1>11
  <2>2. s \in Table
    <3>1. ToFront(o, 0) \in Orders
      BY <1>4, MovesAreOrders DEF Table
    <3>2. QED
      BY <3>1 DEF Orders
  <2>3. owner' = [owner EXCEPT ![0] = d, ![s] = d]
    BY <1>7, <2>1, <2>2
  <2>4. Lru!TakeTwo(d)
    BY <1>1, <1>11, <2>3 DEF Lru!TakeTwo, owner, ToFront
  <2>5. QED
    BY <1>1, <2>4 DEF Lru!Next
<1>12. QED
  BY <1>8, <1>9, <1>10, <1>11 DEF Moved

\* The order of a mount.
StartOrder == [i \in 1 .. Size |-> i - 1]

LEMMA StartOrdered == Ordered(init_dirhash_tables, StartOrder)
<1> DEFINE o == StartOrder
           l == init_dirhash_tables
<1>1. o \in Orders
  <2>1. o \in [1 .. Size -> Table] /\ \A i \in 1 .. Size : o[i] = i - 1
    BY DEF StartOrder, Table
  <2>2. \A t \in Table : t + 1 \in 1 .. Size /\ o[t + 1] = t
    BY <2>1 DEF Table
  <2>3. \A i, j \in 1 .. Size : o[i] = o[j] => i = j
    BY <2>1
  <2> HIDE DEF o
  <2>4. QED
    BY <2>1, <2>2, <2>3 DEF Orders
<1>2. l \in Links
  BY DEF init_dirhash_tables, Links, Table
<1>3. l.head = o[1] /\ l.tail = o[Size]
  BY DEF init_dirhash_tables, StartOrder
<1>4. ASSUME NEW i \in 1 .. Size
      PROVE  /\ l.next[o[i]] = IF i = Size THEN Null ELSE o[i + 1]
             /\ l.prev[o[i]] = IF i = 1 THEN Null ELSE o[i - 1]
  <2>1. o[i] = i - 1 /\ i - 1 \in Table
    BY DEF StartOrder, Table
  <2>2. l.next[i - 1] = IF i = Size THEN Null ELSE i
    BY <2>1 DEF init_dirhash_tables
  <2>3. l.prev[i - 1] = IF i = 1 THEN Null ELSE i - 2
    BY <2>1 DEF init_dirhash_tables
  <2>4. (i # Size => o[i + 1] = i) /\ (i # 1 => o[i - 1] = i - 2)
    BY DEF StartOrder
  <2>5. QED
    BY <2>1, <2>2, <2>3, <2>4
<1>5. QED
  BY <1>1, <1>2, <1>3, <1>4 DEF Ordered

\* After a mount no table is anyone's.
LEMMA MountSound ==
  ASSUME NEW ds \in [Dirs -> DirRec],
         \A d \in Dirs : Distinct(ds[d].ents) /\ ds[d].seqno <= MaxSeq,
         \A d \in Dirs : ds[d].mode = "hashed" => Cardinality(LiveOf(ds[d].ents)) <= Limit,
         NEW v, v = [tab |-> [t \in Table |-> EmptyTable], lru |-> init_dirhash_tables,
                     dir |-> ds]
  PROVE  Sound(v, StartOrder) /\ Good(v)
<1>1. TabOK(EmptyTable)
  <2>1. EmptyTable \in TableRec
    BY DirhashAssumption DEF EmptyTable, TableRec, Slot
  <2>2. EmptyTable.inum = 0 /\ EmptyTable.seqno = 0
        /\ \A s \in Places : EmptyTable.data[s].seqno = 0
    BY DEF EmptyTable
  <2>3. QED
    BY <2>1, <2>2 DEF TabOK
<1>2. EmptyTable \in TableRec /\ EmptyTable.inum = 0
  BY <1>1 DEF TabOK, EmptyTable
<1>3. v \in States
  BY <1>2, StartOrdered DEF States, Ordered
<1>4. Sound(v, StartOrder)
  BY <1>1, <1>3, StartOrdered DEF Sound
<1>5. ASSUME NEW d \in Dirs PROVE HashedOK(v, d)
  <2>1. v.dir[d].id \in Table /\ d # 0
    BY DirhashAssumption DEF DirRec
  <2>2. ~ Cached(v, d)
    BY <1>2, <2>1 DEF Cached
  <2>3. QED
    BY <2>2 DEF HashedOK
<1>6. QED
  BY <1>4, <1>5 DEF Good

FreshDirs == [d \in Dirs |-> [mode |-> "inline", seqno |-> 0, id |-> 0, ents |-> << >>]]

LEMMA FreshSound == Sound(Fresh, StartOrder) /\ Good(Fresh)
<1>1. << >> \in Blocks /\ Distinct(<< >>)
  <2>1. << >> \in Seq(Entry) /\ Len(<< >>) = 0 /\ DOMAIN << >> = {}
    OBVIOUS
  <2>2. QED
    BY <2>1, DirhashAssumption DEF Blocks, Distinct
<1>2. FreshDirs \in [Dirs -> DirRec]
  BY <1>1 DEF FreshDirs, DirRec, Table
<1>3. \A d \in Dirs : /\ Distinct(FreshDirs[d].ents) /\ FreshDirs[d].seqno <= MaxSeq
                      /\ FreshDirs[d].mode # "hashed"
  BY <1>1, DirhashAssumption DEF FreshDirs
<1>4. Fresh = [tab |-> [t \in Table |-> EmptyTable], lru |-> init_dirhash_tables,
               dir |-> FreshDirs]
  BY DEF Fresh, FreshDirs
<1> HIDE DEF FreshDirs
<1>5. QED
  BY <1>2, <1>3, <1>4, MountSound

\* A mount is the start of AbsLru, or begins it anew.
LEMMA MountIsRestart ==
  ASSUME NEW v, v.tab = [t \in Table |-> EmptyTable], Sound(v, StartOrder), Good(v),
         Becomes(v)
  PROVE  CacheInv' /\ Lru!Restart
<1>1. CacheInv' /\ Order(lru)' = StartOrder /\ tab' = v.tab
  BY Reached DEF Becomes
<1>2. \A t \in Table : tab'[t].inum = 0
  BY <1>1 DEF EmptyTable
<1>3. QED
  BY <1>1, <1>2 DEF Lru!Restart, Lru!Table, Lru!None, StartOrder, Table

LEMMA InitInv == Init => CacheInv /\ Lru!Start
<1> SUFFICES ASSUME Init PROVE CacheInv /\ Lru!Start
  OBVIOUS
<1>1. W = Fresh
  BY DEF W, Init, Fresh
<1>2. Order(lru) = StartOrder
  BY FreshSound, OrderIs DEF Sound, Init
<1>3. tab = [t \in Table |-> EmptyTable]
      /\ \A d \in Dirs : dir[d].seqno = 0
  BY DEF Init, Fresh
<1>4. \A t \in Table : tab[t].seqno = 0 /\ tab[t].inum = 0
  BY <1>3 DEF EmptyTable
<1>5. CacheInv
  BY <1>1, <1>2, <1>3, <1>4, FreshSound, DirhashAssumption DEF CacheInv
<1>6. Lru!Start
  BY <1>2, <1>4 DEF Lru!Start, Lru!Table, Lru!None, StartOrder, Table
<1>7. QED
  BY <1>5, <1>6

-----------------------------------------------------------------------------
(* The calls.                                                               *)

LEMMA InvIs ==
  ASSUME CacheInv
  PROVE  /\ W.tab = tab /\ W.lru = lru /\ W.dir = dir
         /\ W \in States /\ Sound(W, Order(lru)) /\ Good(W)
         /\ \A d \in Dirs : /\ dir[d] \in DirRec /\ Distinct(dir[d].ents)
                            /\ dir[d].seqno <= MaxSeq
  BY DEF CacheInv, W, Sound, States

\* What was inline, as entries of the block.
Block(names) == [k \in 1 .. Len(names) |-> [name |-> names[k], live |-> TRUE]]

LEMMA BlockIs ==
  ASSUME NEW names \in Seq(Names), \A i, j \in DOMAIN names : names[i] = names[j] => i = j,
         Len(names) < Slots
  PROVE  /\ Block(names) \in Blocks /\ Distinct(Block(names))
         /\ Cardinality(LiveOf(Block(names))) = Len(names)
         /\ FreeSlot(Block(names)) = Len(names) + 1
         /\ \A j \in LiveOf(Block(names)) : j \in DOMAIN names /\ Block(names)[j].name = names[j]
<1> DEFINE m == Len(names)
           es == Block(names)
<1>1. m \in Nat /\ DOMAIN names = 1 .. m /\ Slots \in Nat /\ m < Slots
  BY DirhashAssumption
<1>2. \A k \in 1 .. m : names[k] \in Names
  BY <1>1
<1> HIDE DEF m
<1>3. /\ DOMAIN es = 1 .. m
      /\ \A k \in 1 .. m : es[k] = [name |-> names[k], live |-> TRUE]
  BY DEF Block, m
<1>4. es \in [1 .. m -> Entry]
  <2>1. es = [k \in 1 .. m |-> [name |-> names[k], live |-> TRUE]]
    BY DEF Block, m
  <2>2. \A k \in 1 .. m : [name |-> names[k], live |-> TRUE] \in Entry
    BY <1>2 DEF Entry
  <2>3. QED
    BY <2>1, <2>2
<1> HIDE DEF es
<1>5. es \in Seq(Entry) /\ Len(es) = m
  BY <1>1, <1>4
<1>6. es \in Blocks
  BY <1>1, <1>5 DEF Blocks
<1>7. Distinct(es)
  BY <1>1, <1>3 DEF Distinct
<1>8. LiveOf(es) = 1 .. m
  BY <1>3 DEF LiveOf
<1>9. Cardinality(1 .. m) = m
  BY <1>1, FS_Interval
<1>10. FreeSlot(es) = m + 1
  <2>1. {k \in DOMAIN es : ~ es[k].live} = {}
    BY <1>3
  <2>2. QED
    BY <1>5, <2>1 DEF FreeSlot
<1>11. QED
  BY <1>1, <1>3, <1>6, <1>7, <1>8, <1>9, <1>10 DEF es, m

Converted(w, d, es) ==
  [w EXCEPT !.dir[d] = [mode |-> "hashed", seqno |-> 0, id |-> 0, ents |-> es]]

LEMMA ConvertFields ==
  ASSUME NEW w, NEW o, Sound(w, o), Good(w), NEW d \in Dirs, NEW es \in Blocks,
         Distinct(es), Cardinality(LiveOf(es)) <= Limit,
         NEW v, v = Converted(w, d, es)
  PROVE  /\ Sound(v, o) /\ Good(v) /\ v.tab = w.tab /\ v.dir[d].ents = es
         /\ v.dir[d].mode = "hashed" /\ v.dir[d].id = 0
<1> DEFINE rec == [mode |-> "hashed", seqno |-> 0, id |-> 0, ents |-> es]
<1>1. w \in States /\ rec \in DirRec
  BY DEF Sound, DirRec, Table
<1>2. /\ rec.mode = "hashed" /\ rec.seqno = 0 /\ rec.id = 0 /\ rec.ents = es
      /\ v = [w EXCEPT !.dir[d] = rec]
  BY DEF Converted
<1> HIDE DEF rec
<1>3. /\ v.tab = w.tab /\ v.lru = w.lru /\ v.dir = [w.dir EXCEPT ![d] = rec]
      /\ v = [tab |-> v.tab, lru |-> v.lru, dir |-> v.dir]
  BY <1>1, <1>2 DEF States
<1>4. v.dir[d] = rec /\ \A e \in Dirs \ {d} : v.dir[e] = w.dir[e]
  BY <1>1, <1>3 DEF States
<1>5. v.dir \in [Dirs -> DirRec]
  BY <1>1, <1>3 DEF States
<1>6. v \in States
  BY <1>1, <1>3, <1>5 DEF States
<1>7. \A e \in Dirs : \/ v.dir[e].seqno <= MaxSeq
                      \/ \E t \in Table : v.dir[e].seqno <= v.tab[t].seqno
  BY <1>2, <1>3, <1>4, DirhashAssumption DEF Sound
<1>8. Sound(v, o)
  BY <1>2, <1>3, <1>4, <1>6, <1>7 DEF Sound
<1>9. ASSUME NEW e \in Dirs PROVE HashedOK(v, e)
  <2>1. CASE e = d
    <3>1. ~ Cached(v, d)
      BY <1>2, <1>4 DEF Cached
    <3>2. QED
      BY <1>2, <1>4, <2>1, <3>1 DEF HashedOK
  <2>2. CASE e # d
    <3>1. HashedOK(w, e)
      BY DEF Good
    <3>2. QED
      BY <1>3, <1>4, <2>2, <3>1 DEF HashedOK, Cached, Stored
  <2>3. QED
    BY <2>1, <2>2
<1>10. QED
  BY <1>2, <1>3, <1>4, <1>8, <1>9 DEF Good

LEMMA ConvertMoves ==
  ASSUME CacheInv, NEW d \in Dirs, NEW n \in FileNames,
         NEW kept \in {<< >>} \union {<< m >> : m \in FileNames}, Convert(d, kept, n)
  PROVE  CacheInv' /\ [Lru!Next]_(Lru!vars)
<1> DEFINE o == Order(lru)
           names == DotNames \o kept
           w == convert(W, d, kept)
           v == new_dentry(w, d, n)
<1>1. /\ DotNames \in Seq(Names) /\ Len(DotNames) \in Nat /\ Slots \in Nat
      /\ Len(DotNames) + 2 <= Slots /\ Limit \in Nat
      /\ \A i, j \in DOMAIN DotNames : DotNames[i] = DotNames[j] => i = j
  BY DirhashAssumption
<1>2. n \in Names /\ \A i \in DOMAIN DotNames : DotNames[i] # n
  BY DEF FileNames, Range
<1>3. /\ kept \in Seq(Names) /\ Len(kept) \in {0, 1}
      /\ \A j \in DOMAIN kept : /\ kept[j] # n
                                /\ \A i \in DOMAIN DotNames : DotNames[i] # kept[j]
  <2>1. CASE kept = << >>
    BY <2>1
  <2>2. CASE \E m \in FileNames : kept = << m >>
    <3>1. PICK m \in FileNames : kept = << m >>
      BY <2>2
    <3>2. m \in Names /\ \A i \in DOMAIN DotNames : DotNames[i] # m
      BY DEF FileNames, Range
    <3>3. DOMAIN kept = {1} /\ kept[1] = m /\ kept \in Seq(Names) /\ Len(kept) = 1
      BY <3>1, <3>2
    <3>4. m # n
      BY <3>3 DEF Convert, Range
    <3>5. QED
      BY <3>2, <3>3, <3>4
  <2>3. QED
    BY <2>1, <2>2
<1> HIDE DEF names
<1>4. /\ names \in Seq(Names) /\ Len(names) = Len(DotNames) + Len(kept)
      /\ \A i \in DOMAIN names :
           names[i] = IF i <= Len(DotNames) THEN DotNames[i] ELSE kept[i - Len(DotNames)]
  BY <1>1, <1>3 DEF names
<1>5. \A i \in DOMAIN names :
        /\ i \in Nat
        /\ i <= Len(DotNames) => i \in DOMAIN DotNames
        /\ i > Len(DotNames) => i - Len(DotNames) = 1 /\ 1 \in DOMAIN kept
  BY <1>1, <1>3, <1>4
<1>6. \A i, j \in DOMAIN names : names[i] = names[j] => i = j
  <2>1. ASSUME NEW i \in DOMAIN names, NEW j \in DOMAIN names, names[i] = names[j],
               i <= Len(DotNames)
        PROVE  i = j
    BY <1>1, <1>3, <1>4, <1>5, <2>1
  <2>2. ASSUME NEW i \in DOMAIN names, NEW j \in DOMAIN names,
               i > Len(DotNames), j > Len(DotNames)
        PROVE  i = j
    BY <1>1, <1>5, <2>2
  <2>3. \A i \in DOMAIN names : i \in Nat
    BY <1>5
  <2> HIDE DEF names
  <2>4. QED
    BY <1>1, <2>1, <2>2, <2>3
<1>7. \A i \in DOMAIN names : names[i] # n
  BY <1>1, <1>2, <1>3, <1>4, <1>5
<1>8. Len(names) \in Nat /\ Len(names) < Slots /\ Len(names) <= Limit
  <2>1. Len(DotNames) + Len(kept) < Limit
    BY DEF Convert
  <2>2. Len(kept) \in Nat /\ Len(kept) <= 1
    BY <1>3
  <2>3. Len(names) = Len(DotNames) + Len(kept)
    BY <1>4
  <2>4. QED
    BY <1>1, <2>1, <2>2, <2>3
<1> DEFINE es == Block(names)
<1>9. /\ es \in Blocks /\ Distinct(es) /\ Cardinality(LiveOf(es)) = Len(names)
      /\ FreeSlot(es) = Len(names) + 1
      /\ \A j \in LiveOf(es) : j \in DOMAIN names /\ es[j].name = names[j]
  BY <1>4, <1>6, <1>8, BlockIs
<1>10. w = Converted(W, d, es)
  BY DEF convert, Converted, Block, names
<1> HIDE DEF es, w
<1>11. /\ Sound(w, o) /\ Good(w) /\ w.tab = W.tab /\ w.dir[d].ents = es
       /\ w.dir[d].mode = "hashed" /\ w.dir[d].id = 0
  <2>1. Sound(W, o) /\ Good(W)
    BY InvIs
  <2>2. es \in Blocks /\ Distinct(es) /\ Cardinality(LiveOf(es)) <= Limit
    BY <1>8, <1>9
  <2> HIDE DEF o
  <2>3. QED
    BY <1>10, <2>1, <2>2, ConvertFields
<1>12. FreeSlot(w.dir[d].ents) <= Slots /\ \A j \in LiveOf(w.dir[d].ents) :
                                              w.dir[d].ents[j].name # n
  <2>1. FreeSlot(es) <= Slots
    BY <1>1, <1>8, <1>9
  <2>2. \A j \in LiveOf(es) : es[j].name # n
    BY <1>7, <1>9
  <2>3. w.dir[d].ents = es
    BY <1>11
  <2>4. QED
    BY <2>1, <2>2, <2>3
<1> HIDE DEF v
<1>13. Added(w, v, d, o)
  BY <1>2, <1>11, <1>12, NewDentry DEF Good, v
<1>14. 0 \in Table
  BY DEF Table
<1>15. Good(v) /\ \E b : Sound(v, b) /\ Moved(w, v, o, b)
  BY <1>11, <1>13, <1>14, AddMoves
<1>16. PICK b : Sound(v, b) /\ Moved(w, v, o, b)
  BY <1>15
<1>17. Moved(W, v, o, b)
  BY <1>11, <1>16 DEF Moved, Same, Taken
<1>18. Becomes(v)
  BY DEF Convert, v, w
<1>19. QED
  BY <1>15, <1>16, <1>17, <1>18, MovedIsStep

LEMMA StatMoves ==
  ASSUME CacheInv, NEW d \in Dirs, NEW n \in Names, NEW f, f = Lookup(W, d, n), Becomes(f.w)
  PROVE  CacheInv' /\ [Lru!Next]_(Lru!vars)
<1>1. LookedUp(W, f.w, d, Order(lru))
  BY InvIs, LookupIs DEF Good
<1>2. Good(f.w) /\ \E b : Sound(f.w, b) /\ Moved(W, f.w, Order(lru), b)
  BY <1>1, InvIs, LookupMoves
<1>3. QED
  BY <1>2, MovedIsStep

\* A name that a lookup does not find is not in use.
LEMMA NotFound ==
  ASSUME NEW w, NEW o, Sound(w, o), Good(w), NEW d \in Dirs, NEW n \in Names,
         NEW f, f = Lookup(w, d, n), f.dent = NoPointer
  PROVE  \A j \in LiveOf(w.dir[d].ents) : w.dir[d].ents[j].name # n
<1>1. SUFFICES ASSUME NEW j \in LiveOf(w.dir[d].ents), w.dir[d].ents[j].name = n
               PROVE  FALSE
  OBVIOUS
<1>2. f.dent = Ptr(d, j)
  BY <1>1, LookupIs DEF Good
<1>3. d # 0
  BY DirhashAssumption
<1>4. QED
  BY <1>2, <1>3 DEF Ptr, NoPointer

LEMMA CreateMoves ==
  ASSUME CacheInv, NEW d \in Dirs, NEW n \in FileNames, Create(d, n)
  PROVE  CacheInv' /\ [Lru!Next]_(Lru!vars)
<1> DEFINE f == Lookup(W, d, n)
           x == f.w
           v == new_dentry(x, d, n)
           o == Order(lru)
           b == OrderAfter(W, d, o)
<1>1. n \in Names /\ Sound(W, o) /\ Good(W) /\ W.dir = dir
  BY InvIs DEF FileNames
<1>2. CASE f.dent # NoPointer
  <2>1. Becomes(f.w)
    BY <1>2 DEF Create
  <2>2. QED
    BY <1>1, <2>1, StatMoves
<1>3. CASE f.dent = NoPointer
  <2>1. Becomes(v) /\ FreeSlot(dir[d].ents) <= Slots
    BY <1>3 DEF Create
  <2>2. LookedUp(W, x, d, o)
    BY <1>1, LookupIs DEF Good
  <2>3. \A j \in LiveOf(W.dir[d].ents) : W.dir[d].ents[j].name # n
    BY <1>1, <1>3, NotFound
  <2> HIDE DEF f, x
  <2>4. x.dir[d].ents = dir[d].ents /\ Good(x)
    BY <1>1, <2>2 DEF LookedUp, Good
  <2>5. Sound(x, b)
    BY <1>1, <2>2, SoundAfterLookup
  <2> HIDE DEF v, b
  <2>6. Added(x, v, d, b)
    BY <1>1, <2>1, <2>3, <2>4, <2>5, NewDentry DEF Good, v
  <2>7. Good(v) /\ \E c : Sound(v, c) /\ Moved(W, v, o, c)
    BY <1>1, <2>2, <2>6, LookupAddMoves DEF b
  <2>8. QED
    BY <2>1, <2>7, MovedIsStep
<1>4. QED
  BY <1>2, <1>3

\* An entry that is emptied leaves the table with one entry too many, and the
\* entries in use where they were.
Emptied(w, p) == [w EXCEPT !.dir[p.dir].ents[p.k].live = FALSE]

LEMMA EmptiedSound ==
  ASSUME NEW w, NEW o, Sound(w, o), Good(w), NEW p \in Pointers,
         NEW v, v = Emptied(w, p)
  PROVE  Sound(v, o) /\ Good(v) /\ v.tab = w.tab
<1> DEFINE d == p.dir
           ents == w.dir[d].ents
           es == [ents EXCEPT ![p.k].live = FALSE]
<1>1. d \in Dirs /\ w \in States /\ ents \in Blocks /\ Distinct(ents)
  BY DEF Pointers, Sound, States, DirRec
<1>2. v = WithEnts(w, d, es)
  BY <1>1 DEF States, DirRec, Emptied, WithEnts
<1>3. /\ ents \in Seq(Entry) /\ Len(ents) \in Nat /\ DOMAIN ents = 1 .. Len(ents)
      /\ Len(ents) <= Slots
  BY <1>1 DEF Blocks
<1> HIDE DEF d, ents
<1>4. /\ DOMAIN es = DOMAIN ents
      /\ \A j \in DOMAIN ents :
           /\ es[j] = IF j = p.k THEN [ents[j] EXCEPT !.live = FALSE] ELSE ents[j]
           /\ es[j] \in Entry /\ es[j].name = ents[j].name
           /\ es[j].live => ents[j].live
  <2>1. ASSUME NEW j \in DOMAIN ents
        PROVE  es[j] = IF j = p.k THEN [ents[j] EXCEPT !.live = FALSE] ELSE ents[j]
    BY <1>3
  <2>2. \A j \in DOMAIN ents : ents[j] \in Entry
    BY <1>3
  <2>3. DOMAIN es = DOMAIN ents
    OBVIOUS
  <2> HIDE DEF es
  <2>4. ASSUME NEW j \in DOMAIN ents
        PROVE  es[j] \in Entry /\ es[j].name = ents[j].name /\ (es[j].live => ents[j].live)
    <3>1. [ents[j] EXCEPT !.live = FALSE] = [name |-> ents[j].name, live |-> FALSE]
      <4> DEFINE r == ents[j]
      <4>1. r \in Entry
        BY <2>2
      <4> HIDE DEF r
      <4> DEFINE f == FALSE
      <4> HIDE DEF f
      <4>2. [r EXCEPT !.live = f] = [name |-> r.name, live |-> f]
        BY <4>1 DEF Entry
      <4>3. QED
        BY <4>2 DEF r, f
    <3>2. CASE j = p.k
      <4>1. es[j] = [name |-> ents[j].name, live |-> FALSE]
        BY <2>1, <3>1, <3>2
      <4>2. QED
        BY <2>2, <4>1 DEF Entry
    <3>3. CASE j # p.k
      BY <2>1, <2>2, <3>3
    <3>4. QED
      BY <3>2, <3>3
  <2>5. QED
    BY <2>1, <2>3, <2>4
<1>5. es \in Blocks
  <2>1. es = [j \in 1 .. Len(ents) |-> es[j]]
    BY <1>3
  <2> HIDE DEF es
  <2>2. es \in Seq(Entry) /\ Len(es) = Len(ents)
    BY <1>3, <1>4, <2>1
  <2>3. QED
    BY <1>3, <2>2 DEF Blocks
<1> HIDE DEF es
<1>6. Distinct(es)
  BY <1>1, <1>4 DEF Distinct
<1>7. LiveOf(es) \subseteq LiveOf(ents)
  BY <1>4 DEF LiveOf
<1>8. Cardinality(LiveOf(es)) <= Cardinality(LiveOf(ents))
      /\ Cardinality(LiveOf(es)) \in Nat /\ Cardinality(LiveOf(ents)) \in Nat
  <2>1. IsFiniteSet(LiveOf(ents)) /\ Cardinality(LiveOf(ents)) \in Nat
        /\ Cardinality(LiveOf(es)) \in Nat
    BY <1>1, <1>5, LiveOfIsLiveTo
  <2>2. QED
    BY <1>7, <2>1, FS_Subset
<1>9. /\ Sound(v, o) /\ v.tab = w.tab
      /\ v.dir[d].ents = es /\ v.dir[d].mode = w.dir[d].mode
      /\ v.dir[d].id = w.dir[d].id
      /\ \A e \in Dirs : Cached(v, e) = Cached(w, e)
      /\ \A e \in Dirs \ {d} : HashedOK(w, e) => HashedOK(v, e)
  BY <1>1, <1>2, <1>5, <1>6, WithFields
<1>10. HashedOK(v, d)
  <2>1. SUFFICES ASSUME w.dir[d].mode = "hashed"
                 PROVE  /\ Cardinality(LiveOf(es)) <= Limit
                        /\ Cached(w, d) =>
                             /\ Cardinality(LiveOf(es)) <= v.tab[w.dir[d].id].capacity
                             /\ Stored(v, d, w.dir[d].id)
    BY <1>1, <1>9 DEF HashedOK
  <2>2. /\ Cardinality(LiveOf(ents)) <= Limit
        /\ Cached(w, d) =>
             /\ Cardinality(LiveOf(ents)) <= w.tab[w.dir[d].id].capacity
             /\ Stored(w, d, w.dir[d].id)
    BY <1>1, <2>1 DEF Good, HashedOK, ents
  <2>3. Limit \in Nat /\ w.tab[w.dir[d].id].capacity \in Nat
    BY <1>1, DirhashAssumption DEF States, DirRec, TableRec
  <2>4. Stored(w, d, w.dir[d].id) => Stored(v, d, w.dir[d].id)
    BY <1>4, <1>7, <1>9 DEF Stored, ents, LiveOf
  <2>5. QED
    BY <1>8, <1>9, <2>2, <2>3, <2>4
<1>11. QED
  BY <1>9, <1>10 DEF Good

LEMMA UnlinkMoves ==
  ASSUME CacheInv, NEW d \in Dirs, NEW n \in FileNames, Unlink(d, n)
  PROVE  CacheInv' /\ [Lru!Next]_(Lru!vars)
<1> DEFINE f == Lookup(W, d, n)
           p == f.dent
           o == Order(lru)
           v == Emptied(f.w, p)
<1>1. n \in Names /\ Sound(W, o) /\ Good(W)
  BY InvIs DEF FileNames
<1>2. CASE p = NoPointer
  <2>1. Becomes(f.w)
    BY <1>2 DEF Unlink
  <2>2. QED
    BY <1>1, <2>1, StatMoves
<1>3. CASE p # NoPointer
  <2>1. Becomes(v)
    BY <1>3 DEF Unlink, Emptied
  <2>2. p \in Pointers /\ LookedUp(W, f.w, d, o)
    BY <1>1, <1>3, LookupIs DEF Good
  <2> HIDE DEF f, v, p
  <2>3. Good(f.w) /\ \E b : Sound(f.w, b) /\ Moved(W, f.w, o, b)
    BY <1>1, <2>2, LookupMoves
  <2>4. PICK b : Sound(f.w, b) /\ Moved(W, f.w, o, b)
    BY <2>3
  <2>5. Sound(v, b) /\ Good(v) /\ v.tab = f.w.tab
    BY <2>2, <2>3, <2>4, EmptiedSound DEF v
  <2>6. Moved(W, v, o, b)
    BY <2>4, <2>5 DEF Moved, Same, Taken
  <2>7. QED
    BY <2>1, <2>5, <2>6, MovedIsStep
<1>4. QED
  BY <1>2, <1>3

LEMMA ClearMoves ==
  ASSUME CacheInv, hfs_dirhash_clear
  PROVE  CacheInv' /\ Lru!Clear
<1> DEFINE tables == [t \in Table |-> dt_refresh(tab[t])]
           v == [W EXCEPT !.tab = tables]
           o == Order(lru)
<1>1. /\ W \in States /\ Sound(W, o) /\ Good(W) /\ W.tab = tab /\ W.lru = lru /\ W.dir = dir
      /\ \A d \in Dirs : dir[d].seqno <= MaxSeq /\ dir[d].id \in Table
  BY InvIs DEF DirRec
<1>2. ASSUME NEW t \in Table
      PROVE  tables[t] = [seqno |-> tab[t].seqno + 1, inum |-> 0, capacity |-> 0,
                          data |-> tab[t].data] /\ TabOK(tables[t])
  <2> DEFINE r == dt_refresh(tab[t])
  <2>1. tables[t] = r /\ TabOK(tab[t]) /\ tab[t] \in TableRec
    BY <1>1 DEF Sound, TabOK
  <2>2. r = [seqno |-> tab[t].seqno + 1, inum |-> 0, capacity |-> 0, data |-> tab[t].data]
    BY <2>1, DtRefreshIs
  <2> HIDE DEF r
  <2>3. r \in TableRec
    BY <2>1, <2>2, DirhashAssumption DEF TableRec
  <2>4. tab[t].seqno \in Nat /\ \A s \in Places : tab[t].data[s].seqno \in Nat
                                /\ tab[t].data[s].seqno <= tab[t].seqno
    BY <2>1 DEF TabOK, TableRec, Slot
  <2>5. \A s \in Places : r.data[s].seqno <= r.seqno
    BY <2>2, <2>4
  <2>6. TabOK(r)
    BY <2>2, <2>3, <2>5 DEF TabOK
  <2> HIDE DEF tables
  <2>7. QED
    BY <2>1, <2>2, <2>6
<1>3. \A t \in Table : tables[t].inum = 0
  <2>1. ASSUME NEW t \in Table PROVE tables[t].inum = 0
    <3>1. TabOK(tab[t])
      BY <1>1 DEF Sound
    <3>2. tables[t] = dt_refresh(tab[t])
      OBVIOUS
    <3> HIDE DEF tables
    <3>3. QED
      BY <3>1, <3>2, DtRefreshIs DEF TabOK
  <2> HIDE DEF tables
  <2>2. QED
    BY <2>1
<1>4. tables \in [Table -> TableRec]
  <2>1. tables = [t \in Table |-> tables[t]]
    OBVIOUS
  <2> HIDE DEF tables
  <2>2. QED
    BY <1>2, <2>1 DEF TabOK
<1> HIDE DEF tables
<1>5. v.tab = tables /\ v.lru = lru /\ v.dir = dir
      /\ v = [tab |-> v.tab, lru |-> v.lru, dir |-> v.dir]
  BY <1>1 DEF States
<1>6. Becomes(v)
  BY DEF hfs_dirhash_clear, tables
<1> HIDE DEF v
<1>7. v \in States
  BY <1>1, <1>4, <1>5 DEF States
<1>8. Sound(v, o)
  BY <1>1, <1>2, <1>5, <1>7 DEF Sound
<1>9. ASSUME NEW d \in Dirs PROVE HashedOK(v, d)
  <2>1. v.dir[d].id \in Table /\ v.tab = tables /\ d # 0
    BY <1>1, <1>5, DirhashAssumption
  <2>2. ~ Cached(v, d)
    BY <1>3, <2>1 DEF Cached
  <2>3. HashedOK(W, d)
    BY <1>1 DEF Good
  <2>4. v.dir[d] = W.dir[d]
    BY <1>1, <1>5
  <2>5. QED
    BY <2>2, <2>3, <2>4 DEF HashedOK
<1>10. CacheInv' /\ Order(lru)' = o /\ tab' = v.tab
  BY <1>6, <1>8, <1>9, Reached DEF Good, Becomes
<1>11. \A t \in Table : tab'[t].inum = 0
  BY <1>3, <1>5, <1>10
<1>12. QED
  BY <1>10, <1>11 DEF Lru!Clear, Lru!Table, Lru!None, Table

LEMMA RemountMoves ==
  ASSUME CacheInv, Remount
  PROVE  CacheInv' /\ Lru!Restart
<1> DEFINE v == [tab |-> [t \in Table |-> EmptyTable], lru |-> init_dirhash_tables,
                 dir |-> dir]
<1>1. [Fresh EXCEPT !.dir = dir] = v
  BY DEF Fresh
<1>2. dir \in [Dirs -> DirRec]
  BY InvIs DEF States
<1>3. \A d \in Dirs : dir[d].mode = "hashed" => Cardinality(LiveOf(dir[d].ents)) <= Limit
  BY InvIs DEF Good, HashedOK
<1>4. Sound(v, StartOrder) /\ Good(v)
  BY <1>2, <1>3, InvIs, MountSound
<1>5. Becomes(v)
  BY <1>1 DEF Remount
<1>6. QED
  BY <1>4, <1>5, MountIsRestart

LEMMA ResetMoves ==
  ASSUME fs_reset
  PROVE  CacheInv' /\ Lru!Restart
<1>1. Fresh.tab = [t \in Table |-> EmptyTable]
  BY DEF Fresh
<1>2. Becomes(Fresh)
  BY DEF fs_reset
<1>3. QED
  BY <1>1, <1>2, FreshSound, MountIsRestart

LEMMA NextMoves == CacheInv /\ [Next]_vars => CacheInv' /\ [Lru!Next]_(Lru!vars)
<1> SUFFICES ASSUME CacheInv, [Next]_vars
             PROVE  CacheInv' /\ [Lru!Next]_(Lru!vars)
  OBVIOUS
<1>1. ASSUME NEW d \in Dirs, NEW n \in FileNames,
             NEW kept \in {<< >>} \union {<< m >> : m \in FileNames}, Convert(d, kept, n)
      PROVE  CacheInv' /\ [Lru!Next]_(Lru!vars)
  BY <1>1, ConvertMoves
<1>2. ASSUME NEW d \in Dirs, NEW n \in FileNames, Create(d, n)
      PROVE  CacheInv' /\ [Lru!Next]_(Lru!vars)
  BY <1>2, CreateMoves
<1>3. ASSUME NEW d \in Dirs, NEW n \in FileNames, Unlink(d, n)
      PROVE  CacheInv' /\ [Lru!Next]_(Lru!vars)
  BY <1>3, UnlinkMoves
<1>4. ASSUME NEW d \in Dirs, NEW n \in Names, Stat(d, n)
      PROVE  CacheInv' /\ [Lru!Next]_(Lru!vars)
  BY <1>4, StatMoves DEF Stat
<1>5. CASE hfs_dirhash_clear
  BY <1>5, ClearMoves DEF Lru!Next
<1>6. CASE Remount
  BY <1>6, RemountMoves DEF Lru!Next
<1>7. CASE fs_reset
  BY <1>7, ResetMoves DEF Lru!Next
<1>8. CASE UNCHANGED vars
  <2>1. tab' = tab /\ lru' = lru /\ dir' = dir
    BY <1>8 DEF vars
  <2>2. W' = W /\ Order(lru)' = Order(lru)
    BY <2>1 DEF W
  <2>3. CacheInv'
    BY <2>1, <2>2 DEF CacheInv
  <2>4. UNCHANGED Lru!vars
    BY <2>1, <2>2 DEF Lru!vars
  <2>5. QED
    BY <2>3, <2>4
<1>9. QED
  BY <1>1, <1>2, <1>3, <1>4, <1>5, <1>6, <1>7, <1>8 DEF Next

-----------------------------------------------------------------------------
(* Theorems.                                                                *)

\* However the tables are used, the list has them all, every hashed directory
\* fits into a table, and one that finds its table finds all its entries there.
THEOREM CacheInvariant == Spec => []CacheInv
<1>1. Init => CacheInv
  BY InitInv
<1>2. CacheInv /\ [Next]_vars => CacheInv'
  BY NextMoves
<1>3. QED
  BY <1>1, <1>2, PTL DEF Spec

\* Every table, link and record of a directory has a value it may have.
THEOREM DirhashTyped == Spec => []TypeOK
<1>1. CacheInv => TypeOK
  <2> SUFFICES ASSUME CacheInv PROVE TypeOK
    OBVIOUS
  <2>1. /\ W \in States /\ Sound(W, Order(lru)) /\ W.tab = tab /\ W.lru = lru /\ W.dir = dir
        /\ MaxSeq \in Nat /\ Limit \in Nat /\ Slots \in Nat
    BY InvIs, DirhashAssumption
  <2>2. ASSUME NEW t \in Table
        PROVE  tab[t] \in [seqno : 0 .. MaxSeq, inum : Dirs \union {0}, capacity : 0 .. Limit,
                           data : [Places -> [seqno : 0 .. MaxSeq,
                                              hash : Names \union {NoHash},
                                              dent : Pointers \union {NoPointer}]]]
    <3>1. TabOK(tab[t]) /\ tab[t].seqno <= MaxSeq
      BY <2>1 DEF Sound, CacheInv
    <3>2. tab[t] \in TableRec
      BY <3>1 DEF TabOK
    <3>3. tab[t].seqno \in 0 .. MaxSeq
      BY <2>1, <3>1, <3>2 DEF TableRec
    <3>4. ASSUME NEW s \in Places
          PROVE  tab[t].data[s] \in [seqno : 0 .. MaxSeq, hash : Names \union {NoHash},
                                     dent : Pointers \union {NoPointer}]
      <4>1. tab[t].data[s] \in Slot
        BY <3>2 DEF TableRec
      <4>2. tab[t].data[s].seqno <= tab[t].seqno
        BY <3>1 DEF TabOK
      <4>3. tab[t].data[s].seqno \in 0 .. MaxSeq
        BY <2>1, <3>3, <4>1, <4>2 DEF Slot
      <4>4. QED
        BY <4>1, <4>3 DEF Slot
    <3>5. tab[t].data \in [Places -> [seqno : 0 .. MaxSeq, hash : Names \union {NoHash},
                                      dent : Pointers \union {NoPointer}]]
      BY <3>2, <3>4 DEF TableRec
    <3>6. QED
      BY <3>2, <3>3, <3>5 DEF TableRec
  <2>3. ASSUME NEW d \in Dirs
        PROVE  dir[d] \in [mode : {"inline", "hashed", "regular"}, seqno : 0 .. MaxSeq,
                           id : Table, ents : BoundedSeq(Entry, Slots)]
    <3>1. dir[d] \in DirRec /\ dir[d].seqno <= MaxSeq
      BY InvIs
    <3>2. dir[d].ents \in Seq(Entry) /\ Len(dir[d].ents) <= Slots
      BY <3>1 DEF DirRec, Blocks
    <3>3. dir[d].ents \in BoundedSeq(Entry, Slots)
      <4> DEFINE es == dir[d].ents
                 m == Len(es)
      <4>1. es \in Seq(Entry) /\ m \in Nat /\ m <= Slots
        BY <3>2
      <4>2. es \in [1 .. m -> Entry]
        BY <4>1
      <4>3. m \in 0 .. Slots
        BY <2>1, <4>1
      <4> HIDE DEF es, m
      <4>4. es \in UNION {[1 .. i -> Entry] : i \in 0 .. Slots}
        BY <4>2, <4>3
      <4>5. BoundedSeq(Entry, Slots) = UNION {[1 .. i -> Entry] : i \in 0 .. Slots}
        BY DEF BoundedSeq, SeqOf
      <4>6. QED
        BY <4>4, <4>5 DEF es
    <3>4. dir[d].seqno \in 0 .. MaxSeq
      BY <2>1, <3>1 DEF DirRec
    <3>5. QED
      BY <3>1, <3>3, <3>4 DEF DirRec
  <2>4. lru \in Links
    BY <2>1 DEF States
  <2>5. QED
    BY <2>1, <2>2, <2>3, <2>4 DEF TypeOK, States, Links
<1>2. QED
  BY <1>1, CacheInvariant, PTL

\* The list from the head has every table once and ends at the tail, and prev
\* is next backwards.
THEOREM DirhashList == Spec => []ListIntact
<1>1. CacheInv => ListIntact
  <2> SUFFICES ASSUME CacheInv PROVE ListIntact
    OBVIOUS
  <2> DEFINE o == Order(lru)
  <2>1. Ordered(lru, o)
    BY InvIs DEF Sound
  <2> HIDE DEF o
  <2>2. Range(o) = Table
    BY <2>1 DEF Ordered, Orders, Range
  <2>3. o[Size] = lru.tail /\ lru.next[lru.tail] = Null /\ lru.prev[lru.head] = Null
    BY <2>1 DEF Ordered
  <2>4. \A i \in 2 .. Size : lru.prev[o[i]] = o[i - 1]
    BY <2>1 DEF Ordered
  <2>5. QED
    BY <2>2, <2>3, <2>4 DEF ListIntact, o
<1>2. QED
  BY <1>1, CacheInvariant, PTL

\* The loops of put_dentry and do_lookup end: a table in use has a place that
\* no entry of its directory has.
THEOREM DirhashProbesEnd == Spec => []ProbesEnd
<1>1. CacheInv => ProbesEnd
  BY InvIs, RoomLeft DEF Sound, ProbesEnd
<1>2. QED
  BY <1>1, CacheInvariant, PTL

\* In every directory, hashed or not any more, a lookup of a name in use ends
\* at its entry.
THEOREM DirhashFinds == Spec => []LiveNamesFound
<1>1. CacheInv => LiveNamesFound
  <2> SUFFICES ASSUME CacheInv, NEW d \in Dirs, NEW k \in DOMAIN dir[d].ents,
                      dir[d].ents[k].live
               PROVE  Lookup(W, d, dir[d].ents[k].name).dent = [dir |-> d, k |-> k]
    BY DEF LiveNamesFound
  <2>1. Sound(W, Order(lru)) /\ Good(W) /\ W.dir = dir
    BY InvIs
  <2>2. dir[d].ents[k].name \in Names /\ k \in LiveOf(dir[d].ents)
    BY <2>1, PointersOf DEF Entry, LiveOf
  <2>3. QED
    BY <2>1, <2>2, LookupIs DEF Good, Ptr
<1>2. QED
  BY <1>1, CacheInvariant, PTL

\* Of the tables only the one used longest ago, or one that was given up, is
\* taken for another directory: the list implements AbsLru.
THEOREM DirhashImplementsLru == Spec => ImplementsLru
<1>1. Init => Lru!Start
  BY InitInv
<1>2. CacheInv /\ [Next]_vars => [Lru!Next]_(Lru!vars)
  BY NextMoves
<1>3. QED
  BY <1>1, <1>2, CacheInvariant, PTL DEF Spec, ImplementsLru, Lru!Spec
=============================================================================
