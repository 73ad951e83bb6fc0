---------------------------- MODULE FieldIoProofs ----------------------------
(***************************************************************************)
(* Proofs about the field, for every io-map whose fields have the types of *)
(* the document.  Planning: slots, positions and requests of an accepted   *)
(* map are exact (no slot twice, every point in one request, no request    *)
(* over a register that is not a point's).  The threads: a GPIO module at  *)
(* rest drives the bits of its safe state; inputs of a Modbus module that  *)
(* are all Good hold what one poll found, from the worker's reads to the   *)
(* image a scan works on; what the worker writes leaves other registers,   *)
(* and the other bits of a shared register, alone.                         *)
(***************************************************************************)
EXTENDS FieldIo, TLAPS, FiniteSetTheorems, FunctionTheorems, WellFoundedInduction

-----------------------------------------------------------------------------
(* Induction from 0 to a bound, over the set of numbers a fact holds of.   *)
LEMMA Climb ==
  ASSUME NEW N \in Nat, NEW S, 0 \in S, \A n \in 0..N : n < N /\ n \in S => n + 1 \in S
  PROVE  \A n \in 0..N : n \in S
<1> DEFINE T == {n \in 0..N : n \notin S}
           R == OpToRel(<, Nat)
<1> SUFFICES ASSUME T # {} PROVE FALSE
  OBVIOUS
<1>1. \A y, x \in Nat : y < x => <<y, x>> \in R
  BY DEF OpToRel
<1>2. T \subseteq Nat
  OBVIOUS
<1> HIDE DEF T, R
<1>3. PICK x \in T : \A y \in T : ~(<<y, x>> \in R)
  BY <1>2, NatLessThanWellFounded, WFMin DEF R
<1>4. x \in 0..N /\ x \notin S /\ x # 0
  BY <1>3 DEF T
<1>5. x - 1 \in 0..N /\ x - 1 < N
  BY <1>4
<1>6. x - 1 \in S
  <2>1. CASE x - 1 \in T
    <3>1. x - 1 \in Nat /\ x \in Nat /\ x - 1 < x
      BY <1>4
    <3>2. <<x - 1, x>> \in R
      BY <1>1, <3>1
    <3>3. QED
      BY <1>3, <2>1, <3>2
  <2>2. QED
    BY <1>5, <2>1 DEF T
<1>7. (x - 1) + 1 \in S
  BY <1>5, <1>6
<1>8. QED
  BY <1>4, <1>7

Keyed(S, key) ==
  /\ IsFiniteSet(S)
  /\ \A i \in S : key[i] \in Int
  /\ \A i, j \in S : key[i] = key[j] => i = j

(* Each rank belongs to one element.                                       *)
LEMMA Ranks ==
  ASSUME NEW S, NEW key, Keyed(S, key)
  PROVE  /\ Cardinality(S) \in Nat
         /\ \A i \in S : Rank(S, key, i) \in 1..Cardinality(S)
         /\ \A i, j \in S : key[i] < key[j] => Rank(S, key, i) < Rank(S, key, j)
         /\ \A n \in 1..Cardinality(S) : \E i \in S : Rank(S, key, i) = n
<1> USE DEF Keyed
<1> DEFINE Below(i) == {j \in S : key[j] <= key[i]}
           N == Cardinality(S)
<1>1. N \in Nat
  BY FS_CardinalityType
<1>2. \A i \in S : IsFiniteSet(Below(i)) /\ Rank(S, key, i) \in Nat /\ Rank(S, key, i) <= N
  <2> SUFFICES ASSUME NEW i \in S
               PROVE  IsFiniteSet(Below(i)) /\ Rank(S, key, i) \in Nat /\ Rank(S, key, i) <= N
    OBVIOUS
  <2>1. Below(i) \in SUBSET S
    OBVIOUS
  <2>2. IsFiniteSet(Below(i)) /\ Cardinality(Below(i)) <= N
    BY <2>1, FS_Subset
  <2>3. QED
    BY <2>2, FS_CardinalityType DEF Rank
<1>3. \A i, j \in S : key[i] < key[j] => Rank(S, key, i) < Rank(S, key, j)
  <2> SUFFICES ASSUME NEW i \in S, NEW j \in S, key[i] < key[j]
               PROVE  Rank(S, key, i) < Rank(S, key, j)
    OBVIOUS
  <2>1. Below(i) \in SUBSET Below(j) /\ j \in Below(j) /\ j \notin Below(i)
    OBVIOUS
  <2>2. Cardinality(Below(i)) <= Cardinality(Below(j))
        /\ (Cardinality(Below(j)) = Cardinality(Below(i)) => Below(j) = Below(i))
    BY <1>2, <2>1, FS_Subset
  <2>3. QED
    BY <1>2, <2>1, <2>2 DEF Rank
<1>4. \A i \in S : Rank(S, key, i) # 0
  <2> SUFFICES ASSUME NEW i \in S PROVE Rank(S, key, i) # 0
    OBVIOUS
  <2>1. i \in Below(i)
    OBVIOUS
  <2>2. QED
    BY <1>2, <2>1, FS_EmptySet DEF Rank
<1>5. \A i \in S : Rank(S, key, i) \in 1..N
  <2> SUFFICES ASSUME NEW i \in S PROVE Rank(S, key, i) \in 1..N
    OBVIOUS
  <2> DEFINE r == Rank(S, key, i)
  <2>1. r \in Nat /\ r <= N /\ r # 0
    BY <1>2, <1>4
  <2> HIDE DEF r, N
  <2>2. r \in 1..N
    BY <1>1, <2>1
  <2>3. QED
    BY <2>2 DEF r
<1>6. \A n \in 1..N : \E i \in S : Rank(S, key, i) = n
  <2> DEFINE f == [i \in S |-> Rank(S, key, i)]
  <2>1. f \in Injection(S, 1..N)
    <3>1. f \in [S -> 1..N]
      BY <1>5
    <3>2. \A i, j \in S : f[i] = f[j] => i = j
      <4> SUFFICES ASSUME NEW i \in S, NEW j \in S, f[i] = f[j] PROVE i = j
        OBVIOUS
      <4>1. ~(key[i] < key[j]) /\ ~(key[j] < key[i])
        BY <1>3, <1>5
      <4>2. QED
        BY <4>1
    <3>3. QED
      BY <3>1, <3>2 DEF Injection, IsInjective
  <2>2. IsFiniteSet(1..N) /\ Cardinality(1..N) = N
    BY <1>1, FS_Interval
  <2>3. f \in Surjection(S, 1..N)
    BY <2>1, <2>2, FS_Injection
  <2>4. QED
    BY <2>3 DEF Surjection
<1>7. QED
  BY <1>1, <1>3, <1>5, <1>6

(* Ordered lists each element once.                                        *)
LEMMA OrderedLists ==
  ASSUME NEW S, NEW key, Keyed(S, key)
  PROVE  LET s == Ordered(S, key) IN
         /\ Cardinality(S) \in Nat
         /\ s \in [1..Cardinality(S) -> S] /\ Len(s) = Cardinality(S) /\ s \in Seq(S)
         /\ Range(s) = S
         /\ \A a, b \in 1..Cardinality(S) : s[a] = s[b] => a = b
<1> DEFINE s == Ordered(S, key)
           N == Cardinality(S)
<1>1. N \in Nat /\ (\A i \in S : Rank(S, key, i) \in 1..N)
      /\ (\A n \in 1..N : \E i \in S : Rank(S, key, i) = n)
      /\ (\A i, j \in S : Rank(S, key, i) = Rank(S, key, j) => i = j)
  BY Ranks DEF Keyed
<1>2. \A n \in 1..N : s[n] \in S /\ Rank(S, key, s[n]) = n
  BY <1>1 DEF Ordered
<1>3. s \in [1..N -> S]
  BY <1>2 DEF Ordered
<1> HIDE DEF s, N
<1>4. Len(s) = N /\ s \in Seq(S) /\ DOMAIN s = 1..N
  BY <1>1, <1>3
<1>5. Range(s) = S
  <2>1. \A i \in S : i = s[Rank(S, key, i)]
    BY <1>1, <1>2
  <2>2. QED
    BY <1>1, <1>2, <1>4, <2>1 DEF Range
<1>6. \A a, b \in 1..N : s[a] = s[b] => a = b
  BY <1>2
<1>7. QED
  BY <1>1, <1>3, <1>4, <1>5, <1>6 DEF s, N

(* A finite set of numbers has a greatest.                                 *)
LEMMA Greatest ==
  ASSUME NEW S \in SUBSET Nat, IsFiniteSet(S), S # {}
  PROVE  Max(S) \in S /\ \A x \in S : x <= Max(S)
<1> DEFINE key == Itself(S)
           N == Cardinality(S)
<1>1. Keyed(S, key)
  BY DEF Keyed, Itself
<1>2. N \in Nat /\ N # 0
  BY FS_CardinalityType, FS_EmptySet
<1>3. PICK m \in S : Rank(S, key, m) = N
  <2>1. \A n \in 1..N : \E i \in S : Rank(S, key, i) = n
    BY <1>1, Ranks
  <2> HIDE DEF N
  <2>2. N \in 1..N
    BY <1>2
  <2>3. QED
    BY <2>1, <2>2
<1>4. \A x \in S : x <= m
  <2>1. {j \in S : key[j] <= key[m]} = S
    BY <1>3, FS_Subset DEF Rank
  <2>2. \A x \in S : key[x] = x
    BY DEF Itself
  <2>3. QED
    BY <2>1, <2>2
<1>5. QED
  BY <1>4 DEF Max

-----------------------------------------------------------------------------
(* The requests.                                                           *)
Group == [start : Nat, qty : Nat, members : Seq(Nat)]

(* A request's range is its members' registers, of one table.              *)
Fits(points, g, C) ==
  /\ Len(g.members) > 0 /\ Range(g.members) \subseteq C
  /\ g.start..(g.start + g.qty - 1) = UNION {Span(points[i]) : i \in Range(g.members)}
  /\ \A i, j \in Range(g.members) : points[i].table = points[j].table

(* The points of C are each in one of the requests gs.                     *)
OneGroup(gs, i) ==
  \E n \in 1..Len(gs) : /\ i \in Range(gs[n].members)
                        /\ \A k \in 1..Len(gs) : i \in Range(gs[k].members) => k = n
Exact(points, gs, C) ==
  /\ gs \in Seq(Group)
  /\ \A n \in 1..Len(gs) : Fits(points, gs[n], C)
  /\ \A i \in C : OneGroup(gs, i)

SameTable(points, C, i) == \A j \in C : points[j].table = points[i].table
More(points, g, i) ==
  [start |-> g.start, qty |-> points[i].pdu + points[i].words - g.start,
   members |-> Append(g.members, i)]
One(points, i) == [start |-> points[i].pdu, qty |-> points[i].words, members |-> <<i>>]

(* A point that goes on where the last request ends extends it.            *)
Extends(points, C, i, g) ==
  /\ i \in Nat /\ g \in Group /\ Fits(points, g, C)
  /\ points[i].pdu = g.start + g.qty /\ points[i].words \in Nat \ {0}
  /\ SameTable(points, C, i)
Gains(g, h, i) == Range(h.members) = Range(g.members) \cup {i}

(* Such a request still covers exactly the addresses of its members.       *)
LEMMA FitsMore ==
  ASSUME NEW points, NEW C, NEW i, NEW g, Extends(points, C, i, g)
  PROVE  /\ More(points, g, i) \in Group /\ Fits(points, More(points, g, i), C \cup {i})
         /\ Gains(g, More(points, g, i), i)
<1> DEFINE h == More(points, g, i)
<1>0. /\ i \in Nat /\ g \in Group /\ Fits(points, g, C)
      /\ points[i].pdu = g.start + g.qty /\ points[i].words \in Nat \ {0}
      /\ SameTable(points, C, i)
  BY DEF Extends
<1> USE <1>0 DEF More
<1>1. g.start \in Nat /\ g.qty \in Nat /\ g.members \in Seq(Nat)
  BY DEF Group
<1>2. h \in Group /\ h.qty = g.qty + points[i].words /\ Len(h.members) > 0 /\ h.start = g.start
  BY <1>1 DEF Group
<1>3. Range(h.members) = Range(g.members) \cup {i}
  <2>1. /\ DOMAIN h.members = 1..(Len(g.members) + 1) /\ Len(g.members) \in Nat
        /\ \A k \in 1..Len(g.members) : h.members[k] = g.members[k]
        /\ h.members[Len(g.members) + 1] = i /\ DOMAIN g.members = 1..Len(g.members)
    BY <1>1
  <2> HIDE DEF h
  <2>2. QED
    BY <2>1 DEF Range
<1> HIDE DEF h, More
<1>4. Span(points[i]) = (g.start + g.qty)..(g.start + h.qty - 1)
  <2>1. points[i].pdu + points[i].words - 1 = g.start + h.qty - 1
    <3> HIDE <1>0
    <3>1. points[i].words \in Nat /\ points[i].pdu = g.start + g.qty
      BY <1>0
    <3>2. h.qty = g.qty + points[i].words
      BY <1>2, Zenon
    <3>3. \A a, b, c \in Nat : (a + b) + c - 1 = a + (b + c) - 1
      OBVIOUS
    <3>4. (g.start + g.qty) + points[i].words - 1 = g.start + (g.qty + points[i].words) - 1
      BY <1>1, <3>1, <3>3
    <3>5. QED
      BY <3>1, <3>2, <3>4
  <2>2. QED
    BY <2>1 DEF Span
<1>5. h.start..(h.start + h.qty - 1) = (g.start..(g.start + g.qty - 1)) \cup Span(points[i])
  BY <1>1, <1>2, <1>4
<1>6. UNION {Span(points[j]) : j \in Range(h.members)}
        = (UNION {Span(points[j]) : j \in Range(g.members)}) \cup Span(points[i])
  BY <1>3, Zenon
<1>7. \A j, k \in Range(h.members) : points[j].table = points[k].table
  BY <1>3 DEF Fits, SameTable
<1>8. Fits(points, h, C \cup {i})
  <2>1. g.start..(g.start + g.qty - 1) = UNION {Span(points[j]) : j \in Range(g.members)}
        /\ Range(g.members) \subseteq C
    BY Zenon DEF Fits
  <2>2. h.start..(h.start + h.qty - 1) = UNION {Span(points[j]) : j \in Range(h.members)}
    BY <1>5, <1>6, <2>1, Zenon
  <2>3. QED
    BY <1>2, <1>3, <1>7, <2>1, <2>2, Zenon DEF Fits
<1>9. QED
  BY <1>2, <1>3, <1>8, Zenon DEF h, Gains

(* A request of one point.                                                 *)
LEMMA FitsOne ==
  ASSUME NEW points, NEW C, NEW i \in Nat, points[i].pdu \in Nat, points[i].words \in Nat \ {0}
  PROVE  /\ One(points, i) \in Group /\ Fits(points, One(points, i), C \cup {i})
         /\ Range(One(points, i).members) = {i}
<1> DEFINE h == One(points, i)
<1> USE DEF One
<1>1. h \in Group /\ Len(h.members) > 0
  BY DEF Group
<1>2. Range(h.members) = {i}
  BY DEF Range
<1>3. h.start..(h.start + h.qty - 1) = Span(points[i])
  BY DEF Span
<1> HIDE DEF h, One
<1>4. UNION {Span(points[j]) : j \in Range(h.members)} = Span(points[i])
  BY <1>2, Zenon
<1>5. Fits(points, h, C \cup {i})
  BY <1>1, <1>2, <1>3, <1>4, Zenon DEF Fits
<1>6. QED
  BY <1>1, <1>2, <1>5, Zenon DEF h

(* Fits in a larger set.                                                   *)
LEMMA FitsWider ==
  ASSUME NEW points, NEW C, NEW D, NEW g, Fits(points, g, C), C \subseteq D
  PROVE  Fits(points, g, D)
BY Zenon DEF Fits

(* One more point in one of the requests keeps them exact.                 *)
LEMMA AddPointExact ==
  ASSUME NEW points, NEW C, NEW gs, NEW i \in Nat, NEW max, Exact(points, gs, C), i \notin C,
         points[i].pdu \in Nat, points[i].words \in Nat \ {0},
         SameTable(points, C, i)
  PROVE  Exact(points, AddPoint(gs, points[i], i, max), C \cup {i})
<1> DEFINE r == AddPoint(gs, points[i], i, max)
           L == Len(gs)
<1>1. gs \in Seq(Group) /\ L \in Nat /\ (\A n \in 1..L : gs[n] \in Group /\ Fits(points, gs[n], C))
  BY DEF Exact
<1>2. CASE gs # <<>> /\ Continues(Last(gs), points[i], max)
  <2> DEFINE g == gs[L]
             h == More(points, g, i)
  <2>1. L > 0 /\ L \in 1..L
    BY <1>1, <1>2
  <2>2. Last(gs) = g /\ points[i].pdu = g.start + g.qty
    BY <1>2 DEF Last, Continues
  <2>3. h \in Group /\ Fits(points, h, C \cup {i}) /\ Gains(g, h, i)
    <3>1. g \in Group /\ Fits(points, g, C)
      BY <1>1, <2>1
    <3> HIDE DEF g, L
    <3>2. Extends(points, C, i, g)
      BY <2>2, <3>1 DEF Extends
    <3>3. QED
      BY <3>2, FitsMore, Zenon
  <2>4. r = Append(Front(gs), h)
    BY <1>2, <2>2, Zenon DEF AddPoint, More
  <2> HIDE DEF h
  <2>5. r \in Seq(Group) /\ Len(r) = L /\ r[L] = h /\ \A k \in 1..L : k # L => r[k] = gs[k]
    <3>1. Front(gs) \in Seq(Group) /\ Len(Front(gs)) = L - 1
          /\ \A k \in 1..(L - 1) : Front(gs)[k] = gs[k]
      <4>1. Front(gs) = SubSeq(gs, 1, L - 1)
        BY DEF Front
      <4> HIDE DEF L
      <4>2. Front(gs) = [k \in 1..(L - 1) |-> gs[k]]
        BY <1>1, <2>1, <4>1
      <4>3. QED
        BY <1>1, <2>1, <4>2
    <3> HIDE DEF L
    <3>2. QED
      BY <1>1, <2>1, <2>3, <2>4, <3>1
  <2> HIDE DEF r, L, g
  <2>6. \A k \in 1..L : Range(r[k].members) = IF k = L THEN Range(gs[k].members) \cup {i}
                                              ELSE Range(gs[k].members)
    BY <2>3, <2>5 DEF g, Gains
  <2>7. \A k \in 1..L : Fits(points, r[k], C \cup {i})
    <3> SUFFICES ASSUME NEW k \in 1..L PROVE Fits(points, r[k], C \cup {i})
      OBVIOUS
    <3>1. CASE k = L
      BY <2>3, <2>5, <3>1
    <3>2. CASE k # L
      <4>1. Fits(points, gs[k], C)
        BY <1>1
      <4>2. Fits(points, gs[k], C \cup {i})
        BY <4>1, FitsWider
      <4>3. QED
        BY <2>5, <3>2, <4>2
    <3>3. QED
      BY <3>1, <3>2
  <2>8. \A j \in C \cup {i} : OneGroup(r, j)
    <3> SUFFICES ASSUME NEW j \in C \cup {i} PROVE OneGroup(r, j)
      OBVIOUS
    <3>1. CASE j # i
      <4>1. PICK n \in 1..L : j \in Range(gs[n].members)
                              /\ \A k \in 1..L : j \in Range(gs[k].members) => k = n
        BY <3>1 DEF Exact, OneGroup, L
      <4>2. j \in Range(r[n].members) /\ \A k \in 1..L : j \in Range(r[k].members) => k = n
        BY <2>6, <3>1, <4>1
      <4>3. QED
        BY <2>5, <4>2 DEF OneGroup
    <3>2. CASE j = i
      <4>1. \A k \in 1..L : i \notin Range(gs[k].members)
        BY <1>1, Zenon DEF Fits
      <4>2. i \in Range(r[L].members) /\ \A k \in 1..L : i \in Range(r[k].members) => k = L
        BY <2>1, <2>6, <4>1
      <4>3. QED
        BY <2>1, <2>5, <3>2, <4>2 DEF OneGroup
    <3>3. QED
      BY <3>1, <3>2
  <2>9. QED
    BY <2>5, <2>7, <2>8 DEF Exact, r
<1>3. CASE ~(gs # <<>> /\ Continues(Last(gs), points[i], max))
  <2> DEFINE h == One(points, i)
  <2>1. h \in Group /\ Fits(points, h, C \cup {i}) /\ Range(h.members) = {i}
    BY FitsOne, Zenon
  <2>2. r = Append(gs, h)
    BY <1>3, Zenon DEF AddPoint, One
  <2> HIDE DEF h
  <2>3. r \in Seq(Group) /\ Len(r) = L + 1 /\ r[L + 1] = h /\ \A k \in 1..L : r[k] = gs[k]
    BY <1>1, <2>1, <2>2
  <2> HIDE DEF r, L
  <2>4. \A k \in 1..(L + 1) : k \in 1..L \/ k = L + 1
    BY <1>1
  <2>5. \A k \in 1..(L + 1) : Fits(points, r[k], C \cup {i})
    <3> SUFFICES ASSUME NEW k \in 1..(L + 1) PROVE Fits(points, r[k], C \cup {i})
      OBVIOUS
    <3>1. CASE k = L + 1
      BY <2>1, <2>3, <3>1
    <3>2. CASE k \in 1..L
      <4>1. Fits(points, gs[k], C \cup {i})
        BY <1>1, <3>2, FitsWider
      <4>2. QED
        BY <2>3, <3>2, <4>1
    <3>3. QED
      BY <2>4, <3>1, <3>2
  <2>6. \A k \in 1..L : i \notin Range(gs[k].members)
    BY <1>1, Zenon DEF Fits
  <2>7. \A j \in C \cup {i} : OneGroup(r, j)
    <3> SUFFICES ASSUME NEW j \in C \cup {i} PROVE OneGroup(r, j)
      OBVIOUS
    <3>1. CASE j # i
      <4>1. PICK n \in 1..L : j \in Range(gs[n].members)
                              /\ \A k \in 1..L : j \in Range(gs[k].members) => k = n
        BY <3>1 DEF Exact, OneGroup, L
      <4>2. n \in 1..(L + 1)
        BY <1>1
      <4>3. j \in Range(r[n].members)
        BY <2>3, <4>1, Zenon
      <4>4. ASSUME NEW k \in 1..(L + 1), j \in Range(r[k].members) PROVE k = n
        <5>1. k # L + 1
          BY <2>1, <2>3, <3>1, <4>4, Zenon
        <5>2. k \in 1..L
          BY <2>4, <5>1, Zenon
        <5>3. QED
          BY <2>3, <4>1, <4>4, <5>2, Zenon
      <4>5. QED
        BY <2>3, <4>2, <4>3, <4>4, Zenon DEF OneGroup
    <3>2. CASE j = i
      <4>1. L + 1 \in 1..(L + 1) /\ i \in Range(r[L + 1].members)
            /\ \A k \in 1..(L + 1) : i \in Range(r[k].members) => k = L + 1
        BY <1>1, <2>1, <2>3, <2>4, <2>6
      <4>2. QED
        BY <2>3, <3>2, <4>1 DEF OneGroup
    <3>3. QED
      BY <3>1, <3>2
  <2>8. QED
    BY <2>3, <2>5, <2>7 DEF Exact, r
<1>4. QED
  BY <1>2, <1>3

-----------------------------------------------------------------------------
(* A function defined by recursion from 0 to a bound exists.               *)
Stays(N, V, F) == \A n \in 1..N : \A v \in V : F[<<n, v>>] \in V
Follows(f, N, V, a, F) ==
  f \in [0..N -> V] /\ f[0] = a /\ \A n \in 1..N : f[n] = F[<<n, f[n - 1]>>]

(* A rule that stays within a set is followed by some function: the        *)
(* existence a recursive definition needs before it can be unfolded.       *)
LEMMA Recursion ==
  ASSUME NEW N \in Nat, NEW V, NEW a \in V, NEW F, Stays(N, V, F)
  PROVE  \E f : Follows(f, N, V, a, F)
<1> USE DEF Stays
<1> DEFINE Run(f, k) == Follows(f, k, V, a, F)
           S == {k \in 0..N : \E f : Run(f, k)}
<1>1. 0 \in S
  <2>1. Run([n \in 0..0 |-> a], 0)
    BY DEF Follows
  <2>2. \E f : Run(f, 0)
    BY <2>1
  <2> HIDE DEF Run
  <2>3. QED
    BY <2>2
<1>2. ASSUME NEW k \in 0..N, k < N, k \in S PROVE k + 1 \in S
  <2>0. PICK f : Run(f, k)
    BY <1>2
  <2>1. f \in [0..k -> V] /\ f[0] = a /\ \A n \in 1..k : f[n] = F[<<n, f[n - 1]>>]
    BY <2>0 DEF Follows
  <2> DEFINE v == F[<<k + 1, f[k]>>]
             h == [n \in 0..(k + 1) |-> IF n = k + 1 THEN v ELSE f[n]]
  <2>2. f[k] \in V
    BY <2>1
  <2>3. k + 1 \in 1..N
    BY <1>2
  <2>4. v \in V
    BY <2>2, <2>3
  <2> HIDE DEF v
  <2>5. h \in [0..(k + 1) -> V] /\ h[0] = a
    BY <2>1, <2>4
  <2>6. ASSUME NEW n \in 1..(k + 1) PROVE h[n] = F[<<n, h[n - 1]>>]
    <3>1. h[n - 1] = f[n - 1]
      OBVIOUS
    <3>2. CASE n = k + 1
      <4>1. n - 1 = k /\ h[n] = v
        BY <3>2
      <4> HIDE DEF h
      <4>2. QED
        BY <3>1, <3>2, <4>1, Zenon DEF v
    <3>3. CASE n # k + 1
      <4>1. n \in 1..k /\ h[n] = f[n]
        BY <3>3
      <4> HIDE DEF h
      <4>2. QED
        BY <2>1, <3>1, <4>1
    <3>4. QED
      BY <3>2, <3>3
  <2> HIDE DEF h
  <2>7. Run(h, k + 1)
    BY <2>5, <2>6 DEF Follows
  <2>8. QED
    BY <2>3, <2>7
<1> HIDE DEF S
<1>3. N \in S
  <2>1. \A n \in 0..N : n \in S
    BY <1>1, <1>2, Climb
  <2>2. QED
    BY <2>1
<1>4. QED
  BY <1>3 DEF S

-----------------------------------------------------------------------------
(* Adding a point to requests gives requests.                              *)
LEMMA AddPointType ==
  ASSUME NEW gs \in Seq(Group), NEW p, NEW i \in Nat, NEW max, p.pdu \in Nat, p.words \in Nat
  PROVE  AddPoint(gs, p, i, max) \in Seq(Group)
<1> DEFINE g == gs[Len(gs)]
           h == [start |-> g.start, qty |-> p.pdu + p.words - g.start,
                 members |-> Append(g.members, i)]
           one == [start |-> p.pdu, qty |-> p.words, members |-> <<i>>]
<1>1. CASE gs # <<>> /\ Continues(Last(gs), p, max)
  <2>1. Len(gs) \in 1..Len(gs) /\ Last(gs) = g
    BY <1>1 DEF Last
  <2>2. g \in Group /\ p.pdu = g.start + g.qty
    BY <1>1, <2>1 DEF Continues
  <2>3. h \in Group
    <3> HIDE DEF g
    <3>1. QED
      BY <2>2 DEF Group
  <2>4. Front(gs) \in Seq(Group)
    BY <2>1 DEF Front
  <2>5. AddPoint(gs, p, i, max) = Append(Front(gs), h)
    BY <1>1, <2>1, Zenon DEF AddPoint
  <2> HIDE DEF h
  <2>6. QED
    BY <2>3, <2>4, <2>5
<1>2. CASE ~(gs # <<>> /\ Continues(Last(gs), p, max))
  <2>1. one \in Group
    BY DEF Group
  <2>2. AddPoint(gs, p, i, max) = Append(gs, one)
    BY <1>2, Zenon DEF AddPoint
  <2> HIDE DEF one
  <2>3. QED
    BY <2>1, <2>2
<1>3. QED
  BY <1>1, <1>2

(* Points of one table and direction that do not overlap.                  *)
Apart(points, C) ==
  /\ IsFiniteSet(C) /\ C \subseteq Nat
  /\ \A i \in C : points[i].pdu \in Nat /\ points[i].words \in Nat \ {0}
  /\ \A i, j \in C : points[i].table = points[j].table
  /\ \A i, j \in C : points[i].pdu = points[j].pdu => i = j

(* The requests built for a set of points are exact.                       *)
LEMMA BuildExact ==
  ASSUME NEW points, NEW C, NEW max, Apart(points, C)
  PROVE  Exact(points, BuildGroups(points, C, max), C)
<1> DEFINE key == [i \in C |-> points[i].pdu]
           s == Ordered(C, key)
           N == Cardinality(C)
           Is(f) == f = [n \in 0..N |-> IF n = 0 THEN <<>>
                                        ELSE AddPoint(f[n - 1], points[s[n]], s[n], max)]
           groups == CHOOSE f : Is(f)
<1>1. Keyed(C, key)
  BY DEF Keyed, Apart
<1>2. /\ N \in Nat /\ s \in [1..N -> C] /\ Len(s) = N /\ s \in Seq(C) /\ Range(s) = C
      /\ \A a, b \in 1..N : s[a] = s[b] => a = b
  BY <1>1, OrderedLists, Zenon
<1>3. BuildGroups(points, C, max) = groups[N]
  BY Zenon DEF BuildGroups
<1> HIDE DEF key, s, N
<1>4. \E f : Is(f)
  <2> DEFINE V == Seq(Group)
             F == [x \in (1..N) \X V |-> AddPoint(x[2], points[s[x[1]]], s[x[1]], max)]
  <2>1. ASSUME NEW n \in 1..N, NEW v \in V
        PROVE  F[<<n, v>>] \in V /\ F[<<n, v>>] = AddPoint(v, points[s[n]], s[n], max)
    <3>1. F[<<n, v>>] = AddPoint(v, points[s[n]], s[n], max)
      OBVIOUS
    <3>2. s[n] \in C /\ s[n] \in Nat /\ points[s[n]].pdu \in Nat /\ points[s[n]].words \in Nat
      BY <1>2 DEF Apart
    <3> HIDE DEF F
    <3>3. AddPoint(v, points[s[n]], s[n], max) \in V
      BY <3>2, AddPointType
    <3>4. QED
      BY <3>1, <3>3
  <2>2. <<>> \in V
    OBVIOUS
  <2> HIDE DEF F, V
  <2>a. Stays(N, V, F)
    BY <2>1 DEF Stays
  <2>b. PICK f : Follows(f, N, V, <<>>, F)
    BY <1>2, <2>a, <2>2, Recursion, Zenon
  <2>3. f \in [0..N -> V] /\ f[0] = <<>> /\ \A n \in 1..N : f[n] = F[<<n, f[n - 1]>>]
    BY <2>b DEF Follows
  <2>4. ASSUME NEW n \in 0..N
        PROVE  f[n] = IF n = 0 THEN <<>> ELSE AddPoint(f[n - 1], points[s[n]], s[n], max)
    <3>1. CASE n = 0
      BY <2>3, <3>1
    <3>2. CASE n # 0
      <4>1. n \in 1..N /\ f[n - 1] \in V
        BY <1>2, <2>3, <3>2
      <4>2. QED
        BY <2>1, <2>3, <3>2, <4>1
    <3>3. QED
      BY <3>1, <3>2
  <2>5. Is(f)
    BY <2>3, <2>4
  <2>6. QED
    BY <2>5
<1>5. Is(groups)
  BY <1>4, Zenon
<1> DEFINE D(n) == {s[k] : k \in 1..n}
           S == {n \in 0..N : Exact(points, groups[n], D(n))}
<1> HIDE DEF groups
<1>6. 0 \in S
  <2>1. groups[0] = <<>>
    BY <1>2, <1>5
  <2>2. D(0) = {}
    OBVIOUS
  <2>3. Exact(points, <<>>, {})
    BY DEF Exact
  <2>4. 0 \in 0..N
    BY <1>2
  <2>5. Exact(points, groups[0], D(0))
    BY <2>1, <2>2, <2>3, Zenon
  <2>6. QED
    BY <2>4, <2>5, Zenon
<1>7. ASSUME NEW n \in 0..N, n < N, n \in S PROVE n + 1 \in S
  <2> DEFINE i == s[n + 1]
  <2>1. n + 1 \in 1..N /\ n + 1 \in 0..N /\ n + 1 # 0 /\ (n + 1) - 1 = n
    BY <1>2, <1>7
  <2>2. groups[n + 1] = AddPoint(groups[n], points[i], i, max)
    BY <1>5, <2>1
  <2>3. i \in C /\ i \in Nat /\ points[i].pdu \in Nat /\ points[i].words \in Nat \ {0}
    BY <1>2, <2>1 DEF Apart
  <2>4. D(n) \subseteq C /\ i \notin D(n) /\ D(n + 1) = D(n) \cup {i}
    BY <1>2, <1>7, <2>1
  <2>5. Exact(points, groups[n], D(n))
    BY <1>7
  <2> HIDE DEF D, i
  <2>6. SameTable(points, D(n), i)
    BY <2>3, <2>4 DEF SameTable, Apart
  <2>7. Exact(points, AddPoint(groups[n], points[i], i, max), D(n) \cup {i})
    BY <2>3, <2>4, <2>5, <2>6, AddPointExact
  <2>8. QED
    BY <2>1, <2>2, <2>4, <2>7
<1>8. N \in S
  <2> HIDE DEF S
  <2>1. \A n \in 0..N : n \in S
    BY <1>2, <1>6, <1>7, Climb
  <2>2. QED
    BY <1>2, <2>1
<1>9. D(N) = C
  BY <1>2 DEF Range
<1>10. QED
  BY <1>3, <1>8, <1>9

(* Requests for two sets of points, one list after the other.              *)
LEMMA ConcatExact ==
  ASSUME NEW points, NEW g, NEW h, NEW A, NEW B, Exact(points, g, A), Exact(points, h, B),
         A \cap B = {}
  PROVE  Exact(points, g \o h, A \cup B)
<1> DEFINE r == g \o h
           L == Len(g)
           M == Len(h)
<1>1. /\ g \in Seq(Group) /\ h \in Seq(Group) /\ L \in Nat /\ M \in Nat
      /\ (\A n \in 1..L : Fits(points, g[n], A)) /\ (\A n \in 1..M : Fits(points, h[n], B))
      /\ (\A i \in A : OneGroup(g, i)) /\ (\A i \in B : OneGroup(h, i))
  BY DEF Exact
<1>2. /\ r \in Seq(Group) /\ Len(r) = L + M
      /\ \A n \in 1..L : r[n] = g[n]
      /\ \A n \in 1..M : r[n + L] = h[n]
  BY <1>1
<1> HIDE DEF r, L, M
<1>3. \A k \in 1..(L + M) : k \in 1..L \/ (k - L \in 1..M /\ k = (k - L) + L)
  BY <1>1
<1>4. ASSUME NEW k \in 1..(L + M) PROVE Fits(points, r[k], A \cup B)
  <2>1. CASE k \in 1..L
    <3>1. Fits(points, g[k], A \cup B)
      BY <1>1, <2>1, FitsWider
    <3>2. QED
      BY <1>2, <2>1, <3>1, Zenon
  <2>2. CASE k - L \in 1..M /\ k = (k - L) + L
    <3>1. Fits(points, h[k - L], A \cup B)
      BY <1>1, <2>2, FitsWider
    <3>2. r[k] = h[k - L]
      BY <1>2, <2>2, Zenon
    <3>3. QED
      BY <3>1, <3>2, Zenon
  <2>3. QED
    BY <1>3, <2>1, <2>2
<1>5. (\A n \in 1..L : Range(r[n].members) \subseteq A) /\ (\A n \in 1..M : Range(r[n + L].members) \subseteq B)
  BY <1>1, <1>2, Zenon DEF Fits
<1>6. ASSUME NEW i \in A PROVE OneGroup(r, i)
  <2>1. PICK n \in 1..L : i \in Range(g[n].members)
                          /\ \A k \in 1..L : i \in Range(g[k].members) => k = n
    BY <1>1 DEF OneGroup, L
  <2>2. n \in 1..(L + M)
    BY <1>1
  <2>3. ASSUME NEW k \in 1..(L + M), i \in Range(r[k].members) PROVE k = n
    <3>1. CASE k \in 1..L
      BY <1>2, <2>1, <2>3, <3>1, Zenon
    <3>2. CASE k - L \in 1..M /\ k = (k - L) + L
      <4>1. i \in B
        BY <1>5, <2>3, <3>2, Zenon
      <4>2. QED
        BY <4>1
    <3>3. QED
      BY <1>3, <3>1, <3>2
  <2>4. i \in Range(r[n].members)
    BY <1>2, <2>1, Zenon
  <2>5. QED
    BY <1>2, <2>2, <2>3, <2>4, Zenon DEF OneGroup
<1>7. ASSUME NEW i \in B PROVE OneGroup(r, i)
  <2>1. PICK n \in 1..M : i \in Range(h[n].members)
                          /\ \A k \in 1..M : i \in Range(h[k].members) => k = n
    BY <1>1 DEF OneGroup, M
  <2>2. n + L \in 1..(L + M)
    BY <1>1
  <2>3. ASSUME NEW k \in 1..(L + M), i \in Range(r[k].members) PROVE k = n + L
    <3>1. CASE k \in 1..L
      <4>1. i \in A
        BY <1>5, <2>3, <3>1, Zenon
      <4>2. QED
        BY <4>1
    <3>2. CASE k - L \in 1..M /\ k = (k - L) + L
      <4>1. k - L = n
        BY <1>2, <2>1, <2>3, <3>2, Zenon
      <4>2. QED
        BY <3>2, <4>1
    <3>3. QED
      BY <1>3, <3>1, <3>2
  <2>4. i \in Range(r[n + L].members)
    BY <1>2, <2>1, Zenon
  <2>5. QED
    BY <1>2, <2>2, <2>3, <2>4, Zenon DEF OneGroup
<1>8. QED
  BY <1>2, <1>4, <1>6, <1>7 DEF Exact, r

-----------------------------------------------------------------------------
(* The points of one accepted Modbus module.                               *)
Tables == {"coil", "discrete", "input", "holding"}
Sound(pt) ==
  /\ pt.output \in BOOLEAN /\ pt.table \in Tables /\ pt.pdu \in 0..(TableSize - 1)
  /\ pt.words \in {1, 2} /\ (pt.raw = "BOOL" => pt.words = 1)
  /\ pt.output => pt.table \in {"coil", "holding"}
  /\ pt.table = "holding" /\ pt.raw = "BOOL" => pt.bit \in 0..(WordBits - 1)

Planned(points) ==
  /\ Len(points) \in Nat /\ DOMAIN points = 1..Len(points)
  /\ \A n \in DOMAIN points : Sound(points[n])
  /\ \A i, j \in DOMAIN points :
       i # j /\ points[i].table = points[j].table => Span(points[i]) \cap Span(points[j]) = {}

(* Points of one table in an accepted module have their own addresses.     *)
LEMMA TableApart ==
  ASSUME NEW points, Planned(points), NEW C \in SUBSET DOMAIN points, NEW t,
         \A i \in C : points[i].table = t
  PROVE  Apart(points, C)
<1>1. IsFiniteSet(C) /\ C \subseteq Nat
  <2>1. IsFiniteSet(DOMAIN points) /\ DOMAIN points \subseteq Nat
    BY FS_Interval DEF Planned
  <2>2. QED
    BY <2>1, FS_Subset
<1>2. \A i \in C : points[i].pdu \in Nat /\ points[i].words \in Nat \ {0}
  BY DEF Planned, Sound
<1>3. ASSUME NEW i \in C, NEW j \in C, points[i].pdu = points[j].pdu, i # j PROVE FALSE
  <2>1. points[i].pdu \in Span(points[i]) /\ points[j].pdu \in Span(points[j])
    BY <1>2 DEF Span
  <2>2. Span(points[i]) \cap Span(points[j]) = {}
    BY <1>3 DEF Planned
  <2>3. QED
    BY <1>3, <2>1, <2>2
<1>4. QED
  BY <1>1, <1>2, <1>3 DEF Apart

(* The reads of a module are exact for its inputs, the writes for its      *)
(* outputs but those that are a bit of a register.                         *)
LEMMA RequestsOfModule ==
  ASSUME NEW points, Planned(points)
  PROVE  /\ Exact(points, ReadGroups(points, Limits), Positions(points, FALSE))
         /\ Exact(points, CoilGroups(points, Limits), CoilSet(points))
         /\ Exact(points, RegGroups(points, Limits), RegSet(points))
<1> DEFINE limit(t) == IF IsBitTable(t) THEN Limits.readBits ELSE Limits.readRegs
           of(t) == BuildGroups(points, ReadSet(points, t), limit(t))
           set(t) == ReadSet(points, t)
<1>1. ASSUME NEW t PROVE Exact(points, of(t), set(t))
  <2>1. set(t) \in SUBSET DOMAIN points /\ \A i \in set(t) : points[i].table = t
    BY DEF ReadSet
  <2>2. Apart(points, set(t))
    BY <2>1, TableApart
  <2>3. QED
    BY <2>2, BuildExact
<1>2. ReadGroups(points, Limits) = of("coil") \o of("discrete") \o of("holding") \o of("input")
  BY Zenon DEF ReadGroups
<1>3. \A s, t : s # t => set(s) \cap set(t) = {}
  BY DEF ReadSet
<1>4. Positions(points, FALSE)
        = ((set("coil") \cup set("discrete")) \cup set("holding")) \cup set("input")
  BY DEF ReadSet, Positions, Planned, Sound, Tables
<1> HIDE DEF of, set
<1>5. Exact(points, of("coil") \o of("discrete"), set("coil") \cup set("discrete"))
  BY <1>1, <1>3, ConcatExact
<1>6. Exact(points, (of("coil") \o of("discrete")) \o of("holding"),
            (set("coil") \cup set("discrete")) \cup set("holding"))
  <2>1. (set("coil") \cup set("discrete")) \cap set("holding") = {}
    BY <1>3
  <2>2. QED
    BY <1>1, <1>5, <2>1, ConcatExact
<1>7. Exact(points, ((of("coil") \o of("discrete")) \o of("holding")) \o of("input"),
            ((set("coil") \cup set("discrete")) \cup set("holding")) \cup set("input"))
  <2>1. ((set("coil") \cup set("discrete")) \cup set("holding")) \cap set("input") = {}
    BY <1>3
  <2>2. QED
    BY <1>1, <1>6, <2>1, ConcatExact
<1>8. Exact(points, CoilGroups(points, Limits), CoilSet(points))
  <2>1. CoilSet(points) \in SUBSET DOMAIN points /\ \A i \in CoilSet(points) : points[i].table = "coil"
    BY DEF CoilSet
  <2>2. Apart(points, CoilSet(points))
    BY <2>1, TableApart
  <2>3. QED
    BY <2>2, BuildExact DEF CoilGroups
<1>9. Exact(points, RegGroups(points, Limits), RegSet(points))
  <2>1. RegSet(points) \in SUBSET DOMAIN points /\ \A i \in RegSet(points) : points[i].table = "holding"
    BY DEF RegSet
  <2>2. Apart(points, RegSet(points))
    BY <2>1, TableApart
  <2>3. QED
    BY <2>2, BuildExact DEF RegGroups
<1>10. QED
  BY <1>2, <1>4, <1>7, <1>8, <1>9

(* The output bits are listed once each.                                   *)
LEMMA BitsOfModule ==
  ASSUME NEW points, Planned(points)
  PROVE  /\ Len(BitOuts(points)) \in Nat /\ Range(BitOuts(points)) = BitSet(points)
         /\ \A n \in 1..Len(BitOuts(points)) : BitOuts(points)[n] \in BitSet(points)
<1> DEFINE B == BitSet(points)
           s == BitOuts(points)
<1>1. IsFiniteSet(B) /\ B \subseteq Nat
  <2>1. IsFiniteSet(DOMAIN points) /\ DOMAIN points \subseteq Nat
    BY FS_Interval DEF Planned
  <2>2. B \in SUBSET DOMAIN points
    BY DEF BitSet
  <2>3. QED
    BY <2>1, <2>2, FS_Subset
<1>2. Keyed(B, Itself(B))
  BY <1>1 DEF Keyed, Itself
<1>3. s = Ordered(B, Itself(B))
  BY DEF BitOuts
<1> HIDE DEF B, s
<1>4. /\ Cardinality(B) \in Nat /\ s \in [1..Cardinality(B) -> B] /\ Len(s) = Cardinality(B)
      /\ Range(s) = B
  BY <1>2, <1>3, OrderedLists, Zenon
<1>5. QED
  BY <1>4 DEF B, s

(* Every point but the output bits is in one request.                      *)
LEMMA AllExact ==
  ASSUME NEW points, Planned(points)
  PROVE  Exact(points, ReadGroups(points, Limits) \o CoilGroups(points, Limits)
                         \o RegGroups(points, Limits),
               DOMAIN points \ BitSet(points))
<1> DEFINE A == Positions(points, FALSE)
           B == CoilSet(points)
           C == RegSet(points)
<1>1. A \cap B = {} /\ (A \cup B) \cap C = {}
  BY DEF Positions, CoilSet, RegSet
<1>2. DOMAIN points \ BitSet(points) = (A \cup B) \cup C
  BY DEF Positions, CoilSet, RegSet, BitSet, Planned, Sound
<1> HIDE DEF A, B, C
<1>3. Exact(points, ReadGroups(points, Limits) \o CoilGroups(points, Limits), A \cup B)
  BY <1>1, RequestsOfModule, ConcatExact DEF A, B
<1>4. Exact(points, (ReadGroups(points, Limits) \o CoilGroups(points, Limits))
                      \o RegGroups(points, Limits), (A \cup B) \cup C)
  BY <1>1, <1>3, RequestsOfModule, ConcatExact DEF C
<1>5. QED
  BY <1>2, <1>4

-----------------------------------------------------------------------------
(* What the worker writes.                                                 *)
Covered(p, op) ==
  {<<p.points[op.at.members[1]].table, a>> : a \in op.at.start..(op.at.start + op.at.qty - 1)}
BitReg(pt) == <<"holding", pt.pdu>>

(* What planning establishes of the write requests: they cover output      *)
(* registers only, and the register of an output bit is written alone,     *)
(* right after it was read.                                                *)
AloneAfterRead(p, k, i) ==
  /\ p.writes[k].fc = 6 /\ p.writes[k].at.members = <<i>>
  /\ k > 1 /\ p.writes[k - 1].fc = 3
  /\ p.writes[k - 1].at.start = p.points[i].pdu
WritesPlanned(p) ==
  /\ Len(p.writes) \in Nat
  /\ \A k \in 1..Len(p.writes) :
       p.writes[k].fc # 3 =>
         /\ Covered(p, p.writes[k]) \subseteq OutputRegisters(p)
         /\ \A i \in Range(p.bits) :
              BitReg(p.points[i]) \in Covered(p, p.writes[k]) => AloneAfterRead(p, k, i)
  /\ \A i \in Range(p.bits) :
       /\ p.points[i].raw = "BOOL" /\ p.points[i].bit \in 0..(WordBits - 1)
       /\ Span(p.points[i]) = {p.points[i].pdu}
       /\ BitReg(p.points[i]) \in Registers(p) \ InputRegisters(p)

(* One list after the other.                                               *)
IsConcat(z, x, y) ==
  /\ Len(z) = Len(x) + Len(y)
  /\ \A k \in 1..Len(x) : z[k] = x[k]
  /\ \A k \in 1..Len(y) : z[k + Len(x)] = y[k]

(* An element of a concatenation is one of either list.                    *)
LEMMA Concat ==
  ASSUME NEW U, NEW x \in Seq(U), NEW y \in Seq(U)
  PROVE  x \o y \in Seq(U) /\ IsConcat(x \o y, x, y)
BY DEF IsConcat

(* A list given element by element.                                        *)
LEMMA Listed ==
  ASSUME NEW U, NEW N \in Nat, NEW x \in [1..N -> U]
  PROVE  x \in Seq(U) /\ Len(x) = N
OBVIOUS

(* The write requests by their place in the list.                          *)
WriteForm(points, w, coils, regs, bits, c, d) ==
  /\ Len(w) = d + 2 * Len(bits) /\ c \in Nat /\ d \in Nat
  /\ \A k \in 1..c : w[k].fc \in {5, 15} /\ w[k].at = coils[k]
  /\ \A k \in 1..Len(regs) : w[k + c].fc \in {6, 16} /\ w[k + c].at = regs[k]
  /\ \A k \in 1..(2 * Len(bits)) :
       /\ w[k + d].fc = IF k % 2 = 1 THEN 3 ELSE 6
       /\ w[k + d].at.start = points[bits[(k + 1) \div 2]].pdu
       /\ w[k + d].at.qty = 1
       /\ w[k + d].at.members = <<bits[(k + 1) \div 2]>>

(* Those places are what appending the three kinds of requests gives.      *)
LEMMA WriteList ==
  ASSUME NEW points, CoilGroups(points, Limits) \in Seq(Group),
         RegGroups(points, Limits) \in Seq(Group), Len(BitOuts(points)) \in Nat
  PROVE  WriteForm(points, WriteOps(points), CoilGroups(points, Limits),
                   RegGroups(points, Limits), BitOuts(points), Len(CoilGroups(points, Limits)),
                   Len(CoilGroups(points, Limits)) + Len(RegGroups(points, Limits)))
<1> DEFINE coils == CoilGroups(points, Limits)
           regs == RegGroups(points, Limits)
           bits == BitOuts(points)
           w == WriteOps(points)
           c == Len(coils)
           d == c + Len(regs)
<1>0. coils \in Seq(Group) /\ regs \in Seq(Group) /\ Len(bits) \in Nat
  OBVIOUS
<1> DEFINE bit(n) == [start |-> points[bits[n]].pdu, qty |-> 1, members |-> <<bits[n]>>]
           X == [n \in DOMAIN coils |-> [fc |-> IF Len(coils[n].members) = 1 THEN 5 ELSE 15, at |-> coils[n]]]
           Y == [n \in DOMAIN regs |-> [fc |-> IF regs[n].qty = 1 THEN 6 ELSE 16, at |-> regs[n]]]
           Z == [n \in 1..(2 * Len(bits)) |->
                   [fc |-> IF n % 2 = 1 THEN 3 ELSE 6, at |-> bit((n + 1) \div 2)]]
           U == {X[n] : n \in DOMAIN X} \cup {Y[n] : n \in DOMAIN Y} \cup {Z[n] : n \in DOMAIN Z}
<1>1. w = X \o Y \o Z
  BY Zenon DEF WriteOps
<1> HIDE DEF coils, regs, bits, w
<1> USE <1>0
<1>2. X \in Seq(U) /\ Len(X) = c /\ c \in Nat
  <2>1. DOMAIN X = 1..c /\ c \in Nat
    OBVIOUS
  <2>2. \A n \in 1..c : X[n] \in U
    BY <2>1, Zenon
  <2> HIDE DEF U
  <2>3. X \in [1..c -> U]
    BY <2>1, <2>2
  <2> HIDE DEF X
  <2>4. QED
    BY <2>1, <2>3, Listed
<1>3. Y \in Seq(U) /\ Len(Y) = Len(regs) /\ Len(regs) \in Nat
  <2>1. DOMAIN Y = 1..Len(regs) /\ Len(regs) \in Nat
    OBVIOUS
  <2>2. \A n \in 1..Len(regs) : Y[n] \in U
    BY <2>1, Zenon
  <2> HIDE DEF U
  <2>3. Y \in [1..Len(regs) -> U]
    BY <2>1, <2>2
  <2> HIDE DEF Y
  <2>4. QED
    BY <2>1, <2>3, Listed
<1>4. Z \in Seq(U) /\ Len(Z) = 2 * Len(bits)
  <2>1. DOMAIN Z = 1..(2 * Len(bits)) /\ 2 * Len(bits) \in Nat
    OBVIOUS
  <2>2. \A n \in 1..(2 * Len(bits)) : Z[n] \in U
    BY <2>1, Zenon
  <2> HIDE DEF U
  <2>3. Z \in [1..(2 * Len(bits)) -> U]
    BY <2>1, <2>2
  <2> HIDE DEF Z
  <2>4. QED
    BY <2>1, <2>3, Listed
<1>5. \A k \in 1..c : X[k].fc \in {5, 15} /\ X[k].at = coils[k]
  OBVIOUS
<1>6. \A k \in 1..Len(regs) : Y[k].fc \in {6, 16} /\ Y[k].at = regs[k]
  OBVIOUS
<1>7. \A k \in 1..(2 * Len(bits)) :
        /\ Z[k].fc = IF k % 2 = 1 THEN 3 ELSE 6
        /\ Z[k].at.start = points[bits[(k + 1) \div 2]].pdu
        /\ Z[k].at.qty = 1 /\ Z[k].at.members = <<bits[(k + 1) \div 2]>>
  OBVIOUS
<1> HIDE DEF X, Y, Z, U
<1>8. /\ X \o Y \in Seq(U) /\ Len(X \o Y) = d /\ d \in Nat
      /\ \A k \in 1..c : (X \o Y)[k] = X[k]
      /\ \A k \in 1..Len(regs) : (X \o Y)[k + c] = Y[k]
  <2>1. X \o Y \in Seq(U) /\ IsConcat(X \o Y, X, Y)
    BY <1>2, <1>3, Concat, Zenon
  <2>2. c + Len(regs) \in Nat
    BY <1>2, <1>3
  <2>3. QED
    BY <1>2, <1>3, <2>1, <2>2, Zenon DEF IsConcat
<1> DEFINE XY == X \o Y
<1> HIDE DEF XY
<1>9. /\ Len(w) = d + 2 * Len(bits)
      /\ \A k \in 1..d : w[k] = XY[k]
      /\ \A k \in 1..(2 * Len(bits)) : w[k + d] = Z[k]
  <2>1. w = XY \o Z
    BY <1>1 DEF XY
  <2>2. XY \in Seq(U) /\ Len(XY) = d
    BY <1>8 DEF XY
  <2>3. QED
    <3>1. IsConcat(XY \o Z, XY, Z)
      BY <1>4, <2>2, Concat, Zenon
    <3>2. QED
      BY <1>4, <2>1, <2>2, <3>1, Zenon DEF IsConcat
<1>10. (\A k \in 1..c : w[k] = X[k]) /\ (\A k \in 1..Len(regs) : w[k + c] = Y[k])
  <2>1. (\A k \in 1..c : k \in 1..d) /\ (\A k \in 1..Len(regs) : k + c \in 1..d)
    BY <1>2, <1>3
  <2>2. QED
    BY <1>8, <1>9, <2>1, Zenon DEF XY
<1>11. /\ \A k \in 1..c : w[k].fc \in {5, 15} /\ w[k].at = coils[k]
       /\ \A k \in 1..Len(regs) : w[k + c].fc \in {6, 16} /\ w[k + c].at = regs[k]
  BY <1>5, <1>6, <1>10, Zenon
<1>12. ASSUME NEW k \in 1..(2 * Len(bits))
       PROVE  /\ w[k + d].fc = IF k % 2 = 1 THEN 3 ELSE 6
              /\ w[k + d].at.start = points[bits[(k + 1) \div 2]].pdu
              /\ w[k + d].at.qty = 1
              /\ w[k + d].at.members = <<bits[(k + 1) \div 2]>>
  <2>1. w[k + d] = Z[k]
    BY <1>9, Zenon
  <2>2. QED
    BY <1>7, <2>1
<1>13. WriteForm(points, w, coils, regs, bits, c, d)
  BY <1>2, <1>8, <1>9, <1>11, <1>12, Zenon DEF WriteForm
<1>14. QED
  BY <1>13, Zenon DEF w, coils, regs, bits

(* The registers of an output are output registers of the device.          *)
LEMMA InOutputs ==
  ASSUME NEW p, NEW j \in Positions(p.points, TRUE), NEW a \in Span(p.points[j])
  PROVE  <<p.points[j].table, a>> \in OutputRegisters(p)
<1> DEFINE S == {<<p.points[j].table, x>> : x \in Span(p.points[j])}
<1>1. <<p.points[j].table, a>> \in S
  OBVIOUS
<1>2. S \subseteq OutputRegisters(p)
  BY DEF OutputRegisters
<1>3. QED
  BY <1>1, <1>2, Zenon

(* So is every address a point can have a register.                        *)
LEMMA InRegisters ==
  ASSUME NEW p, NEW j \in DOMAIN p.points, NEW a \in 0..TableSize
  PROVE  <<p.points[j].table, a>> \in Registers(p)
BY DEF Registers

(* The registers of a request of outputs of one table are output           *)
(* registers, of that table.                                               *)
OutputsOf(p, C, t) == \A i \in C : i \in Positions(p.points, TRUE) /\ p.points[i].table = t
CoversOnly(p, op, C, t) ==
  /\ Covered(p, op) \subseteq OutputRegisters(p)
  /\ \A r \in Covered(p, op) : \E j \in C : \E a \in Span(p.points[j]) : r = <<t, a>>

(* What such a request writes on the device belongs to those outputs.      *)
LEMMA GroupCovers ==
  ASSUME NEW p, NEW op, NEW C, NEW t, op.at \in Group, Fits(p.points, op.at, C),
         OutputsOf(p, C, t)
  PROVE  CoversOnly(p, op, C, t)
<1> DEFINE g == op.at
<1>1. g.members \in Seq(Nat) /\ Len(g.members) > 0 /\ Range(g.members) \subseteq C
  BY DEF Group, Fits
<1>2. g.members[1] \in C
  <2>1. g.members[1] \in Range(g.members)
    BY <1>1 DEF Range
  <2>2. QED
    BY <1>1, <2>1, Zenon
<1>3. g.start..(g.start + g.qty - 1) = UNION {Span(p.points[i]) : i \in Range(g.members)}
  BY Zenon DEF Fits
<1>4. \A r \in Covered(p, op) : \E j \in C : \E a \in Span(p.points[j]) : r = <<t, a>>
  BY <1>1, <1>2, <1>3, Zenon DEF Covered, OutputsOf
<1>5. ASSUME NEW j \in C, NEW a \in Span(p.points[j]) PROVE <<t, a>> \in OutputRegisters(p)
  <2>1. p.points[j].table = t /\ j \in Positions(p.points, TRUE)
    BY DEF OutputsOf
  <2>2. <<p.points[j].table, a>> \in OutputRegisters(p)
    BY <2>1, InOutputs
  <2>3. QED
    BY <2>1, <2>2
<1>6. QED
  BY <1>4, <1>5, Zenon DEF CoversOnly

(* The writes of an accepted module are planned.                           *)
LEMMA WritesOfModule ==
  ASSUME NEW p, Planned(p.points), p.writes = WriteOps(p.points), p.bits = BitOuts(p.points)
  PROVE  WritesPlanned(p)
<1> DEFINE points == p.points
           coils == CoilGroups(points, Limits)
           regs == RegGroups(points, Limits)
           bits == BitOuts(points)
           w == p.writes
           c == Len(coils)
           d == c + Len(regs)
           B == BitSet(points)
<1>1. Exact(points, coils, CoilSet(points)) /\ Exact(points, regs, RegSet(points))
  BY RequestsOfModule
<1>2. coils \in Seq(Group) /\ regs \in Seq(Group) /\ Len(regs) \in Nat
      /\ (\A k \in 1..c : coils[k] \in Group) /\ (\A k \in 1..Len(regs) : regs[k] \in Group)
  BY <1>1 DEF Exact
<1>3. Len(bits) \in Nat /\ Range(bits) = B /\ \A n \in 1..Len(bits) : bits[n] \in B
  BY BitsOfModule
<1>4. /\ Len(w) = d + 2 * Len(bits) /\ c \in Nat /\ d \in Nat
      /\ \A k \in 1..c : w[k].fc \in {5, 15} /\ w[k].at = coils[k]
      /\ \A k \in 1..Len(regs) : w[k + c].fc \in {6, 16} /\ w[k + c].at = regs[k]
      /\ \A k \in 1..(2 * Len(bits)) :
           /\ w[k + d].fc = IF k % 2 = 1 THEN 3 ELSE 6
           /\ w[k + d].at.start = points[bits[(k + 1) \div 2]].pdu
           /\ w[k + d].at.qty = 1
           /\ w[k + d].at.members = <<bits[(k + 1) \div 2]>>
  <2>1. WriteForm(points, WriteOps(points), coils, regs, bits, c, d)
    BY <1>2, <1>3, WriteList, Zenon
  <2>2. WriteForm(points, w, coils, regs, bits, c, d)
    BY <2>1
  <2> HIDE DEF points, coils, regs, bits, c, d
  <2>3. QED
    BY <2>2, Zenon DEF WriteForm
<1>5. ASSUME NEW i \in B
      PROVE  /\ i \in DOMAIN points /\ points[i].output /\ points[i].table = "holding"
             /\ points[i].raw = "BOOL" /\ points[i].words = 1 /\ points[i].pdu \in 0..(TableSize - 1)
             /\ points[i].bit \in 0..(WordBits - 1) /\ Span(points[i]) = {points[i].pdu}
  <2>1. /\ i \in DOMAIN points /\ points[i].output /\ points[i].table = "holding"
        /\ points[i].raw = "BOOL"
    BY DEF BitSet
  <2>2. /\ points[i].words = 1 /\ points[i].pdu \in 0..(TableSize - 1)
        /\ points[i].bit \in 0..(WordBits - 1)
    BY <2>1 DEF Planned, Sound
  <2>3. Span(points[i]) = {points[i].pdu}
    BY <2>2, MapsAssumption DEF Span
  <2>4. QED
    BY <2>1, <2>2, <2>3
<1>6. ASSUME NEW i \in B, NEW j \in DOMAIN points, points[j].table = "holding",
             points[i].pdu \in Span(points[j])
      PROVE  i = j
  <2>1. points[i].pdu \in Span(points[i]) /\ points[i].table = "holding" /\ i \in DOMAIN points
    BY <1>5
  <2>2. i # j => Span(points[i]) \cap Span(points[j]) = {}
    BY <1>6, <2>1, Zenon DEF Planned
  <2>3. QED
    BY <1>6, <2>1, <2>2
<1> HIDE DEF coils, regs, bits, w, c, d, B
<1>7. \A k \in 1..Len(w) : \/ k \in 1..c
                           \/ \E n \in 1..Len(regs) : k = n + c
                           \/ \E n \in 1..(2 * Len(bits)) : k = n + d
  <2> SUFFICES ASSUME NEW k \in 1..Len(w), k > c
               PROVE  \/ \E n \in 1..Len(regs) : k = n + c
                      \/ \E n \in 1..(2 * Len(bits)) : k = n + d
    BY <1>4
  <2>1. CASE k <= d
    <3>1. k - c \in 1..Len(regs) /\ k = (k - c) + c
      BY <1>2, <1>4, <2>1 DEF d
    <3>2. QED
      BY <3>1
  <2>2. CASE k > d
    <3>1. k - d \in 1..(2 * Len(bits)) /\ k = (k - d) + d
      BY <1>3, <1>4, <2>2
    <3>2. QED
      BY <3>1
  <2>3. QED
    BY <1>4, <2>1, <2>2
<1> DEFINE Good(k) ==
      /\ Covered(p, w[k]) \subseteq OutputRegisters(p)
      /\ \A i \in B : BitReg(points[i]) \in Covered(p, w[k]) => AloneAfterRead(p, k, i)
<1>8. ASSUME NEW k \in 1..c PROVE Good(k)
  <2>1. w[k].at \in Group /\ Fits(points, w[k].at, CoilSet(points))
    BY <1>1, <1>2, <1>4 DEF Exact, c
  <2>2. \A i \in CoilSet(points) : i \in Positions(points, TRUE) /\ points[i].table = "coil"
    BY DEF CoilSet, Positions, Planned, Sound
  <2>a. OutputsOf(p, CoilSet(points), "coil")
    BY <2>2 DEF OutputsOf
  <2>b. CoversOnly(p, w[k], CoilSet(points), "coil")
    BY <2>1, <2>a, GroupCovers, Zenon
  <2>3. /\ Covered(p, w[k]) \subseteq OutputRegisters(p)
        /\ \A r \in Covered(p, w[k]) :
             \E j \in CoilSet(points) : \E a \in Span(points[j]) : r = <<"coil", a>>
    BY <2>b, Zenon DEF CoversOnly
  <2>4. \A i \in B : BitReg(points[i]) \notin Covered(p, w[k])
    BY <2>3 DEF BitReg
  <2>5. QED
    BY <2>3, <2>4
<1>9. ASSUME NEW n \in 1..Len(regs) PROVE Good(n + c)
  <2> DEFINE k == n + c
  <2>1. w[k].at \in Group /\ Fits(points, w[k].at, RegSet(points))
    BY <1>1, <1>2, <1>4 DEF Exact
  <2> HIDE DEF k
  <2>2. \A i \in RegSet(points) : /\ i \in Positions(points, TRUE) /\ points[i].table = "holding"
                                  /\ i \in DOMAIN points /\ points[i].raw # "BOOL"
    BY DEF RegSet, Positions, Planned, Sound
  <2>a. OutputsOf(p, RegSet(points), "holding")
    BY <2>2 DEF OutputsOf
  <2>b. CoversOnly(p, w[k], RegSet(points), "holding")
    BY <2>1, <2>a, GroupCovers, Zenon
  <2>3. /\ Covered(p, w[k]) \subseteq OutputRegisters(p)
        /\ \A r \in Covered(p, w[k]) :
             \E j \in RegSet(points) : \E a \in Span(points[j]) : r = <<"holding", a>>
    BY <2>b, Zenon DEF CoversOnly
  <2>4. ASSUME NEW i \in B, BitReg(points[i]) \in Covered(p, w[k]) PROVE FALSE
    <3>0. PICK j \in RegSet(points) : \E a \in Span(points[j]) : BitReg(points[i]) = <<"holding", a>>
      BY <2>3, <2>4
    <3>1. PICK a \in Span(points[j]) : BitReg(points[i]) = <<"holding", a>>
      BY <3>0
    <3>2. points[i].pdu = a
      BY <3>1 DEF BitReg
    <3>3. i = j
      BY <1>6, <2>2, <3>2
    <3>4. QED
      BY <1>5, <2>2, <3>3
  <2>5. QED
    BY <2>3, <2>4 DEF k
<1>10. ASSUME NEW n \in 1..(2 * Len(bits)), w[n + d].fc # 3 PROVE Good(n + d)
  <2> DEFINE k == n + d
             h == (n + 1) \div 2
             b == bits[h]
  <2>1. n % 2 # 1 /\ w[k].fc = 6 /\ n \in Int /\ n <= 2 * Len(bits) /\ n >= 1
    BY <1>3, <1>4, <1>10
  <2>2. n - 1 \in 1..(2 * Len(bits)) /\ (n - 1) % 2 = 1 /\ ((n - 1) + 1) \div 2 = h
        /\ h \in 1..Len(bits)
    BY <1>3, <2>1
  <2>3. b \in B
    BY <1>3, <2>2
  <2>4. /\ w[k].at.start = points[b].pdu /\ w[k].at.qty = 1 /\ w[k].at.members = <<b>>
    BY <1>4
  <2>5. w[(n - 1) + d].fc = 3 /\ w[(n - 1) + d].at.start = points[b].pdu
    BY <1>4, <2>2
  <2>6. (n - 1) + d = k - 1 /\ k > 1
    BY <1>4, <2>1, <2>2
  <2> HIDE DEF k, h, b
  <2>7. w[k].at.start..(w[k].at.start + w[k].at.qty - 1) = {points[b].pdu}
    BY <1>5, <2>3, <2>4
  <2>8. Covered(p, w[k]) = {<<"holding", points[b].pdu>>}
    <3>1. p.points[w[k].at.members[1]].table = "holding"
      BY <1>5, <2>3, <2>4
    <3>2. QED
      BY <2>7, <3>1, Zenon DEF Covered
  <2>9. Covered(p, w[k]) \subseteq OutputRegisters(p)
    <3>1. b \in Positions(points, TRUE)
      BY <1>5, <2>3 DEF Positions, Planned, Sound
    <3>a. points[b].pdu \in Span(points[b]) /\ points[b].table = "holding"
      BY <1>5, <2>3
    <3>b. <<points[b].table, points[b].pdu>> \in OutputRegisters(p)
      BY <3>1, <3>a, InOutputs
    <3>2. <<"holding", points[b].pdu>> \in OutputRegisters(p)
      BY <3>a, <3>b
    <3>3. QED
      BY <2>8, <3>2, Zenon
  <2>10. ASSUME NEW i \in B, BitReg(points[i]) \in Covered(p, w[k]) PROVE AloneAfterRead(p, k, i)
    <3>1. points[i].pdu = points[b].pdu
      BY <2>8, <2>10 DEF BitReg
    <3>2. i = b
      BY <1>5, <1>6, <2>3, <3>1
    <3>3. QED
      BY <2>1, <2>4, <2>5, <2>6, <3>2 DEF AloneAfterRead, w
  <2>11. QED
    BY <2>9, <2>10 DEF k
<1>11. ASSUME NEW i \in B PROVE BitReg(points[i]) \in Registers(p) \ InputRegisters(p)
  <2>1. points[i].pdu \in 0..TableSize
    BY <1>5, MapsAssumption
  <2>2. BitReg(points[i]) \in Registers(p)
    <3>1. <<points[i].table, points[i].pdu>> \in Registers(p)
      BY <1>5, <2>1, InRegisters
    <3>2. QED
      BY <1>5, <3>1 DEF BitReg
  <2>3. ASSUME BitReg(points[i]) \in InputRegisters(p) PROVE FALSE
    <3>0. PICK j \in Positions(points, FALSE) :
            \E a \in Span(points[j]) : BitReg(points[i]) = <<points[j].table, a>>
      BY <2>3, Zenon DEF InputRegisters
    <3>1. PICK a \in Span(points[j]) : BitReg(points[i]) = <<points[j].table, a>>
      BY <3>0
    <3>2. j \in DOMAIN points /\ points[j].output = FALSE /\ points[j].table = "holding" /\ a = points[i].pdu
      BY <3>1 DEF Positions, BitReg
    <3>3. i = j
      BY <1>6, <3>2
    <3>4. QED
      BY <1>5, <3>2, <3>3
  <2>4. QED
    BY <2>2, <2>3
<1>12. \A k \in 1..Len(w) : w[k].fc # 3 => Good(k)
  <2> HIDE DEF Good
  <2>1. QED
    BY <1>7, <1>8, <1>9, <1>10
<1>13. Len(w) \in Nat
  BY <1>3, <1>4
<1>14. Range(p.bits) = B
  BY <1>3 DEF bits
<1>15. QED
  BY <1>5, <1>11, <1>12, <1>13, <1>14, Zenon DEF WritesPlanned, w

-----------------------------------------------------------------------------
(* The slots.                                                              *)
Nexts == [Planes -> Nat]
TypedBindings(bindings) == IsSeq(bindings) /\ \A n \in DOMAIN bindings : BindingTyped(bindings[n])

(* A list of the document is a list.                                       *)
LEMMA SeqDomain ==
  ASSUME NEW s, IsSeq(s)
  PROVE  Len(s) \in Nat /\ DOMAIN s = 1..Len(s)
<1>1. Len(s) \in Nat /\ s = [n \in 1..Len(s) |-> s[n]]
  BY DEF IsSeq
<1> DEFINE N == Len(s)
           f == [n \in 1..N |-> s[n]]
<1>2. DOMAIN f = 1..N
  OBVIOUS
<1> HIDE DEF f
<1>3. s = f
  BY <1>1 DEF f
<1>4. QED
  BY <1>1, <1>2, <1>3

(* A binding takes a slot and moves the counter of its plane.              *)
LEMMA AdvanceType ==
  ASSUME NEW next \in Nexts, NEW b, BindingTyped(b)
  PROVE  SlotFor(next, b) \in Nat /\ Advance(next, b) \in Nexts
<1>1. SlotFor(next, b) \in Nat
  BY DEF SlotFor, BindingTyped, Nexts
<1> DEFINE slot == SlotFor(next, b)
<1> HIDE DEF slot
<1>2. Advance(next, b) = [next EXCEPT ![b.plane] = IF slot + 1 > next[b.plane] THEN slot + 1 ELSE next[b.plane]]
  BY DEF Advance, slot
<1>3. slot \in Nat
  BY <1>1 DEF slot
<1>4. QED
  BY <1>1, <1>2, <1>3 DEF Nexts, BindingTyped

(* The counters along a module.                                            *)
LEMMA NextInModuleType ==
  ASSUME NEW start \in Nexts, NEW bindings, TypedBindings(bindings)
  PROVE  NextInModule(start, bindings) \in [0..Len(bindings) -> Nexts]
<1> DEFINE N == Len(bindings)
           Is(f) == f = [n \in 0..N |-> IF n = 0 THEN start ELSE Advance(f[n - 1], bindings[n])]
           next == CHOOSE f : Is(f)
           V == Nexts
<1>1. N \in Nat /\ DOMAIN bindings = 1..N /\ \A n \in 1..N : BindingTyped(bindings[n])
  BY SeqDomain DEF TypedBindings
<1>2. NextInModule(start, bindings) = next
  BY Zenon DEF NextInModule
<1> HIDE DEF N
<1>3. \E f : Is(f)
  <2> DEFINE F == [x \in (1..N) \X V |-> Advance(x[2], bindings[x[1]])]
  <2>1. ASSUME NEW n \in 1..N, NEW v \in V
        PROVE  F[<<n, v>>] \in V /\ F[<<n, v>>] = Advance(v, bindings[n])
    <3>1. F[<<n, v>>] = Advance(v, bindings[n])
      OBVIOUS
    <3> HIDE DEF F
    <3>2. Advance(v, bindings[n]) \in V
      BY <1>1, AdvanceType
    <3>3. QED
      BY <3>1, <3>2
  <2> HIDE DEF F
  <2>2. Stays(N, V, F)
    BY <2>1 DEF Stays
  <2>3. PICK f : Follows(f, N, V, start, F)
    BY <1>1, <2>2, Recursion, Zenon
  <2>4. f \in [0..N -> V] /\ f[0] = start /\ \A n \in 1..N : f[n] = F[<<n, f[n - 1]>>]
    BY <2>3 DEF Follows
  <2> HIDE DEF V
  <2>5. ASSUME NEW n \in 0..N
        PROVE  f[n] = IF n = 0 THEN start ELSE Advance(f[n - 1], bindings[n])
    <3>1. CASE n = 0
      BY <2>4, <3>1
    <3>2. CASE n # 0
      <4>1. n \in 1..N /\ f[n - 1] \in V
        BY <1>1, <2>4, <3>2
      <4>2. QED
        BY <2>1, <2>4, <3>2, <4>1
    <3>3. QED
      BY <3>1, <3>2
  <2>6. Is(f)
    BY <2>4, <2>5
  <2>7. QED
    BY <2>6
<1>4. Is(next)
  BY <1>3, Zenon
<1> DEFINE S == {n \in 0..N : next[n] \in V}
<1> HIDE DEF next, V
<1>5. 0 \in S
  <2>1. next[0] = start /\ 0 \in 0..N
    BY <1>1, <1>4
  <2>2. QED
    BY <2>1 DEF V
<1>6. ASSUME NEW n \in 0..N, n < N, n \in S PROVE n + 1 \in S
  <2>1. n + 1 \in 1..N /\ n + 1 \in 0..N /\ n + 1 # 0 /\ (n + 1) - 1 = n
    BY <1>1, <1>6
  <2>2. next[n + 1] = Advance(next[n], bindings[n + 1])
    BY <1>4, <2>1
  <2>3. next[n + 1] \in V
    BY <1>1, <1>6, <2>1, <2>2, AdvanceType DEF V
  <2>4. QED
    BY <2>1, <2>3
<1>7. \A n \in 0..N : n \in S
  <2> HIDE DEF S
  <2>1. QED
    BY <1>1, <1>5, <1>6, Climb
<1>8. next \in [0..N -> V]
  BY <1>4, <1>7
<1>9. QED
  BY <1>2, <1>8 DEF N, V

(* What the parser sees to, of the modules of a document.                  *)
TypedModules(modules) ==
  /\ IsSeq(modules)
  /\ \A m \in DOMAIN modules : TypedBindings(modules[m].bindings)

(* The counters along the map.                                             *)
LEMMA NextInMapType ==
  ASSUME NEW modules, TypedModules(modules)
  PROVE  NextInMap(modules) \in [0..Len(modules) -> Nexts]
<1> DEFINE N == Len(modules)
           Through(v, m) == NextInModule(v, modules[m].bindings)[Len(modules[m].bindings)]
           zero == [p \in Planes |-> 0]
           Is(f) == f = [m \in 0..N |-> IF m = 0 THEN zero ELSE Through(f[m - 1], m)]
           next == CHOOSE f : Is(f)
           V == Nexts
<1>1. N \in Nat /\ DOMAIN modules = 1..N /\ \A m \in 1..N : TypedBindings(modules[m].bindings)
  BY SeqDomain DEF TypedModules
<1>2. NextInMap(modules) = next
  BY Zenon DEF NextInMap
<1>3. zero \in V
  BY DEF Nexts
<1> HIDE DEF N, zero
<1>a. ASSUME NEW v \in V, NEW m \in 1..N PROVE Through(v, m) \in V
  <2> DEFINE b == modules[m].bindings
  <2>1. TypedBindings(b) /\ Len(b) \in Nat
    BY <1>1, SeqDomain DEF TypedBindings
  <2> HIDE DEF b
  <2>2. NextInModule(v, b) \in [0..Len(b) -> V]
    BY <2>1, NextInModuleType
  <2>3. NextInModule(v, b)[Len(b)] \in V
    BY <2>1, <2>2
  <2>4. QED
    BY <2>3 DEF b
<1> HIDE DEF Through
<1>4. \E f : Is(f)
  <2> DEFINE F == [x \in (1..N) \X V |-> Through(x[2], x[1])]
  <2>1. ASSUME NEW n \in 1..N, NEW v \in V
        PROVE  F[<<n, v>>] \in V /\ F[<<n, v>>] = Through(v, n)
    <3>1. F[<<n, v>>] = Through(v, n)
      OBVIOUS
    <3> HIDE DEF F
    <3>2. QED
      BY <1>a, <3>1
  <2> HIDE DEF F
  <2>2. Stays(N, V, F)
    BY <2>1 DEF Stays
  <2>3. PICK f : Follows(f, N, V, zero, F)
    BY <1>1, <1>3, <2>2, Recursion, Zenon
  <2>4. f \in [0..N -> V] /\ f[0] = zero /\ \A n \in 1..N : f[n] = F[<<n, f[n - 1]>>]
    BY <2>3 DEF Follows
  <2> HIDE DEF V
  <2>5. ASSUME NEW n \in 0..N
        PROVE  f[n] = IF n = 0 THEN zero ELSE Through(f[n - 1], n)
    <3>1. CASE n = 0
      BY <2>4, <3>1
    <3>2. CASE n # 0
      <4>1. n \in 1..N /\ f[n - 1] \in V
        BY <1>1, <2>4, <3>2
      <4>2. QED
        BY <2>1, <2>4, <3>2, <4>1
    <3>3. QED
      BY <3>1, <3>2
  <2>6. Is(f)
    BY <2>4, <2>5
  <2>7. QED
    BY <2>6
<1>5. Is(next)
  BY <1>4, Zenon
<1> DEFINE S == {n \in 0..N : next[n] \in V}
<1> HIDE DEF next, V
<1>6. 0 \in S
  BY <1>1, <1>3, <1>5
<1>7. ASSUME NEW n \in 0..N, n < N, n \in S PROVE n + 1 \in S
  <2>1. n + 1 \in 1..N /\ n + 1 \in 0..N /\ n + 1 # 0 /\ (n + 1) - 1 = n
    BY <1>1, <1>7
  <2>2. next[n + 1] = Through(next[n], n + 1)
    BY <1>5, <2>1
  <2>3. next[n + 1] \in V
    BY <1>7, <1>a, <2>1, <2>2
  <2>4. QED
    BY <2>1, <2>3
<1>8. \A n \in 0..N : n \in S
  <2> HIDE DEF S
  <2>1. QED
    BY <1>1, <1>6, <1>7, Climb
<1>9. next \in [0..N -> V]
  BY <1>5, <1>8
<1>10. QED
  BY <1>2, <1>9 DEF N, V

(* Every binding has a slot.                                               *)
LEMMA SlotsType ==
  ASSUME NEW modules, TypedModules(modules)
  PROVE  \A p \in Places(modules) :
           /\ p[1] \in DOMAIN modules /\ p[2] \in DOMAIN modules[p[1]].bindings
           /\ p = <<p[1], p[2]>>
           /\ SlotsOf(modules)[p[1]][p[2]] \in Nat
<1> SUFFICES ASSUME NEW p \in Places(modules)
             PROVE  /\ p[1] \in DOMAIN modules /\ p[2] \in DOMAIN modules[p[1]].bindings
                    /\ p = <<p[1], p[2]>>
                    /\ SlotsOf(modules)[p[1]][p[2]] \in Nat
  OBVIOUS
<1>1. PICK m \in DOMAIN modules : \E n \in DOMAIN modules[m].bindings : p = <<m, n>>
  BY DEF Places
<1>2. PICK n \in DOMAIN modules[m].bindings : p = <<m, n>>
  BY <1>1
<1> DEFINE b == modules[m].bindings
           start == NextInMap(modules)[m - 1]
           next == NextInModule(start, b)
<1>3. m \in 1..Len(modules) /\ Len(modules) \in Nat
  BY SeqDomain DEF TypedModules
<1>4. TypedBindings(b) /\ n \in 1..Len(b) /\ Len(b) \in Nat /\ BindingTyped(b[n])
  BY SeqDomain DEF TypedModules, TypedBindings
<1>5. start \in Nexts
  BY <1>3, NextInMapType
<1>6. SlotsOf(modules)[m][n] = SlotFor(next[n - 1], b[n])
  BY DEF SlotsOf
<1> HIDE DEF b, start
<1>7. next \in [0..Len(b) -> Nexts]
  BY <1>4, <1>5, NextInModuleType
<1> HIDE DEF next
<1>8. next[n - 1] \in Nexts
  BY <1>4, <1>7
<1>9. SlotFor(next[n - 1], b[n]) \in Nat
  BY <1>4, <1>8, AdvanceType
<1>10. p[1] = m /\ p[2] = n /\ p = <<p[1], p[2]>>
  BY <1>2
<1>11. QED
  BY <1>6, <1>9, <1>10

(* The image of a finite set is finite.                                    *)
LEMMA ImageFinite ==
  ASSUME NEW S, IsFiniteSet(S), NEW f
  PROVE  IsFiniteSet({f[x] : x \in S})
<1> DEFINE T == {f[x] : x \in S}
           g == [x \in S |-> f[x]]
<1>1. g \in Surjection(S, T)
  BY DEF Surjection
<1> HIDE DEF g, T
<1>2. IsFiniteSet(T)
  BY <1>1, FS_Surjection
<1>3. QED
  BY <1>2 DEF T

(* A document has finitely many bindings.                                  *)
LEMMA PlacesFinite ==
  ASSUME NEW modules, TypedModules(modules)
  PROVE  IsFiniteSet(Places(modules))
<1> DEFINE In(m) == {<<m, n>> : n \in DOMAIN modules[m].bindings}
           f == [m \in DOMAIN modules |-> In(m)]
           S == {f[m] : m \in DOMAIN modules}
<1>1. IsFiniteSet(DOMAIN modules)
  BY SeqDomain, FS_Interval DEF TypedModules
<1>2. ASSUME NEW m \in DOMAIN modules PROVE IsFiniteSet(In(m))
  <2> DEFINE D == DOMAIN modules[m].bindings
             g == [n \in D |-> <<m, n>>]
  <2>1. IsFiniteSet(D)
    <3>1. IsSeq(modules[m].bindings)
      BY DEF TypedModules, TypedBindings
    <3>2. QED
      BY <3>1, SeqDomain, FS_Interval
  <2> HIDE DEF D
  <2>2. IsFiniteSet({g[n] : n \in D})
    BY <2>1, ImageFinite
  <2>3. {g[n] : n \in D} = In(m)
    BY DEF D
  <2>4. QED
    BY <2>2, <2>3
<1>3. IsFiniteSet(S)
  <2> HIDE DEF f
  <2>1. QED
    BY <1>1, ImageFinite
<1>4. \A T \in S : IsFiniteSet(T)
  BY <1>2
<1>5. IsFiniteSet(UNION S)
  <2> HIDE DEF S
  <2>1. QED
    BY <1>3, <1>4, FS_UNION
<1>6. S = {In(m) : m \in DOMAIN modules}
  OBVIOUS
<1>7. QED
  BY <1>5, <1>6, Zenon DEF Places

-----------------------------------------------------------------------------
(* A plane has room for its slots.                                         *)
LEMMA PlaneHolds ==
  ASSUME NEW used \in SUBSET Nat, IsFiniteSet(used)
  PROVE  PlaneSize(used) \in Nat /\ \A s \in used : s \in 0..(PlaneSize(used) - 1)
<1>1. CASE used = {}
  BY <1>1 DEF PlaneSize
<1>2. CASE used # {}
  <2> DEFINE top == Max(used)
  <2>1. top \in used /\ \A s \in used : s <= top
    BY <1>2, Greatest
  <2>2. PlaneSize(used) = 1 + top
    BY <1>2 DEF PlaneSize
  <2> HIDE DEF top
  <2>3. QED
    BY <2>1, <2>2
<1>3. QED
  BY <1>1, <1>2

(* A safe state is a number.                                               *)
LEMMA WrapType ==
  ASSUME NEW ty, NEW n \in Int
  PROVE  WrapTo(ty, n) \in Int
<1>1. WordBase \in Nat /\ WordBase >= 2
  BY BitsAssumption
<1> DEFINE h == Half(ty)
<1>2. h \in Nat /\ h >= 1
  <2>1. CASE ty = "INT"
    BY <1>1, <2>1 DEF Half
  <2>2. CASE ty # "INT"
    <3> DEFINE q == WordBase * WordBase
    <3>1. q \in Nat /\ q >= 2
      BY <1>1
    <3> HIDE DEF q
    <3>2. q \div 2 \in Nat /\ q \div 2 >= 1
      BY <3>1
    <3>3. QED
      BY <2>2, <3>2 DEF Half, q
  <2>3. QED
    BY <2>1, <2>2
<1> HIDE DEF h
<1>3. 2 * h \in Nat /\ 2 * h > 0
  BY <1>2
<1>4. (n + h) % (2 * h) \in Int
  BY <1>2, <1>3
<1>5. QED
  BY <1>2, <1>4 DEF WrapTo, h

(* A safe state of the document parses to a number.                        *)
LEMMA SafeStateType ==
  ASSUME NEW b, BindingTyped(b)
  PROVE  ParseSafeState(b.ty, b.safe).v \in Int
<1>1. CASE b.safe = <<>>
  BY <1>1 DEF ParseSafeState
<1>2. CASE b.safe # <<>>
  <2> DEFINE v == b.safe[1].v
  <2>1. v \in Int
    BY <1>2 DEF BindingTyped
  <2>2. WrapTo(b.ty, v) \in Int
    BY <2>1, WrapType
  <2>3. ParseSafeState(b.ty, b.safe).v = v \/ ParseSafeState(b.ty, b.safe).v = WrapTo(b.ty, v)
    BY <1>2 DEF ParseSafeState
  <2>4. QED
    BY <2>1, <2>2, <2>3
<1>3. QED
  BY <1>1, <1>2

(* What resolving a document establishes.                                  *)
Resolved(modules, r) ==
  /\ \A p \in Places(modules) :
       /\ At(modules, p).plane = "I" => r.slots[p[1]][p[2]] \in 0..(r.inputs - 1)
       /\ At(modules, p).plane = "Q" => r.safe[r.slots[p[1]][p[2]]] \in Int
  /\ r.ok => \A p, q \in Places(modules) :
       p # q /\ At(modules, p).plane = At(modules, q).plane
         => r.slots[p[1]][p[2]] # r.slots[q[1]][q[2]]

(* Slots of inputs lie within the input plane, outputs have a safe state,  *)
(* and an accepted document gives no slot of a plane twice.                *)
LEMMA ResolveFacts ==
  ASSUME NEW x, TypedModules(x.modules)
  PROVE  Resolved(x.modules, Resolve(x))
<1> DEFINE of == x.modules
           slots == SlotsOf(of)
           slot(p) == slots[p[1]][p[2]]
           used(plane) == {slot(p) : p \in InPlane(of, plane)}
           r == Resolve(x)
<1>1. /\ r.ok = ResolveOk(x, slots) /\ r.slots = slots /\ r.inputs = PlaneSize(used("I"))
      /\ r.safe = [s \in 0..(PlaneSize(used("Q")) - 1) |-> SafeAt(of, slots, s)]
  BY DEF Resolve
<1>2. \A p \in Places(of) : slot(p) \in Nat /\ BindingTyped(At(of, p))
  BY SlotsType DEF At, TypedModules, TypedBindings
<1>3. ASSUME NEW plane PROVE used(plane) \in SUBSET Nat /\ IsFiniteSet(used(plane))
  <2> DEFINE P == InPlane(of, plane)
             f == [p \in P |-> slot(p)]
  <2>1. IsFiniteSet(P)
    BY PlacesFinite, FS_Subset DEF InPlane
  <2>2. used(plane) = {f[p] : p \in P}
    OBVIOUS
  <2>3. used(plane) \in SUBSET Nat
    BY <1>2 DEF InPlane
  <2> HIDE DEF f, P
  <2>4. IsFiniteSet({f[p] : p \in P})
    BY <2>1, ImageFinite
  <2>5. QED
    BY <2>2, <2>3, <2>4, Zenon
<1>4. ASSUME NEW p \in Places(of)
      PROVE  slot(p) \in used(At(of, p).plane)
  BY DEF InPlane
<1> HIDE DEF used
<1>5. ASSUME NEW p \in Places(of)
      PROVE  slot(p) \in 0..(PlaneSize(used(At(of, p).plane)) - 1)
  BY <1>3, <1>4, PlaneHolds
<1>6. ASSUME NEW s PROVE SafeAt(of, slots, s) \in Int
  <2> DEFINE owner == {p \in InPlane(of, "Q") : slot(p) = s}
             b == At(of, CHOOSE p \in owner : TRUE)
  <2>1. SafeAt(of, slots, s) = IF owner = {} THEN 0 ELSE ParseSafeState(b.ty, b.safe).v
    BY Zenon DEF SafeAt
  <2>2. CASE owner = {}
    BY <2>1, <2>2
  <2>3. CASE owner # {}
    <3>1. (CHOOSE p \in owner : TRUE) \in owner
      BY <2>3
    <3>2. BindingTyped(b)
      BY <1>2, <3>1 DEF InPlane
    <3> HIDE DEF owner, b
    <3>3. QED
      BY <2>1, <2>3, <3>2, SafeStateType
  <2>4. QED
    BY <2>2, <2>3
<1> HIDE DEF slots
<1>7. ASSUME NEW p \in Places(of)
      PROVE  /\ At(of, p).plane = "I" => r.slots[p[1]][p[2]] \in 0..(r.inputs - 1)
             /\ At(of, p).plane = "Q" => r.safe[r.slots[p[1]][p[2]]] \in Int
  <2>1. CASE At(of, p).plane = "I"
    BY <1>1, <1>5, <2>1
  <2>2. CASE At(of, p).plane = "Q"
    <3>1. slot(p) \in 0..(PlaneSize(used("Q")) - 1)
      BY <1>5, <2>2
    <3>2. QED
      BY <1>1, <1>6, <2>2, <3>1
  <2>3. QED
    BY <2>1, <2>2
<1>8. ASSUME r.ok, NEW p \in Places(of), NEW q \in Places(of), p # q, At(of, p).plane = At(of, q).plane
      PROVE  r.slots[p[1]][p[2]] # r.slots[q[1]][q[2]]
  <2>1. ResolveOk(x, slots)
    BY <1>1, <1>8
  <2>2. slots[p[1]][p[2]] # slots[q[1]][q[2]]
    BY <1>8, <2>1, Zenon DEF ResolveOk
  <2>3. QED
    BY <1>1, <2>2
<1> HIDE DEF r
<1>9. QED
  BY <1>7, <1>8, Zenon DEF Resolved, r

-----------------------------------------------------------------------------
(* A reference of an accepted point is in one of the four tables.          *)
LEMMA AddressType ==
  ASSUME NEW b, Address(b)[1] # "none"
  PROVE  Address(b)[1] \in Tables /\ Address(b)[2] \in 0..(TableSize - 1)
<1>1. TableSize \in Nat
  BY MapsAssumption
<1> DEFINE reg == b.reg[1]
<1>2. Address(b) = Decode(reg)
  BY DEF Address
<1> HIDE DEF reg
<1>3. \/ reg \in 1..TableSize /\ Decode(reg) = <<"coil", reg - 1>>
      \/ reg \in 10001..(10000 + TableSize) /\ Decode(reg) = <<"discrete", reg - 10001>>
      \/ reg \in 30001..(30000 + TableSize) /\ Decode(reg) = <<"input", reg - 30001>>
      \/ reg \in 40001..(40000 + TableSize) /\ Decode(reg) = <<"holding", reg - 40001>>
      \/ Decode(reg) = <<"none", 0>>
  BY DEF Decode
<1>4. QED
  BY <1>1, <1>2, <1>3 DEF Tables

(* What planning makes of an accepted binding.                             *)
LEMMA PointSound ==
  ASSUME NEW bindings, NEW n, NEW slot, NEW r, BindingTyped(bindings[n]), PointOk(bindings[n])
  PROVE  /\ Sound(PlanPoint(bindings, n, slot, r))
         /\ PlanPoint(bindings, n, slot, r).output = (bindings[n].plane = "Q")
         /\ PlanPoint(bindings, n, slot, r).slot = slot
         /\ bindings[n].plane \in {"I", "Q"}
<1> DEFINE b == bindings[n]
           pt == PlanPoint(bindings, n, slot, r)
           t == Address(b)[1]
<1>1. /\ pt.output = (b.plane = "Q") /\ pt.slot = slot /\ pt.table = t /\ pt.pdu = Address(b)[2]
      /\ pt.words = IF IsBitTable(t) THEN 1 ELSE RawWords(RawOf(b))
      /\ pt.raw = RawOf(b) /\ pt.bit = IF b.bit = <<>> THEN 0 ELSE b.bit[1]
  BY DEF PlanPoint
<1>2. /\ b.plane # "M" /\ t # "none" /\ CheckBit(t, b)
      /\ b.plane = "Q" => t \in {"coil", "holding"}
  BY DEF PointOk
<1>3. t \in Tables /\ Address(b)[2] \in 0..(TableSize - 1)
  BY <1>2, AddressType
<1> HIDE DEF pt, t
<1>4. pt.words \in {1, 2} /\ (pt.raw = "BOOL" => pt.words = 1)
  BY <1>1 DEF RawWords
<1>5. t = "holding" /\ RawOf(b) = "BOOL" => pt.bit \in 0..(WordBits - 1)
  <2>1. ASSUME t = "holding", RawOf(b) = "BOOL" PROVE pt.bit \in 0..(WordBits - 1)
    <3>1. b.bit # <<>> /\ b.bit[1] < WordBits
      BY <1>2, <2>1 DEF CheckBit, IsBitTable
    <3>2. b.bit[1] \in Nat /\ pt.bit = b.bit[1]
      BY <1>1, <3>1 DEF BindingTyped
    <3>3. QED
      BY <3>1, <3>2, BitsAssumption
  <2>2. QED
    BY <2>1
<1>6. Sound(pt)
  BY <1>1, <1>2, <1>3, <1>4, <1>5 DEF Sound
<1>7. b.plane \in {"I", "Q"}
  BY <1>2 DEF BindingTyped, Planes
<1>8. QED
  BY <1>1, <1>6, <1>7 DEF pt

(* The points of an accepted module.                                       *)
PointsOf(points, bindings, slots, r) ==
  /\ DOMAIN points = DOMAIN bindings
  /\ \A n \in DOMAIN points :
       /\ points[n] = PlanPoint(bindings, n, slots[n], r)
       /\ points[n].output = (bindings[n].plane = "Q")
       /\ points[n].slot = slots[n]
       /\ bindings[n].plane \in {"I", "Q"}

(* Each binding an accepted module has becomes one point, checked.         *)
LEMMA PointsPlanned ==
  ASSUME NEW module, NEW slots, NEW r, TypedBindings(module.bindings), ModbusOk(module, slots, r)
  PROVE  /\ Planned(ModbusPoints(module.bindings, slots, r))
         /\ PointsOf(ModbusPoints(module.bindings, slots, r), module.bindings, slots, r)
<1> DEFINE points == ModbusPoints(module.bindings, slots, r)
           b == module.bindings
           N == Len(b)
<1>1. N \in Nat /\ DOMAIN b = 1..N /\ \A n \in 1..N : BindingTyped(b[n])
  BY SeqDomain DEF TypedBindings
<1>2. (\A n \in 1..N : PointOk(b[n])) /\ ~Overlaps(points)
  BY <1>1, Zenon DEF ModbusOk
<1>3. points = [n \in 1..N |-> PlanPoint(b, n, slots[n], r)]
  BY <1>1, Zenon DEF ModbusPoints
<1> HIDE DEF N, points
<1>4. DOMAIN points = 1..N /\ \A n \in 1..N : points[n] = PlanPoint(b, n, slots[n], r)
  BY <1>3
<1>5. Len(points) = N
  BY <1>1, <1>3
<1>6. ASSUME NEW n \in 1..N
      PROVE  /\ Sound(points[n]) /\ points[n].output = (b[n].plane = "Q")
             /\ points[n].slot = slots[n] /\ b[n].plane \in {"I", "Q"}
  <2>1. BindingTyped(b[n]) /\ PointOk(b[n])
    BY <1>1, <1>2
  <2> HIDE DEF b
  <2>2. /\ Sound(PlanPoint(b, n, slots[n], r))
        /\ PlanPoint(b, n, slots[n], r).output = (b[n].plane = "Q")
        /\ PlanPoint(b, n, slots[n], r).slot = slots[n] /\ b[n].plane \in {"I", "Q"}
    BY <2>1, PointSound
  <2>3. QED
    BY <1>4, <2>2
<1>7. ASSUME NEW i \in 1..N, NEW j \in 1..N, i # j, points[i].table = points[j].table
      PROVE  Span(points[i]) \cap Span(points[j]) = {}
  <2>1. i < j \/ j < i
    BY <1>1, <1>7
  <2>2. QED
    BY <1>2, <1>4, <1>7, <2>1 DEF Overlaps
<1>8. Planned(points)
  BY <1>1, <1>4, <1>5, <1>6, <1>7 DEF Planned
<1>9. PointsOf(points, b, slots, r)
  BY <1>1, <1>4, <1>6, Zenon DEF PointsOf
<1>10. QED
  BY <1>8, <1>9 DEF points

(* The position of a point.                                                *)
LEMMA PosOf ==
  ASSUME NEW bindings, NEW n, NEW slot, NEW r
  PROVE  PlanPoint(bindings, n, slot, r).pos = Rank(SameWay(bindings, n), Itself(DOMAIN bindings), n)
BY DEF PlanPoint

(* The input vector of an accepted module has a place for each input.      *)
Numbered(points) ==
  /\ Cardinality(Positions(points, FALSE)) \in Nat
  /\ \A n \in 1..Cardinality(Positions(points, FALSE)) :
       \E i \in Positions(points, FALSE) : points[i].pos = n

(* Ranking the inputs of a module by their index numbers them from 1.      *)
LEMMA InputPositions ==
  ASSUME NEW module, NEW slots, NEW r, TypedBindings(module.bindings), ModbusOk(module, slots, r)
  PROVE  Numbered(ModbusPoints(module.bindings, slots, r))
<1> DEFINE points == ModbusPoints(module.bindings, slots, r)
           b == module.bindings
           D == DOMAIN b
           S == Positions(points, FALSE)
           key == Itself(D)
<1>1. D = 1..Len(b) /\ Len(b) \in Nat
  BY SeqDomain DEF TypedBindings
<1>2. DOMAIN points = D /\ \A n \in D : /\ points[n] = PlanPoint(b, n, slots[n], r)
                                        /\ points[n].output = (b[n].plane = "Q")
                                        /\ b[n].plane \in {"I", "Q"}
  <2>1. PointsOf(points, b, slots, r)
    BY PointsPlanned
  <2>2. QED
    BY <2>1, Zenon DEF PointsOf
<1> HIDE DEF points
<1>3. S = {n \in D : b[n].plane = "I"}
  BY <1>2 DEF Positions
<1>4. \A n \in S : SameWay(b, n) = S
  BY <1>3 DEF SameWay
<1>5. \A n \in S : points[n].pos = Rank(S, key, n)
  <2> SUFFICES ASSUME NEW n \in S PROVE points[n].pos = Rank(S, key, n)
    OBVIOUS
  <2>1. n \in D
    BY <1>3
  <2>2. points[n].pos = Rank(SameWay(b, n), key, n)
    <3>1. PlanPoint(b, n, slots[n], r).pos = Rank(SameWay(b, n), key, n)
      BY PosOf
    <3>2. points[n] = PlanPoint(b, n, slots[n], r)
      BY <1>2, <2>1, Zenon
    <3>3. QED
      BY <3>1, <3>2
  <2>3. QED
    BY <1>4, <2>2, Zenon
<1>6. Keyed(S, key)
  <2>1. IsFiniteSet(D)
    BY <1>1, FS_Interval
  <2>2. S \in SUBSET D
    BY <1>3
  <2> HIDE DEF S, D
  <2>3. IsFiniteSet(S)
    BY <2>1, <2>2, FS_Subset
  <2>4. \A i \in S : key[i] = i /\ i \in Int
    BY <1>1, <2>2 DEF Itself
  <2>5. QED
    BY <2>3, <2>4 DEF Keyed
<1> HIDE DEF S, key
<1>7. Cardinality(S) \in Nat /\ \A n \in 1..Cardinality(S) : \E i \in S : Rank(S, key, i) = n
  BY <1>6, Ranks
<1>8. \A n \in 1..Cardinality(S) : \E i \in S : points[i].pos = n
  BY <1>5, <1>7, Zenon
<1>9. Numbered(points)
  BY <1>7, <1>8, Zenon DEF S, Numbered
<1>10. QED
  BY <1>9 DEF points

-----------------------------------------------------------------------------
(* What planning establishes: the inputs of a module have the positions    *)
(* 1..ins and each is read by a request, and no two inputs of the map      *)
(* share a slot.                                                           *)
WellPlanned(r) ==
  LET ins(m) == Positions(r.modbus[m].points, FALSE)
      slot(m, i) == r.modbus[m].points[i].slot
  IN /\ Len(r.modbus) \in Nat /\ DOMAIN r.modbus = 1..Len(r.modbus)
     /\ \A m \in DOMAIN r.modbus :
          /\ r.modbus[m].ins \in Nat
          /\ \A n \in 1..r.modbus[m].ins : \E i \in ins(m) : r.modbus[m].points[i].pos = n
          /\ \A i \in DOMAIN r.modbus[m].points : r.modbus[m].points[i].output \in BOOLEAN
          /\ Len(r.modbus[m].reads) \in Nat
          /\ \A i \in ins(m) : /\ slot(m, i) \in 0..(r.inputs - 1)
                               /\ \E k \in 1..Len(r.modbus[m].reads) :
                                    i \in Range(r.modbus[m].reads[k].members)
     /\ \A m, o \in DOMAIN r.modbus : \A i \in ins(m), j \in ins(o) :
          slot(m, i) = slot(o, j) => m = o /\ i = j
     /\ \A m \in DOMAIN r.modbus, g \in DOMAIN r.gpio : \A i \in ins(m) :
          r.gpio[g].input => \A k \in DOMAIN r.gpio[g].points : r.gpio[g].points[k].slot # slot(m, i)
     /\ \A g \in DOMAIN r.gpio : \A k \in DOMAIN r.gpio[g].points : r.gpio[g].points[k].safe \in Int

(* The modules of a driver, in the order of the document.                  *)
ModulesOf(x, driver, s) ==
  /\ Len(s) \in Nat /\ DOMAIN s = 1..Len(s)
  /\ \A k \in DOMAIN s : s[k] \in DOMAIN x.modules /\ x.modules[s[k]].driver = driver
  /\ \A k, l \in DOMAIN s : s[k] = s[l] => k = l

(* Each module of a driver is listed once.                                 *)
LEMMA DriverList ==
  ASSUME NEW x, TypedModules(x.modules), NEW driver
  PROVE  ModulesOf(x, driver, DriverModules(x, driver))
<1> DEFINE of == {n \in DOMAIN x.modules : x.modules[n].driver = driver}
           s == Ordered(of, Itself(of))
<1>1. Keyed(of, Itself(of))
  <2>1. DOMAIN x.modules = 1..Len(x.modules) /\ Len(x.modules) \in Nat
    BY SeqDomain DEF TypedModules
  <2>2. IsFiniteSet(DOMAIN x.modules) /\ of \in SUBSET DOMAIN x.modules
    BY <2>1, FS_Interval
  <2>3. IsFiniteSet(of) /\ of \subseteq Nat
    BY <2>1, <2>2, FS_Subset
  <2> HIDE DEF of
  <2>4. QED
    BY <2>3 DEF Keyed, Itself
<1>2. DriverModules(x, driver) = s
  BY Zenon DEF DriverModules
<1>3. \A k \in of : k \in DOMAIN x.modules /\ x.modules[k].driver = driver
  OBVIOUS
<1> HIDE DEF of
<1>4. /\ Cardinality(of) \in Nat /\ s \in [1..Cardinality(of) -> of] /\ Len(s) = Cardinality(of)
      /\ \A a, b \in 1..Cardinality(of) : s[a] = s[b] => a = b
  BY <1>1, OrderedLists, Zenon
<1> HIDE DEF s
<1>5. DOMAIN s = 1..Len(s) /\ Len(s) \in Nat /\ \A k \in DOMAIN s : s[k] \in of
  BY <1>4
<1>6. ModulesOf(x, driver, s)
  BY <1>3, <1>4, <1>5, Zenon DEF ModulesOf
<1>7. QED
  BY <1>2, <1>6

(* The plan of one Modbus module.                                          *)
ModuleWell(p) ==
  /\ Planned(p.points) /\ p.ins \in Nat
  /\ \A n \in 1..p.ins : \E i \in Positions(p.points, FALSE) : p.points[i].pos = n
  /\ p.reads = ReadGroups(p.points, Limits) /\ p.coils = CoilGroups(p.points, Limits)
  /\ p.regs = RegGroups(p.points, Limits) /\ p.bits = BitOuts(p.points)
  /\ p.writes = WriteOps(p.points)

(* A Modbus module that passes validation is planned that way.             *)
LEMMA ModbusPlanWell ==
  ASSUME NEW module, NEW slots, NEW r, TypedBindings(module.bindings), ModbusOk(module, slots, r)
  PROVE  LET p == ModbusPlan(module, ModbusPoints(module.bindings, slots, r)) IN
         ModuleWell(p) /\ PointsOf(p.points, module.bindings, slots, r)
<1> DEFINE points == ModbusPoints(module.bindings, slots, r)
           p == ModbusPlan(module, points)
<1>1. Planned(points) /\ PointsOf(points, module.bindings, slots, r)
  BY PointsPlanned
<1>2. /\ Cardinality(Positions(points, FALSE)) \in Nat
      /\ \A n \in 1..Cardinality(Positions(points, FALSE)) :
           \E i \in Positions(points, FALSE) : points[i].pos = n
  <2>1. Numbered(points)
    BY InputPositions
  <2> HIDE DEF points
  <2>2. QED
    BY <2>1, Zenon DEF Numbered
<1> HIDE DEF points
<1>3. /\ p.points = points /\ p.ins = Cardinality(Positions(points, FALSE))
      /\ p.reads = ReadGroups(points, Limits) /\ p.coils = CoilGroups(points, Limits)
      /\ p.regs = RegGroups(points, Limits) /\ p.bits = BitOuts(points)
      /\ p.writes = WriteOps(points)
  BY DEF ModbusPlan
<1> HIDE DEF p
<1>4. ModuleWell(p) /\ PointsOf(p.points, module.bindings, slots, r)
  BY <1>1, <1>2, <1>3 DEF ModuleWell
<1>5. QED
  BY <1>4 DEF p, points

(* The plan of one gpiochip request.                                       *)
LEMMA GpioPlanWell ==
  ASSUME NEW modules, TypedModules(modules), NEW m \in DOMAIN modules, NEW r,
         Resolved(modules, r), GpioOk(modules[m]),
         NEW g, g = GpioPlan(modules[m], GpioPoints(modules[m].bindings, r.slots[m], r)),
         NEW k \in DOMAIN g.points
  PROVE  /\ g.points[k].safe \in Int /\ <<m, k>> \in Places(modules)
         /\ g.points[k].slot = r.slots[m][k]
         /\ g.input => At(modules, <<m, k>>).plane = "I"
<1> DEFINE b == modules[m].bindings
           points == GpioPoints(b, r.slots[m], r)
<1>1. g.points = points /\ g.input = ~(b[1].plane = "Q")
  BY DEF GpioPlan
<1>2. /\ DOMAIN points = DOMAIN b /\ points[k].slot = r.slots[m][k]
      /\ points[k].safe = IF b[k].plane = "Q" THEN r.safe[r.slots[m][k]] ELSE 0
  BY <1>1 DEF GpioPoints
<1>3. k \in DOMAIN b
  BY <1>1, <1>2
<1>4. <<m, k>> \in Places(modules) /\ At(modules, <<m, k>>) = b[k]
  BY <1>3 DEF Places, At
<1>5. points[k].safe \in Int
  <2>1. b[k].plane = "Q" => r.safe[r.slots[m][k]] \in Int
    <3>1. <<m, k>>[1] = m /\ <<m, k>>[2] = k
      OBVIOUS
    <3>2. QED
      BY <1>4, <3>1, Zenon DEF Resolved
  <2>2. QED
    BY <1>2, <2>1
<1>6. g.input => b[k].plane = "I"
  <2>1. BindingTyped(b[k])
    BY <1>3 DEF TypedModules, TypedBindings
  <2>2. b[k].plane = b[1].plane /\ b[k].plane # "M"
    BY <1>3, Zenon DEF GpioOk, GpioBindingOk
  <2>3. QED
    BY <1>1, <2>1, <2>2 DEF BindingTyped, Planes
<1>7. QED
  BY <1>1, <1>2, <1>4, <1>5, <1>6

(* A document of Maps is typed.                                            *)
LEMMA MapTyped ==
  ASSUME NEW x \in Maps
  PROVE  TypedModules(x.modules)
BY MapsAssumption DEF TypedModules, TypedBindings

(* Planning a map gives well-formed modules whose points are its bindings. *)
Formed(x, P, r, mods, lines) ==
  /\ Resolved(x.modules, r) /\ r.ok /\ P.inputs = r.inputs
  /\ ModulesOf(x, "modbus_tcp", mods) /\ ModulesOf(x, "gpio", lines)
  /\ Len(P.modbus) = Len(mods) /\ DOMAIN P.modbus = DOMAIN mods /\ DOMAIN P.gpio = DOMAIN lines
  /\ \A k \in DOMAIN mods :
       /\ ModuleWell(P.modbus[k])
       /\ PointsOf(P.modbus[k].points, x.modules[mods[k]].bindings, r.slots[mods[k]], r)
  /\ \A k \in DOMAIN lines :
       /\ GpioOk(x.modules[lines[k]])
       /\ P.gpio[k] = GpioPlan(x.modules[lines[k]],
                        GpioPoints(x.modules[lines[k]].bindings, r.slots[lines[k]], r))
PlanForm(x, P) ==
  \/ P.modbus = <<>> /\ P.gpio = <<>>
  \/ \E r, mods, lines : Formed(x, P, r, mods, lines)

(* That holds of every map the runtime may be started with: a refused map  *)
(* has no modules.                                                         *)
LEMMA PlanHasForm ==
  ASSUME NEW x \in Maps
  PROVE  PlanForm(x, PlanOf(x))
<1> DEFINE r == Resolve(x)
           mods == DriverModules(x, "modbus_tcp")
           lines == DriverModules(x, "gpio")
           P == PlanOf(x)
           pm(k) == LET of == x.modules[mods[k]]
                    IN ModbusPlan(of, ModbusPoints(of.bindings, r.slots[mods[k]], r))
           pg(k) == LET of == x.modules[lines[k]]
                    IN GpioPlan(of, GpioPoints(of.bindings, r.slots[lines[k]], r))
<1>1. TypedModules(x.modules) /\ Resolved(x.modules, r)
  BY MapTyped, ResolveFacts
<1>2. ModulesOf(x, "modbus_tcp", mods) /\ ModulesOf(x, "gpio", lines)
  BY <1>1, DriverList
<1>3. CASE ~MapOk(x, r)
  <2>1. P.modbus = <<>> /\ P.gpio = <<>>
    BY <1>3 DEF PlanOf
  <2>2. QED
    BY <2>1 DEF PlanForm
<1>4. CASE MapOk(x, r)
  <2>1. /\ P.modbus = [k \in DOMAIN mods |-> pm(k)] /\ P.gpio = [k \in DOMAIN lines |-> pg(k)]
        /\ P.inputs = r.inputs
    BY <1>4 DEF PlanOf
  <2>2. /\ r.ok
        /\ \A n \in DOMAIN x.modules :
             /\ x.modules[n].driver = "modbus_tcp" => ModbusOk(x.modules[n], r.slots[n], r)
             /\ x.modules[n].driver = "gpio" => GpioOk(x.modules[n])
    BY <1>4, Zenon DEF MapOk
  <2> HIDE DEF r, mods, lines, P
  <2>3. Len(mods) \in Nat /\ DOMAIN mods = 1..Len(mods)
    BY <1>2, Zenon DEF ModulesOf
  <2>4. Len(P.modbus) = Len(mods) /\ DOMAIN P.modbus = DOMAIN mods /\ DOMAIN P.gpio = DOMAIN lines
    <3> HIDE DEF pm, pg
    <3>1. QED
      BY <2>1, <2>3
  <2>5. ASSUME NEW k \in DOMAIN mods
        PROVE  /\ ModuleWell(P.modbus[k])
               /\ PointsOf(P.modbus[k].points, x.modules[mods[k]].bindings, r.slots[mods[k]], r)
    <3> DEFINE of == x.modules[mods[k]]
               slots == r.slots[mods[k]]
               p == ModbusPlan(of, ModbusPoints(of.bindings, slots, r))
    <3>1. mods[k] \in DOMAIN x.modules /\ of.driver = "modbus_tcp"
      BY <1>2, Zenon DEF ModulesOf
    <3>2. ModbusOk(of, slots, r) /\ TypedBindings(of.bindings)
      BY <1>1, <2>2, <3>1, Zenon DEF TypedModules
    <3> HIDE DEF of, slots
    <3>3. ModuleWell(p) /\ PointsOf(p.points, of.bindings, slots, r)
      BY <3>2, ModbusPlanWell
    <3> HIDE DEF p
    <3>4. P.modbus[k] = p
      BY <2>1 DEF p, of, slots
    <3>5. QED
      BY <3>3, <3>4 DEF of, slots
  <2>6. ASSUME NEW k \in DOMAIN lines
        PROVE  GpioOk(x.modules[lines[k]]) /\ P.gpio[k] = pg(k)
    <3>1. lines[k] \in DOMAIN x.modules /\ x.modules[lines[k]].driver = "gpio"
      BY <1>2, Zenon DEF ModulesOf
    <3>2. GpioOk(x.modules[lines[k]])
      BY <2>2, <3>1, Zenon
    <3>3. P.gpio[k] = pg(k)
      BY <2>1
    <3>4. QED
      BY <3>2, <3>3
  <2>7. Formed(x, P, r, mods, lines)
    BY <1>1, <1>2, <2>1, <2>2, <2>4, <2>5, <2>6, Zenon DEF Formed
  <2>a. PlanForm(x, P)
    BY <2>7, Zenon DEF PlanForm
  <2>8. QED
    BY <2>a DEF P
<1>5. QED
  BY <1>3, <1>4

(* The planned modules of every map are well formed.                       *)
LEMMA PlanModules ==
  ASSUME NEW x \in Maps, NEW m \in DOMAIN PlanOf(x).modbus
  PROVE  ModuleWell(PlanOf(x).modbus[m])
<1> DEFINE P == PlanOf(x)
<1>1. PlanForm(x, P)
  BY PlanHasForm
<1> HIDE DEF P
<1>2. CASE P.modbus = <<>>
  BY <1>2 DEF P
<1>3. CASE P.modbus # <<>>
  BY <1>1, <1>3, Zenon DEF PlanForm, Formed, P
<1>4. QED
  BY <1>2, <1>3

(* Every map is planned well.                                              *)
LEMMA PlansWell ==
  ASSUME NEW x \in Maps
  PROVE  WellPlanned(PlanOf(x))
<1> DEFINE P == PlanOf(x)
<1>1. PlanForm(x, P)
  BY PlanHasForm
<1>2. TypedModules(x.modules)
  BY MapTyped
<1> HIDE DEF P
<1>3. CASE P.modbus = <<>> /\ P.gpio = <<>>
  <2>1. WellPlanned(P)
    BY <1>3 DEF WellPlanned
  <2>2. QED
    BY <2>1 DEF P
<1>4. CASE ~(P.modbus = <<>> /\ P.gpio = <<>>)
  <2>f. PICK r, mods, lines : Formed(x, P, r, mods, lines)
    BY <1>1, <1>4, Zenon DEF PlanForm
  <2>0. /\ Resolved(x.modules, r) /\ r.ok /\ P.inputs = r.inputs
        /\ ModulesOf(x, "modbus_tcp", mods) /\ ModulesOf(x, "gpio", lines)
        /\ Len(P.modbus) = Len(mods) /\ DOMAIN P.modbus = DOMAIN mods /\ DOMAIN P.gpio = DOMAIN lines
        /\ \A k \in DOMAIN mods :
             /\ ModuleWell(P.modbus[k])
             /\ PointsOf(P.modbus[k].points, x.modules[mods[k]].bindings, r.slots[mods[k]], r)
        /\ \A k \in DOMAIN lines :
             /\ GpioOk(x.modules[lines[k]])
             /\ P.gpio[k] = GpioPlan(x.modules[lines[k]],
                              GpioPoints(x.modules[lines[k]].bindings, r.slots[lines[k]], r))
    BY <2>f, Zenon DEF Formed
  <2> DEFINE Slot(m, i) == P.modbus[m].points[i].slot
             Ins(m) == Positions(P.modbus[m].points, FALSE)
             of == x.modules
  <2>1. Len(P.modbus) \in Nat /\ DOMAIN P.modbus = 1..Len(P.modbus)
    BY <2>0, Zenon DEF ModulesOf
  <2>2. ASSUME NEW m \in DOMAIN P.modbus, NEW i \in Ins(m)
        PROVE  /\ <<mods[m], i>> \in Places(of) /\ At(of, <<mods[m], i>>).plane = "I"
               /\ Slot(m, i) = r.slots[mods[m]][i]
    <3> DEFINE points == P.modbus[m].points
               b == of[mods[m]].bindings
    <3>1. PointsOf(points, b, r.slots[mods[m]], r) /\ mods[m] \in DOMAIN of
      BY <2>0, Zenon DEF ModulesOf
    <3> HIDE DEF points, b
    <3>2. i \in DOMAIN points /\ points[i].output = FALSE
      BY DEF Positions, points
    <3>3. i \in DOMAIN b /\ b[i].plane = "I" /\ points[i].slot = r.slots[mods[m]][i]
      BY <3>1, <3>2 DEF PointsOf
    <3>4. QED
      BY <3>1, <3>3 DEF Places, At, b, points
  <2>3. ASSUME NEW p \in Places(of), NEW q \in Places(of), p # q,
               At(of, p).plane = "I", At(of, q).plane = "I"
        PROVE  r.slots[p[1]][p[2]] # r.slots[q[1]][q[2]]
    BY <2>0, <2>3, Zenon DEF Resolved
  <2>4. ASSUME NEW m \in DOMAIN P.modbus
        PROVE  /\ P.modbus[m].ins \in Nat
               /\ \A n \in 1..P.modbus[m].ins : \E i \in Ins(m) : P.modbus[m].points[i].pos = n
               /\ \A i \in DOMAIN P.modbus[m].points : P.modbus[m].points[i].output \in BOOLEAN
               /\ Len(P.modbus[m].reads) \in Nat
               /\ \A i \in Ins(m) : \E k \in 1..Len(P.modbus[m].reads) :
                    i \in Range(P.modbus[m].reads[k].members)
    <3> DEFINE p == P.modbus[m]
    <3>1. ModuleWell(p)
      BY <2>0, Zenon
    <3> HIDE DEF p
    <3>2. Exact(p.points, p.reads, Positions(p.points, FALSE))
      BY <3>1, RequestsOfModule DEF ModuleWell
    <3>3. Len(p.reads) \in Nat /\ \A i \in Positions(p.points, FALSE) :
            \E k \in 1..Len(p.reads) : i \in Range(p.reads[k].members)
      <4>1. Len(p.reads) \in Nat
        BY <3>2 DEF Exact
      <4>2. QED
        BY <3>2, <4>1, Zenon DEF Exact, OneGroup
    <3>4. \A i \in DOMAIN p.points : p.points[i].output \in BOOLEAN
      BY <3>1 DEF ModuleWell, Planned, Sound
    <3>5. p.ins \in Nat /\ \A n \in 1..p.ins : \E i \in Positions(p.points, FALSE) : p.points[i].pos = n
      BY <3>1, Zenon DEF ModuleWell
    <3>6. QED
      BY <3>3, <3>4, <3>5, Zenon DEF p
  <2>5. ASSUME NEW m \in DOMAIN P.modbus, NEW i \in Ins(m) PROVE Slot(m, i) \in 0..(P.inputs - 1)
    <3> DEFINE q == <<mods[m], i>>
    <3>1. q \in Places(of) /\ At(of, q).plane = "I" /\ q[1] = mods[m] /\ q[2] = i
      BY <2>2
    <3> HIDE DEF q
    <3>2. r.slots[q[1]][q[2]] \in 0..(r.inputs - 1)
      BY <2>0, <3>1, Zenon DEF Resolved
    <3>3. P.inputs = r.inputs
      BY <2>0, Zenon
    <3>4. Slot(m, i) = r.slots[mods[m]][i]
      BY <2>2, Zenon
    <3>5. QED
      BY <3>1, <3>2, <3>3, <3>4
  <2>6. ASSUME NEW m \in DOMAIN P.modbus, NEW o \in DOMAIN P.modbus, NEW i \in Ins(m), NEW j \in Ins(o),
               Slot(m, i) = Slot(o, j)
        PROVE  m = o /\ i = j
    <3> DEFINE p == <<mods[m], i>>
               q == <<mods[o], j>>
    <3>1. /\ p \in Places(of) /\ At(of, p).plane = "I" /\ p[1] = mods[m] /\ p[2] = i
          /\ q \in Places(of) /\ At(of, q).plane = "I" /\ q[1] = mods[o] /\ q[2] = j
          /\ Slot(m, i) = r.slots[mods[m]][i] /\ Slot(o, j) = r.slots[mods[o]][j]
      BY <2>2
    <3> HIDE DEF Slot
    <3>2. p = q
      <4> HIDE DEF p, q
      <4>1. r.slots[p[1]][p[2]] = r.slots[q[1]][q[2]]
        BY <2>6, <3>1
      <4>2. QED
        BY <2>3, <3>1, <4>1, Zenon
    <3>3. mods[m] = mods[o] /\ i = j
      BY <3>2
    <3>4. m = o
      BY <2>0, <3>3, Zenon DEF ModulesOf
    <3>5. QED
      BY <3>3, <3>4
  <2>7. ASSUME NEW g \in DOMAIN P.gpio, NEW k \in DOMAIN P.gpio[g].points
        PROVE  /\ P.gpio[g].points[k].safe \in Int /\ <<lines[g], k>> \in Places(of)
               /\ P.gpio[g].points[k].slot = r.slots[lines[g]][k]
               /\ P.gpio[g].input => At(of, <<lines[g], k>>).plane = "I"
    <3>1. lines[g] \in DOMAIN of /\ GpioOk(of[lines[g]])
      BY <2>0, Zenon DEF ModulesOf
    <3>2. P.gpio[g] = GpioPlan(of[lines[g]], GpioPoints(of[lines[g]].bindings, r.slots[lines[g]], r))
      BY <2>0, Zenon
    <3>3. QED
      BY <1>2, <2>0, <3>1, <3>2, GpioPlanWell
  <2>8. ASSUME NEW m \in DOMAIN P.modbus, NEW g \in DOMAIN P.gpio, NEW i \in Ins(m), P.gpio[g].input,
               NEW k \in DOMAIN P.gpio[g].points
        PROVE  P.gpio[g].points[k].slot # Slot(m, i)
    <3> DEFINE p == <<mods[m], i>>
               q == <<lines[g], k>>
    <3>1. /\ p \in Places(of) /\ At(of, p).plane = "I" /\ p[1] = mods[m] /\ p[2] = i
          /\ Slot(m, i) = r.slots[mods[m]][i]
      BY <2>2
    <3>2. /\ q \in Places(of) /\ At(of, q).plane = "I" /\ q[1] = lines[g] /\ q[2] = k
          /\ P.gpio[g].points[k].slot = r.slots[lines[g]][k]
      BY <2>7, <2>8
    <3>3. p # q
      <4>1. of[mods[m]].driver = "modbus_tcp" /\ of[lines[g]].driver = "gpio"
        BY <2>0, Zenon DEF ModulesOf
      <4>2. QED
        BY <4>1
    <3> HIDE DEF p, q, Slot
    <3>4. r.slots[p[1]][p[2]] # r.slots[q[1]][q[2]]
      BY <2>3, <3>1, <3>2, <3>3, Zenon
    <3>5. QED
      BY <3>1, <3>2, <3>4
  <2>9. WellPlanned(P)
    BY <2>1, <2>4, <2>5, <2>6, <2>7, <2>8, Zenon DEF WellPlanned
  <2>10. QED
    BY <2>9 DEF P
<1>5. QED
  BY <1>3, <1>4

-----------------------------------------------------------------------------
(* The plan of the map the runtime was started with does not change.       *)
PlanInv == map \in Maps /\ plan = PlanOf(map)

Kept == UNCHANGED <<map, plan>>

(* No step replaces the map or its plan.                                   *)
LEMMA PlanKept == [Next]_vars => Kept
BY DEF Next, Start, Worker, Poll, Publish, Connect, ReadGroup, ReadsDone, GateCheck, TakeMail,
       WriteStep, WritesDone, WorkerStops, Scan, ScanBegin, ScanSnap, ScanOverlay, ScanGpio,
       ScanLogic, PostMail, ApplyGpio, Joined, Stop, Surroundings, Tick, SetMode, FieldChanges,
       Inject, Change, vars, Kept

-----------------------------------------------------------------------------
(* The GPIO lines.                                                         *)
GpioFields == {"claimed", "bits", "q", "last", "rest"}

(* A module that rests has the bits it is claimed with.                    *)
LinesInv ==
  /\ DOMAIN gpio = GpioFields
  /\ DOMAIN gpio.bits = Gpios
  /\ gpio.rest \subseteq Gpios
  /\ \A g \in gpio.rest : ~plan.gpio[g].input => gpio.bits[g] = ClaimBits(g)

(* Claiming, applying and releasing the lines; the other steps leave them. *)
LEMMA LinesStep ==
  ASSUME LinesInv, [Next]_vars
  PROVE  LinesInv'
<1> USE DEF Gpios, ClaimBits, GpioFields
<1>0. plan' = plan
  BY PlanKept DEF Kept
<1>1. CASE UNCHANGED gpio
  BY <1>0, <1>1 DEF LinesInv
<1>2. ASSUME NEW n \in 0..2, Start(n) PROVE LinesInv'
  BY <1>0, <1>2 DEF Start, Requested, LinesInv
<1>3. ASSUME NEW fails \in SUBSET Gpios, ScanGpio(fails) PROVE LinesInv'
  BY <1>0, <1>3 DEF ScanGpio, LinesInv
<1>4. ASSUME NEW fails \in SUBSET Gpios, ApplyGpio(fails) PROVE LinesInv'
  BY <1>0, <1>4 DEF ApplyGpio, DesiredBits, LinesInv
<1>5. ASSUME NEW fails \in SUBSET Gpios, Joined(fails) PROVE LinesInv'
  BY <1>0, <1>5 DEF Joined, LinesInv
<1>6. CASE Worker
  BY <1>1, <1>6 DEF Worker, Poll, Publish, Connect, ReadGroup, ReadsDone, GateCheck, TakeMail,
       WriteStep, WritesDone, WorkerStops
<1>7. CASE ScanBegin \/ ScanSnap \/ ScanOverlay \/ PostMail \/ Stop \/ Surroundings
           \/ \E v \in Programmed, n \in Modes : ScanLogic(v, n)
  BY <1>1, <1>7 DEF ScanBegin, ScanSnap, ScanOverlay, ScanLogic, PostMail, Stop, Surroundings,
       Tick, SetMode, FieldChanges, Inject, Change
<1>8. CASE UNCHANGED vars
  BY <1>1, <1>8 DEF vars
<1>9. QED
  BY <1>2, <1>3, <1>4, <1>5, <1>6, <1>7, <1>8 DEF Next, Scan

(* The bits a module is claimed with energise the bound lines whose safe   *)
(* state is 1, open drain or push-pull.                                    *)
LEMMA ClaimedIsSafe ==
  ASSUME PlanInv, NEW g \in Gpios, ~plan.gpio[g].input, gpio.bits[g] = ClaimBits(g),
         NEW n \in DOMAIN gpio.bits[g]
  PROVE  Energised(g, n) <=> (SafeBits(plan.gpio[g])[n] = 1)
<1> DEFINE p == plan.gpio[g]
           safe == SafeBits(p)
<1>1. \A k \in DOMAIN p.points : p.points[k].safe \in Int
  BY PlansWell, Zenon DEF PlanInv, Gpios, WellPlanned
<1>2. DOMAIN safe = 0..(p.lines - 1)
  BY DEF SafeBits
<1>3. n \in DOMAIN safe /\ gpio.bits[g][n] = IF p.openDrain THEN 1 - safe[n] ELSE safe[n]
  BY DEF ClaimBits, KernelOutputBits
<1>4. safe[n] \in Int
  <2>1. safe[n] = IF n \in Bound(p) THEN p.points[PointAt(p, n)].safe ELSE 0
    BY <1>2, <1>3 DEF SafeBits
  <2>2. n \in Bound(p) => PointAt(p, n) \in DOMAIN p.points
    BY DEF Bound, PointAt
  <2>3. QED
    BY <1>1, <2>1, <2>2
<1> HIDE DEF safe, p
<1>5. Energised(g, n) <=> gpio.bits[g][n] = IF p.openDrain THEN 0 ELSE 1
  BY DEF Energised, p
<1>6. Energised(g, n) <=> safe[n] = 1
  BY <1>3, <1>4, <1>5
<1>7. QED
  BY <1>6 DEF safe, p

(* An output module last written for a safe image, in SIM, at claim or at  *)
(* release holds every bound line at its safe_state and the others off,    *)
(* whichever ioctls failed before, for every map and any number of them.   *)
THEOREM LinesAreSafe == Spec => []LinesRestSafe
<1>1. Init => PlanInv /\ LinesInv
  <2>1. ASSUME Init PROVE PlanInv /\ LinesInv
    <3>1. /\ gpio.rest = {} /\ DOMAIN gpio.bits = Gpios
          /\ DOMAIN gpio = GpioFields
      BY <2>1 DEF Init, GpioFields
    <3>2. QED
      BY <2>1, <3>1 DEF Init, PlanInv, LinesInv
  <2>2. QED
    BY <2>1
<1>2. PlanInv /\ LinesInv /\ [Next]_vars => (PlanInv /\ LinesInv)'
  BY PlanKept, LinesStep DEF PlanInv, Kept
<1>3. PlanInv /\ LinesInv => LinesRestSafe
  BY ClaimedIsSafe DEF LinesInv, LinesRestSafe
<1>4. QED
  BY <1>1, <1>2, <1>3, PTL DEF Spec

-----------------------------------------------------------------------------
(* The inputs of the Modbus modules.                                       *)
WorkerFields == {"pc", "m", "k", "next", "mail", "force", "inSim", "stop", "reg",
                 "last", "conn", "tid"}
ShareFields  == {"q", "age", "vals", "vq", "armed", "safe", "mail", "inSim"}
DeviceFields == {"regs", "wire", "seen"}
ScanFields   == {"pc", "m", "snap", "out"}
InputSlots   == 0..(plan.inputs - 1)

(* A vector of the input values of a module with plan p.                   *)
Vector(v, p) == v = [n \in 1..p.ins |-> v[n]]

WorkerForm ==
  /\ DOMAIN worker = WorkerFields
  /\ DOMAIN worker.last = Mods /\ DOMAIN worker.conn = Mods
  /\ worker.tid \in [Mods -> 0..(TidBase - 1)]
  /\ \A m \in Mods : Vector(worker.last[m], plan.modbus[m])

DeviceForm ==
  /\ DOMAIN device = Mods
  /\ \A m \in Mods : DOMAIN device[m] = DeviceFields /\ Vector(device[m].seen, plan.modbus[m])

ShareForm ==
  /\ DOMAIN share = Mods /\ DOMAIN polled = Mods
  /\ \A m \in Mods : DOMAIN share[m] = ShareFields /\ Vector(share[m].vals, plan.modbus[m])

ScanForm ==
  /\ DOMAIN scan = ScanFields /\ DOMAIN image = {"values", "quality"}
  /\ DOMAIN image.values = InputSlots /\ DOMAIN image.quality = InputSlots

(* On a connection in use at most one answer is unread, an old one.        *)
Quiet(wire, tid) ==
  \E A : wire \in Seq(A) /\ Len(wire) <= 1 /\ \A n \in 1..Len(wire) : wire[n].tid # tid

WireInv == \A m \in Mods : worker.conn[m] => Quiet(device[m].wire, worker.tid[m])

(* The requests before the k-th of a poll have stored position n.          *)
Stored(p, n, k) ==
  \E j \in 1..Len(p.reads) :
    /\ j < k
    /\ \E i \in Range(p.reads[j].members) : p.points[i].pos = n

Agree(p, k, last, seen) == \A n \in 1..p.ins : Stored(p, n, k) => last[n] = seen[n]

WorkInv ==
  /\ worker.pc \in {"none", "idle", "publish", "connect", "read", "gate", "mail", "write", "exited"}
  /\ worker.pc \in {"publish", "connect", "read", "gate", "mail", "write"} => worker.m \in Mods
  /\ worker.pc = "publish" => worker.next \in {"connect", "gate", "idle"}
  /\ worker.pc = "connect" \/ (worker.pc = "publish" /\ worker.next = "connect") => worker.k = 1
  /\ worker.pc = "publish" /\ share[worker.m].q = "Good"
       => worker.last[worker.m] \in polled[worker.m]
  /\ worker.pc = "read" =>
       /\ worker.conn[worker.m] /\ worker.k \in Nat \ {0}
       /\ Agree(plan.modbus[worker.m], worker.k, worker.last[worker.m], device[worker.m].seen)

(* What is published Good is what a poll found.                            *)
ShareInv == \A m \in Mods : share[m].vq = "Good" => share[m].vals \in polled[m]

Ins(m) == Positions(plan.modbus[m].points, FALSE)
SlotOf(m, i) == plan.modbus[m].points[i].slot

(* The values of module m in the image, and that they are of one poll.     *)
Sampled(m) ==
  [n \in 1..plan.modbus[m].ins |->
     image.values[SlotOf(m, CHOOSE i \in Ins(m) : plan.modbus[m].points[i].pos = n)]]
Whole(m) ==
  Ins(m) # {} /\ (\A i \in Ins(m) : image.quality[SlotOf(m, i)] = "Good")
    => Sampled(m) \in polled[m]

ScanInv ==
  /\ scan.pc \in {"snap", "overlay"} =>
       /\ mode # "SIM" /\ scan.m \in Mods
       /\ \A m \in Mods : m < scan.m => Whole(m)
  /\ scan.pc = "overlay" =>
       /\ Vector(scan.snap.vals, plan.modbus[scan.m])
       /\ scan.snap.q = "Good" => scan.snap.vals \in polled[scan.m]
  /\ scan.pc \in {"gpio", "logic"} /\ mode # "SIM" => \A m \in Mods : Whole(m)

FormInv == PlanInv /\ WorkerForm /\ DeviceForm /\ ShareForm /\ ScanForm
FieldInv == FormInv /\ WireInv /\ WorkInv /\ ShareInv /\ ScanInv

(* What planning establishes, in the terms of the invariant.               *)
LEMMA PlanFacts ==
  ASSUME PlanInv
  PROVE  /\ Mods = 1..Len(plan.modbus) /\ Len(plan.modbus) \in Nat
         /\ TidBase \in Nat \ {0, 1}
         /\ \A m \in Mods :
              /\ plan.modbus[m].ins \in Nat
              /\ \A n \in 1..plan.modbus[m].ins : \E i \in Ins(m) : plan.modbus[m].points[i].pos = n
              /\ \A i \in DOMAIN plan.modbus[m].points : plan.modbus[m].points[i].output \in BOOLEAN
              /\ Len(plan.modbus[m].reads) \in Nat
              /\ \A i \in Ins(m) :
                   /\ SlotOf(m, i) \in InputSlots
                   /\ \E k \in 1..Len(plan.modbus[m].reads) :
                        i \in Range(plan.modbus[m].reads[k].members)
         /\ \A m, o \in Mods : \A i \in Ins(m), j \in Ins(o) :
              SlotOf(m, i) = SlotOf(o, j) => m = o /\ i = j
         /\ \A m \in Mods, g \in Gpios : \A i \in Ins(m) :
              plan.gpio[g].input =>
                \A k \in DOMAIN plan.gpio[g].points : plan.gpio[g].points[k].slot # SlotOf(m, i)
<1>0. WellPlanned(plan) /\ TidBase \in Nat \ {0, 1}
  BY PlansWell, MapsAssumption DEF PlanInv
<1> USE <1>0 DEF WellPlanned, Mods, Gpios, Ins, SlotOf, InputSlots
<1>1. Mods = 1..Len(plan.modbus) /\ Len(plan.modbus) \in Nat /\ TidBase \in Nat \ {0, 1}
  OBVIOUS
<1>2. ASSUME NEW m \in Mods
      PROVE  /\ plan.modbus[m].ins \in Nat
             /\ \A n \in 1..plan.modbus[m].ins : \E i \in Ins(m) : plan.modbus[m].points[i].pos = n
             /\ \A i \in DOMAIN plan.modbus[m].points : plan.modbus[m].points[i].output \in BOOLEAN
             /\ Len(plan.modbus[m].reads) \in Nat
             /\ \A i \in Ins(m) :
                  /\ SlotOf(m, i) \in InputSlots
                  /\ \E k \in 1..Len(plan.modbus[m].reads) :
                       i \in Range(plan.modbus[m].reads[k].members)
  OBVIOUS
<1>3. \A m, o \in Mods : \A i \in Ins(m), j \in Ins(o) :
        SlotOf(m, i) = SlotOf(o, j) => m = o /\ i = j
  BY Zenon
<1>4. \A m \in Mods, g \in Gpios : \A i \in Ins(m) :
        plan.gpio[g].input =>
          \A k \in DOMAIN plan.gpio[g].points : plan.gpio[g].points[k].slot # SlotOf(m, i)
  BY Zenon
<1> HIDE DEF Mods, Ins, Gpios, SlotOf, InputSlots
<1>5. QED
  BY <1>1, <1>2, <1>3, <1>4, Zenon

-----------------------------------------------------------------------------
(* The wire: on a quiet connection only the answer to this request is      *)
(* accepted, and what it leaves unread is a copy of it.                    *)
LEMMA AcceptedAnswer ==
  ASSUME NEW wire, NEW tid, Quiet(wire, tid), NEW o \in Outcomes, NEW fc, NEW data,
         NEW r, r = Accepted(wire \o Answers(o, [tid |-> tid, fc |-> fc, data |-> data]), tid, fc),
         r.ok
  PROVE  /\ Executed(o)
         /\ r.data = data
         /\ \E A : r.rest \in Seq(A) /\ Len(r.rest) <= 1 /\ \A n \in 1..Len(r.rest) : r.rest[n].tid = tid
<1> DEFINE adu == [tid |-> tid, fc |-> fc, data |-> data]
           ans == Answers(o, adu)
           w == wire \o ans
<1>0. adu.tid = tid /\ adu.fc = fc /\ adu.data = data
  OBVIOUS
<1>1. PICK A : wire \in Seq(A) /\ Len(wire) <= 1 /\ \A n \in 1..Len(wire) : wire[n].tid # tid
  BY DEF Quiet
<1> DEFINE B == A \cup {adu}
<1> HIDE DEF adu, ans
<1>a. adu \in B
  OBVIOUS
<1>2. /\ ans \in Seq(B) /\ Len(ans) <= 2 /\ \A n \in 1..Len(ans) : ans[n] = adu
      /\ Len(ans) > 0 => Executed(o)
  <2>1. CASE o = "ok"
    <3>1. ans = <<adu>>
      BY <2>1 DEF Answers, ans
    <3>2. QED
      BY <1>a, <2>1, <3>1 DEF Executed
  <2>2. CASE o = "twice"
    <3>1. ans = <<adu, adu>>
      BY <2>2 DEF Answers, ans
    <3>2. QED
      BY <1>a, <2>2, <3>1 DEF Executed
  <2>3. CASE o \in {"lost request", "lost answer"}
    <3>1. ans = <<>>
      BY <2>3 DEF Answers, ans
    <3>2. QED
      BY <3>1
  <2>4. QED
    BY <2>1, <2>2, <2>3 DEF Outcomes
<1>3. wire \in Seq(B)
  BY <1>1
<1> HIDE DEF B
<1>4. /\ w \in Seq(B) /\ Len(w) = Len(wire) + Len(ans)
      /\ \A n \in 1..Len(wire) : w[n] = wire[n]
      /\ \A n \in (Len(wire) + 1)..Len(w) : w[n] = adu
  BY <1>1, <1>2, <1>3
<1> HIDE DEF w
<1> DEFINE n == Len(wire) + 1
<1>5. (IF Len(w) > 0 /\ w[1].tid # tid THEN 2 ELSE 1) = n
  BY <1>0, <1>1, <1>2, <1>3, <1>4
<1>6. r = Accepted(w, tid, fc)
  BY DEF w, ans, adu
<1> DEFINE ok == n <= Len(w) /\ w[n].tid = tid /\ w[n].fc = fc
<1>7. r = [ok |-> ok, data |-> IF ok THEN w[n].data ELSE <<>>,
           rest |-> IF ok THEN SubSeq(w, n + 1, Len(w)) ELSE w]
  BY <1>5, <1>6 DEF Accepted
<1> HIDE DEF ok, n
<1>7a. r.ok = ok
  BY <1>7
<1>7b. ok
  BY <1>7a, Zenon
<1>8. ok /\ r.data = w[n].data /\ r.rest = SubSeq(w, n + 1, Len(w))
  BY <1>7, <1>7b
<1> USE DEF n, ok
<1>9. w[n] = adu /\ Executed(o) /\ Len(w) \in Nat /\ n \in Nat /\ n \in 1..Len(w) /\ Len(w) <= n + 1
  BY <1>1, <1>2, <1>3, <1>4, <1>8
<1>10. /\ r.rest \in Seq(B) /\ Len(r.rest) <= 1
       /\ \A k \in 1..Len(r.rest) : r.rest[k].tid = tid
  BY <1>0, <1>4, <1>8, <1>9
<1>11. QED
  BY <1>0, <1>8, <1>9, <1>10

(* The next transaction id is another one.                                 *)
LEMMA NextTidDiffers ==
  ASSUME NEW t \in 0..(TidBase - 1), TidBase \in Nat \ {0, 1}
  PROVE  (t + 1) % TidBase \in 0..(TidBase - 1) /\ (t + 1) % TidBase # t
<1>1. CASE t + 1 < TidBase
  <2>1. (t + 1) % TidBase = t + 1
    BY <1>1
  <2>2. QED
    BY <1>1, <2>1
<1>2. CASE t + 1 = TidBase
  <2>1. (t + 1) % TidBase = 0
    BY <1>2
  <2>2. QED
    BY <1>2, <2>1
<1>3. QED
  BY <1>1, <1>2

(* Vectors are equal when their components are.                            *)
LEMMA VectorsEqual ==
  ASSUME NEW p, NEW v, NEW w, Vector(v, p), Vector(w, p), \A n \in 1..p.ins : v[n] = w[n]
  PROVE  v = w
<1>1. [n \in 1..p.ins |-> v[n]] = [n \in 1..p.ins |-> w[n]]
  OBVIOUS
<1>2. QED
  BY <1>1, Zenon DEF Vector

(* Both sides of a request store the same answer.                          *)
LEMMA StoreGroupAgrees ==
  ASSUME NEW p, NEW k \in 1..Len(p.reads), Len(p.reads) \in Nat, NEW last, NEW seen, NEW data,
         Vector(last, p), Vector(seen, p), Agree(p, k, last, seen)
  PROVE  LET l == StoreGroup(last, p, p.reads[k], data)
             s == StoreGroup(seen, p, p.reads[k], data)
         IN Vector(l, p) /\ Vector(s, p) /\ Agree(p, k + 1, l, s)
<1> DEFINE l == StoreGroup(last, p, p.reads[k], data)
           s == StoreGroup(seen, p, p.reads[k], data)
           at(n) == {i \in Range(p.reads[k].members) : p.points[i].pos = n}
           value(i) ==
             IF IsBitTable(p.points[i].table)
             THEN DecodeNumber(data[p.points[i].pdu - p.reads[k].start + 1] % 2, p.points[i])
             ELSE DecodeRegs(SubSeq(data, p.points[i].pdu - p.reads[k].start + 1,
                                    p.points[i].pdu - p.reads[k].start + p.points[i].words),
                             p.points[i])
<1>1. DOMAIN last = 1..p.ins /\ DOMAIN seen = 1..p.ins
  BY DEF Vector
<1>0. /\ l = [n \in DOMAIN last |-> IF at(n) = {} THEN last[n] ELSE value(CHOOSE i \in at(n) : TRUE)]
      /\ s = [n \in DOMAIN seen |-> IF at(n) = {} THEN seen[n] ELSE value(CHOOSE i \in at(n) : TRUE)]
  BY Zenon DEF StoreGroup
<1> HIDE DEF value, at, l, s
<1>2. Vector(l, p) /\ Vector(s, p)
  BY <1>0, <1>1 DEF Vector
<1>3. ASSUME NEW n \in 1..p.ins, at(n) = {} PROVE l[n] = last[n] /\ s[n] = seen[n]
  BY <1>0, <1>1, <1>3
<1>4. ASSUME NEW n \in 1..p.ins, at(n) # {} PROVE l[n] = s[n]
  BY <1>0, <1>1, <1>4
<1>5. ASSUME NEW n \in 1..p.ins, Stored(p, n, k + 1), at(n) = {} PROVE Stored(p, n, k)
  <2>1. PICK j \in 1..Len(p.reads) :
          j < k + 1 /\ \E i \in Range(p.reads[j].members) : p.points[i].pos = n
    BY <1>5 DEF Stored
  <2>2. j # k
    BY <1>5, <2>1 DEF at
  <2>3. j < k
    BY <2>1, <2>2
  <2>4. QED
    BY <2>1, <2>3 DEF Stored
<1>6. Agree(p, k + 1, l, s)
  BY <1>3, <1>4, <1>5 DEF Agree
<1>7. QED
  BY <1>2, <1>6 DEF l, s

-----------------------------------------------------------------------------
(* The part of the invariant the worker and the scan share.                *)
Ready == FieldInv /\ Kept

(* The scan thread sees of the worker only that more polls complete.       *)
LEMMA ScanFrame ==
  ASSUME Ready, UNCHANGED <<scan, image, mode>>, DOMAIN polled' = Mods,
         \A m \in Mods : polled[m] \subseteq polled'[m]
  PROVE  ScanForm' /\ ScanInv'
<1> USE DEF Ready, Kept, FieldInv
<1>0. Mods' = Mods /\ InputSlots' = InputSlots
  BY DEF Mods, InputSlots
<1>1. ScanForm'
  BY <1>0 DEF FormInv, ScanForm
<1>2. \A m \in Mods : Whole(m) => Whole(m)'
  <2>1. ASSUME NEW m \in Mods PROVE Ins(m)' = Ins(m) /\ Sampled(m)' = Sampled(m)
    BY DEF Ins, Sampled, SlotOf
  <2>2. QED
    BY <2>1 DEF Whole, SlotOf
<1>4. ScanInv'
  BY <1>0, <1>2 DEF ScanInv
<1>5. QED
  BY <1>1, <1>4

(* The parts that the worker's steps can disturb.                          *)
WorkerPart == WorkerForm /\ DeviceForm /\ ShareForm /\ WireInv /\ WorkInv /\ ShareInv

(* A failed connect or transaction leaves the module Bad and disconnected. *)
LEMMA FailKeeps ==
  ASSUME Ready, NEW m \in Mods, m = worker.m, NEW tid \in 0..(TidBase - 1), FailPoll(m, tid),
         polled' = polled, DeviceForm',
         \A o \in Mods : o # m => device'[o].wire = device[o].wire
  PROVE  WorkerPart'
<1> USE DEF Ready, Kept, FieldInv, FormInv
<1>0. Mods' = Mods /\ \A o : plan'.modbus[o] = plan.modbus[o]
  BY DEF Mods
<1>1. /\ DOMAIN worker' = WorkerFields
      /\ worker'.pc = "publish" /\ worker'.next = "idle" /\ worker'.m = m
      /\ worker'.last = worker.last
      /\ worker'.conn = [worker.conn EXCEPT ![m] = FALSE]
      /\ worker'.tid = [worker.tid EXCEPT ![m] = tid]
  BY DEF FailPoll, WorkerForm, WorkerFields
<1>2. /\ DOMAIN share' = Mods
      /\ \A o \in Mods : /\ DOMAIN share'[o] = ShareFields
                         /\ share'[o].vals = share[o].vals /\ share'[o].vq = share[o].vq
      /\ share'[m].q = "Bad"
  BY DEF FailPoll, Marked, ShareForm, ShareFields
<1>3. WorkerForm'
  BY <1>0, <1>1 DEF WorkerForm
<1>4. ShareForm'
  BY <1>0, <1>2 DEF ShareForm
<1>5. WireInv'
  BY <1>0, <1>1 DEF WireInv, WorkerForm
<1>6. WorkInv'
  BY <1>0, <1>1, <1>2 DEF WorkInv
<1>7. ShareInv'
  BY <1>0, <1>2 DEF ShareInv
<1>8. QED
  BY <1>3, <1>4, <1>5, <1>6, <1>7 DEF WorkerPart

(* Beginning a poll.                                                       *)
LEMMA PollKeeps ==
  ASSUME Ready, NEW m \in Mods, Poll(m)
  PROVE  WorkerPart'
<1> USE DEF Ready, Kept, FieldInv, FormInv
<1>0. Mods' = Mods /\ (\A o : plan'.modbus[o] = plan.modbus[o]) /\ device' = device /\ polled' = polled
  BY DEF Mods, Poll
<1>1. /\ DOMAIN worker' = WorkerFields
      /\ worker'.pc = (IF CommsStale(m) THEN "publish" ELSE "connect") /\ worker'.next = "connect"
      /\ worker'.m = m /\ worker'.k = 1
      /\ worker'.last = worker.last /\ worker'.conn = worker.conn /\ worker'.tid = worker.tid
  BY DEF Poll, WorkerForm, WorkerFields
<1>2. /\ DOMAIN share' = Mods
      /\ \A o \in Mods : /\ DOMAIN share'[o] = ShareFields
                         /\ share'[o].vals = share[o].vals /\ share'[o].vq = share[o].vq
      /\ CommsStale(m) => share'[m].q = "Bad"
  BY DEF Poll, Marked, ShareForm, ShareFields
<1>3. WorkerForm' /\ DeviceForm'
  BY <1>0, <1>1 DEF WorkerForm, DeviceForm
<1>4. ShareForm'
  BY <1>0, <1>2 DEF ShareForm
<1>5. WireInv'
  BY <1>0, <1>1 DEF WireInv
<1>6. WorkInv'
  BY <1>0, <1>1, <1>2 DEF WorkInv
<1>7. ShareInv'
  BY <1>0, <1>2 DEF ShareInv
<1>8. QED
  BY <1>3, <1>4, <1>5, <1>6, <1>7 DEF WorkerPart

(* Publishing: the front takes the inputs with the status they have.       *)
LEMMA PublishKeeps ==
  ASSUME Ready, Publish
  PROVE  WorkerPart'
<1> USE DEF Ready, Kept, FieldInv, FormInv
<1> DEFINE m == worker.m
<1>0. Mods' = Mods /\ (\A o : plan'.modbus[o] = plan.modbus[o]) /\ device' = device /\ polled' = polled
  BY DEF Mods, Publish
<1>1. m \in Mods /\ worker.next \in {"connect", "gate", "idle"}
  BY DEF Publish, WorkInv
<1>2. /\ DOMAIN worker' = WorkerFields /\ worker'.pc = worker.next
      /\ worker'.m = m /\ worker'.k = worker.k
      /\ worker'.last = worker.last /\ worker'.conn = worker.conn /\ worker'.tid = worker.tid
  BY DEF Publish, WorkerGoto, WorkerForm, WorkerFields
<1>3. share' = [share EXCEPT ![m] = [share[m] EXCEPT !.vals = worker.last[m], !.vq = share[m].q]]
  BY <1>1 DEF Publish, ShareForm, ShareFields
<1>4. /\ DOMAIN share' = Mods
      /\ \A o \in Mods : DOMAIN share'[o] = ShareFields
      /\ \A o \in Mods : o # m => share'[o] = share[o]
      /\ share'[m].vals = worker.last[m] /\ share'[m].vq = share[m].q
  BY <1>1, <1>3 DEF ShareForm, ShareFields
<1>5. WorkerForm' /\ DeviceForm'
  BY <1>0, <1>2 DEF WorkerForm, DeviceForm
<1>6. ShareForm'
  BY <1>0, <1>4 DEF ShareForm, WorkerForm
<1>7. WireInv'
  BY <1>0, <1>2 DEF WireInv
<1>8. WorkInv'
  BY <1>0, <1>1, <1>2 DEF WorkInv, Publish
<1>9. ShareInv'
  BY <1>0, <1>1, <1>4 DEF ShareInv, WorkInv, Publish
<1>10. QED
  BY <1>5, <1>6, <1>7, <1>8, <1>9 DEF WorkerPart

(* Connecting: a new connection has nothing unread, and no request of the  *)
(* poll has been answered.                                                 *)
LEMMA ConnectKeeps ==
  ASSUME Ready, NEW ok \in BOOLEAN, Connect(ok)
  PROVE  WorkerPart'
<1> USE DEF Ready, Kept, FieldInv, FormInv
<1> DEFINE m == worker.m
<1>0. Mods' = Mods /\ (\A o : plan'.modbus[o] = plan.modbus[o]) /\ polled' = polled
  BY DEF Mods, Connect
<1>1. m \in Mods /\ worker.k = 1
  BY DEF Connect, WorkInv
<1>2. CASE ~ok
  <2>1. FailPoll(m, worker.tid[m]) /\ device' = device
    BY <1>2 DEF Connect
  <2>2. worker.tid[m] \in 0..(TidBase - 1)
    BY <1>1 DEF WorkerForm
  <2>3. DeviceForm'
    BY <1>0, <2>1 DEF DeviceForm
  <2>4. QED
    BY <1>0, <1>1, <2>1, <2>2, <2>3, FailKeeps
<1>3. CASE ok
  <2>1. /\ worker' = [worker EXCEPT !.pc = "read", !.conn[m] = TRUE] /\ share' = share
        /\ device' = IF worker.conn[m] THEN device ELSE [device EXCEPT ![m].wire = <<>>]
    BY <1>3 DEF Connect
  <2>2. /\ DOMAIN worker' = WorkerFields /\ worker'.pc = "read" /\ worker'.m = m /\ worker'.k = 1
        /\ worker'.last = worker.last /\ worker'.tid = worker.tid
        /\ worker'.conn = [worker.conn EXCEPT ![m] = TRUE]
    BY <1>1, <2>1 DEF WorkerForm, WorkerFields
  <2>3. /\ DOMAIN device' = Mods
        /\ \A o \in Mods : DOMAIN device'[o] = DeviceFields /\ device'[o].seen = device[o].seen
        /\ \A o \in Mods : o # m => device'[o].wire = device[o].wire
        /\ device'[m].wire = IF worker.conn[m] THEN device[m].wire ELSE <<>>
    BY <1>1, <2>1 DEF DeviceForm, DeviceFields
  <2>4. WorkerForm' /\ ShareForm' /\ DeviceForm'
    BY <1>0, <2>1, <2>2, <2>3 DEF WorkerForm, ShareForm, DeviceForm
  <2>5. WireInv'
    <3>1. \A t : Quiet(<<>>, t)
      <4>1. <<>> \in Seq({}) /\ Len(<<>>) = 0
        OBVIOUS
      <4>2. QED
        BY <4>1 DEF Quiet
    <3>2. QED
      BY <1>0, <1>1, <2>2, <2>3, <3>1 DEF WireInv, WorkerForm
  <2>6. \A p, n : ~Stored(p, n, 1)
    BY DEF Stored
  <2>7. WorkInv'
    BY <1>0, <1>1, <2>2, <2>3, <2>6 DEF WorkInv, Agree, WorkerForm
  <2>8. ShareInv'
    BY <1>0, <2>1 DEF ShareInv
  <2>9. QED
    BY <2>4, <2>5, <2>7, <2>8 DEF WorkerPart
<1>4. QED
  BY <1>2, <1>3

(* A transaction that succeeds keeps the wire quiet for the next one.      *)
LEMMA QuietKept ==
  ASSUME Ready, NEW m \in Mods, NEW o \in Outcomes, NEW fc, NEW data, worker.conn[m],
         Transact(m, o, fc, data).ok
  PROVE  /\ Executed(o) /\ Transact(m, o, fc, data).data = data
         /\ Quiet(Transact(m, o, fc, data).rest, NextTid(m))
<1> USE DEF Ready, FieldInv, FormInv
<1>1. Quiet(device[m].wire, worker.tid[m])
  BY DEF WireInv
<1> DEFINE r == Transact(m, o, fc, data)
<1>2. r = Accepted(device[m].wire \o Answers(o, [tid |-> worker.tid[m], fc |-> fc, data |-> data]),
                   worker.tid[m], fc)
  BY DEF Transact
<1>3. r.ok
  OBVIOUS
<1> HIDE DEF r
<1>4. /\ Executed(o) /\ r.data = data
      /\ \E A : /\ r.rest \in Seq(A) /\ Len(r.rest) <= 1
                /\ \A n \in 1..Len(r.rest) : r.rest[n].tid = worker.tid[m]
  BY <1>1, <1>2, <1>3, AcceptedAnswer
<1>5. NextTid(m) # worker.tid[m]
  BY PlanFacts, NextTidDiffers DEF NextTid, WorkerForm
<1>6. Quiet(r.rest, NextTid(m))
  BY <1>4, <1>5 DEF Quiet
<1>7. QED
  BY <1>4, <1>6 DEF r

(* One read request: answered, both sides store the answer; otherwise the  *)
(* poll fails.                                                             *)
LEMMA ReadGroupKeeps ==
  ASSUME Ready, NEW o \in Outcomes, ReadGroup(o)
  PROVE  WorkerPart'
<1> USE DEF Ready, Kept, FieldInv, FormInv
<1> DEFINE m == worker.m
           k == worker.k
           p == plan.modbus[m]
           group == p.reads[k]
           table == p.points[group.members[1]].table
           data == Words(device[m].regs, table, group.start, group.qty)
           answer == Transact(m, o, ReadFc(table), data)
           seen == IF Executed(o) THEN StoreGroup(device[m].seen, p, group, data) ELSE device[m].seen
           last == StoreGroup(worker.last[m], p, group, answer.data)
<1>0. Mods' = Mods /\ (\A x : plan'.modbus[x] = plan.modbus[x]) /\ polled' = polled
  BY DEF Mods, ReadGroup
<1>1. /\ m \in Mods /\ worker.conn[m] /\ k \in Nat \ {0} /\ k <= Len(p.reads)
      /\ Agree(p, k, worker.last[m], device[m].seen)
      /\ worker.pc = "read"
  BY DEF ReadGroup, WorkInv
<1>2. /\ answer.ok => worker' = [worker EXCEPT !.k = k + 1, !.tid[m] = NextTid(m), !.last[m] = last]
      /\ answer.ok => share' = share
      /\ ~answer.ok => FailPoll(m, NextTid(m))
  BY <1>1, Zenon DEF ReadGroup
<1>3. device' = [device EXCEPT ![m] = [device[m] EXCEPT !.wire = answer.rest, !.seen = seen]]
  BY <1>1 DEF ReadGroup, DeviceForm, DeviceFields
<1>4. Len(p.reads) \in Nat /\ k \in 1..Len(p.reads)
  BY <1>1, PlanFacts
<1>5. NextTid(m) \in 0..(TidBase - 1)
  BY <1>1, PlanFacts, NextTidDiffers DEF NextTid, WorkerForm
<1>5a. Vector(worker.last[m], p) /\ Vector(device[m].seen, p)
  BY <1>1 DEF WorkerForm, DeviceForm
<1>6. /\ Vector(StoreGroup(worker.last[m], p, group, data), p)
      /\ Vector(StoreGroup(device[m].seen, p, group, data), p)
      /\ Agree(p, k + 1, StoreGroup(worker.last[m], p, group, data),
                         StoreGroup(device[m].seen, p, group, data))
  <2> HIDE DEF Ready, p, data
  <2>1. \A q, l, s :
          /\ Len(q.reads) \in Nat /\ k \in 1..Len(q.reads)
          /\ Vector(l, q) /\ Vector(s, q) /\ Agree(q, k, l, s)
          => /\ Vector(StoreGroup(l, q, q.reads[k], data), q)
             /\ Vector(StoreGroup(s, q, q.reads[k], data), q)
             /\ Agree(q, k + 1, StoreGroup(l, q, q.reads[k], data), StoreGroup(s, q, q.reads[k], data))
    BY StoreGroupAgrees
  <2>2. QED
    BY <1>1, <1>4, <1>5a, <2>1
<1>7. Vector(seen, p)
  BY <1>1, <1>6 DEF DeviceForm
<1>8. answer.ok => /\ Executed(o) /\ answer.data = data
                   /\ Quiet(answer.rest, NextTid(m))
  BY <1>1, QuietKept
<1>9. answer.ok => Vector(last, p) /\ Agree(p, k + 1, last, seen)
  BY <1>6, <1>8
<1> HIDE DEF group, table, data, answer, seen, last
<1>10. /\ DOMAIN device' = Mods
       /\ \A x \in Mods : DOMAIN device'[x] = DeviceFields
       /\ \A x \in Mods : x # m => device'[x] = device[x]
       /\ device'[m].wire = answer.rest /\ device'[m].seen = seen
  BY <1>1, <1>3 DEF DeviceForm, DeviceFields
<1>11. DeviceForm'
  BY <1>0, <1>1, <1>7, <1>10 DEF DeviceForm
<1>12. CASE ~answer.ok
  BY <1>0, <1>1, <1>2, <1>5, <1>10, <1>11, <1>12, FailKeeps
<1>13. CASE answer.ok
  <2>1. /\ DOMAIN worker' = WorkerFields /\ worker'.pc = "read" /\ worker'.m = m /\ worker'.k = k + 1
        /\ worker'.last = [worker.last EXCEPT ![m] = last]
        /\ worker'.tid = [worker.tid EXCEPT ![m] = NextTid(m)]
        /\ worker'.conn = worker.conn
    BY <1>1, <1>2, <1>13 DEF WorkerForm, WorkerFields
  <2>2. WorkerForm' /\ ShareForm'
    BY <1>0, <1>1, <1>2, <1>5, <1>9, <1>13, <2>1 DEF WorkerForm, ShareForm
  <2>3. WireInv'
    BY <1>0, <1>1, <1>8, <1>10, <1>13, <2>1 DEF WireInv, WorkerForm
  <2>4. WorkInv'
    BY <1>0, <1>1, <1>9, <1>10, <1>13, <2>1 DEF WorkInv, WorkerForm
  <2>5. ShareInv'
    BY <1>0, <1>2, <1>13 DEF ShareInv
  <2>6. QED
    BY <1>11, <2>2, <2>3, <2>4, <2>5 DEF WorkerPart
<1>14. QED
  BY <1>12, <1>13

(* After the last request every position holds what the device held.       *)
LEMMA ReadsDoneKeeps ==
  ASSUME Ready, ReadsDone
  PROVE  WorkerPart' /\ DOMAIN polled' = Mods /\ \A x \in Mods : polled[x] \subseteq polled'[x]
<1> USE DEF Ready, Kept, FieldInv, FormInv
<1> DEFINE m == worker.m
           p == plan.modbus[m]
<1>0. Mods' = Mods /\ (\A x : plan'.modbus[x] = plan.modbus[x]) /\ device' = device
  BY DEF Mods, ReadsDone
<1>1. /\ m \in Mods /\ worker.conn[m] /\ worker.k \in Nat \ {0} /\ worker.k > Len(p.reads)
      /\ Agree(p, worker.k, worker.last[m], device[m].seen)
  BY DEF ReadsDone, WorkInv
<1>2. Len(p.reads) \in Nat /\ p.ins \in Nat
  BY <1>1, PlanFacts
<1>3. \A n \in 1..p.ins : Stored(p, n, worker.k)
  <2>1. ASSUME NEW n \in 1..p.ins PROVE Stored(p, n, worker.k)
    <3>1. PICK i \in Ins(m) : p.points[i].pos = n
      BY <1>1, PlanFacts
    <3>2. PICK j \in 1..Len(p.reads) : i \in Range(p.reads[j].members)
      BY <1>1, PlanFacts
    <3>3. j < worker.k
      BY <1>1, <1>2
    <3>4. QED
      BY <3>1, <3>2, <3>3 DEF Stored
  <2>2. QED
    BY <2>1
<1>4. worker.last[m] = device[m].seen
  <2>1. \A n \in 1..p.ins : worker.last[m][n] = device[m].seen[n]
    BY <1>1, <1>3 DEF Agree
  <2>2. QED
    BY <1>1, <2>1, VectorsEqual DEF WorkerForm, DeviceForm
<1>5. /\ DOMAIN worker' = WorkerFields /\ worker'.pc = "publish" /\ worker'.next = "gate"
      /\ worker'.m = m
      /\ worker'.last = worker.last /\ worker'.conn = worker.conn /\ worker'.tid = worker.tid
  BY DEF ReadsDone, WorkerForm, WorkerFields
<1>6. /\ DOMAIN share' = Mods
      /\ \A x \in Mods : /\ DOMAIN share'[x] = ShareFields
                         /\ share'[x].vals = share[x].vals /\ share'[x].vq = share[x].vq
  BY DEF ReadsDone, Marked, ShareForm, ShareFields
<1>7. /\ DOMAIN polled' = Mods /\ \A x \in Mods : polled[x] \subseteq polled'[x]
      /\ worker.last[m] \in polled'[m]
  BY <1>1, <1>4 DEF ReadsDone, ShareForm
<1>8. WorkerForm' /\ DeviceForm' /\ ShareForm'
  BY <1>0, <1>5, <1>6, <1>7 DEF WorkerForm, DeviceForm, ShareForm
<1>9. WireInv'
  BY <1>0, <1>5 DEF WireInv
<1>10. WorkInv'
  BY <1>0, <1>1, <1>5, <1>7 DEF WorkInv
<1>11. ShareInv'
  BY <1>0, <1>6, <1>7 DEF ShareInv
<1>12. QED
  BY <1>7, <1>8, <1>9, <1>10, <1>11 DEF WorkerPart

(* A step of the worker that touches neither the wire nor what is shared.  *)
LEMMA MoveKeeps ==
  ASSUME Ready, UNCHANGED <<share, device, polled>>, DOMAIN worker' = WorkerFields,
         worker'.last = worker.last, worker'.conn = worker.conn, worker'.tid = worker.tid, WorkInv'
  PROVE  WorkerPart'
<1> USE DEF Ready, Kept, FieldInv, FormInv
<1>0. Mods' = Mods /\ \A x : plan'.modbus[x] = plan.modbus[x]
  BY DEF Mods
<1>1. WorkerForm' /\ DeviceForm' /\ ShareForm'
  BY <1>0 DEF WorkerForm, DeviceForm, ShareForm
<1>2. WireInv' /\ ShareInv'
  BY <1>0 DEF WireInv, ShareInv
<1>3. QED
  BY <1>1, <1>2 DEF WorkerPart

(* Gate, mailbox, end of the writes, exit, and the stop flag.              *)
LEMMA MovesKeep ==
  ASSUME Ready, GateCheck \/ TakeMail \/ WritesDone \/ WorkerStops \/ Stop
  PROVE  WorkerPart'
<1> USE DEF Ready, Kept, FieldInv, FormInv
<1>0. Mods' = Mods /\ \A x : plan'.modbus[x] = plan.modbus[x]
  BY DEF Mods
<1>1. ASSUME NEW pc \in {"idle", "mail", "write", "exited"}, UNCHANGED <<share, device, polled>>,
             DOMAIN worker' = WorkerFields, worker'.last = worker.last,
             worker'.conn = worker.conn, worker'.tid = worker.tid,
             worker'.pc = pc, pc \in {"mail", "write"} => worker'.m \in Mods
      PROVE  WorkerPart'
  <2>1. WorkInv'
    BY <1>0, <1>1 DEF WorkInv
  <2>2. QED
    BY <1>1, <2>1, MoveKeeps
<1>2. CASE GateCheck
  BY <1>1, <1>2 DEF GateCheck, WorkerGoto, WorkInv, WorkerForm, WorkerFields
<1>3. CASE TakeMail
  <2>1. worker.m \in Mods /\ UNCHANGED <<share, device, polled>>
    BY <1>3 DEF TakeMail, WorkInv
  <2>2. CASE worker' = WorkerGoto("idle")
    BY <1>1, <2>1, <2>2 DEF WorkerGoto, WorkerForm, WorkerFields
  <2>3. ASSUME NEW a, NEW b, NEW c,
               worker' = [worker EXCEPT !.pc = "write", !.k = 1, !.mail = a, !.force = b, !.inSim = c]
        PROVE  WorkerPart'
    BY <1>1, <2>1, <2>3 DEF WorkerForm, WorkerFields
  <2>4. QED
    BY <1>3, <2>2, <2>3, Zenon DEF TakeMail
<1>4. CASE WritesDone
  BY <1>1, <1>4 DEF WritesDone, WorkerForm, WorkerFields
<1>5. CASE WorkerStops
  BY <1>1, <1>5 DEF WorkerStops, WorkerExit, WorkerGoto, WorkerForm, WorkerFields
<1>6. CASE Stop
  <2>1. /\ UNCHANGED <<share, device, polled>> /\ DOMAIN worker' = WorkerFields
        /\ worker'.last = worker.last /\ worker'.conn = worker.conn /\ worker'.tid = worker.tid
        /\ worker'.pc = worker.pc /\ worker'.next = worker.next
        /\ worker'.m = worker.m /\ worker'.k = worker.k
    BY <1>6 DEF Stop, WorkerForm, WorkerFields
  <2>2. WorkInv'
    BY <1>0, <2>1 DEF WorkInv
  <2>3. QED
    BY <2>1, <2>2, MoveKeeps
<1>7. QED
  BY <1>2, <1>3, <1>4, <1>5, <1>6

(* Starting the drivers starts the worker.                                 *)
LEMMA StartKeeps ==
  ASSUME Ready, NEW n \in 0..2, Start(n)
  PROVE  WorkerPart'
<1> USE DEF Ready, Kept, FieldInv, FormInv
<1>0. Mods' = Mods /\ (\A x : plan'.modbus[x] = plan.modbus[x]) /\ UNCHANGED <<share, device, polled>>
  BY DEF Mods, Start
<1>1. worker' = worker \/ worker' = [worker EXCEPT !.pc = "idle"]
  BY DEF Start
<1>2. /\ DOMAIN worker' = WorkerFields
      /\ worker'.last = worker.last /\ worker'.conn = worker.conn /\ worker'.tid = worker.tid
  BY <1>1 DEF WorkerForm, WorkerFields
<1>3. WorkInv'
  <2>1. CASE worker' = worker
    BY <1>0, <2>1 DEF WorkInv
  <2>2. CASE worker' = [worker EXCEPT !.pc = "idle"]
    <3>1. worker'.pc = "idle"
      BY <2>2 DEF WorkerForm, WorkerFields
    <3>2. QED
      BY <1>0, <3>1 DEF WorkInv
  <2>3. QED
    BY <1>1, <2>1, <2>2
<1>4. QED
  BY <1>0, <1>2, <1>3, MoveKeeps

(* One write request.                                                      *)
LEMMA WriteStepKeeps ==
  ASSUME Ready, NEW o \in Outcomes, WriteStep(o)
  PROVE  WorkerPart'
<1> USE DEF Ready, Kept, FieldInv, FormInv
<1> DEFINE m == worker.m
           k == worker.k
           p == plan.modbus[m]
           op == p.writes[k]
           data == IF op.fc = 3 THEN Words(device[m].regs, "holding", op.at.start, 1) ELSE <<0>>
           answer == Transact(m, o, op.fc, data)
           regs == IF Executed(o) THEN Written(p, op, device[m].regs) ELSE device[m].regs
<1>0. Mods' = Mods /\ (\A x : plan'.modbus[x] = plan.modbus[x]) /\ polled' = polled
  BY DEF Mods, WriteStep
<1>1. m \in Mods /\ worker.pc = "write"
  BY DEF WriteStep, WorkInv
<1>2. /\ answer.ok => worker' = [worker EXCEPT !.k = k + 1, !.tid[m] = NextTid(m), !.reg = answer.data[1]]
      /\ answer.ok => share' = share
      /\ ~answer.ok => FailPoll(m, NextTid(m))
  BY <1>1, Zenon DEF WriteStep
<1>3. device' = [device EXCEPT ![m] = [device[m] EXCEPT !.wire = answer.rest, !.regs = regs]]
  BY <1>1 DEF WriteStep, DeviceForm, DeviceFields
<1>4. NextTid(m) \in 0..(TidBase - 1)
  BY <1>1, PlanFacts, NextTidDiffers DEF NextTid, WorkerForm
<1>5. worker.conn[m] /\ answer.ok => Quiet(answer.rest, NextTid(m))
  BY <1>1, QuietKept
<1> HIDE DEF op, data, answer, regs
<1>6. /\ DOMAIN device' = Mods
      /\ \A x \in Mods : DOMAIN device'[x] = DeviceFields /\ device'[x].seen = device[x].seen
      /\ \A x \in Mods : x # m => device'[x] = device[x]
      /\ device'[m].wire = answer.rest
  BY <1>1, <1>3 DEF DeviceForm, DeviceFields
<1>7. DeviceForm'
  BY <1>0, <1>6 DEF DeviceForm
<1>8. CASE ~answer.ok
  BY <1>0, <1>1, <1>2, <1>4, <1>6, <1>7, <1>8, FailKeeps
<1>9. CASE answer.ok
  <2>1. /\ DOMAIN worker' = WorkerFields /\ worker'.pc = "write" /\ worker'.m = m
        /\ worker'.last = worker.last
        /\ worker'.tid = [worker.tid EXCEPT ![m] = NextTid(m)]
        /\ worker'.conn = worker.conn
    BY <1>1, <1>2, <1>9 DEF WorkerForm, WorkerFields
  <2>2. WorkerForm' /\ ShareForm'
    BY <1>0, <1>1, <1>2, <1>4, <1>9, <2>1 DEF WorkerForm, ShareForm
  <2>3. WireInv'
    BY <1>0, <1>1, <1>5, <1>6, <1>9, <2>1 DEF WireInv, WorkerForm
  <2>4. WorkInv'
    BY <1>0, <1>1, <2>1 DEF WorkInv
  <2>5. ShareInv'
    BY <1>0, <1>2, <1>9 DEF ShareInv
  <2>6. QED
    BY <1>7, <2>2, <2>3, <2>4, <2>5 DEF WorkerPart
<1>10. QED
  BY <1>8, <1>9

(* A step of the others: the outputs of a mailbox, the age of a status and *)
(* the registers of a device are all they change of the worker's state.    *)
LEMMA OthersKeep ==
  ASSUME Ready, UNCHANGED <<worker, polled>>, DOMAIN share' = Mods, DOMAIN device' = Mods,
         \A x \in Mods : /\ DOMAIN share'[x] = ShareFields /\ share'[x].q = share[x].q
                         /\ share'[x].vals = share[x].vals /\ share'[x].vq = share[x].vq,
         \A x \in Mods : /\ DOMAIN device'[x] = DeviceFields
                         /\ device'[x].wire = device[x].wire /\ device'[x].seen = device[x].seen
  PROVE  WorkerPart'
<1> USE DEF Ready, Kept, FieldInv, FormInv
<1>0. Mods' = Mods /\ \A x : plan'.modbus[x] = plan.modbus[x]
  BY DEF Mods
<1>1. WorkerForm' /\ DeviceForm' /\ ShareForm'
  BY <1>0 DEF WorkerForm, DeviceForm, ShareForm
<1>2. WireInv' /\ ShareInv'
  BY <1>0 DEF WireInv, ShareInv
<1>3. WorkInv'
  BY <1>0 DEF WorkInv
<1>4. QED
  BY <1>1, <1>2, <1>3 DEF WorkerPart

(* Steps that leave the worker, the shared cells and the devices alone.    *)
LEMMA UntouchedKeeps ==
  ASSUME Ready, UNCHANGED <<worker, polled, share, device>>
  PROVE  WorkerPart'
BY OthersKeep DEF Ready, FieldInv, FormInv, ShareForm, DeviceForm

(* Posting the outputs, the passing of time, a change of the field.        *)
LEMMA SurroundingsKeep ==
  ASSUME Ready, PostMail \/ Tick \/ FieldChanges
  PROVE  WorkerPart'
<1> USE DEF Ready, Kept, FieldInv, FormInv
<1>0. /\ DOMAIN share = Mods /\ \A x \in Mods : DOMAIN share[x] = ShareFields
      /\ DOMAIN device = Mods /\ \A x \in Mods : DOMAIN device[x] = DeviceFields
  BY DEF ShareForm, DeviceForm
<1>1. CASE PostMail
  <2>1. UNCHANGED <<worker, polled, device>>
    BY <1>1 DEF PostMail
  <2>2. share' = [share EXCEPT ![scan.m] = Posted(scan.m)] /\ scan.m \in Mods
    BY <1>1 DEF PostMail
  <2>3. LET s == Posted(scan.m) IN
        /\ DOMAIN s = ShareFields /\ s.q = share[scan.m].q
        /\ s.vals = share[scan.m].vals /\ s.vq = share[scan.m].vq
    BY <1>0, <2>2 DEF Posted, ShareFields
  <2>4. /\ DOMAIN share' = Mods
        /\ \A x \in Mods : /\ DOMAIN share'[x] = ShareFields /\ share'[x].q = share[x].q
                           /\ share'[x].vals = share[x].vals /\ share'[x].vq = share[x].vq
    BY <1>0, <2>2, <2>3
  <2>5. QED
    BY <1>0, <2>1, <2>4, OthersKeep
<1>2. CASE Tick
  <2>1. UNCHANGED <<worker, polled, device>>
    BY <1>2 DEF Tick
  <2>2. /\ DOMAIN share' = Mods
        /\ \A x \in Mods : /\ DOMAIN share'[x] = ShareFields /\ share'[x].q = share[x].q
                           /\ share'[x].vals = share[x].vals /\ share'[x].vq = share[x].vq
    BY <1>0, <1>2 DEF Tick, ShareFields
  <2>3. QED
    BY <1>0, <2>1, <2>2, OthersKeep
<1>3. CASE FieldChanges
  <2>1. UNCHANGED <<worker, polled, share>>
    BY <1>3 DEF FieldChanges, Change
  <2>2. /\ DOMAIN device' = Mods
        /\ \A x \in Mods : /\ DOMAIN device'[x] = DeviceFields
                           /\ device'[x].wire = device[x].wire /\ device'[x].seen = device[x].seen
    BY <1>0, <1>3 DEF FieldChanges, DeviceFields
  <2>3. QED
    BY <1>0, <2>1, <2>2, OthersKeep
<1>4. QED
  BY <1>1, <1>2, <1>3

-----------------------------------------------------------------------------
(* The scan thread: the parts that its steps can disturb.                  *)
ScanPart == ScanForm /\ ScanInv

(* Outside the poll of the inputs nothing is claimed about the image.      *)
LEMMA ElsewhereKeeps ==
  ASSUME Ready, image' = image, DOMAIN scan' = ScanFields,
         scan'.pc \notin {"snap", "overlay", "gpio", "logic"}
  PROVE  ScanPart'
<1> USE DEF Ready, Kept, FieldInv, FormInv
<1>1. InputSlots' = InputSlots
  BY DEF InputSlots
<1>2. QED
  BY <1>1 DEF ScanPart, ScanForm, ScanInv

(* Beginning a cycle: the image is filled by the simulation driver.        *)
LEMMA ScanBeginKeeps ==
  ASSUME Ready, ScanBegin
  PROVE  ScanPart'
<1> USE DEF Ready, Kept, FieldInv, FormInv
<1>0. Mods' = Mods /\ InputSlots' = InputSlots /\ mode' = mode
  BY DEF Mods, InputSlots, ScanBegin
<1>1. /\ DOMAIN scan' = ScanFields /\ scan'.m = 1
      /\ scan'.pc = IF mode = "SIM" THEN "gpio" ELSE OverlayOrGpio(1)
  BY DEF ScanBegin, ScanForm, ScanFields
<1>2. ScanForm'
  BY <1>0, <1>1 DEF ScanBegin, ScanForm
<1>3. CASE mode = "SIM"
  BY <1>0, <1>1, <1>2, <1>3 DEF ScanPart, ScanInv
<1>4. CASE mode # "SIM" /\ 1 \in Mods
  <2>1. scan'.pc = "snap"
    BY <1>1, <1>4 DEF OverlayOrGpio
  <2>2. \A m \in Mods : ~(m < 1)
    BY PlanFacts
  <2>3. QED
    BY <1>0, <1>1, <1>2, <1>4, <2>1, <2>2 DEF ScanPart, ScanInv
<1>5. CASE mode # "SIM" /\ 1 \notin Mods
  <2>1. scan'.pc = "gpio" /\ Mods = {}
    BY <1>1, <1>5, PlanFacts DEF OverlayOrGpio
  <2>2. QED
    BY <1>0, <1>1, <1>2, <1>5, <2>1 DEF ScanPart, ScanInv
<1>6. QED
  BY <1>3, <1>4, <1>5

(* The snapshot is a front buffer, whole.                                  *)
LEMMA ScanSnapKeeps ==
  ASSUME Ready, ScanSnap
  PROVE  ScanPart'
<1> USE DEF Ready, Kept, FieldInv, FormInv
<1>0. /\ Mods' = Mods /\ InputSlots' = InputSlots /\ (\A x : plan'.modbus[x] = plan.modbus[x])
      /\ mode' = mode /\ image' = image /\ polled' = polled
  BY DEF Mods, InputSlots, ScanSnap
<1>1. /\ DOMAIN scan' = ScanFields /\ scan'.m = scan.m /\ scan'.pc = "overlay"
      /\ scan'.snap = [vals |-> share[scan.m].vals, q |-> share[scan.m].vq]
  BY DEF ScanSnap, ScanForm, ScanFields
<1>2. ScanForm'
  BY <1>0, <1>1 DEF ScanForm
<1>3. \A m : Whole(m)' <=> Whole(m)
  BY <1>0 DEF Whole, Sampled, Ins, SlotOf
<1>4. scan.m \in Mods /\ mode # "SIM" /\ \A m \in Mods : m < scan.m => Whole(m)
  BY DEF ScanSnap, ScanInv
<1>5. ScanInv'
  BY <1>0, <1>1, <1>3, <1>4 DEF ScanInv, ShareInv, ShareForm
<1>6. QED
  BY <1>2, <1>5 DEF ScanPart

(* A module whose slots keep their values and quality stays whole.         *)
LEMMA SlotsKept ==
  ASSUME Ready, NEW m \in Mods, polled' = polled, Whole(m),
         \A i \in Ins(m) : /\ image'.values[SlotOf(m, i)] = image.values[SlotOf(m, i)]
                           /\ image'.quality[SlotOf(m, i)] = image.quality[SlotOf(m, i)]
  PROVE  Whole(m)'
<1> USE DEF Ready, Kept, FieldInv, FormInv
<1>0. Ins(m)' = Ins(m) /\ \A i : SlotOf(m, i)' = SlotOf(m, i)
  BY DEF Ins, SlotOf
<1>1. ASSUME NEW n \in 1..plan.modbus[m].ins
      PROVE  (CHOOSE i \in Ins(m) : plan.modbus[m].points[i].pos = n) \in Ins(m)
  BY PlanFacts
<1>2. Sampled(m)' = Sampled(m)
  BY <1>0, <1>1 DEF Sampled
<1>3. QED
  BY <1>0, <1>2 DEF Whole

(* The overlay writes the slots of one module, all of them, out of one     *)
(* snapshot.                                                               *)
LEMMA ScanOverlayKeeps ==
  ASSUME Ready, ScanOverlay
  PROVE  ScanPart'
<1> USE DEF Ready, Kept, FieldInv, FormInv
<1>p. PICK m : m = scan.m
  OBVIOUS
<1> DEFINE p == plan.modbus[m]
<1>0. /\ Mods' = Mods /\ InputSlots' = InputSlots /\ plan' = plan
      /\ mode' = mode /\ polled' = polled
      /\ \A o : Ins(o)' = Ins(o) /\ \A i : SlotOf(o, i)' = SlotOf(o, i)
  BY DEF Mods, InputSlots, ScanOverlay, Ins, SlotOf
<1>1. /\ m \in Mods /\ mode # "SIM" /\ Vector(scan.snap.vals, p)
      /\ scan.snap.q = "Good" => scan.snap.vals \in polled[m]
      /\ \A o \in Mods : o < m => Whole(o)
  BY <1>p DEF ScanOverlay, ScanInv
<1>2. /\ DOMAIN scan' = ScanFields /\ scan'.m = m + 1 /\ scan'.pc = OverlayOrGpio(m + 1)
  BY <1>p DEF ScanOverlay, ScanForm, ScanFields
<1>3. /\ DOMAIN image' = {"values", "quality"}
      /\ DOMAIN image'.values = InputSlots /\ DOMAIN image'.quality = InputSlots
  BY DEF ScanOverlay, ScanForm
<1>4. ASSUME NEW i \in Ins(m)
      PROVE  /\ image'.values[SlotOf(m, i)] = scan.snap.vals[p.points[i].pos]
             /\ image'.quality[SlotOf(m, i)] = OverlayQuality(m)
  <2>1. SlotOf(m, i) \in InputSlots
    BY <1>1, PlanFacts
  <2>2. \A j : j \in SlotPoint(p, SlotOf(m, i)) <=> j \in Ins(m) /\ SlotOf(m, j) = SlotOf(m, i)
    BY <1>1, PlanFacts DEF SlotPoint, Ins, SlotOf, Positions
  <2>3. SlotPoint(p, SlotOf(m, i)) = {i}
    BY <1>1, <2>2, PlanFacts
  <2>4. QED
    BY <1>p, <2>1, <2>3 DEF ScanOverlay, ScanForm
<1>5. ASSUME NEW o \in Mods, o # m, NEW i \in Ins(o)
      PROVE  /\ image'.values[SlotOf(o, i)] = image.values[SlotOf(o, i)]
             /\ image'.quality[SlotOf(o, i)] = image.quality[SlotOf(o, i)]
  <2>1. SlotOf(o, i) \in InputSlots
    BY PlanFacts
  <2>2. \A j : j \in SlotPoint(p, SlotOf(o, i)) => j \in Ins(m) /\ SlotOf(m, j) = SlotOf(o, i)
    BY <1>1, PlanFacts DEF SlotPoint, Ins, SlotOf, Positions
  <2>3. SlotPoint(p, SlotOf(o, i)) = {}
    BY <1>1, <1>5, <2>2, PlanFacts
  <2>4. QED
    BY <1>p, <2>1, <2>3 DEF ScanOverlay, ScanForm
<1>6. \A o \in Mods : o < m => Whole(o)'
  BY <1>0, <1>1, <1>5, SlotsKept, PlanFacts
<1>7. Whole(m)'
  <2> DEFINE at(n) == CHOOSE i \in Ins(m) : p.points[i].pos = n
  <2>1. \A n \in 1..p.ins : at(n) \in Ins(m) /\ p.points[at(n)].pos = n
    BY <1>1, PlanFacts
  <2>2. Sampled(m)' = [n \in 1..p.ins |-> image'.values[SlotOf(m, at(n))]]
    BY <1>0 DEF Sampled, Ins, SlotOf
  <2> HIDE DEF at
  <2>3. Sampled(m)' = [n \in 1..p.ins |-> scan.snap.vals[n]]
    BY <1>4, <2>1, <2>2
  <2>4. Sampled(m)' = scan.snap.vals
    BY <1>1, <2>3, Zenon DEF Vector
  <2>5. ASSUME Ins(m) # {}, \A i \in Ins(m) : image'.quality[SlotOf(m, i)] = "Good"
        PROVE  scan.snap.vals \in polled[m]
    BY <1>1, <1>4, <2>5 DEF OverlayQuality
  <2>6. QED
    BY <1>0, <2>4, <2>5 DEF Whole
<1>8. ScanForm'
  BY <1>0, <1>2, <1>3 DEF ScanForm
<1>9. ScanInv'
  <2>1. CASE m + 1 \in Mods
    <3>1. scan'.pc = "snap"
      BY <1>2, <2>1 DEF OverlayOrGpio
    <3>2. \A o \in Mods : o < m + 1 => o < m \/ o = m
      BY <1>1, PlanFacts
    <3>3. QED
      BY <1>0, <1>1, <1>2, <1>6, <1>7, <2>1, <3>1, <3>2 DEF ScanInv
  <2>2. CASE m + 1 \notin Mods
    <3>1. scan'.pc = "gpio"
      BY <1>2, <2>2 DEF OverlayOrGpio
    <3>2. \A o \in Mods : o < m \/ o = m
      BY <1>1, <2>2, PlanFacts
    <3>3. QED
      BY <1>0, <1>1, <1>2, <1>6, <1>7, <3>1, <3>2 DEF ScanInv
  <2>3. QED
    BY <2>1, <2>2
<1>10. QED
  BY <1>8, <1>9 DEF ScanPart

(* The GPIO poll writes slots of GPIO modules only.                        *)
LEMMA ScanGpioKeeps ==
  ASSUME Ready, NEW fails \in SUBSET Gpios, ScanGpio(fails)
  PROVE  ScanPart'
<1> USE DEF Ready, Kept, FieldInv, FormInv
<1> DEFINE reads == IF mode = "SIM" THEN {} ELSE {g \in Gpios : plan.gpio[g].input}
           owner(s) == {g \in reads : \E k \in DOMAIN plan.gpio[g].points :
                                        plan.gpio[g].points[k].slot = s}
<1>0. Mods' = Mods /\ InputSlots' = InputSlots /\ mode' = mode /\ polled' = polled
  BY DEF Mods, InputSlots, ScanGpio
<1>1. DOMAIN scan' = ScanFields /\ scan'.pc = "logic" /\ scan.pc = "gpio"
  BY DEF ScanGpio, ScanForm, ScanFields
<1>2. \E v, q : image' = [values |-> [s \in InputSlots |-> IF owner(s) = {} THEN image.values[s] ELSE v[s]],
                          quality |-> [s \in InputSlots |-> IF owner(s) = {} THEN image.quality[s] ELSE q[s]]]
  <2> DEFINE bits == [g \in Gpios |-> IF g \in reads \ fails THEN pins[g] ELSE gpio.last[g]]
             q == [g \in Gpios |-> IF g \in reads THEN (IF g \in fails THEN "Bad" ELSE "Good") ELSE gpio.q[g]]
             own(s) == CHOOSE g \in owner(s) : TRUE
  <2>1. image' = [values |-> [s \in DOMAIN image.values |->
                                IF owner(s) = {} THEN image.values[s] ELSE bits[own(s)]],
                  quality |-> [s \in DOMAIN image.values |->
                                IF owner(s) = {} THEN image.quality[s] ELSE q[own(s)]]]
    BY Zenon DEF ScanGpio
  <2>2. DOMAIN image.values = InputSlots
    BY DEF ScanForm
  <2> HIDE DEF owner, bits, q, own
  <2> DEFINE vs == [s \in InputSlots |-> bits[own(s)]]
             qs == [s \in InputSlots |-> q[own(s)]]
  <2>3. image' = [values |-> [s \in InputSlots |-> IF owner(s) = {} THEN image.values[s] ELSE vs[s]],
                  quality |-> [s \in InputSlots |-> IF owner(s) = {} THEN image.quality[s] ELSE qs[s]]]
    BY <2>1, <2>2
  <2> HIDE DEF vs, qs
  <2>4. QED
    BY <2>3
<1>3. ScanForm'
  BY <1>0, <1>1, <1>2 DEF ScanForm
<1>4. ASSUME NEW m \in Mods, NEW i \in Ins(m)
      PROVE  /\ image'.values[SlotOf(m, i)] = image.values[SlotOf(m, i)]
             /\ image'.quality[SlotOf(m, i)] = image.quality[SlotOf(m, i)]
  <2>1. SlotOf(m, i) \in InputSlots
    BY PlanFacts
  <2>2. owner(SlotOf(m, i)) = {}
    BY PlanFacts
  <2> HIDE DEF owner
  <2>3. QED
    BY <1>2, <2>1, <2>2
<1>5. ScanInv'
  BY <1>0, <1>1, <1>4, SlotsKept DEF ScanInv
<1>6. QED
  BY <1>3, <1>5 DEF ScanPart

-----------------------------------------------------------------------------
(* The invariant holds initially.                                          *)
LEMMA FieldInit ==
  ASSUME Init PROVE FieldInv
<1>1. PlanInv
  BY DEF Init, PlanInv
<1>2. TidBase \in Nat \ {0, 1}
  BY <1>1, PlanFacts
<1>3. /\ DOMAIN worker = WorkerFields
      /\ worker.pc = "none"
      /\ worker.last = [m \in Mods |-> [n \in 1..plan.modbus[m].ins |-> 0]]
      /\ worker.conn = [m \in Mods |-> FALSE] /\ worker.tid = [m \in Mods |-> 1]
  BY DEF Init, WorkerFields
<1>4. WorkerForm
  BY <1>2, <1>3 DEF WorkerForm, Vector
<1>5. DeviceForm
  BY DEF Init, DeviceForm, DeviceFields, Vector
<1>6. ShareForm /\ ShareInv
  <2>1. /\ DOMAIN share = Mods /\ DOMAIN polled = Mods
        /\ \A m \in Mods : share[m] = ShareInit(plan.modbus[m])
    BY DEF Init
  <2>2. \A p : /\ DOMAIN ShareInit(p) = ShareFields /\ Vector(ShareInit(p).vals, p)
               /\ ShareInit(p).vq = "Bad"
    BY DEF ShareInit, ShareFields, Vector
  <2>3. QED
    BY <2>1, <2>2 DEF ShareForm, ShareInv
<1>7. ScanForm /\ ScanInv
  BY DEF Init, ScanForm, ScanInv, ScanFields, InputSlots
<1>8. WireInv /\ WorkInv
  BY <1>3 DEF WireInv, WorkInv
<1>9. QED
  BY <1>1, <1>4, <1>5, <1>6, <1>7, <1>8 DEF FieldInv, FormInv

(* Every step keeps it: the worker's part and the scan's part apart.       *)
LEMMA FieldStep ==
  ASSUME FieldInv, [Next]_vars PROVE FieldInv'
<1>0. Ready
  BY PlanKept DEF Ready
<1>1. PlanInv'
  BY <1>0 DEF Ready, Kept, FieldInv, FormInv, PlanInv
<1>2. \A m \in Mods : polled[m] \subseteq polled[m]
  OBVIOUS
<1>3. DOMAIN polled = Mods
  BY <1>0 DEF Ready, FieldInv, FormInv, ShareForm
<1>4. ASSUME UNCHANGED <<scan, image, mode, polled>> PROVE ScanPart'
  BY <1>0, <1>2, <1>3, <1>4, ScanFrame DEF ScanPart
<1>5. ASSUME Worker PROVE WorkerPart' /\ ScanPart'
  <2>1. CASE \E m \in Mods : Poll(m)
    BY <1>0, <1>4, <2>1, PollKeeps DEF Poll
  <2>2. CASE Publish
    BY <1>0, <1>4, <2>2, PublishKeeps DEF Publish
  <2>3. CASE \E ok \in BOOLEAN : Connect(ok)
    BY <1>0, <1>4, <2>3, ConnectKeeps DEF Connect
  <2>4. CASE \E o \in Outcomes : ReadGroup(o)
    BY <1>0, <1>4, <2>4, ReadGroupKeeps DEF ReadGroup
  <2>5. CASE ReadsDone
    <3>1. UNCHANGED <<scan, image, mode>>
      BY <2>5 DEF ReadsDone
    <3>2. QED
      BY <1>0, <2>5, <3>1, ReadsDoneKeeps, ScanFrame DEF ScanPart
  <2>6. CASE GateCheck \/ TakeMail \/ WritesDone \/ WorkerStops
    BY <1>0, <1>4, <2>6, MovesKeep DEF GateCheck, TakeMail, WritesDone, WorkerStops
  <2>7. CASE \E o \in Outcomes : WriteStep(o)
    BY <1>0, <1>4, <2>7, WriteStepKeeps DEF WriteStep
  <2>8. QED
    BY <1>5, <2>1, <2>2, <2>3, <2>4, <2>5, <2>6, <2>7 DEF Worker
<1>6. ASSUME UNCHANGED <<worker, polled, share, device>>, ScanPart' PROVE WorkerPart' /\ ScanPart'
  BY <1>0, <1>6, UntouchedKeeps
<1>7. ASSUME Scan PROVE WorkerPart' /\ ScanPart'
  <2>1. CASE ScanBegin
    BY <1>0, <1>6, <2>1, ScanBeginKeeps DEF ScanBegin
  <2>2. CASE ScanSnap
    BY <1>0, <1>6, <2>2, ScanSnapKeeps DEF ScanSnap
  <2>3. CASE ScanOverlay
    BY <1>0, <1>6, <2>3, ScanOverlayKeeps DEF ScanOverlay
  <2>4. CASE \E fails \in SUBSET Gpios : ScanGpio(fails)
    BY <1>0, <1>6, <2>4, ScanGpioKeeps DEF ScanGpio
  <2>5. CASE \E v \in Programmed, n \in Modes : ScanLogic(v, n)
    <3>1. PICK v \in Programmed, n \in Modes : ScanLogic(v, n)
      BY <2>5
    <3>2. /\ UNCHANGED <<worker, polled, share, device, image>>
          /\ DOMAIN scan' = ScanFields /\ scan'.pc = "post"
      BY <1>0, <3>1 DEF ScanLogic, Ready, FieldInv, FormInv, ScanForm, ScanFields
    <3>3. QED
      BY <1>0, <1>6, <3>2, ElsewhereKeeps
  <2>6. CASE PostMail
    <3>1. image' = image /\ DOMAIN scan' = ScanFields /\ scan'.pc = "post"
      BY <1>0, <2>6 DEF PostMail, Ready, FieldInv, FormInv, ScanForm, ScanFields
    <3>2. QED
      BY <1>0, <2>6, <3>1, ElsewhereKeeps, SurroundingsKeep
  <2>7. CASE \E fails \in SUBSET Gpios : ApplyGpio(fails)
    <3>1. /\ UNCHANGED <<worker, polled, share, device, image>>
          /\ DOMAIN scan' = ScanFields /\ scan'.pc = "idle"
      BY <1>0, <2>7 DEF ApplyGpio, Ready, FieldInv, FormInv, ScanForm, ScanFields
    <3>2. QED
      BY <1>0, <1>6, <3>1, ElsewhereKeeps
  <2>8. CASE \E fails \in SUBSET Gpios : Joined(fails)
    <3>1. /\ UNCHANGED <<worker, polled, share, device, image>>
          /\ DOMAIN scan' = ScanFields /\ scan'.pc = "done"
      BY <1>0, <2>8 DEF Joined, Ready, FieldInv, FormInv, ScanForm, ScanFields
    <3>2. QED
      BY <1>0, <1>6, <3>1, ElsewhereKeeps
  <2>9. QED
    BY <1>7, <2>1, <2>2, <2>3, <2>4, <2>5, <2>6, <2>7, <2>8 DEF Scan
<1>8. ASSUME Stop PROVE WorkerPart' /\ ScanPart'
  <2>1. image' = image /\ DOMAIN scan' = ScanFields /\ scan'.pc = "join"
    BY <1>0, <1>8 DEF Stop, Ready, FieldInv, FormInv, ScanForm, ScanFields
  <2>2. QED
    BY <1>0, <1>8, <2>1, ElsewhereKeeps, MovesKeep
<1>9. ASSUME NEW n \in 0..2, Start(n) PROVE WorkerPart' /\ ScanPart'
  BY <1>0, <1>4, <1>9, StartKeeps DEF Start
<1>10. ASSUME Surroundings PROVE WorkerPart' /\ ScanPart'
  <2>1. CASE Tick
    BY <1>0, <1>4, <2>1, SurroundingsKeep DEF Tick
  <2>2. CASE FieldChanges
    BY <1>0, <1>4, <2>2, SurroundingsKeep DEF FieldChanges, Change
  <2>3. CASE SetMode
    <3>1. /\ UNCHANGED <<worker, polled, share, device, image, scan>> /\ scan.pc = "idle"
      BY <2>3 DEF SetMode, Change
    <3>2. DOMAIN scan' = ScanFields /\ scan'.pc = "idle"
      BY <1>0, <3>1 DEF Ready, FieldInv, FormInv, ScanForm
    <3>3. QED
      BY <1>0, <1>6, <3>1, <3>2, ElsewhereKeeps
  <2>4. CASE Inject
    BY <1>4, <1>6, <2>4 DEF Inject, Change
  <2>5. QED
    BY <1>10, <2>1, <2>2, <2>3, <2>4 DEF Surroundings
<1>11. ASSUME UNCHANGED vars PROVE WorkerPart' /\ ScanPart'
  BY <1>4, <1>6, <1>11 DEF vars
<1>12. WorkerPart' /\ ScanPart'
  BY <1>5, <1>7, <1>8, <1>9, <1>10, <1>11 DEF Next
<1>13. QED
  BY <1>1, <1>12 DEF FieldInv, FormInv, WorkerPart, ScanPart

(* When every input slot of a Modbus module is sampled Good, the values    *)
(* are those of one poll all of whose requests were answered: whatever is  *)
(* lost, doubled or late on the wire, however the two threads interleave,  *)
(* for every map, any number of modules and any transaction id width.      *)
THEOREM GoodInputsAreWhole == Spec => []GoodIsWhole
<1>1. FieldInv => GoodIsWhole
  <2>1. ASSUME FieldInv, NEW m \in Mods, mode # "SIM", scan.pc = "logic" PROVE Whole(m)
    BY <2>1 DEF FieldInv, ScanInv
  <2>2. QED
    BY <2>1 DEF GoodIsWhole, Whole, Sampled, Ins, SlotOf
<1>2. QED
  BY <1>1, FieldInit, FieldStep, PTL DEF Spec

-----------------------------------------------------------------------------
(* What the worker writes.                                                 *)
(* The writes of the plan in use are planned.                              *)
LEMMA PlanWrites ==
  ASSUME PlanInv, NEW m \in Mods
  PROVE  WritesPlanned(plan.modbus[m])
<1>1. ModuleWell(plan.modbus[m])
  BY PlanModules DEF PlanInv, Mods
<1>2. QED
  BY <1>1, WritesOfModule DEF ModuleWell

(* A register whose bits but the one of point pt are as the device had     *)
(* them.                                                                   *)
Others(pt, w) ==
  w \in 0..(WordBase - 1) /\ \A b \in 0..(WordBits - 1) : b # pt.bit => BitOf(w, b) = 1

RegsKept(p, regs) ==
  /\ DOMAIN regs = Registers(p)
  /\ \A r \in Registers(p) \ (InputRegisters(p) \cup OutputRegisters(p)) : regs[r] = Background(p, r)
  /\ \A i \in Range(p.bits) : Others(p.points[i], regs[BitReg(p.points[i])])

(* After the read of an output bit's register the worker has its contents. *)
FreshRead(p, k, w) ==
  \A i \in Range(p.bits) :
    k > 1 /\ p.writes[k - 1].fc = 3 /\ p.writes[k - 1].at.start = p.points[i].pdu
      => Others(p.points[i], w)

ConnInv ==
  worker.pc \in {"gate", "mail", "write"} \/ (worker.pc = "publish" /\ worker.next = "gate")
    => worker.conn[worker.m]
ReadInv ==
  worker.pc = "write" =>
    worker.k \in Nat \ {0} /\ FreshRead(plan.modbus[worker.m], worker.k, worker.reg)
RegsInv == \A m \in Mods : RegsKept(plan.modbus[m], device[m].regs)
NearInv == RegsInv /\ ConnInv /\ ReadInv

(* Setting one bit of a register leaves the others.                        *)
LEMMA SetOneBit ==
  ASSUME NEW pt, pt.bit \in 0..(WordBits - 1), NEW w, Others(pt, w), NEW on \in {0, 1}
  PROVE  Others(pt, WithBit(w, pt.bit, on))
<1>1. WithBit(w, pt.bit, on) \in 0..(WordBase - 1)
  BY BitsAssumption, Zenon DEF Others
<1>2. ASSUME NEW c \in 0..(WordBits - 1), c # pt.bit PROVE BitOf(WithBit(w, pt.bit, on), c) = 1
  <2>1. c \in 0..(WordBits - 1) \ {pt.bit}
    BY <1>2
  <2>2. BitOf(WithBit(w, pt.bit, on), c) = BitOf(w, c)
    BY <2>1, BitsAssumption, Zenon DEF Others
  <2>3. QED
    BY <1>2, <2>2, Zenon DEF Others
<1>3. QED
  BY <1>1, <1>2, Zenon DEF Others

(* A write request of the plan leaves everything else alone.               *)
LEMMA WrittenKeeps ==
  ASSUME NEW p, WritesPlanned(p), NEW k \in 1..Len(p.writes), NEW regs, RegsKept(p, regs),
         NEW op, op = p.writes[k], FreshRead(p, k, worker.reg)
  PROVE  RegsKept(p, Written(p, op, regs))
<1> DEFINE covers(a) == {i \in Range(op.at.members) : a \in Span(p.points[i])}
           on(i) == CoilOn(Selected(p, i), p.points[i])
           word(i, a) ==
             CASE op.fc \in {5, 15} -> on(i)
               [] p.points[i].raw = "BOOL" -> WithBit(worker.reg, p.points[i].bit, on(i))
               [] OTHER -> ValueToWords(Selected(p, i), p.points[i])[a - p.points[i].pdu + 1]
           kept(r) == \/ op.fc = 3 \/ r[1] # p.points[op.at.members[1]].table
                      \/ r[2] \notin op.at.start..(op.at.start + op.at.qty - 1)
           new == Written(p, op, regs)
<1>1. new = [r \in DOMAIN regs |-> IF kept(r) THEN regs[r]
                                   ELSE IF covers(r[2]) = {} THEN 0
                                   ELSE word(CHOOSE i \in covers(r[2]) : TRUE, r[2])]
  BY Zenon DEF Written
<1>2. /\ op.fc # 3 => Covered(p, op) \subseteq OutputRegisters(p)
      /\ \A i \in Range(p.bits) :
           op.fc # 3 /\ BitReg(p.points[i]) \in Covered(p, op) =>
             /\ op.fc = 6 /\ op.at.members = <<i>>
             /\ k > 1 /\ p.writes[k - 1].fc = 3
             /\ p.writes[k - 1].at.start = p.points[i].pdu
  BY Zenon DEF WritesPlanned, AloneAfterRead
<1>3. \A i \in Range(p.bits) :
        /\ p.points[i].raw = "BOOL" /\ p.points[i].bit \in 0..(WordBits - 1)
        /\ Span(p.points[i]) = {p.points[i].pdu}
        /\ BitReg(p.points[i]) \in Registers(p) \ InputRegisters(p)
  BY Zenon DEF WritesPlanned
<1>4. /\ DOMAIN regs = Registers(p)
      /\ \A r \in Registers(p) \ (InputRegisters(p) \cup OutputRegisters(p)) :
           regs[r] = Background(p, r)
      /\ \A i \in Range(p.bits) : Others(p.points[i], regs[BitReg(p.points[i])])
  BY Zenon DEF RegsKept
<1>5. ASSUME NEW r \in Registers(p), ~kept(r) PROVE op.fc # 3 /\ r \in Covered(p, op)
  <2>1. PICK n \in DOMAIN p.points, a \in 0..TableSize : r = <<p.points[n].table, a>>
    BY DEF Registers
  <2>2. r[1] = p.points[n].table /\ r[2] = a
    BY <2>1
  <2>3. r = <<r[1], r[2]>>
    BY <2>1, <2>2, Zenon
  <2>4. QED
    BY <1>5, <2>3, Zenon DEF Covered
<1> HIDE DEF new, word, on, kept, covers
<1>6. DOMAIN new = Registers(p)
  BY <1>1, <1>4, Zenon
<1>7. ASSUME NEW r \in Registers(p), kept(r) PROVE new[r] = regs[r]
  BY <1>1, <1>4, <1>7, Zenon
<1>8. ASSUME NEW r \in Registers(p) \ (InputRegisters(p) \cup OutputRegisters(p))
      PROVE  new[r] = Background(p, r)
  <2>1. r \in Registers(p) /\ r \notin OutputRegisters(p)
    BY Zenon
  <2>2. kept(r)
    BY <1>2, <1>5, <2>1, Zenon
  <2>3. QED
    BY <1>4, <1>7, <2>1, <2>2, Zenon
<1>9. ASSUME NEW i \in Range(p.bits) PROVE Others(p.points[i], new[BitReg(p.points[i])])
  <2> DEFINE r == BitReg(p.points[i])
             pt == p.points[i]
  <2>1. r \in Registers(p) /\ pt.raw = "BOOL" /\ Span(pt) = {pt.pdu} /\ pt.bit \in 0..(WordBits - 1)
    BY <1>3, Zenon
  <2>2. CASE kept(r)
    BY <1>4, <1>7, <2>1, <2>2, Zenon
  <2>3. CASE ~kept(r)
    <3>1. /\ op.fc = 6 /\ op.at.members = <<i>>
          /\ Others(pt, worker.reg)
      BY <1>2, <1>5, <2>1, <2>3, Zenon DEF FreshRead
    <3>2. r[2] = pt.pdu
      BY DEF BitReg
    <3>3. covers(r[2]) = {i}
      <4>1. Range(op.at.members) = {i}
        BY <3>1 DEF Range
      <4>2. QED
        BY <2>1, <3>2, <4>1 DEF covers
    <3>4. word(i, r[2]) = WithBit(worker.reg, pt.bit, on(i))
      BY <2>1, <3>1 DEF word
    <3>5. (CHOOSE j \in covers(r[2]) : TRUE) = i
      BY <3>3
    <3>6. new[r] = word(i, r[2])
      <4>1. covers(r[2]) # {}
        BY <3>3
      <4>2. new[r] = word(CHOOSE j \in covers(r[2]) : TRUE, r[2])
        BY <1>1, <1>4, <2>1, <2>3, <4>1, Zenon
      <4>3. QED
        BY <3>5, <4>2, Zenon
    <3>7. on(i) \in {0, 1}
      BY DEF on, CoilOn
    <3>8. QED
      BY <2>1, <3>1, <3>4, <3>6, <3>7, SetOneBit, Zenon
  <2>4. QED
    BY <2>2, <2>3, Zenon
<1>10. QED
  BY <1>6, <1>8, <1>9, Zenon DEF RegsKept, new

(* Where neither the registers nor the write in progress change.           *)
LEMMA NearFrame ==
  ASSUME Ready, NearInv, \A x \in Mods : device'[x].regs = device[x].regs, ConnInv', ReadInv'
  PROVE  NearInv'
<1>1. Mods' = Mods /\ \A x : plan'.modbus[x] = plan.modbus[x]
  BY DEF Ready, Kept, Mods
<1>2. RegsInv'
  BY <1>1 DEF NearInv, RegsInv
<1>3. QED
  BY <1>2 DEF NearInv

(* Steps of the worker before the writes and after them.                   *)
LEMMA NearMoves ==
  ASSUME Ready, NearInv,
         \/ \E m \in Mods : Poll(m)
         \/ Publish \/ ReadsDone \/ GateCheck \/ TakeMail \/ WritesDone \/ WorkerStops \/ Stop
         \/ \E n \in 0..2 : Start(n)
  PROVE  NearInv'
<1>0. DOMAIN worker = WorkerFields /\ WorkInv
  BY DEF Ready, FieldInv, FormInv, WorkerForm
<1>p. plan' = plan
  BY DEF Ready, Kept
<1> USE <1>0 DEF WorkerFields
<1>1. UNCHANGED device
  <2>1. CASE \E m \in Mods : Poll(m)
    BY <2>1, Zenon DEF Poll
  <2>2. CASE Publish \/ ReadsDone \/ GateCheck \/ TakeMail
    BY <2>2, Zenon DEF Publish, ReadsDone, GateCheck, TakeMail
  <2>3. CASE WritesDone \/ WorkerStops \/ Stop
    BY <2>3, Zenon DEF WritesDone, WorkerStops, Stop
  <2>4. CASE \E n \in 0..2 : Start(n)
    BY <2>4, Zenon DEF Start
  <2>5. QED
    BY <2>1, <2>2, <2>3, <2>4
<1>2. CASE \E m \in Mods : Poll(m)
  <2>0. PICK m \in Mods : Poll(m)
    BY <1>2
  <2>a. worker' = [worker EXCEPT !.m = m, !.k = 1, !.next = "connect",
                                 !.pc = IF CommsStale(m) THEN "publish" ELSE "connect"]
    BY <2>0, Zenon DEF Poll
  <2>1. worker'.pc \in {"publish", "connect"} /\ worker'.next = "connect"
    BY <2>a
  <2>2. QED
    BY <1>1, <2>1, NearFrame DEF ConnInv, ReadInv
<1>3. CASE Publish
  <2>1. /\ worker'.pc = worker.next /\ worker'.m = worker.m /\ worker'.conn = worker.conn
        /\ worker.pc = "publish" /\ worker.next \in {"connect", "gate", "idle"}
    BY <1>3 DEF Publish, WorkerGoto, WorkInv
  <2>2. QED
    BY <1>1, <2>1, NearFrame DEF ConnInv, ReadInv, NearInv
<1>4. CASE ReadsDone
  <2>1. /\ worker'.pc = "publish" /\ worker'.m = worker.m /\ worker'.conn = worker.conn
        /\ worker.conn[worker.m]
    BY <1>4 DEF ReadsDone, WorkInv
  <2>2. QED
    BY <1>1, <2>1, NearFrame DEF ConnInv, ReadInv
<1>5. CASE GateCheck
  <2>1. /\ worker'.pc \in {"idle", "mail"} /\ worker'.m = worker.m /\ worker'.conn = worker.conn
        /\ worker.pc = "gate"
    BY <1>5 DEF GateCheck, WorkerGoto
  <2>2. QED
    BY <1>1, <2>1, NearFrame DEF ConnInv, ReadInv, NearInv
<1>6. CASE TakeMail
  <2>1. /\ worker'.pc = "idle" \/ (worker'.pc = "write" /\ worker'.k = 1)
        /\ worker'.m = worker.m /\ worker'.conn = worker.conn /\ worker.pc = "mail"
    BY <1>6 DEF TakeMail, WorkerGoto
  <2>2. QED
    BY <1>1, <2>1, NearFrame DEF ConnInv, ReadInv, NearInv, FreshRead
<1>7. CASE WritesDone \/ WorkerStops \/ \E n \in 0..2 : Start(n)
  <2>1. worker'.pc \in {"idle", "exited"} \/ worker' = worker
    BY <1>7 DEF WritesDone, WorkerStops, WorkerExit, WorkerGoto, Start
  <2>2. CASE worker'.pc \in {"idle", "exited"}
    BY <1>1, <2>2, NearFrame DEF ConnInv, ReadInv
  <2>3. CASE worker' = worker
    BY <1>p, <1>1, <2>3, NearFrame DEF ConnInv, ReadInv, NearInv
  <2>4. QED
    BY <2>1, <2>2, <2>3
<1>8. CASE Stop
  <2>1. /\ worker'.pc = worker.pc /\ worker'.m = worker.m /\ worker'.conn = worker.conn
        /\ worker'.next = worker.next /\ worker'.k = worker.k /\ worker'.reg = worker.reg
    BY <1>8 DEF Stop
  <2>2. QED
    BY <1>p, <1>1, <2>1, NearFrame DEF ConnInv, ReadInv, NearInv
<1>9. QED
  BY <1>2, <1>3, <1>4, <1>5, <1>6, <1>7, <1>8

(* Connecting and reading touch no register.                               *)
LEMMA NearReads ==
  ASSUME Ready, NearInv, (\E ok \in BOOLEAN : Connect(ok)) \/ (\E o \in Outcomes : ReadGroup(o))
  PROVE  NearInv'
<1>0. /\ DOMAIN worker = WorkerFields
      /\ DOMAIN device = Mods /\ \A x \in Mods : DOMAIN device[x] = DeviceFields
  BY DEF Ready, FieldInv, FormInv, WorkerForm, DeviceForm
<1> DEFINE m == worker.m
           Connected == worker' = [worker EXCEPT !.pc = "read", !.conn[m] = TRUE]
           Broken == \E tid : FailPoll(m, tid)
<1>1. CASE \E ok \in BOOLEAN : Connect(ok)
  <2>1. device' = device \/ device' = [device EXCEPT ![m].wire = <<>>]
    BY <1>1, Zenon DEF Connect
  <2>2. Connected \/ Broken
    BY <1>1, Zenon DEF Connect
  <2>3. \A x \in Mods : device'[x].regs = device[x].regs
    BY <1>0, <2>1 DEF DeviceFields
  <2>4. worker'.pc = "read" \/ (worker'.pc = "publish" /\ worker'.next = "idle")
    <3>1. CASE Connected
      BY <1>0, <3>1 DEF WorkerFields
    <3>2. ASSUME NEW tid, FailPoll(m, tid) PROVE worker'.pc = "publish" /\ worker'.next = "idle"
      BY <1>0, <3>2 DEF FailPoll, WorkerFields
    <3>3. QED
      BY <2>2, <3>1, <3>2, Zenon
  <2>5. QED
    BY <2>3, <2>4, NearFrame DEF ConnInv, ReadInv
<1>2. CASE \E o \in Outcomes : ReadGroup(o)
  <2>1. PICK o \in Outcomes : ReadGroup(o)
    BY <1>2
  <2> DEFINE p == plan.modbus[m]
             group == p.reads[worker.k]
             table == p.points[group.members[1]].table
             data == Words(device[m].regs, table, group.start, group.qty)
             answer == Transact(m, o, ReadFc(table), data)
             seen == IF Executed(o) THEN StoreGroup(device[m].seen, p, group, data) ELSE device[m].seen
             last == StoreGroup(worker.last[m], p, group, answer.data)
  <2>2. /\ worker.pc = "read"
        /\ \/ worker' = [worker EXCEPT !.k = worker.k + 1, !.tid[m] = NextTid(m), !.last[m] = last]
           \/ FailPoll(m, NextTid(m))
    BY <2>1, Zenon DEF ReadGroup
  <2>a. device' = [device EXCEPT ![m].wire = answer.rest,
                   ![m].seen = IF Executed(o) THEN StoreGroup(@, p, group, data) ELSE @]
    BY <2>1, Zenon DEF ReadGroup
  <2> HIDE DEF p, group, table, data, answer, last
  <2>b. m \in Mods
    BY <2>2 DEF Ready, FieldInv, WorkInv
  <2>3. device' = [device EXCEPT ![m] = [device[m] EXCEPT !.wire = answer.rest, !.seen = seen]]
    BY <1>0, <2>a, <2>b DEF DeviceFields
  <2> HIDE DEF seen
  <2>4. \A x \in Mods : device'[x].regs = device[x].regs
    BY <1>0, <2>3 DEF DeviceFields
  <2>5. worker'.pc = "read" \/ (worker'.pc = "publish" /\ worker'.next = "idle")
    BY <1>0, <2>2 DEF FailPoll, WorkerFields
  <2>6. QED
    BY <2>4, <2>5, NearFrame DEF ConnInv, ReadInv
<1>3. QED
  BY <1>1, <1>2


(* A write request keeps the neighbours; after a read the worker has the   *)
(* register as the device has it, because the answer is to this request.   *)
LEMMA NearWrites ==
  ASSUME Ready, NearInv, NEW o \in Outcomes, WriteStep(o)
  PROVE  NearInv'
<1> DEFINE m == worker.m
           k == worker.k
           p == plan.modbus[m]
           op == p.writes[k]
           data == IF op.fc = 3 THEN Words(device[m].regs, "holding", op.at.start, 1) ELSE <<0>>
           answer == Transact(m, o, op.fc, data)
           regs == IF Executed(o) THEN Written(p, op, device[m].regs) ELSE device[m].regs
<1>0. Mods' = Mods /\ plan' = plan
  BY DEF Ready, Kept, Mods
<1>1. /\ DOMAIN worker = WorkerFields /\ m \in Mods /\ worker.pc = "write" /\ worker.conn[m]
      /\ DOMAIN device = Mods /\ DOMAIN device[m] = DeviceFields /\ k \in Nat \ {0}
      /\ Quiet(device[m].wire, worker.tid[m]) /\ FreshRead(p, k, worker.reg)
      /\ RegsKept(p, device[m].regs)
  <2>1. worker.pc = "write"
    BY Zenon DEF WriteStep
  <2>2. /\ m \in Mods /\ DOMAIN worker = WorkerFields
        /\ DOMAIN device = Mods /\ \A x \in Mods : DOMAIN device[x] = DeviceFields
    BY <2>1 DEF Ready, FieldInv, FormInv, WorkInv, WorkerForm, DeviceForm
  <2>3. worker.conn[m] /\ k \in Nat \ {0} /\ FreshRead(p, k, worker.reg) /\ RegsKept(p, device[m].regs)
    BY <2>1, <2>2 DEF NearInv, ConnInv, ReadInv, RegsInv
  <2>4. Quiet(device[m].wire, worker.tid[m])
    BY <2>2, <2>3, Zenon DEF Ready, FieldInv, WireInv
  <2>5. QED
    BY <2>1, <2>2, <2>3, <2>4, Zenon
<1>2. WritesPlanned(p) /\ Len(p.writes) \in Nat
  <2>1. WritesPlanned(p)
    BY <1>1, PlanWrites, Zenon DEF Ready, FieldInv, FormInv
  <2>2. QED
    BY <2>1, Zenon DEF WritesPlanned
<1>3. /\ answer.ok => worker' = [worker EXCEPT !.k = k + 1, !.tid[m] = NextTid(m), !.reg = answer.data[1]]
      /\ ~answer.ok => FailPoll(m, NextTid(m))
  BY Zenon DEF WriteStep
<1>4. device' = [device EXCEPT ![m] = [device[m] EXCEPT !.wire = answer.rest, !.regs = regs]]
  BY <1>1 DEF WriteStep, DeviceFields
<1>5. answer.ok => answer.data = data
  <2> HIDE DEF data
  <2>1. QED
    BY <1>1, QuietKept
<1>5a. worker.k <= Len(p.writes)
  BY Zenon DEF WriteStep
<1>6. k \in 1..Len(p.writes)
  <2> HIDE DEF p
  <2>1. QED
    BY <1>1, <1>2, <1>5a
<1>7. RegsKept(p, regs)
  BY <1>1, <1>2, <1>6, WrittenKeeps
<1>8. ASSUME op.fc = 3, NEW i \in Range(p.bits), op.at.start = p.points[i].pdu
      PROVE  Others(p.points[i], data[1])
  <2>1. data[1] = device[m].regs[<<"holding", op.at.start + 1 - 1>>]
    BY <1>8 DEF Words
  <2>2. p.points[i].pdu \in Int
    <3>1. <<"holding", p.points[i].pdu>> \in Registers(p)
      BY <1>2, Zenon DEF WritesPlanned, BitReg
    <3>2. QED
      BY <3>1 DEF Registers
  <2>3. data[1] = device[m].regs[BitReg(p.points[i])]
    <3>1. op.at.start + 1 - 1 = p.points[i].pdu
      BY <1>8, <2>2
    <3>2. QED
      BY <2>1, <3>1, Zenon DEF BitReg
  <2>4. QED
    BY <1>1, <2>3, Zenon DEF RegsKept
<1> HIDE DEF p, op, data, answer, regs
<1>9. RegsInv'
  <2>1. \A x \in Mods : device'[x].regs = IF x = m THEN regs ELSE device[x].regs
    BY <1>1, <1>4 DEF DeviceFields
  <2>2. QED
    BY <1>0, <1>7, <2>1 DEF RegsInv, NearInv, p
<1>10. CASE ~answer.ok
  <2>1. worker'.pc = "publish" /\ worker'.next = "idle"
    BY <1>1, <1>3, <1>10 DEF FailPoll, WorkerFields
  <2>2. QED
    BY <1>9, <2>1 DEF NearInv, ConnInv, ReadInv
<1>11. CASE answer.ok
  <2>1. /\ worker'.pc = "write" /\ worker'.m = m /\ worker'.conn = worker.conn
        /\ worker'.k = k + 1 /\ worker'.reg = data[1]
    BY <1>1, <1>3, <1>5, <1>11 DEF WorkerFields
  <2>2. FreshRead(p, k + 1, data[1])
    <3>1. (k + 1) - 1 = k
      BY <1>1
    <3>2. QED
      BY <1>8, <3>1 DEF FreshRead, op
  <2>3. plan'.modbus[worker'.m] = p
    BY <1>0, <2>1 DEF p
  <2>4. ReadInv'
    BY <1>1, <2>1, <2>2, <2>3 DEF ReadInv
  <2>5. QED
    BY <1>1, <1>9, <2>1, <2>4 DEF NearInv, ConnInv
<1>12. QED
  BY <1>10, <1>11

(* The field changes inputs only.                                          *)
LEMMA NearField ==
  ASSUME Ready, NearInv, FieldChanges
  PROVE  NearInv'
<1>0. Mods' = Mods /\ plan' = plan /\ worker' = worker
  BY DEF Ready, Kept, Mods, FieldChanges, Change
<1>1. PICK w : device' = [m \in Mods |-> [device[m] EXCEPT !.regs =
              [r \in DOMAIN @ |-> IF r \in InputRegisters(plan.modbus[m]) THEN w ELSE @[r]]]]
  BY Zenon DEF FieldChanges
<1>2. ASSUME NEW m \in Mods PROVE RegsKept(plan.modbus[m], device'[m].regs)
  <2> DEFINE p == plan.modbus[m]
             old == device[m].regs
             new == [r \in DOMAIN old |-> IF r \in InputRegisters(p) THEN w ELSE old[r]]
  <2>1. DOMAIN device[m] = DeviceFields
    BY DEF Ready, FieldInv, FormInv, DeviceForm
  <2>2. device'[m].regs = new
    BY <1>1, <2>1 DEF DeviceFields
  <2>3. WritesPlanned(p) /\ RegsKept(p, old)
    BY PlanWrites, Zenon DEF Ready, FieldInv, FormInv, NearInv, RegsInv
  <2> HIDE DEF p, old
  <2>4. DOMAIN new = Registers(p) /\ \A r \in Registers(p) \ InputRegisters(p) : new[r] = old[r]
    BY <2>3 DEF RegsKept
  <2>5. \A i \in Range(p.bits) : BitReg(p.points[i]) \in Registers(p) \ InputRegisters(p)
    BY <2>3, Zenon DEF WritesPlanned
  <2> HIDE DEF new
  <2>6. RegsKept(p, new)
    BY <2>3, <2>4, <2>5, Zenon DEF RegsKept
  <2>7. QED
    BY <2>2, <2>6 DEF p
<1>3. RegsInv'
  BY <1>0, <1>2 DEF RegsInv
<1>4. QED
  BY <1>0, <1>3 DEF NearInv, ConnInv, ReadInv

(* At start every register is as the device has it.                        *)
LEMMA NearInit ==
  ASSUME Init
  PROVE  NearInv
<1>0. /\ map \in Maps /\ plan = PlanOf(map)
      /\ worker = [pc |-> "none", m |-> 0, k |-> 0, next |-> "", mail |-> <<>>, force |-> FALSE,
                   inSim |-> FALSE, stop |-> FALSE, reg |-> 0,
                   last |-> [m \in Mods |-> [n \in 1..plan.modbus[m].ins |-> 0]],
                   conn |-> [m \in Mods |-> FALSE], tid |-> [m \in Mods |-> 1]]
      /\ device = [m \in Mods |->
           [regs |-> [r \in Registers(plan.modbus[m]) |-> Background(plan.modbus[m], r)],
            wire |-> <<>>, seen |-> [n \in 1..plan.modbus[m].ins |-> 0]]]
  BY Zenon DEF Init
<1>1. worker.pc = "none" /\ map \in Maps /\ plan = PlanOf(map)
  BY <1>0, Zenon
<1>2. ASSUME NEW m \in Mods PROVE RegsKept(plan.modbus[m], device[m].regs)
  <2> DEFINE p == plan.modbus[m]
             regs == [r \in Registers(p) |-> Background(p, r)]
  <2>1. device[m].regs = regs
    BY <1>0, Zenon
  <2>2. WritesPlanned(p)
    BY <1>1, PlanWrites, Zenon DEF PlanInv
  <2> HIDE DEF p
  <2>3. ASSUME NEW i \in Range(p.bits) PROVE Others(p.points[i], regs[BitReg(p.points[i])])
    <3>1. BitReg(p.points[i]) \in Registers(p) \ InputRegisters(p)
      BY <2>2, Zenon DEF WritesPlanned
    <3>2. regs[BitReg(p.points[i])] = WordBase - 1
      BY <3>1 DEF Background, BitReg, IsBitTable
    <3>3. WordBase - 1 \in 0..(WordBase - 1) /\ \A b \in 0..(WordBits - 1) : BitOf(WordBase - 1, b) = 1
      BY BitsAssumption
    <3>4. QED
      BY <3>2, <3>3, Zenon DEF Others
  <2>4. RegsKept(p, regs)
    BY <2>3 DEF RegsKept
  <2>5. QED
    BY <2>1, <2>4 DEF p
<1>3. QED
  BY <1>1, <1>2 DEF NearInv, RegsInv, ConnInv, ReadInv

(* Every step keeps the neighbours.                                        *)
LEMMA NearStep ==
  ASSUME FieldInv, NearInv, [Next]_vars
  PROVE  NearInv'
<1>0. Ready /\ plan' = plan /\ Mods' = Mods
  BY PlanKept DEF Ready, Kept, Mods
<1>1. CASE UNCHANGED <<worker, device>>
  BY <1>0, <1>1 DEF NearInv, RegsInv, ConnInv, ReadInv
<1>2. CASE Worker
  BY <1>0, <1>2, NearMoves, NearReads, NearWrites DEF Worker
<1>3. CASE Stop \/ \E n \in 0..2 : Start(n)
  BY <1>0, <1>3, NearMoves
<1>4. CASE Scan
  BY <1>1, <1>4, Zenon DEF Scan, ScanBegin, ScanSnap, ScanOverlay, ScanGpio, ScanLogic, PostMail,
     ApplyGpio, Joined
<1>5. CASE Surroundings
  BY <1>0, <1>1, <1>5, NearField, Zenon DEF Surroundings, Tick, SetMode, Inject, Change
<1>6. CASE UNCHANGED vars
  BY <1>1, <1>6 DEF vars
<1>7. QED
  BY <1>2, <1>3, <1>4, <1>5, <1>6 DEF Next

(* The requests of an accepted module touch its points only, and each      *)
(* point but the output bits is in one of them.                            *)
ExactModule(p) ==
  LET all == p.reads \o p.coils \o p.regs
      inGroups(i) == {n \in DOMAIN all : i \in Range(all[n].members)}
  IN /\ \A i \in DOMAIN p.points \ Range(p.bits) : Cardinality(inGroups(i)) = 1
     /\ \A n \in DOMAIN all :
          /\ all[n].start..(all[n].start + all[n].qty - 1)
               = UNION {Span(p.points[i]) : i \in Range(all[n].members)}
          /\ Cardinality({p.points[i].table : i \in Range(all[n].members)}) = 1

(* Grouping gives such requests for every accepted module.                 *)
LEMMA ModuleExact ==
  ASSUME NEW p, ModuleWell(p)
  PROVE  ExactModule(p)
<1> DEFINE all == p.reads \o p.coils \o p.regs
           inGroups(i) == {n \in DOMAIN all : i \in Range(all[n].members)}
           B == BitSet(p.points)
<1>1. Exact(p.points, all, DOMAIN p.points \ B) /\ Range(p.bits) = B
  BY AllExact, BitsOfModule DEF ModuleWell
<1> HIDE DEF all, B
<1>2. all \in Seq(Group) /\ DOMAIN all = 1..Len(all)
  BY <1>1 DEF Exact
<1>3. ASSUME NEW i \in DOMAIN p.points \ B PROVE Cardinality(inGroups(i)) = 1
  <2>1. OneGroup(all, i)
    BY <1>1, Zenon DEF Exact
  <2>2. PICK n \in 1..Len(all) : /\ i \in Range(all[n].members)
                                 /\ \A k \in 1..Len(all) : i \in Range(all[k].members) => k = n
    BY <2>1, Zenon DEF OneGroup
  <2>3. inGroups(i) = {n}
    BY <1>2, <2>2
  <2>4. QED
    BY <2>3, FS_Singleton
<1>4. ASSUME NEW n \in DOMAIN all
      PROVE  /\ all[n].start..(all[n].start + all[n].qty - 1)
                  = UNION {Span(p.points[i]) : i \in Range(all[n].members)}
             /\ Cardinality({p.points[i].table : i \in Range(all[n].members)}) = 1
  <2> DEFINE g == all[n]
  <2>1. Fits(p.points, g, DOMAIN p.points \ B) /\ g \in Group
    <3>1. Fits(p.points, g, DOMAIN p.points \ B)
      BY <1>1, <1>2, Zenon DEF Exact
    <3>2. g \in Group
      BY <1>2
    <3>3. QED
      BY <3>1, <3>2
  <2> HIDE DEF g
  <2>2. g.members[1] \in Range(g.members)
    <3>1. g.members \in Seq(Nat) /\ Len(g.members) > 0
      BY <2>1 DEF Fits, Group
    <3>2. QED
      BY <3>1 DEF Range
  <2>3. {p.points[i].table : i \in Range(g.members)} = {p.points[g.members[1]].table}
    BY <2>1, <2>2 DEF Fits
  <2>4. Cardinality({p.points[i].table : i \in Range(g.members)}) = 1
    BY <2>3, FS_Singleton
  <2>5. g.start..(g.start + g.qty - 1) = UNION {Span(p.points[i]) : i \in Range(g.members)}
    BY <2>1, Zenon DEF Fits
  <2>6. QED
    BY <2>4, <2>5 DEF g
<1>5. QED
  BY <1>1, <1>3, <1>4, Zenon DEF ExactModule, all

(* The driver leaves the rest of a device alone.  Its requests are exact   *)
(* for every map the runtime accepts, and the worker keeps every register  *)
(* that no binding covers and every other bit of the registers its output  *)
(* bits live in, although it writes whole registers, whatever is lost,     *)
(* doubled or late between the read and the write.                         *)
THEOREM NeighboursAreKept == Spec => []NeighboursKept
<1>1. Init => FieldInv /\ NearInv
  BY FieldInit, NearInit
<1>2. FieldInv /\ NearInv /\ [Next]_vars => (FieldInv /\ NearInv)'
  BY FieldStep, NearStep
<1>3. NearInv => OthersKept
  BY DEF NearInv, RegsInv, RegsKept, Others, BitReg, OthersKept
<1>4. FieldInv => RequestsExact
  <2>1. ASSUME FieldInv, NEW m \in Mods PROVE ExactModule(plan.modbus[m])
    BY <2>1, PlanModules, ModuleExact DEF FieldInv, FormInv, PlanInv, Mods
  <2>2. QED
    BY <2>1, Zenon DEF RequestsExact, ExactModule
<1>5. QED
  BY <1>1, <1>2, <1>3, <1>4, PTL DEF Spec, NeighboursKept
=============================================================================
