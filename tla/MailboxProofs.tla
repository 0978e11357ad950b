--------------------------- MODULE MailboxProofs ----------------------------
(***************************************************************************)
(* Proofs about Mailbox, for any number of senders and any finite set of   *)
(* addresses: the lists stay whole, every address is in one place, and the *)
(* mailbox implements PriorityFifo.                                        *)
(***************************************************************************)
EXTENDS Mailbox, FiniteSetTheorems, FunctionTheorems, SequenceTheorems, WellFoundedInduction, TLAPS

-----------------------------------------------------------------------------
(* Names, numbers and sequences.                                           *)

Cells == Nodes \cup Sentinels

Links == [Cells -> Cells \cup {Null}]

\* The sentinels are apart from each other and from the messages.
LEMMA Names ==
  /\ Queues = {"urgent", "normal"}
  /\ \A q \in Queues : Head_(q) \in Cells /\ Tail_(q) \in Cells /\ Head_(q) \notin Nodes /\ Tail_(q) \notin Nodes
  /\ \A p, q \in Queues : /\ Head_(p) # Tail_(q)
                          /\ Head_(p) = Head_(q) => p = q
                          /\ Tail_(p) = Tail_(q) => p = q
  /\ Null \notin Cells /\ Null \notin Nodes /\ Null \notin Tags /\ Nodes \cap Tags = {}
  /\ Nodes \subseteq Cells
  /\ IsFiniteSet(Nodes) /\ Cardinality(Nodes) \in Nat
  /\ \A x \in Cells : x \in Nodes \/ \E q \in Queues : x \in {Head_(q), Tail_(q)}
  <1>1. IsFiniteSet(Nodes) /\ Cardinality(Nodes) \in Nat
    BY NodesAssumption, FS_CardinalityType DEF NodesAssumption
  <1>2. \A q \in Queues : Head_(q) \in Sentinels /\ Tail_(q) \in Sentinels
    BY DEF Sentinels
  <1>3. \A x \in Sentinels : \E q \in Queues : x \in {Head_(q), Tail_(q)}
    BY DEF Sentinels
  <1>4. \A p, q \in Queues : /\ Head_(p) # Tail_(q)
                             /\ Head_(p) = Head_(q) => p = q
                             /\ Tail_(p) = Tail_(q) => p = q
    BY DEF Head_, Tail_
  <1> QED
    BY <1>1, <1>2, <1>3, <1>4, NodesAssumption DEF NodesAssumption, Cells, Queues

Less == {p \in Nat \X Nat : p[1] < p[2]}

\* Every set of numbers that is not empty has a least one: the induction along
\* a list needs no more.
LEMMA Least ==
  ASSUME NEW S, S \subseteq Nat, S # {}
  PROVE  \E x \in S : \A y \in S : x <= y
  <1>1. IsWellFoundedOn(Less, Nat)
    BY NatLessThanWellFounded DEF OpToRel, Less
  <1>2. PICK x \in S : \A y \in S : ~(<<y, x>> \in Less)
    BY <1>1, WFMin
  <1>3. ASSUME NEW y \in S PROVE x <= y
    <2>1. x \in Nat /\ y \in Nat
      BY <1>2
    <2>2. <<y, x>> \in Less <=> y < x
      BY <2>1 DEF Less
    <2> QED
      BY <1>2, <2>1, <2>2
  <1> QED
    BY <1>3

\* What holds before the first step, and after each if before it, holds after
\* the last.
LEMMA Steps ==
  ASSUME NEW n \in Nat, NEW S, 0 \in S, \A k \in 1 .. n : k - 1 \in S => k \in S
  PROVE  \A k \in 0 .. n : k \in S
  <1> DEFINE Bad == {k \in 0 .. n : k \notin S}
  <1>1. SUFFICES ASSUME Bad # {} PROVE FALSE
    BY Zenon
  <1>2. Bad \subseteq Nat
    OBVIOUS
  <1>3. PICK k \in Bad : \A j \in Bad : k <= j
    <2> HIDE DEF Bad
    <2> QED
      BY <1>1, <1>2, Least
  <1>4. k \in 0 .. n /\ k \notin S
    BY <1>3
  <1>5. k # 0
    BY <1>4
  <1>6. k \in 1 .. n /\ k - 1 \in 0 .. n /\ ~(k <= k - 1)
    BY <1>4, <1>5
  <1>7. k - 1 \in S
    BY <1>3, <1>6
  <1> QED
    BY <1>4, <1>6, <1>7

\* f starts with v and makes each step with the function that T has for it.
Solves(f, V, v, n, T) == f \in [0 .. n -> V] /\ f[0] = v /\ \A k \in 1 .. n : f[k] = T[k][f[k - 1]]

\* A recursion over numbers has a solution.
LEMMA Recursion ==
  ASSUME NEW V, NEW v \in V, NEW n \in Nat, NEW T \in [1 .. n -> [V -> V]]
  PROVE  \E f : Solves(f, V, v, n, T)
  <1> DEFINE Sol(f, m) == f \in [0 .. m -> V] /\ f[0] = v /\ \A k \in 1 .. m : f[k] = T[k][f[k - 1]]
             P == {m \in 0 .. n : \E f : Sol(f, m)}
  <1>2. 0 \in P
    <2> DEFINE g == [k \in 0 .. 0 |-> v]
    <2>1. Sol(g, 0)
      OBVIOUS
    <2> HIDE DEF Sol
    <2> QED
      BY <2>1
  <1>3. ASSUME NEW m \in 1 .. n, m - 1 \in P PROVE m \in P
    <2>1. m - 1 \in 0 .. n /\ m \in 0 .. n /\ m \in Nat /\ m # 0
      OBVIOUS
    <2>2. PICK f : Sol(f, m - 1)
      BY <1>3, <2>1
    <2> DEFINE g == [k \in 0 .. m |-> IF k = m THEN T[m][f[m - 1]] ELSE f[k]]
    <2>3. f \in [0 .. m - 1 -> V]
      BY <2>2
    <2>4. f[m - 1] \in V
      BY <2>1, <2>3
    <2>5. T[m][f[m - 1]] \in V
      BY <2>4
    <2>6. \A k \in 0 .. m : k # m => k \in 0 .. m - 1
      BY <2>1
    <2>7. g \in [0 .. m -> V]
      BY <2>3, <2>5, <2>6
    <2>8. g[0] = v
      BY <2>1, <2>2
    <2>9. ASSUME NEW k \in 1 .. m PROVE g[k] = T[k][g[k - 1]]
      <3>1. k \in 0 .. m /\ k - 1 \in 0 .. m /\ k - 1 # m
        BY <2>1
      <3>2. g[k - 1] = f[k - 1]
        BY <3>1
      <3>3. CASE k = m
        BY <3>1, <3>2, <3>3
      <3>4. CASE k # m
        <4>1. k \in 1 .. m - 1
          BY <2>1, <3>4
        <4>2. f[k] = T[k][f[k - 1]]
          BY <2>2, <4>1
        <4> QED
          BY <3>1, <3>2, <3>4, <4>2
      <3> QED
        BY <3>3, <3>4
    <2>10. Sol(g, m)
      BY <2>7, <2>8, <2>9
    <2> HIDE DEF Sol
    <2> QED
      BY <2>1, <2>10
  <1>4. n \in P
    <2> HIDE DEF P
    <2>1. n \in 0 .. n
      OBVIOUS
    <2> QED
      BY <1>2, <1>3, <2>1, Steps
  <1>5. \E f : Sol(f, n)
    BY <1>4
  <1> QED
    BY <1>5 DEF Solves

-----------------------------------------------------------------------------
(* Lists.                                                                  *)

In(n, s) == \E i \in 1 .. Len(s) : s[i] = n

Once(s) == \A i, j \in 1 .. Len(s) : s[i] = s[j] => i = j

\* The cell at a place of the list of queue q with the elements s.
Place(q, s, i) == IF i = 0 THEN Head_(q) ELSE IF i = Len(s) + 1 THEN Tail_(q) ELSE s[i]

\* The links nx make a list of queue q with the elements s.
Linked(nx, q, s) ==
    /\ \A i \in 0 .. Len(s) : nx[Place(q, s, i)] = Place(q, s, i + 1)
    /\ nx[Tail_(q)] = Place(q, s, Len(s))

\* The links nx lead from top, newest first, along c.
Stacked(nx, top, c) ==
    /\ IF c = <<>> THEN top \in Tags ELSE top = c[1]
    /\ \A i \in 1 .. Len(c) : nx[c[i]] = IF i = Len(c) THEN Null ELSE c[i + 1]

\* A sequence of messages, as a function.
LEMMA SeqIs ==
  ASSUME NEW S, NEW s \in Seq(S)
  PROVE  /\ Len(s) \in Nat /\ DOMAIN s = 1 .. Len(s) /\ s \in [1 .. Len(s) -> S]
         /\ \A i \in 1 .. Len(s) : s[i] \in S
         /\ s = <<>> <=> Len(s) = 0
  BY LenProperties, EmptySeq

\* One element, and then s.
LEMMA InFront ==
  ASSUME NEW S, NEW s \in Seq(S), NEW n \in S
  PROVE  /\ <<n>> \o s \in Seq(S) /\ Len(<<n>> \o s) = Len(s) + 1
         /\ (<<n>> \o s)[1] = n
         /\ \A i \in 1 .. Len(s) : (<<n>> \o s)[i + 1] = s[i]
         /\ \A i \in 2 .. Len(s) + 1 : (<<n>> \o s)[i] = s[i - 1]
  <1>1. Len(s) \in Nat /\ <<n>> \in Seq(S) /\ Len(<<n>>) = 1 /\ <<n>>[1] = n
    BY SeqIs
  <1>2. /\ <<n>> \o s \in Seq(S) /\ Len(<<n>> \o s) = 1 + Len(s)
        /\ \A i \in 1 .. 1 + Len(s) : (<<n>> \o s)[i] = IF i <= 1 THEN <<n>>[i] ELSE s[i - 1]
    BY <1>1, ConcatProperties
  <1>3. \A i \in 1 .. Len(s) : i + 1 \in 1 .. 1 + Len(s) /\ ~(i + 1 <= 1) /\ (i + 1) - 1 = i
    BY <1>1
  <1>4. \A i \in 2 .. Len(s) + 1 : i \in 1 .. 1 + Len(s) /\ ~(i <= 1)
    BY <1>1
  <1>5. 1 \in 1 .. 1 + Len(s)
    BY <1>1
  <1> QED
    BY <1>1, <1>2, <1>3, <1>4, <1>5

\* What is in it.
LEMMA InFrontIn ==
  ASSUME NEW S, NEW s \in Seq(S), NEW n \in S
  PROVE  /\ \A x : In(x, <<n>> \o s) <=> x = n \/ In(x, s)
         /\ Once(s) /\ ~In(n, s) => Once(<<n>> \o s)
  <1> DEFINE t == <<n>> \o s
  <1>1. /\ Len(s) \in Nat /\ Len(t) = Len(s) + 1 /\ t[1] = n
        /\ \A i \in 1 .. Len(s) : t[i + 1] = s[i]
        /\ \A i \in 2 .. Len(s) + 1 : t[i] = s[i - 1]
    BY InFront, SeqIs
  <1> HIDE DEF t
  <1>2. \A i \in 1 .. Len(s) : i + 1 \in 1 .. Len(t)
    BY <1>1
  <1>3. \A i \in 1 .. Len(t) : i = 1 \/ (i \in 2 .. Len(s) + 1 /\ i - 1 \in 1 .. Len(s))
    BY <1>1
  <1>4. 1 \in 1 .. Len(t)
    BY <1>1
  <1>5. \A x : In(x, t) <=> x = n \/ In(x, s)
    <2> SUFFICES ASSUME NEW x PROVE In(x, t) <=> x = n \/ In(x, s)
      OBVIOUS
    <2>1. ASSUME In(x, t) PROVE x = n \/ In(x, s)
      <3>1. PICK i \in 1 .. Len(t) : t[i] = x
        BY <2>1 DEF In
      <3> QED
        BY <1>1, <1>3, <3>1 DEF In
    <2>2. ASSUME In(x, s) PROVE In(x, t)
      <3>1. PICK i \in 1 .. Len(s) : s[i] = x
        BY <2>2 DEF In
      <3> QED
        BY <1>1, <1>2, <3>1 DEF In
    <2>3. In(n, t)
      BY <1>1, <1>4 DEF In
    <2> QED
      BY <2>1, <2>2, <2>3
  <1>6. ASSUME Once(s), ~In(n, s), NEW i \in 1 .. Len(t), NEW j \in 1 .. Len(t), t[i] = t[j]
        PROVE  i = j
    <2>1. CASE i = 1 /\ j = 1
      BY <2>1
    <2>2. CASE i = 1 /\ j # 1
      BY <1>1, <1>3, <1>6, <2>2 DEF In
    <2>3. CASE i # 1 /\ j = 1
      BY <1>1, <1>3, <1>6, <2>3 DEF In
    <2>4. CASE i # 1 /\ j # 1
      <3>1. s[i - 1] = s[j - 1] /\ i - 1 \in 1 .. Len(s) /\ j - 1 \in 1 .. Len(s)
        BY <1>1, <1>3, <1>6, <2>4
      <3>2. i - 1 = j - 1
        BY <1>6, <3>1 DEF Once
      <3> QED
        BY <3>2
    <2> QED
      BY <2>1, <2>2, <2>3, <2>4
  <1> QED
    BY <1>5, <1>6 DEF Once, t

\* What is in a sequence that follows another.
LEMMA ConcatIn ==
  ASSUME NEW S, NEW s \in Seq(S), NEW t \in Seq(S)
  PROVE  /\ \A x : In(x, s \o t) <=> In(x, s) \/ In(x, t)
         /\ Once(s) /\ Once(t) /\ (\A x : ~(In(x, s) /\ In(x, t))) => Once(s \o t)
  <1> DEFINE r == s \o t
  <1>1. /\ Len(s) \in Nat /\ Len(t) \in Nat /\ Len(r) = Len(s) + Len(t)
        /\ \A i \in 1 .. Len(s) + Len(t) : r[i] = IF i <= Len(s) THEN s[i] ELSE t[i - Len(s)]
    BY ConcatProperties, SeqIs
  <1> HIDE DEF r
  <1>2. \A i \in 1 .. Len(s) : i \in 1 .. Len(r) /\ r[i] = s[i]
    BY <1>1
  <1>3. ASSUME NEW i \in 1 .. Len(t) PROVE Len(s) + i \in 1 .. Len(r) /\ r[Len(s) + i] = t[i]
    <2>1. Len(s) + i \in 1 .. Len(s) + Len(t) /\ ~(Len(s) + i <= Len(s)) /\ (Len(s) + i) - Len(s) = i
      BY <1>1
    <2> QED
      BY <1>1, <2>1
  <1>4. \A i \in 1 .. Len(r) : \/ i \in 1 .. Len(s) /\ r[i] = s[i]
                               \/ i - Len(s) \in 1 .. Len(t) /\ r[i] = t[i - Len(s)]
    BY <1>1
  <1>5. \A x : In(x, r) <=> In(x, s) \/ In(x, t)
    <2> SUFFICES ASSUME NEW x PROVE In(x, r) <=> In(x, s) \/ In(x, t)
      OBVIOUS
    <2>1. ASSUME In(x, r) PROVE In(x, s) \/ In(x, t)
      <3>1. PICK i \in 1 .. Len(r) : r[i] = x
        BY <2>1 DEF In
      <3> QED
        BY <1>4, <3>1 DEF In
    <2>2. ASSUME In(x, s) PROVE In(x, r)
      BY <1>2, <2>2 DEF In
    <2>3. ASSUME In(x, t) PROVE In(x, r)
      <3>1. PICK i \in 1 .. Len(t) : t[i] = x
        BY <2>3 DEF In
      <3> QED
        BY <1>3, <3>1 DEF In
    <2> QED
      BY <2>1, <2>2, <2>3
  <1>6. ASSUME Once(s), Once(t), \A x : ~(In(x, s) /\ In(x, t)),
               NEW i \in 1 .. Len(r), NEW j \in 1 .. Len(r), r[i] = r[j]
        PROVE  i = j
    <2>1. CASE i \in 1 .. Len(s) /\ r[i] = s[i] /\ j \in 1 .. Len(s) /\ r[j] = s[j]
      BY <1>6, <2>1 DEF Once
    <2>2. CASE i \in 1 .. Len(s) /\ r[i] = s[i] /\ j - Len(s) \in 1 .. Len(t) /\ r[j] = t[j - Len(s)]
      BY <1>6, <2>2 DEF In
    <2>3. CASE j \in 1 .. Len(s) /\ r[j] = s[j] /\ i - Len(s) \in 1 .. Len(t) /\ r[i] = t[i - Len(s)]
      BY <1>6, <2>3 DEF In
    <2>4. CASE /\ i - Len(s) \in 1 .. Len(t) /\ r[i] = t[i - Len(s)]
               /\ j - Len(s) \in 1 .. Len(t) /\ r[j] = t[j - Len(s)]
      <3>1. i - Len(s) = j - Len(s)
        BY <1>6, <2>4 DEF Once
      <3> QED
        BY <1>1, <3>1
    <2> QED
      BY <1>4, <2>1, <2>2, <2>3, <2>4
  <1> QED
    BY <1>5, <1>6 DEF Once, r

\* What remains after the first.
LEMMA TailIn ==
  ASSUME NEW S, NEW s \in Seq(S), s # <<>>
  PROVE  /\ Tail(s) \in Seq(S) /\ Len(Tail(s)) = Len(s) - 1 /\ s[1] \in S
         /\ \A i \in 1 .. Len(s) - 1 : Tail(s)[i] = s[i + 1]
         /\ \A x : In(x, s) <=> x = s[1] \/ In(x, Tail(s))
         /\ Once(s) => Once(Tail(s)) /\ ~In(s[1], Tail(s))
  <1> DEFINE t == Tail(s)
  <1>1. /\ Len(s) \in Nat /\ Len(s) # 0 /\ t \in Seq(S) /\ Len(t) = Len(s) - 1
        /\ \A i \in 1 .. Len(t) : t[i] = s[i + 1]
    BY HeadTailProperties, SeqIs
  <1>2. s[1] \in S
    BY <1>1, SeqIs
  <1> HIDE DEF t
  <1>3. \A i \in 1 .. Len(t) : i + 1 \in 1 .. Len(s) /\ i + 1 # 1
    BY <1>1
  <1>4. \A i \in 1 .. Len(s) : i = 1 \/ (i - 1 \in 1 .. Len(t) /\ t[i - 1] = s[i])
    BY <1>1
  <1>5. \A x : In(x, s) <=> x = s[1] \/ In(x, t)
    <2> SUFFICES ASSUME NEW x PROVE In(x, s) <=> x = s[1] \/ In(x, t)
      OBVIOUS
    <2>1. ASSUME In(x, s) PROVE x = s[1] \/ In(x, t)
      <3>1. PICK i \in 1 .. Len(s) : s[i] = x
        BY <2>1 DEF In
      <3> QED
        BY <1>4, <3>1 DEF In
    <2>2. ASSUME In(x, t) PROVE In(x, s)
      <3>1. PICK i \in 1 .. Len(t) : t[i] = x
        BY <2>2 DEF In
      <3> QED
        BY <1>1, <1>3, <3>1 DEF In
    <2>3. In(s[1], s)
      BY <1>1 DEF In
    <2> QED
      BY <2>1, <2>2, <2>3
  <1>6. ASSUME Once(s) PROVE Once(t) /\ ~In(s[1], t)
    <2>1. ASSUME NEW i \in 1 .. Len(t), NEW j \in 1 .. Len(t), t[i] = t[j] PROVE i = j
      <3>1. s[i + 1] = s[j + 1] /\ i + 1 \in 1 .. Len(s) /\ j + 1 \in 1 .. Len(s)
        BY <1>1, <1>3, <2>1
      <3>2. i + 1 = j + 1
        BY <1>6, <3>1 DEF Once
      <3> QED
        BY <3>2
    <2>2. ASSUME NEW i \in 1 .. Len(t), t[i] = s[1] PROVE FALSE
      <3>1. s[i + 1] = s[1] /\ i + 1 \in 1 .. Len(s) /\ 1 \in 1 .. Len(s)
        BY <1>1, <1>3, <2>2
      <3>2. i + 1 = 1
        BY <1>6, <3>1 DEF Once
      <3> QED
        BY <1>3, <3>2
    <2> QED
      BY <2>1, <2>2 DEF Once, In
  <1> QED
    BY <1>1, <1>2, <1>5, <1>6 DEF t

-----------------------------------------------------------------------------
(* The operations of linked_list.                                          *)

\* Where the places of a list are.
LEMMA Places ==
  ASSUME NEW q \in Queues, NEW s \in Seq(Nodes)
  PROVE  /\ Len(s) \in Nat
         /\ Place(q, s, 0) = Head_(q) /\ Place(q, s, Len(s) + 1) = Tail_(q)
         /\ \A i \in 1 .. Len(s) : Place(q, s, i) = s[i] /\ s[i] \in Nodes
         /\ \A i \in 0 .. Len(s) + 1 : Place(q, s, i) \in Cells
         /\ \A i \in 0 .. Len(s) : Place(q, s, i) # Tail_(q)
         /\ Once(s) => \A i, j \in 0 .. Len(s) + 1 : Place(q, s, i) = Place(q, s, j) => i = j
  <1>1. Len(s) \in Nat /\ \A i \in 1 .. Len(s) : s[i] \in Nodes
    BY SeqIs
  <1>2. Place(q, s, 0) = Head_(q) /\ Place(q, s, Len(s) + 1) = Tail_(q)
    BY <1>1 DEF Place
  <1>3. \A i \in 1 .. Len(s) : Place(q, s, i) = s[i] /\ s[i] \in Nodes
    BY <1>1 DEF Place
  <1>4. \A i \in 0 .. Len(s) + 1 : i = 0 \/ i = Len(s) + 1 \/ i \in 1 .. Len(s)
    BY <1>1
  <1>5. \A i \in 0 .. Len(s) + 1 : Place(q, s, i) \in Cells
    BY <1>2, <1>3, <1>4, Names
  <1>6. \A i \in 0 .. Len(s) : i = 0 \/ i \in 1 .. Len(s)
    BY <1>1
  <1>7. \A i \in 0 .. Len(s) : Place(q, s, i) # Tail_(q)
    BY <1>2, <1>3, <1>6, Names
  <1>8. ASSUME Once(s), NEW i \in 0 .. Len(s) + 1, NEW j \in 0 .. Len(s) + 1, Place(q, s, i) = Place(q, s, j)
        PROVE  i = j
    <2>1. CASE i \in 1 .. Len(s) /\ j \in 1 .. Len(s)
      BY <1>3, <1>8, <2>1 DEF Once
    <2> QED
      BY <1>2, <1>3, <1>4, <1>8, <2>1, Names
  <1> QED
    BY <1>1, <1>2, <1>3, <1>5, <1>7, <1>8

\* A list is as it was if the links of its own cells are.
LEMMA LinkedSame ==
  ASSUME NEW q \in Queues, NEW s \in Seq(Nodes), NEW nx, NEW ny, Linked(nx, q, s),
         ny[Head_(q)] = nx[Head_(q)], ny[Tail_(q)] = nx[Tail_(q)],
         \A x \in Nodes : In(x, s) => ny[x] = nx[x]
  PROVE  Linked(ny, q, s)
  <1>1. \A i \in 0 .. Len(s) : ny[Place(q, s, i)] = nx[Place(q, s, i)]
    <2>1. Len(s) \in Nat /\ \A i \in 0 .. Len(s) : i = 0 \/ i \in 1 .. Len(s)
      BY Places
    <2>2. \A i \in 1 .. Len(s) : Place(q, s, i) = s[i] /\ s[i] \in Nodes /\ In(s[i], s)
      BY Places DEF In
    <2> QED
      BY <2>1, <2>2, Places
  <1> QED
    BY <1>1 DEF Linked

\* So is a stack.
LEMMA StackedSame ==
  ASSUME NEW c \in Seq(Nodes), NEW nx, NEW ny, NEW top, Stacked(nx, top, c),
         \A x \in Nodes : In(x, c) => ny[x] = nx[x]
  PROVE  Stacked(ny, top, c)
  <1>1. \A i \in 1 .. Len(c) : c[i] \in Nodes /\ In(c[i], c)
    BY SeqIs DEF In
  <1> QED
    BY <1>1 DEF Stacked

\* init() and drain() leave an empty list.
LEMMA EmptiedIs ==
  ASSUME NEW q \in Queues, NEW nx \in Links
  PROVE  /\ Emptied(nx, q) \in Links
         /\ Linked(Emptied(nx, q), q, <<>>)
         /\ \A x \in Cells : x # Head_(q) /\ x # Tail_(q) => Emptied(nx, q)[x] = nx[x]
  <1> DEFINE ny == Emptied(nx, q)
  <1>1. Head_(q) \in Cells /\ Tail_(q) \in Cells /\ Head_(q) # Tail_(q)
    BY Names
  <1>2. /\ ny \in Links /\ ny[Head_(q)] = Tail_(q) /\ ny[Tail_(q)] = Head_(q)
        /\ \A x \in Cells : x # Head_(q) /\ x # Tail_(q) => ny[x] = nx[x]
    BY <1>1 DEF Emptied, Links
  <1> HIDE DEF ny
  <1>3. <<>> \in Seq(Nodes) /\ Len(<<>>) = 0
    BY EmptySeq
  <1>4. Place(q, <<>>, 0) = Head_(q) /\ Place(q, <<>>, 0 + 1) = Tail_(q)
    BY <1>3, Places
  <1>5. Linked(ny, q, <<>>)
    BY <1>2, <1>3, <1>4 DEF Linked
  <1> QED
    BY <1>2, <1>5 DEF ny

\* insert_after(): n goes in between a and b, behind the last of a.
LEMMA InsertedIs ==
  ASSUME NEW q \in Queues, NEW a \in Seq(Nodes), NEW b \in Seq(Nodes), NEW n \in Nodes, NEW nx \in Links,
         Linked(nx, q, a \o b), Once(a \o b), ~In(n, a \o b)
  PROVE  LET ny == InsertedAfter(nx, q, Place(q, a, Len(a)), n)
         IN  /\ ny \in Links
             /\ Linked(ny, q, a \o (<<n>> \o b))
             /\ \A x \in Cells : x # n /\ x # Head_(q) /\ x # Tail_(q) /\ ~In(x, a) => ny[x] = nx[x]
  <1> DEFINE pos == Place(q, a, Len(a))
             ny == InsertedAfter(nx, q, pos, n)
             s == a \o b
             t == a \o (<<n>> \o b)
             la == Len(a)
             lb == Len(b)
  <1>1. /\ la \in Nat /\ lb \in Nat /\ s \in Seq(Nodes) /\ Len(s) = la + lb
        /\ \A i \in 1 .. la + lb : s[i] = IF i <= la THEN a[i] ELSE b[i - la]
    BY ConcatProperties, SeqIs
  <1>2. /\ <<n>> \o b \in Seq(Nodes) /\ Len(<<n>> \o b) = lb + 1 /\ (<<n>> \o b)[1] = n
        /\ \A i \in 2 .. lb + 1 : (<<n>> \o b)[i] = b[i - 1]
    BY InFront
  <1>3. /\ t \in Seq(Nodes) /\ Len(t) = la + (lb + 1)
        /\ \A i \in 1 .. la + (lb + 1) : t[i] = IF i <= la THEN a[i] ELSE (<<n>> \o b)[i - la]
    BY <1>1, <1>2, ConcatProperties
  <1> HIDE DEF s, t, la, lb
  <1>4. /\ \A i \in 1 .. la : t[i] = s[i]
        /\ t[la + 1] = n
        /\ \A i \in la + 2 .. la + lb + 1 : t[i] = s[i - 1]
    <2>1. \A i \in 1 .. la : t[i] = s[i]
      BY <1>1, <1>3
    <2>2. la + 1 \in 1 .. la + (lb + 1) /\ ~(la + 1 <= la) /\ (la + 1) - la = 1
      BY <1>1
    <2>3. ASSUME NEW i \in la + 2 .. la + lb + 1 PROVE t[i] = s[i - 1]
      <3>1. /\ i \in 1 .. la + (lb + 1) /\ ~(i <= la) /\ i - la \in 2 .. lb + 1
            /\ i - 1 \in 1 .. la + lb /\ ~(i - 1 <= la) /\ (i - 1) - la = (i - la) - 1
        BY <1>1
      <3>2. t[i] = b[(i - la) - 1]
        BY <1>2, <1>3, <3>1
      <3>3. s[i - 1] = b[(i - 1) - la]
        BY <1>1, <3>1
      <3> QED
        BY <3>1, <3>2, <3>3
    <2> QED
      BY <1>2, <1>3, <2>1, <2>2, <2>3
  <1>5. /\ \A i \in 0 .. la : Place(q, t, i) = Place(q, s, i)
        /\ Place(q, t, la + 1) = n
        /\ \A i \in la + 2 .. la + lb + 2 : Place(q, t, i) = Place(q, s, i - 1)
    <2>1. \A i \in 0 .. la : Place(q, t, i) = Place(q, s, i)
      BY <1>1, <1>3, <1>4 DEF Place
    <2>2. Place(q, t, la + 1) = n
      BY <1>1, <1>3, <1>4 DEF Place
    <2>3. ASSUME NEW i \in la + 2 .. la + lb + 2 PROVE Place(q, t, i) = Place(q, s, i - 1)
      <3>1. CASE i = la + lb + 2
        BY <1>1, <1>3, <3>1, SMTT(30) DEF Place
      <3>2. CASE i # la + lb + 2
        <4>1. i \in la + 2 .. la + lb + 1 /\ i # 0 /\ i # Len(t) + 1 /\ i - 1 # 0 /\ i - 1 # Len(s) + 1
          BY <1>1, <1>3, <3>2
        <4> QED
          BY <1>4, <4>1 DEF Place
      <3> QED
        BY <3>1, <3>2
    <2> QED
      BY <2>1, <2>2, <2>3
  <1>6. pos = Place(q, s, la)
    <2>1. la = 0 \/ la \in 1 .. la
      BY <1>1
    <2>2. la # Len(s) + 1 /\ la # Len(a) + 1
      BY <1>1 DEF la
    <2> QED
      BY <1>1, <2>1, <2>2 DEF Place, la
  <1>7. /\ \A i \in 0 .. la + lb : nx[Place(q, s, i)] = Place(q, s, i + 1)
        /\ nx[Tail_(q)] = Place(q, s, la + lb)
    BY <1>1 DEF Linked, s
  <1>8. /\ Place(q, s, 0) = Head_(q) /\ Place(q, s, la + lb + 1) = Tail_(q)
        /\ \A i \in 1 .. la + lb : Place(q, s, i) = s[i] /\ In(s[i], s)
        /\ \A i \in 0 .. la + lb + 1 : Place(q, s, i) \in Cells
        /\ \A i, j \in 0 .. la + lb + 1 : Place(q, s, i) = Place(q, s, j) => i = j
        /\ ~In(n, s)
    <2>1. s \in Seq(Nodes) /\ Once(s) /\ ~In(n, s)
      BY <1>1 DEF s
    <2>2. \A i \in 1 .. Len(s) : In(s[i], s)
      BY DEF In
    <2>3. /\ Place(q, s, 0) = Head_(q) /\ Place(q, s, Len(s) + 1) = Tail_(q)
          /\ \A i \in 1 .. Len(s) : Place(q, s, i) = s[i]
          /\ \A i \in 0 .. Len(s) + 1 : Place(q, s, i) \in Cells
          /\ \A i, j \in 0 .. Len(s) + 1 : Place(q, s, i) = Place(q, s, j) => i = j
      BY <2>1, Places
    <2> QED
      BY <1>1, <2>1, <2>2, <2>3
  <1>9. \A i \in 0 .. la + lb + 1 : Place(q, s, i) # n
    <2>1. \A i \in 0 .. la + lb + 1 : i = 0 \/ i = la + lb + 1 \/ i \in 1 .. la + lb
      BY <1>1
    <2> QED
      BY <1>8, <2>1, Names
  <1>10. la \in 0 .. la + lb /\ la \in 0 .. la + lb + 1 /\ la + lb + 1 \in 0 .. la + lb + 1 /\ la # la + lb + 1
    BY <1>1
  <1>11. pos \in Cells /\ pos # Tail_(q) /\ pos # n /\ n # Tail_(q) /\ Tail_(q) \in Cells /\ n \in Cells
    BY <1>6, <1>8, <1>9, <1>10, Names
  <1>12. nx[pos] = Place(q, s, la + 1)
    BY <1>6, <1>7, <1>10
  <1>13. nx[pos] = Tail_(q) <=> lb = 0
    <2>1. la + 1 \in 0 .. la + lb + 1 /\ (la + 1 = la + lb + 1 <=> lb = 0)
      BY <1>1
    <2> QED
      BY <1>8, <1>10, <1>12, <2>1
  <1> HIDE DEF pos
  <1>14. /\ ny[n] = nx[pos] /\ ny[pos] = n
         /\ ny[Tail_(q)] = IF nx[pos] = Tail_(q) THEN n ELSE nx[Tail_(q)]
         /\ \A x \in Cells : x # n /\ x # pos /\ x # Tail_(q) => ny[x] = nx[x]
         /\ ny \in Links
    BY <1>11 DEF InsertedAfter, Links
  <1> HIDE DEF ny
  <1>15. ASSUME NEW i \in 0 .. Len(t) PROVE ny[Place(q, t, i)] = Place(q, t, i + 1)
    <2>1. CASE i = la
      BY <1>1, <1>5, <1>6, <1>14, <2>1
    <2>2. CASE i = la + 1
      <3>1. i + 1 \in la + 2 .. la + lb + 2 /\ (i + 1) - 1 = la + 1
        BY <1>1, <2>2
      <3> QED
        BY <1>5, <1>12, <1>14, <2>2, <3>1
    <2>3. CASE i < la
      <3>1. i \in 0 .. la /\ i + 1 \in 0 .. la /\ i \in 0 .. la + lb /\ i \in 0 .. la + lb + 1 /\ i # la
        BY <1>1, <2>3
      <3>2. Place(q, s, i) # pos /\ Place(q, s, i) # Tail_(q) /\ Place(q, s, i) # n /\ Place(q, s, i) \in Cells
        BY <1>1, <1>6, <1>8, <1>9, <1>10, <3>1
      <3> QED
        BY <1>5, <1>7, <1>14, <3>1, <3>2
    <2>4. CASE i > la + 1
      <3>0. i \in 0 .. la + lb + 1
        BY <1>1, <1>3
      <3>1. /\ i \in la + 2 .. la + lb + 2 /\ i + 1 \in la + 2 .. la + lb + 2 /\ (i + 1) - 1 = (i - 1) + 1
            /\ i - 1 \in 0 .. la + lb /\ i - 1 \in 0 .. la + lb + 1 /\ i - 1 # la /\ i - 1 # la + lb + 1
        BY <1>1, <2>4, <3>0
      <3>2. /\ Place(q, s, i - 1) # pos /\ Place(q, s, i - 1) # Tail_(q)
            /\ Place(q, s, i - 1) # n /\ Place(q, s, i - 1) \in Cells
        BY <1>6, <1>8, <1>9, <1>10, <3>1
      <3>3. Place(q, t, i) = Place(q, s, i - 1) /\ Place(q, t, i + 1) = Place(q, s, (i - 1) + 1)
        BY <1>5, <3>1
      <3> QED
        BY <1>7, <1>14, <3>1, <3>2, <3>3
    <2> QED
      BY <1>1, <1>3, <2>1, <2>2, <2>3, <2>4
  <1>16. ny[Tail_(q)] = Place(q, t, Len(t))
    <2>1. CASE lb = 0
      BY <1>1, <1>3, <1>5, <1>13, <1>14, <2>1
    <2>2. CASE lb # 0
      <3>1. Len(t) \in la + 2 .. la + lb + 2 /\ Len(t) - 1 = la + lb
        BY <1>1, <1>3, <2>2
      <3> QED
        BY <1>5, <1>7, <1>13, <1>14, <2>2, <3>1
    <2> QED
      BY <2>1, <2>2
  <1>17. pos = Head_(q) \/ In(pos, a)
    <2>1. la = 0 \/ la \in 1 .. la
      BY <1>1
    <2> QED
      BY <1>1, <2>1 DEF pos, Place, In, la
  <1>18. Linked(ny, q, t)
    BY <1>15, <1>16 DEF Linked
  <1>19. \A x \in Cells : x # n /\ x # Head_(q) /\ x # Tail_(q) /\ ~In(x, a) => ny[x] = nx[x]
    BY <1>14, <1>17
  <1> QED
    BY <1>14, <1>18, <1>19 DEF ny, pos, t

\* push_front() is an insertion behind the head.
LEMMA PushedFrontIs ==
  ASSUME NEW q \in Queues, NEW s \in Seq(Nodes), NEW n \in Nodes, NEW nx \in Links,
         Linked(nx, q, s), Once(s), ~In(n, s)
  PROVE  LET ny == PushedFront(nx, q, n)
         IN  /\ ny \in Links
             /\ Linked(ny, q, <<n>> \o s)
             /\ \A x \in Cells : x # n /\ x # Head_(q) /\ x # Tail_(q) => ny[x] = nx[x]
  <1>1. PICK e \in Seq(Nodes) : Len(e) = 0 /\ e \o s = s /\ e \o (<<n>> \o s) = <<n>> \o s
    <2>1. <<n>> \o s \in Seq(Nodes) /\ <<>> \in Seq(Nodes) /\ Len(<<>>) = 0
      BY InFront, EmptySeq
    <2> QED
      BY <2>1, ConcatEmptySeq
  <1>2. Place(q, e, Len(e)) = Head_(q) /\ \A x : ~In(x, e)
    BY <1>1 DEF Place, In
  <1> DEFINE ny == InsertedAfter(nx, q, Head_(q), n)
  <1>3. Linked(nx, q, e \o s) /\ Once(e \o s) /\ ~In(n, e \o s)
    BY <1>1
  <1>4. /\ ny \in Links
        /\ Linked(ny, q, e \o (<<n>> \o s))
        /\ \A x \in Cells : x # n /\ x # Head_(q) /\ x # Tail_(q) /\ ~In(x, e) => ny[x] = nx[x]
    BY <1>2, <1>3, InsertedIs
  <1>5. /\ Linked(ny, q, <<n>> \o s)
        /\ \A x \in Cells : x # n /\ x # Head_(q) /\ x # Tail_(q) => ny[x] = nx[x]
    <2> HIDE DEF ny
    <2> QED
      BY <1>1, <1>2, <1>4
  <1>6. PushedFront(nx, q, n) = ny
    <2>1. Head_(q) \in Cells /\ Tail_(q) \in Cells /\ Head_(q) # Tail_(q) /\ n \in Cells /\ n # Head_(q) /\ n # Tail_(q)
      BY Names
    <2>2. CASE nx[Head_(q)] = Tail_(q)
      <3>1. Len(s) = 0
        <4>1. Len(s) \in Nat /\ 0 \in 0 .. Len(s) /\ 1 \in 0 .. Len(s) + 1 /\ Len(s) + 1 \in 0 .. Len(s) + 1
          BY SeqIs
        <4>2. Place(q, s, 0 + 1) = Place(q, s, Len(s) + 1)
          BY <2>2, <4>1, Places DEF Linked
        <4>3. 1 = Len(s) + 1
          BY <4>1, <4>2, Places
        <4> QED
          BY <4>1, <4>3
      <3>2. nx[Tail_(q)] = Head_(q)
        BY <3>1, Places DEF Linked
      <3> DEFINE nz == PushedBack(nx, q, n)
      <3>3. PushedFront(nx, q, n) = nz
        BY <2>2 DEF PushedFront
      <3>4. /\ nz = [nx EXCEPT ![Head_(q)] = n, ![Tail_(q)] = n, ![n] = Tail_(q)]
            /\ ny = [nx EXCEPT ![n] = Tail_(q), ![Head_(q)] = n, ![Tail_(q)] = n]
        BY <2>1, <2>2, <3>2 DEF PushedBack, before_end, InsertedAfter
      <3>5. nz = ny
        <4> HIDE DEF nz, ny
        <4>1. nz = [x \in Cells |-> IF x = n THEN Tail_(q) ELSE IF x \in {Head_(q), Tail_(q)} THEN n ELSE nx[x]]
          BY <2>1, <3>4 DEF Links
        <4>2. ny = [x \in Cells |-> IF x = n THEN Tail_(q) ELSE IF x \in {Head_(q), Tail_(q)} THEN n ELSE nx[x]]
          BY <2>1, <3>4 DEF Links
        <4> QED
          BY <4>1, <4>2
      <3> QED
        BY <3>3, <3>5
    <2>3. CASE nx[Head_(q)] # Tail_(q)
      <3>1. PushedFront(nx, q, n) = [nx EXCEPT ![n] = nx[Head_(q)], ![Head_(q)] = n]
        BY <2>3 DEF PushedFront
      <3>2. ny = [nx EXCEPT ![n] = nx[Head_(q)], ![Head_(q)] = n, ![Tail_(q)] = nx[Tail_(q)]]
        BY <2>1, <2>3 DEF InsertedAfter, Links
      <3> QED
        BY <2>1, <3>1, <3>2 DEF Links
    <2> QED
      BY <2>2, <2>3
  <1> QED
    BY <1>4, <1>5, <1>6

\* pop_front() takes the first.
LEMMA PoppedIs ==
  ASSUME NEW q \in Queues, NEW s \in Seq(Nodes), NEW nx \in Links, s # <<>>,
         Linked(nx, q, s), Once(s)
  PROVE  LET ny == Popped(nx, q, Len(s) - 1)
         IN  /\ nx[Head_(q)] = s[1]
             /\ ny \in Links
             /\ Linked(ny, q, Tail(s))
             /\ \A x \in Cells : x # Head_(q) /\ x # Tail_(q) => ny[x] = nx[x]
  <1> DEFINE ny == Popped(nx, q, Len(s) - 1)
             t == Tail(s)
             l == Len(s)
  <1>1. /\ l \in Nat /\ l # 0 /\ t \in Seq(Nodes) /\ Len(t) = l - 1
        /\ \A i \in 1 .. l - 1 : t[i] = s[i + 1]
    BY SeqIs, TailIn
  <1>2. /\ Place(q, s, 0) = Head_(q) /\ Place(q, s, l + 1) = Tail_(q)
        /\ \A i \in 1 .. l : Place(q, s, i) = s[i]
        /\ \A i \in 0 .. l + 1 : Place(q, s, i) \in Cells
        /\ \A i, j \in 0 .. l + 1 : Place(q, s, i) = Place(q, s, j) => i = j
    BY Places
  <1>3. /\ \A i \in 0 .. l : nx[Place(q, s, i)] = Place(q, s, i + 1)
        /\ nx[Tail_(q)] = Place(q, s, l)
    BY DEF Linked
  <1> HIDE DEF t, l
  <1>4. /\ Place(q, t, 0) = Head_(q)
        /\ \A i \in 1 .. l : Place(q, t, i) = Place(q, s, i + 1)
    <2>1. Place(q, t, 0) = Head_(q)
      BY DEF Place
    <2>2. ASSUME NEW i \in 1 .. l PROVE Place(q, t, i) = Place(q, s, i + 1)
      <3>1. CASE i = l
        BY <1>1, <1>2, <3>1 DEF Place
      <3>2. CASE i # l
        <4>1. i \in 1 .. l - 1 /\ i # 0 /\ i # Len(t) + 1 /\ i + 1 \in 1 .. l
          BY <1>1, <3>2
        <4>2. Place(q, t, i) = t[i]
          BY <4>1 DEF Place
        <4> QED
          BY <1>1, <1>2, <4>1, <4>2
      <3> QED
        BY <3>1, <3>2
    <2> QED
      BY <2>1, <2>2
  <1>5. /\ 0 \in 0 .. l /\ 1 \in 0 .. l /\ 1 \in 1 .. l /\ 0 + 1 = 1 /\ 1 + 1 = 2 /\ 2 \in 0 .. l + 1
        /\ l \in 1 .. l /\ l \in 0 .. l + 1 /\ 0 # l /\ l + 1 \in 0 .. l + 1
    BY <1>1
  <1>6. nx[Head_(q)] = s[1] /\ nx[nx[Head_(q)]] = Place(q, s, 2)
    BY <1>2, <1>3, <1>5
  <1>7. Head_(q) \in Cells /\ Tail_(q) \in Cells /\ Head_(q) # Tail_(q) /\ Place(q, s, 2) \in Cells
    BY <1>2, <1>5, Names
  <1>8. /\ ny \in Links
        /\ ny[Head_(q)] = Place(q, s, 2)
        /\ ny[Tail_(q)] = IF l - 1 = 0 THEN Head_(q) ELSE nx[Tail_(q)]
        /\ \A x \in Cells : x # Head_(q) /\ x # Tail_(q) => ny[x] = nx[x]
    BY <1>6, <1>7 DEF Popped, Links, l
  <1> HIDE DEF ny
  <1>9. ASSUME NEW i \in 0 .. Len(t) PROVE ny[Place(q, t, i)] = Place(q, t, i + 1)
    <2>1. CASE i = 0
      BY <1>4, <1>5, <1>8, <2>1
    <2>2. CASE i # 0
      <3>1. /\ i \in 1 .. l /\ i + 1 \in 1 .. l /\ i + 1 \in 0 .. l /\ i + 1 \in 0 .. l + 1 /\ i + 1 # 0
            /\ i + 1 # l + 1 /\ 0 \in 0 .. l + 1
        BY <1>1, <2>2
      <3>2. /\ Place(q, s, i + 1) \in Cells /\ Place(q, s, i + 1) # Head_(q) /\ Place(q, s, i + 1) # Tail_(q)
        BY <1>2, <1>5, <3>1
      <3> QED
        BY <1>3, <1>4, <1>8, <3>1, <3>2
    <2> QED
      BY <2>1, <2>2
  <1>10. ny[Tail_(q)] = Place(q, t, Len(t))
    <2>1. CASE l = 1
      BY <1>1, <1>4, <1>8, <2>1
    <2>2. CASE l # 1
      <3>1. Len(t) \in 1 .. l /\ Len(t) + 1 = l /\ l - 1 # 0
        BY <1>1, <2>2
      <3> QED
        BY <1>3, <1>4, <1>8, <3>1
    <2> QED
      BY <2>1, <2>2
  <1>11. Linked(ny, q, t)
    BY <1>9, <1>10 DEF Linked
  <1> QED
    BY <1>6, <1>8, <1>11 DEF ny, t, l

-----------------------------------------------------------------------------
(* Walks.                                                                  *)

\* A sequence of messages, each once, is no longer than there are messages.
LEMMA Fits ==
  ASSUME NEW s \in Seq(Nodes), Once(s)
  PROVE  Len(s) <= Cardinality(Nodes)
  <1>1. Len(s) \in Nat /\ s \in [1 .. Len(s) -> Nodes]
    BY SeqIs
  <1>2. s \in Injection(1 .. Len(s), Nodes)
    BY <1>1, Fun_IsInj DEF Once
  <1>3. Cardinality(1 .. Len(s)) <= Cardinality(Nodes)
    BY <1>2, Names, FS_Injection
  <1>4. Cardinality(1 .. Len(s)) = Len(s)
    BY <1>1, FS_Interval, SMTT(30)
  <1> QED
    BY <1>3, <1>4

\* The links nx lead from first along s to end.
Leads(nx, first, s, end) ==
    /\ first = IF Len(s) = 0 THEN end ELSE s[1]
    /\ \A i \in 1 .. Len(s) : nx[s[i]] = IF i = Len(s) THEN end ELSE s[i + 1]

\* drain(), and the walk over the inbox, meet the elements of a list in their
\* order, and no others.
LEMMA WalkIs ==
  ASSUME NEW s \in Seq(Nodes), Once(s), NEW nx, NEW first, NEW end, end \notin Nodes, Leads(nx, first, s, end)
  PROVE  Walk(nx, first, Nodes, Cardinality(Nodes)) = s
  <1> DEFINE N == Cardinality(Nodes)
             l == Len(s)
             Step(g) == [k \in 1 .. N |-> IF k = 1 THEN first
                                          ELSE IF g[k - 1] \in Nodes THEN nx[g[k - 1]] ELSE g[k - 1]]
             at == CHOOSE g : g = Step(g)
             h == [k \in 1 .. N |-> IF k <= l THEN s[k] ELSE end]
  <1>1. N \in Nat /\ l \in Nat /\ l <= N /\ \A i \in 1 .. l : s[i] \in Nodes
    BY SeqIs, Fits, Names
  <1>0. /\ l = 0 => first = end
        /\ l # 0 => first = s[1]
        /\ \A i \in 1 .. l : (i = l => nx[s[i]] = end) /\ (i # l => nx[s[i]] = s[i + 1])
    BY DEF Leads
  <1>2. Walk(nx, first, Nodes, N) = SubSeq(at, 1, Cardinality({k \in 1 .. N : at[k] \in Nodes}))
    BY DEF Walk
  <1> HIDE DEF N, l
  <1>3. h = Step(h)
    <2>1. ASSUME NEW k \in 1 .. N
          PROVE  h[k] = IF k = 1 THEN first ELSE IF h[k - 1] \in Nodes THEN nx[h[k - 1]] ELSE h[k - 1]
      <3>1. CASE k = 1
        BY <1>0, <1>1, <3>1
      <3>2. CASE k # 1 /\ k <= l
        <4>1. k - 1 \in 1 .. N /\ k - 1 \in 1 .. l /\ k - 1 <= l /\ k - 1 # l /\ (k - 1) + 1 = k
          BY <1>1, <3>2
        <4>2. h[k - 1] = s[k - 1] /\ s[k - 1] \in Nodes /\ nx[s[k - 1]] = s[k]
          BY <1>0, <1>1, <4>1
        <4> QED
          BY <3>2, <4>2
      <3>3. CASE k # 1 /\ k = l + 1
        <4>1. k - 1 \in 1 .. N /\ k - 1 \in 1 .. l /\ k - 1 <= l /\ k - 1 = l /\ ~(k <= l)
          BY <1>1, <3>3
        <4>2. h[k - 1] = s[k - 1] /\ s[k - 1] \in Nodes /\ nx[s[k - 1]] = end
          BY <1>0, <1>1, <4>1
        <4> QED
          BY <3>3, <4>1, <4>2
      <3>4. CASE k # 1 /\ k > l + 1
        <4>1. k - 1 \in 1 .. N /\ ~(k - 1 <= l) /\ ~(k <= l)
          BY <1>1, <3>4
        <4> QED
          BY <3>4, <4>1
      <3> QED
        BY <1>1, <3>1, <3>2, <3>3, <3>4
    <2> QED
      BY <2>1
  <1>4. at = Step(at)
    <2>1. \E g : g = Step(g)
      BY <1>3
    <2> HIDE DEF Step
    <2> QED
      BY <2>1
  <1>5. \A k \in 1 .. N : at[k] = h[k]
    <2> HIDE DEF h, at
    <2> DEFINE P == {k \in 0 .. N : k # 0 => at[k] = h[k]}
    <2>1. 0 \in P
      BY <1>1
    <2>2. ASSUME NEW k \in 1 .. N, k - 1 \in P PROVE k \in P
      <3>1. k \in 0 .. N /\ k - 1 \in 0 .. N
        BY <1>1
      <3>2. /\ at[k] = IF k = 1 THEN first ELSE IF at[k - 1] \in Nodes THEN nx[at[k - 1]] ELSE at[k - 1]
            /\ h[k] = IF k = 1 THEN first ELSE IF h[k - 1] \in Nodes THEN nx[h[k - 1]] ELSE h[k - 1]
        BY <1>3, <1>4, Zenon
      <3>3. k # 1 => at[k - 1] = h[k - 1]
        BY <2>2, <3>1
      <3> QED
        BY <3>1, <3>2, <3>3
    <2>3. \A k \in 0 .. N : k \in P
      <3> HIDE DEF P
      <3> QED
        BY <1>1, <2>1, <2>2, Steps
    <2> QED
      BY <2>3
  <1>6. at = h
    <2> HIDE DEF at
    <2>1. at = [k \in 1 .. N |-> at[k]]
      BY <1>4
    <2> QED
      BY <1>5, <2>1
  <1>7. {k \in 1 .. N : h[k] \in Nodes} = 1 .. l
    BY <1>1
  <1>8. Cardinality(1 .. l) = l
    BY <1>1, FS_Interval
  <1>9. Walk(nx, first, Nodes, N) = SubSeq(h, 1, l)
    BY <1>2, <1>6, <1>7, <1>8, Zenon
  <1>10. SubSeq(h, 1, l) = s
    <2>1. \A i \in 1 .. l : i \in 1 .. N /\ h[i] = s[i] /\ s[i] \in Nodes
      BY <1>1
    <2> HIDE DEF h
    <2>2. /\ SubSeq(h, 1, l) \in Seq(Nodes) /\ Len(SubSeq(h, 1, l)) = l
          /\ \A i \in 1 .. l : SubSeq(h, 1, l)[i] = h[i]
      <3>1. /\ SubSeq(h, 1, l) \in Seq(Nodes)
            /\ Len(SubSeq(h, 1, l)) = IF 1 <= l THEN l - 1 + 1 ELSE 0
            /\ \A i \in 1 .. l - 1 + 1 : SubSeq(h, 1, l)[i] = h[1 + i - 1]
        BY <1>1, <2>1, SubSeqProperties
      <3> QED
        BY <1>1, <3>1
    <2> QED
      BY <2>1, <2>2, SeqEqual DEF l
  <1> QED
    BY <1>9, <1>10 DEF N

-----------------------------------------------------------------------------
(* The messages on the stack, by queue.                                    *)

QueueOf(H, n) == IF n \in H THEN "urgent" ELSE "normal"

\* Waiting(q), of the stack c when those in H are of high priority.
Sorted(c, H, q) ==
    LET older[k \in 0 .. Len(c)] ==
            IF k = 0 THEN <<>>
            ELSE IF QueueOf(H, c[k]) = q THEN <<c[k]>> \o older[k - 1]
            ELSE older[k - 1]
    IN  older[Len(c)]

\* f[k] has those of the newest k that are for q, oldest first.
Sorting(f, c, H, q) ==
    /\ f \in [0 .. Len(c) -> Seq(Nodes)]
    /\ f[0] = <<>>
    /\ \A k \in 1 .. Len(c) : f[k] = IF QueueOf(H, c[k]) = q THEN <<c[k]>> \o f[k - 1] ELSE f[k - 1]

\* The recursion has a solution, and Sorted is where it ends.
LEMMA SortedIs ==
  ASSUME NEW c \in Seq(Nodes), NEW H, NEW q
  PROVE  \E f : Sorting(f, c, H, q) /\ Sorted(c, H, q) = f[Len(c)]
  <1> DEFINE n == Len(c)
             V == Seq(Nodes)
             More(k, x) == IF QueueOf(H, c[k]) = q THEN <<c[k]>> \o x ELSE x
             T == [k \in 1 .. n |-> [x \in V |-> More(k, x)]]
             Step(g) == [k \in 0 .. n |-> IF k = 0 THEN <<>> ELSE More(k, g[k - 1])]
             f == CHOOSE g : g = Step(g)
  <1>1. n \in Nat /\ \A k \in 1 .. n : c[k] \in Nodes
    BY SeqIs
  <1>2. Sorted(c, H, q) = f[n]
    BY DEF Sorted
  <1> HIDE DEF n
  <1>3. \A k \in 1 .. n, x \in V : More(k, x) \in V
    BY <1>1, InFront
  <1>4. <<>> \in V
    BY EmptySeq
  <1> HIDE DEF V, More
  <1>5. T \in [1 .. n -> [V -> V]] /\ \A k \in 1 .. n, x \in V : T[k][x] = More(k, x)
    BY <1>3
  <1> HIDE DEF T
  <1>6. PICK g \in [0 .. n -> V] : g[0] = <<>> /\ \A k \in 1 .. n : g[k] = T[k][g[k - 1]]
    <2> DEFINE v == <<>>
    <2>1. v \in V
      BY <1>4
    <2> HIDE DEF v
    <2>2. \E g : Solves(g, V, v, n, T)
      BY <1>1, <1>5, <2>1, Recursion
    <2> QED
      BY <2>2 DEF v, Solves
  <1>7. \A k \in 1 .. n : k - 1 \in 0 .. n
    BY <1>1
  <1>8. \A k \in 0 .. n : k = 0 \/ k \in 1 .. n
    BY <1>1
  <1>9. g = Step(g)
    <2>1. \A k \in 1 .. n : g[k] = More(k, g[k - 1])
      BY <1>5, <1>6, <1>7
    <2>2. \A k \in 0 .. n : g[k] = IF k = 0 THEN <<>> ELSE More(k, g[k - 1])
      BY <1>6, <1>8, <2>1
    <2> QED
      BY <1>6, <2>2
  <1>10. f = Step(f)
    <2>1. \E h : h = Step(h)
      BY <1>9
    <2> HIDE DEF Step
    <2> QED
      BY <2>1
  <1> HIDE DEF f
  <1>11. f[0] = <<>> /\ \A k \in 1 .. n : f[k] = More(k, f[k - 1])
    <2>1. \A k \in 0 .. n : f[k] = IF k = 0 THEN <<>> ELSE More(k, f[k - 1])
      BY <1>10, Zenon
    <2>2. 0 \in 0 .. n /\ \A k \in 1 .. n : k \in 0 .. n /\ k # 0
      BY <1>1
    <2> QED
      BY <2>1, <2>2
  <1>12. \A k \in 0 .. n : f[k] \in V
    <2> DEFINE P == {k \in 0 .. n : f[k] \in V}
    <2>1. 0 \in P
      BY <1>1, <1>4, <1>11
    <2>2. ASSUME NEW k \in 1 .. n, k - 1 \in P PROVE k \in P
      BY <1>1, <1>3, <1>11, <2>2
    <2>3. \A k \in 0 .. n : k \in P
      <3> HIDE DEF P
      <3> QED
        BY <1>1, <2>1, <2>2, Steps
    <2> QED
      BY <2>3
  <1>13. f \in [0 .. n -> V]
    BY <1>10, <1>12
  <1>14. Sorting(f, c, H, q)
    BY <1>11, <1>13 DEF Sorting, V, More, n
  <1> QED
    BY <1>2, <1>14 DEF n

\* What is in it.
LEMMA SortedIn ==
  ASSUME NEW c \in Seq(Nodes), NEW H, NEW q, NEW f, Sorting(f, c, H, q)
  PROVE  \A k \in 0 .. Len(c) :
           /\ f[k] \in Seq(Nodes)
           /\ \A x : In(x, f[k]) <=> QueueOf(H, x) = q /\ \E i \in 1 .. k : c[i] = x
           /\ Once(c) => Once(f[k])
  <1> DEFINE n == Len(c)
             P == {k \in 0 .. n : \A x : In(x, f[k]) <=> QueueOf(H, x) = q /\ \E i \in 1 .. k : c[i] = x}
             Q == {k \in 0 .. n : Once(f[k])}
  <1>1. n \in Nat /\ \A k \in 1 .. n : c[k] \in Nodes
    BY SeqIs
  <1>2. /\ \A k \in 0 .. n : f[k] \in Seq(Nodes)
        /\ f[0] = <<>>
        /\ \A k \in 1 .. n : f[k] = IF QueueOf(H, c[k]) = q THEN <<c[k]>> \o f[k - 1] ELSE f[k - 1]
    BY DEF Sorting
  <1>3. Len(f[0]) = 0
    BY <1>2
  <1> HIDE DEF n
  <1>4. 0 \in P
    BY <1>1, <1>3 DEF In
  <1>5. ASSUME NEW k \in 1 .. n, k - 1 \in P PROVE k \in P
    <2>1. k \in 0 .. n /\ k - 1 \in 0 .. n /\ \A i \in 1 .. k : i = k \/ i \in 1 .. k - 1
      BY <1>1
    <2>2. \A i \in 1 .. k - 1 : i \in 1 .. k
      BY <1>1
    <2>3. k \in 1 .. k
      BY <1>1
    <2>4. \A x : (\E i \in 1 .. k : c[i] = x) <=> x = c[k] \/ \E i \in 1 .. k - 1 : c[i] = x
      BY <2>1, <2>2, <2>3
    <2>5. \A x : In(x, f[k - 1]) <=> QueueOf(H, x) = q /\ \E i \in 1 .. k - 1 : c[i] = x
      BY <1>5
    <2>6. CASE QueueOf(H, c[k]) = q
      <3>1. f[k] = <<c[k]>> \o f[k - 1] /\ f[k - 1] \in Seq(Nodes) /\ c[k] \in Nodes
        BY <1>1, <1>2, <2>1, <2>6
      <3>2. \A x : In(x, f[k]) <=> x = c[k] \/ In(x, f[k - 1])
        BY <3>1, InFrontIn
      <3> QED
        BY <2>1, <2>4, <2>5, <2>6, <3>2
    <2>7. CASE QueueOf(H, c[k]) # q
      <3>1. f[k] = f[k - 1]
        BY <1>2, <2>7
      <3> QED
        BY <2>1, <2>4, <2>5, <2>7, <3>1
    <2> QED
      BY <2>6, <2>7
  <1>6. \A k \in 0 .. n : k \in P
    <2> HIDE DEF P
    <2> QED
      BY <1>1, <1>4, <1>5, Steps
  <1>7. ASSUME Once(c) PROVE \A k \in 0 .. n : k \in Q
    <2>1. 0 \in Q
      BY <1>1, <1>3 DEF Once
    <2>2. ASSUME NEW k \in 1 .. n, k - 1 \in Q PROVE k \in Q
      <3>1. k \in 0 .. n /\ k - 1 \in 0 .. n /\ \A i \in 1 .. k - 1 : i \in 1 .. n /\ i # k
        BY <1>1
      <3>2. \A i \in 1 .. k - 1 : c[i] # c[k]
        BY <1>7, <3>1 DEF Once, n
      <3>3. ~In(c[k], f[k - 1])
        BY <1>6, <3>1, <3>2
      <3>4. Once(f[k - 1]) /\ f[k - 1] \in Seq(Nodes) /\ c[k] \in Nodes
        BY <1>1, <1>2, <2>2, <3>1
      <3>5. Once(<<c[k]>> \o f[k - 1])
        BY <3>3, <3>4, InFrontIn
      <3>6. Once(f[k])
        BY <1>2, <3>4, <3>5
      <3> QED
        BY <3>1, <3>6
    <2> HIDE DEF Q
    <2> QED
      BY <1>1, <2>1, <2>2, Steps
  <1> QED
    BY <1>2, <1>6, <1>7 DEF n

\* Two sortings of one stack end in the same if they agree on its messages.
LEMMA SortingSame ==
  ASSUME NEW c \in Seq(Nodes), NEW H, NEW G, NEW q, NEW f, NEW g,
         Sorting(f, c, H, q), Sorting(g, c, G, q),
         \A x \in Nodes : In(x, c) => (x \in H <=> x \in G)
  PROVE  f[Len(c)] = g[Len(c)]
  <1> DEFINE n == Len(c)
             P == {k \in 0 .. n : f[k] = g[k]}
  <1>1. n \in Nat /\ \A k \in 1 .. n : c[k] \in Nodes /\ In(c[k], c)
    BY SeqIs DEF In
  <1>2. \A k \in 1 .. n : QueueOf(H, c[k]) = QueueOf(G, c[k])
    BY <1>1 DEF QueueOf
  <1>3. f[0] = g[0] /\ \A k \in 1 .. n : /\ f[k] = IF QueueOf(H, c[k]) = q THEN <<c[k]>> \o f[k - 1] ELSE f[k - 1]
                                         /\ g[k] = IF QueueOf(G, c[k]) = q THEN <<c[k]>> \o g[k - 1] ELSE g[k - 1]
    BY DEF Sorting
  <1> HIDE DEF n
  <1>4. 0 \in P
    BY <1>1, <1>3
  <1>5. ASSUME NEW k \in 1 .. n, k - 1 \in P PROVE k \in P
    <2>1. k \in 0 .. n /\ f[k - 1] = g[k - 1]
      BY <1>1, <1>5
    <2>2. f[k] = g[k]
      BY <1>2, <1>3, <2>1
    <2> QED
      BY <2>1, <2>2
  <1>6. \A k \in 0 .. n : k \in P
    <2> HIDE DEF P
    <2> QED
      BY <1>1, <1>4, <1>5, Steps
  <1>7. n \in 0 .. n
    BY <1>1
  <1> QED
    BY <1>6, <1>7 DEF n

\* Only the priorities of the messages on the stack matter.
LEMMA SortedSame ==
  ASSUME NEW c \in Seq(Nodes), NEW H, NEW G, NEW q, \A x \in Nodes : In(x, c) => (x \in H <=> x \in G)
  PROVE  Sorted(c, H, q) = Sorted(c, G, q)
  <1>1. PICK f : Sorting(f, c, H, q) /\ Sorted(c, H, q) = f[Len(c)]
    BY SortedIs
  <1>2. PICK g : Sorting(g, c, G, q) /\ Sorted(c, G, q) = g[Len(c)]
    BY SortedIs
  <1> QED
    BY <1>1, <1>2, SortingSame

\* A message that is pushed is the last of its queue to come.
LEMMA SortedPushed ==
  ASSUME NEW c \in Seq(Nodes), NEW H, NEW q, NEW n \in Nodes
  PROVE  Sorted(<<n>> \o c, H, q) = IF QueueOf(H, n) = q THEN Append(Sorted(c, H, q), n) ELSE Sorted(c, H, q)
  <1> DEFINE d == <<n>> \o c
             l == Len(c)
             t == IF QueueOf(H, n) = q THEN <<n>> ELSE <<>>
  <1>1. /\ l \in Nat /\ d \in Seq(Nodes) /\ Len(d) = l + 1 /\ d[1] = n
        /\ \A k \in 1 .. l : d[k + 1] = c[k] /\ c[k] \in Nodes
    BY SeqIs, InFront
  <1>2. PICK f : Sorting(f, c, H, q) /\ Sorted(c, H, q) = f[l]
    BY SortedIs
  <1> HIDE DEF d
  <1>3. PICK g : Sorting(g, d, H, q) /\ Sorted(d, H, q) = g[l + 1]
    BY <1>1, SortedIs
  <1> HIDE DEF l
  <1>4. /\ f[0] = <<>> /\ \A k \in 0 .. l : f[k] \in Seq(Nodes)
        /\ \A k \in 1 .. l : f[k] = IF QueueOf(H, c[k]) = q THEN <<c[k]>> \o f[k - 1] ELSE f[k - 1]
    BY <1>2 DEF Sorting, l
  <1>5. /\ g[0] = <<>>
        /\ \A k \in 1 .. l + 1 : g[k] = IF QueueOf(H, d[k]) = q THEN <<d[k]>> \o g[k - 1] ELSE g[k - 1]
    BY <1>1, <1>3 DEF Sorting
  <1>6. <<n>> \in Seq(Nodes) /\ <<>> \in Seq(Nodes) /\ t \in Seq(Nodes) /\ <<n>> \o <<>> = <<n>>
    BY EmptySeq, ConcatEmptySeq
  <1>7. g[0 + 1] = t
    <2>1. 1 \in 1 .. l + 1 /\ 1 - 1 = 0 /\ 0 + 1 = 1
      BY <1>1
    <2> QED
      BY <1>1, <1>5, <1>6, <2>1
  <1> HIDE DEF t
  <1>8. \A k \in 0 .. l : g[k + 1] = f[k] \o t
    <2> DEFINE P == {k \in 0 .. l : g[k + 1] = f[k] \o t}
    <2>1. 0 \in P
      <3>1. f[0] \o t = t
        BY <1>4, <1>6, ConcatEmptySeq
      <3> QED
        BY <1>1, <1>7, <3>1
    <2>2. ASSUME NEW k \in 1 .. l, k - 1 \in P PROVE k \in P
      <3>1. k \in 0 .. l /\ k - 1 \in 0 .. l /\ (k - 1) + 1 = k /\ k + 1 \in 1 .. l + 1 /\ (k + 1) - 1 = k
        BY <1>1
      <3>2. g[k] = f[k - 1] \o t /\ f[k - 1] \in Seq(Nodes) /\ <<c[k]>> \in Seq(Nodes)
        BY <1>1, <1>4, <2>2, <3>1
      <3>3. g[k + 1] = IF QueueOf(H, c[k]) = q THEN <<c[k]>> \o g[k] ELSE g[k]
        BY <1>1, <1>5, <3>1
      <3>4. (<<c[k]>> \o f[k - 1]) \o t = <<c[k]>> \o (f[k - 1] \o t)
        <4>1. \A a, b \in Seq(Nodes) : (a \o b) \o t = a \o (b \o t)
          BY <1>6, ConcatAssociative
        <4> QED
          BY <3>2, <4>1, Zenon
      <3>5. g[k + 1] = f[k] \o t
        BY <1>4, <3>2, <3>3, <3>4
      <3> QED
        BY <3>1, <3>5
    <2>3. \A k \in 0 .. l : k \in P
      <3> HIDE DEF P
      <3> QED
        BY <1>1, <2>1, <2>2, Steps
    <2> QED
      BY <2>3
  <1>9. l \in 0 .. l
    BY <1>1
  <1>10. Sorted(d, H, q) = f[l] \o t /\ f[l] \in Seq(Nodes)
    BY <1>3, <1>4, <1>8, <1>9
  <1>11. Append(f[l], n) = f[l] \o <<n>> /\ f[l] \o <<>> = f[l]
    BY <1>10, AppendIsConcat, ConcatEmptySeq
  <1> QED
    BY <1>2, <1>10, <1>11 DEF d, t

\* Nothing is on an empty stack.
LEMMA SortedEmpty ==
  ASSUME NEW H, NEW q
  PROVE  Sorted(<<>>, H, q) = <<>>
  <1>1. <<>> \in Seq(Nodes) /\ Len(<<>>) = 0
    BY EmptySeq
  <1>2. PICK f : Sorting(f, <<>>, H, q) /\ Sorted(<<>>, H, q) = f[Len(<<>>)]
    BY <1>1, SortedIs
  <1> QED
    BY <1>1, <1>2 DEF Sorting

-----------------------------------------------------------------------------
(* The inductive invariant.                                                *)

Held(nd, n) == \E s \in Senders : nd[s] = n

\* The links lead along the queues' elements and down the stack.
Leading(nx, top, L, c) ==
    /\ \A q \in Queues : Linked(nx, q, L[q]) /\ Once(L[q])
    /\ Stacked(nx, top, c) /\ Once(c)

\* Every address is in one place.
Apart(fr, nd, L, c) ==
    \A n \in Nodes :
        /\ n \in fr \/ Held(nd, n) \/ In(n, c) \/ \E q \in Queues : In(n, L[q])
        /\ n \in fr => ~Held(nd, n)
        /\ n \in fr \/ Held(nd, n) => ~In(n, c)
        /\ n \in fr \/ Held(nd, n) \/ In(n, c) => \A q \in Queues : ~In(n, L[q])
        /\ \A p, q \in Queues : In(n, L[p]) /\ In(n, L[q]) => p = q

\* The mailbox has the sequences L[q] in its queues and c on its stack.
Shape(nx, top, sz, fr, nd, L, c) ==
    /\ L \in [Queues -> Seq(Nodes)] /\ c \in Seq(Nodes)
    /\ nx \in Links
    /\ Leading(nx, top, L, c)
    /\ Apart(fr, nd, L, c)
    /\ sz = [q \in Queues |-> Len(L[q])]

SendersOK ==
    /\ \A s1, s2 \in Senders : node[s1] = node[s2] /\ node[s1] # Null => s1 = s2
    /\ \A s \in Senders : last[s] # Null => node[s] # Null

Types ==
    /\ stack \in Nodes \cup Tags
    /\ high \in SUBSET Nodes
    /\ free \in SUBSET Nodes
    /\ node \in [Senders -> Nodes \cup {Null}]
    /\ last \in [Senders -> Nodes \cup Tags \cup {Null}]

Inv ==
    /\ Types
    /\ SendersOK
    /\ \E L, c : Shape(next, stack, size, free, node, L, c)

\* As many as a sequence without repetition is long.
LEMMA Counted ==
  ASSUME NEW s \in Seq(Nodes), Once(s), NEW S, \A x : x \in S <=> In(x, s)
  PROVE  Cardinality(S) = Len(s)
  <1>1. Len(s) \in Nat /\ s \in [1 .. Len(s) -> Nodes] /\ \A i \in 1 .. Len(s) : s[i] \in Nodes
    BY SeqIs
  <1>2. IsFiniteSet(1 .. Len(s)) /\ Cardinality(1 .. Len(s)) = Len(s)
    <2>1. 1 \in Int /\ Len(s) \in Int /\ (IF 1 > Len(s) THEN 0 ELSE Len(s) - 1 + 1) = Len(s)
      BY <1>1
    <2> QED
      BY <2>1, FS_Interval
  <1>3. s \in [1 .. Len(s) -> S]
    <2>1. \A i \in 1 .. Len(s) : s[i] \in S
      BY DEF In
    <2> QED
      BY <1>1, <2>1
  <1>4. \A x \in S : \E i \in 1 .. Len(s) : s[i] = x
    BY DEF In
  <1>5. s \in Surjection(1 .. Len(s), S)
    BY <1>3, <1>4, Fun_IsSurj
  <1>6. s \in Injection(1 .. Len(s), S)
    BY <1>3, Fun_IsInj DEF Once
  <1> QED
    BY <1>2, <1>5, <1>6, FS_Surjection

\* What drain() and the walk over the inbox meet is what is there.
LEMMA Seen ==
  ASSUME NEW L, NEW c, Shape(next, stack, size, free, node, L, c), stack \in Nodes \cup Tags
  PROVE  Chain = c /\ \A q \in Queues : Cached(q) = L[q]
  <1>1. Chain = c
    <2>1. c \in Seq(Nodes) /\ Once(c) /\ Stacked(next, stack, c)
      BY DEF Shape, Leading
    <2>2. CASE Len(c) = 0
      <3>1. c = <<>>
        BY <2>1, <2>2, SeqIs
      <3>2. stack \notin Nodes
        BY <2>1, <3>1, Names DEF Stacked
      <3>3. Leads(next, stack, c, stack)
        BY <2>2 DEF Leads
      <3>4. Walk(next, stack, Nodes, Cardinality(Nodes)) = c
        BY <2>1, <3>2, <3>3, WalkIs
      <3> QED
        BY <3>4 DEF Chain
    <2>3. CASE Len(c) # 0
      <3>1. c # <<>>
        BY <2>1, <2>3, SeqIs
      <3>2. Null \notin Nodes
        BY Names
      <3>3. Leads(next, stack, c, Null)
        BY <2>1, <2>3, <3>1 DEF Leads, Stacked
      <3>4. Walk(next, stack, Nodes, Cardinality(Nodes)) = c
        BY <2>1, <3>2, <3>3, WalkIs
      <3> QED
        BY <3>4 DEF Chain
    <2> QED
      BY <2>2, <2>3
  <1>2. ASSUME NEW q \in Queues PROVE Cached(q) = L[q]
    <2> DEFINE s == L[q]
    <2>1. s \in Seq(Nodes) /\ Once(s) /\ Linked(next, q, s)
      BY DEF Shape, Leading
    <2> HIDE DEF s
    <2>2. /\ Len(s) \in Nat /\ Place(q, s, 0) = Head_(q) /\ Place(q, s, Len(s) + 1) = Tail_(q)
          /\ \A i \in 1 .. Len(s) : Place(q, s, i) = s[i]
      BY <2>1, Places
    <2>3. Tail_(q) \notin Nodes
      BY Names
    <2>4. next[Head_(q)] = IF Len(s) = 0 THEN Tail_(q) ELSE s[1]
      <3>1. 0 \in 0 .. Len(s) /\ 0 + 1 = 1 /\ (Len(s) # 0 => 1 \in 1 .. Len(s))
        BY <2>1, <2>2, SeqIs
      <3>2. next[Head_(q)] = Place(q, s, 1)
        BY <2>1, <2>2, <3>1 DEF Linked
      <3>3. CASE Len(s) = 0
        BY <2>2, <3>1, <3>2, <3>3
      <3>4. CASE Len(s) # 0
        BY <2>2, <3>1, <3>2, <3>4
      <3> QED
        BY <3>3, <3>4
    <2>5. ASSUME NEW i \in 1 .. Len(s) PROVE next[s[i]] = IF i = Len(s) THEN Tail_(q) ELSE s[i + 1]
      <3>1. i \in 0 .. Len(s) /\ (i # Len(s) => i + 1 \in 1 .. Len(s))
        BY <2>2
      <3>2. next[s[i]] = Place(q, s, i + 1)
        BY <2>1, <2>2, <3>1 DEF Linked
      <3> QED
        BY <2>2, <3>1, <3>2
    <2>6. Leads(next, next[Head_(q)], s, Tail_(q))
      BY <2>4, <2>5 DEF Leads
    <2>7. Walk(next, next[Head_(q)], Nodes, Cardinality(Nodes)) = s
      BY <2>1, <2>3, <2>6, WalkIs
    <2> QED
      BY <2>7 DEF Cached, s
  <1> QED
    BY <1>1, <1>2

-----------------------------------------------------------------------------
(* fetch_more().                                                           *)

\* The queues when the stack c has been moved into them.
Joined(L, c, H) == [q \in Queues |-> L[q] \o Sorted(c, H, q)]

\* The stack c is being moved into the queues L, o[q][k] being what queue q has
\* of its newest k.
Fetching(L, c, H, o) ==
    /\ L \in [Queues -> Seq(Nodes)] /\ c \in Seq(Nodes) /\ Once(c)
    /\ \A q \in Queues : Once(L[q]) /\ Sorting(o[q], c, H, q)
    /\ \A n \in Nodes : In(n, c) => \A q \in Queues : ~In(n, L[q])
    /\ \A n \in Nodes, p, q \in Queues : In(n, L[p]) /\ In(n, L[q]) => p = q

\* The newest k have been moved.
Moved(L, o, nx, k) == nx \in Links /\ \A q \in Queues : Linked(nx, q, L[q] \o o[q][k])

\* The next one goes between the cached ones and those that are there already.
LEMMA FetchStep ==
  ASSUME NEW L, NEW c, NEW H, NEW o, Fetching(L, c, H, o),
         NEW k \in 1 .. Len(c), NEW nx, Moved(L, o, nx, k - 1),
         NEW p, p = QueueOf(H, c[k])
  PROVE  Moved(L, o, InsertedAfter(nx, p, Place(p, L[p], Len(L[p])), c[k]), k)
  <1> DEFINE n == c[k]
             pos == Place(p, L[p], Len(L[p]))
             ny == InsertedAfter(nx, p, pos, n)
  <1>0. /\ L \in [Queues -> Seq(Nodes)] /\ c \in Seq(Nodes) /\ Once(c)
        /\ \A q \in Queues : Once(L[q]) /\ Sorting(o[q], c, H, q)
        /\ \A m \in Nodes : In(m, c) => \A q \in Queues : ~In(m, L[q])
        /\ \A m \in Nodes, q, r \in Queues : In(m, L[q]) /\ In(m, L[r]) => q = r
        /\ nx \in Links /\ \A q \in Queues : Linked(nx, q, L[q] \o o[q][k - 1])
    BY DEF Fetching, Moved
  <1>1. Len(c) \in Nat /\ n \in Nodes /\ k - 1 \in 0 .. Len(c) /\ k \in 0 .. Len(c) /\ In(n, c)
    BY <1>0, SeqIs DEF In
  <1>2. p \in Queues
    BY Names DEF QueueOf
  <1>3. ASSUME NEW q \in Queues
        PROVE  /\ L[q] \in Seq(Nodes) /\ o[q][k - 1] \in Seq(Nodes) /\ Once(o[q][k - 1])
               /\ \A x : In(x, o[q][k - 1]) <=> QueueOf(H, x) = q /\ \E i \in 1 .. k - 1 : c[i] = x
               /\ o[q][k] = IF p = q THEN <<n>> \o o[q][k - 1] ELSE o[q][k - 1]
    <2> DEFINE f == o[q]
    <2>1. L[q] \in Seq(Nodes) /\ c \in Seq(Nodes) /\ Once(c) /\ Sorting(f, c, H, q)
      BY <1>0
    <2>2. f[k] = IF p = q THEN <<n>> \o f[k - 1] ELSE f[k - 1]
      BY <2>1 DEF Sorting
    <2> HIDE DEF f
    <2>3. \A j \in 0 .. Len(c) :
            /\ f[j] \in Seq(Nodes)
            /\ \A x : In(x, f[j]) <=> QueueOf(H, x) = q /\ \E i \in 1 .. j : c[i] = x
            /\ Once(c) => Once(f[j])
      BY <2>1, SortedIn
    <2>4. /\ f[k - 1] \in Seq(Nodes)
          /\ \A x : In(x, f[k - 1]) <=> QueueOf(H, x) = q /\ \E i \in 1 .. k - 1 : c[i] = x
          /\ Once(f[k - 1])
      BY <1>1, <2>1, <2>3
    <2> QED
      BY <2>1, <2>2, <2>4 DEF f
  <1>4. ASSUME NEW q \in Queues
        PROVE  /\ ~In(n, L[q] \o o[q][k - 1]) /\ Once(L[q] \o o[q][k - 1])
               /\ L[q] \o o[q][k - 1] \in Seq(Nodes)
               /\ \A x \in Nodes : In(x, L[q] \o o[q][k - 1]) => (q # p => ~In(x, L[p]))
    <2>1. \A i \in 1 .. k - 1 : i \in 1 .. Len(c) /\ i # k
      BY <1>1
    <2> DEFINE t == o[q][k - 1]
    <2>0. \A x : In(x, t) <=> QueueOf(H, x) = q /\ \E i \in 1 .. k - 1 : c[i] = x
      BY <1>3
    <2> HIDE DEF t
    <2>2. ~In(n, t)
      BY <1>0, <2>0, <2>1 DEF Once
    <2>3. ASSUME NEW x, In(x, t) PROVE x \in Nodes /\ In(x, c) /\ QueueOf(H, x) = q
      <3>1. PICK i \in 1 .. k - 1 : c[i] = x
        BY <2>0, <2>3
      <3> QED
        BY <1>0, <2>0, <2>1, <2>3, <3>1, SeqIs DEF In
    <2>4. \A x : ~(In(x, L[q]) /\ In(x, t))
      BY <1>0, <2>3
    <2>5. ~In(n, L[q])
      BY <1>0, <1>1
    <2>6. L[q] \in Seq(Nodes) /\ t \in Seq(Nodes) /\ Once(L[q]) /\ Once(t)
      BY <1>0, <1>3 DEF t
    <2>7. /\ \A x : In(x, L[q] \o t) <=> In(x, L[q]) \/ In(x, t)
          /\ Once(L[q] \o t)
      BY <2>4, <2>6, ConcatIn
    <2>8. \A x \in Nodes : In(x, L[q] \o t) => (q # p => ~In(x, L[p]))
      BY <1>0, <1>2, <2>3, <2>7
    <2>9. L[q] \o t \in Seq(Nodes)
      BY <2>6, ConcatProperties
    <2> QED
      BY <2>2, <2>5, <2>7, <2>8, <2>9 DEF t
  <1>5. /\ ny \in Links
        /\ Linked(ny, p, L[p] \o (<<n>> \o o[p][k - 1]))
        /\ \A x \in Cells : x # n /\ x # Head_(p) /\ x # Tail_(p) /\ ~In(x, L[p]) => ny[x] = nx[x]
    <2>1. /\ L[p] \in Seq(Nodes) /\ o[p][k - 1] \in Seq(Nodes) /\ Linked(nx, p, L[p] \o o[p][k - 1])
          /\ Once(L[p] \o o[p][k - 1]) /\ ~In(n, L[p] \o o[p][k - 1]) /\ nx \in Links
      BY <1>0, <1>2, <1>3, <1>4
    <2> QED
      BY <1>1, <1>2, <2>1, InsertedIs
  <1> HIDE DEF ny, n
  <1>6. ASSUME NEW q \in Queues PROVE Linked(ny, q, L[q] \o o[q][k])
    <2>1. CASE q = p
      BY <1>3, <1>5, <2>1
    <2>2. CASE q # p
      <3> DEFINE s == L[q] \o o[q][k - 1]
      <3>1. s \in Seq(Nodes) /\ Linked(nx, q, s) /\ o[q][k] = o[q][k - 1]
        BY <1>0, <1>3, <1>4, <2>2
      <3>2. \A x \in Nodes : In(x, s) => x # n /\ ~In(x, L[p])
        BY <1>4, <2>2
      <3> HIDE DEF s
      <3>3. /\ Head_(q) \in Cells /\ Head_(q) # n /\ Head_(q) # Head_(p) /\ Head_(q) # Tail_(p) /\ ~In(Head_(q), L[p])
            /\ Tail_(q) \in Cells /\ Tail_(q) # n /\ Tail_(q) # Head_(p) /\ Tail_(q) # Tail_(p) /\ ~In(Tail_(q), L[p])
        <4>1. \A x : In(x, L[p]) => x \in Nodes
          BY <1>2, <1>3, SeqIs DEF In
        <4> QED
          BY <1>1, <1>2, <2>2, <4>1, Names
      <3>4. \A x \in Nodes : x \in Cells /\ x # Head_(p) /\ x # Tail_(p)
        BY <1>2, Names
      <3>5. /\ ny[Head_(q)] = nx[Head_(q)] /\ ny[Tail_(q)] = nx[Tail_(q)]
            /\ \A x \in Nodes : In(x, s) => ny[x] = nx[x]
        BY <1>5, <3>2, <3>3, <3>4
      <3>6. Linked(ny, q, s)
        BY <3>1, <3>5, LinkedSame
      <3> QED
        BY <3>1, <3>6 DEF s
    <2> QED
      BY <2>1, <2>2
  <1> QED
    BY <1>5, <1>6 DEF ny, n, Moved

\* What fetch_more() makes of the links.
LEMMA FetchedIs ==
  ASSUME NEW L, NEW c, Shape(next, stack, size, free, node, L, c), stack \in Nodes \cup Tags
  PROVE  /\ Fetched \in Links
         /\ \A q \in Queues : Linked(Fetched, q, L[q] \o Sorted(c, high, q))
  <1>1. /\ L \in [Queues -> Seq(Nodes)] /\ c \in Seq(Nodes) /\ next \in Links
        /\ \A q \in Queues : Linked(next, q, L[q]) /\ Once(L[q])
        /\ Once(c)
        /\ \A n \in Nodes : In(n, c) => \A q \in Queues : ~In(n, L[q])
        /\ \A n \in Nodes, p, q \in Queues : In(n, L[p]) /\ In(n, L[q]) => p = q
    BY DEF Shape, Leading, Apart
  <1>2. Chain = c
    BY Seen
  <1> DEFINE H == high
             n == Len(c)
             o == [q \in Queues |-> CHOOSE f : Sorting(f, c, H, q) /\ Sorted(c, H, q) = f[Len(c)]]
             nx == next
             pos(q) == nx[Tail_(q)]
             Into(k, l) == InsertedAfter(l, QueueOf(H, c[k]), pos(QueueOf(H, c[k])), c[k])
             T == [k \in 1 .. n |-> [l \in Links |-> Into(k, l)]]
             Step(g) == [k \in 0 .. n |-> IF k = 0 THEN nx ELSE Into(k, g[k - 1])]
             f == CHOOSE g : g = Step(g)
  <1>3. Fetched = f[n]
    <2>1. \A x : Queue(x) = QueueOf(H, x)
      BY DEF Queue, QueueOf
    <2> QED
      BY <1>2, <2>1 DEF Fetched, before_end
  <1>4. \A q \in Queues : Sorting(o[q], c, H, q) /\ Sorted(c, H, q) = o[q][n]
    <2> SUFFICES ASSUME NEW q \in Queues PROVE Sorting(o[q], c, H, q) /\ Sorted(c, H, q) = o[q][n]
      OBVIOUS
    <2>1. \E g : Sorting(g, c, H, q) /\ Sorted(c, H, q) = g[Len(c)]
      BY <1>1, SortedIs
    <2> QED
      BY <2>1
  <1>5. n \in Nat /\ \A k \in 1 .. n : c[k] \in Nodes /\ QueueOf(H, c[k]) \in Queues
    BY <1>1, SeqIs, Names DEF QueueOf
  <1>6. \A q \in Queues : pos(q) = Place(q, L[q], Len(L[q])) /\ pos(q) \in Cells
    <2> SUFFICES ASSUME NEW q \in Queues PROVE pos(q) = Place(q, L[q], Len(L[q])) /\ pos(q) \in Cells
      OBVIOUS
    <2>1. L[q] \in Seq(Nodes) /\ Len(L[q]) \in Nat
      BY <1>1, SeqIs
    <2>2. Len(L[q]) \in 0 .. Len(L[q]) + 1
      BY <2>1
    <2>3. pos(q) = Place(q, L[q], Len(L[q]))
      BY <1>1 DEF Linked
    <2> QED
      BY <2>1, <2>2, <2>3, Places
  <1>7. \A k \in 1 .. n, l \in Links : Into(k, l) \in Links
    <2> SUFFICES ASSUME NEW k \in 1 .. n, NEW l \in Links PROVE Into(k, l) \in Links
      OBVIOUS
    <2> DEFINE q == QueueOf(H, c[k])
               x == pos(q)
    <2>1. q \in Queues /\ c[k] \in Cells /\ x \in Cells /\ Tail_(q) \in Cells
      BY <1>5, <1>6, Names
    <2> HIDE DEF q, x
    <2>2. InsertedAfter(l, q, x, c[k]) \in Links
      BY <2>1 DEF InsertedAfter, Links
    <2> QED
      BY <2>2 DEF q, x
  <1> HIDE DEF H, n, o, nx, pos, f
  <1>8. f = Step(f)
    <2> HIDE DEF Into
    <2>1. T \in [1 .. n -> [Links -> Links]] /\ \A k \in 1 .. n, l \in Links : T[k][l] = Into(k, l)
      BY <1>7
    <2> HIDE DEF T
    <2>2. nx \in Links
      BY <1>1 DEF nx
    <2>3. \E g : Solves(g, Links, nx, n, T)
      BY <1>5, <2>1, <2>2, Recursion
    <2>4. PICK g : Solves(g, Links, nx, n, T)
      BY <2>3
    <2>5. \A k \in 0 .. n : k = 0 \/ k \in 1 .. n
      BY <1>5
    <2>6. \A k \in 1 .. n : k - 1 \in 0 .. n
      BY <1>5
    <2>7. g \in [0 .. n -> Links] /\ g[0] = nx /\ \A k \in 1 .. n : g[k] = Into(k, g[k - 1])
      BY <2>1, <2>4, <2>6 DEF Solves
    <2>8. \A k \in 0 .. n : g[k] = IF k = 0 THEN nx ELSE Into(k, g[k - 1])
      BY <2>5, <2>7
    <2>9. g = Step(g)
      BY <2>7, <2>8
    <2>10. \E h : h = Step(h)
      BY <2>9
    <2> HIDE DEF Step
    <2> QED
      BY <2>10 DEF f
  <1>9. f[0] = nx /\ \A k \in 1 .. n : f[k] = Into(k, f[k - 1])
    <2> HIDE DEF Into
    <2>1. \A k \in 0 .. n : f[k] = IF k = 0 THEN nx ELSE Into(k, f[k - 1])
      BY <1>8, Zenon
    <2>2. 0 \in 0 .. n /\ \A k \in 1 .. n : k \in 0 .. n /\ k # 0
      BY <1>5
    <2> QED
      BY <2>1, <2>2
  <1> DEFINE P == {k \in 0 .. n : Moved(L, o, f[k], k)}
  <1>10. 0 \in P
    <2>1. ASSUME NEW q \in Queues PROVE Linked(nx, q, L[q] \o o[q][0])
      <3>1. L[q] \in Seq(Nodes) /\ o[q][0] = <<>> /\ Linked(nx, q, L[q])
        BY <1>1, <1>4 DEF Sorting, nx
      <3>2. L[q] \o <<>> = L[q]
        BY <3>1, ConcatEmptySeq
      <3> QED
        BY <3>1, <3>2
    <2>2. nx \in Links
      BY <1>1 DEF nx
    <2>3. 0 \in 0 .. n
      BY <1>5
    <2>4. Moved(L, o, nx, 0)
      BY <2>1, <2>2 DEF Moved
    <2> QED
      BY <1>9, <2>3, <2>4
  <1>11. ASSUME NEW k \in 1 .. n, k - 1 \in P PROVE k \in P
    <2> DEFINE p == QueueOf(H, c[k])
               l == f[k - 1]
    <2>1. Moved(L, o, l, k - 1)
      BY <1>11
    <2>2. f[k] = InsertedAfter(l, p, Place(p, L[p], Len(L[p])), c[k])
      BY <1>5, <1>6, <1>9
    <2> HIDE DEF l
    <2>3. k \in 1 .. Len(c) /\ Fetching(L, c, H, o)
      BY <1>1, <1>4 DEF n, Fetching
    <2>4. Moved(L, o, f[k], k)
      BY <2>1, <2>2, <2>3, FetchStep
    <2>5. k \in 0 .. n
      BY <1>5
    <2> QED
      BY <2>4, <2>5
  <1>12. n \in P
    <2>1. n \in 0 .. n
      BY <1>5
    <2> HIDE DEF P
    <2> QED
      BY <1>5, <1>10, <1>11, <2>1, Steps
  <1> QED
    BY <1>3, <1>4, <1>12 DEF H, Moved

\* What Sorted has.
LEMMA SortedHas ==
  ASSUME NEW c \in Seq(Nodes), NEW H, NEW q
  PROVE  /\ Sorted(c, H, q) \in Seq(Nodes)
         /\ \A x : In(x, Sorted(c, H, q)) <=> QueueOf(H, x) = q /\ In(x, c)
         /\ Once(c) => Once(Sorted(c, H, q))
  <1>1. PICK f : Sorting(f, c, H, q) /\ Sorted(c, H, q) = f[Len(c)]
    BY SortedIs
  <1>2. Len(c) \in 0 .. Len(c)
    BY SeqIs
  <1>3. \A k \in 0 .. Len(c) :
          /\ f[k] \in Seq(Nodes)
          /\ \A x : In(x, f[k]) <=> QueueOf(H, x) = q /\ \E i \in 1 .. k : c[i] = x
          /\ Once(c) => Once(f[k])
    BY <1>1, SortedIn
  <1> QED
    BY <1>1, <1>2, <1>3 DEF In

\* What the queues have when the stack has been moved.
LEMMA JoinedHas ==
  ASSUME NEW L \in [Queues -> Seq(Nodes)], NEW c \in Seq(Nodes), NEW H, Once(c),
         \A q \in Queues : Once(L[q]),
         \A n \in Nodes : In(n, c) => \A q \in Queues : ~In(n, L[q]),
         NEW q \in Queues
  PROVE  /\ Joined(L, c, H)[q] = L[q] \o Sorted(c, H, q)
         /\ Joined(L, c, H)[q] \in Seq(Nodes)
         /\ Once(Joined(L, c, H)[q])
         /\ \A x : In(x, Joined(L, c, H)[q]) <=> In(x, L[q]) \/ (QueueOf(H, x) = q /\ In(x, c))
         /\ Len(Joined(L, c, H)[q]) = Len(L[q]) + Len(Sorted(c, H, q))
  <1> DEFINE s == L[q]
             t == Sorted(c, H, q)
  <1>1. s \in Seq(Nodes) /\ Once(s)
    OBVIOUS
  <1>2. t \in Seq(Nodes) /\ Once(t) /\ \A x : In(x, t) <=> QueueOf(H, x) = q /\ In(x, c)
    BY SortedHas
  <1>3. Joined(L, c, H)[q] = s \o t
    BY DEF Joined
  <1>4. \A x : In(x, c) => x \in Nodes
    BY SeqIs DEF In
  <1>5. \A x : ~(In(x, s) /\ In(x, t))
    BY <1>2, <1>4
  <1> HIDE DEF s, t
  <1>6. /\ \A x : In(x, s \o t) <=> In(x, s) \/ In(x, t)
        /\ Once(s \o t)
    BY <1>1, <1>2, <1>5, ConcatIn
  <1>7. s \o t \in Seq(Nodes) /\ Len(s \o t) = Len(s) + Len(t)
    BY <1>1, <1>2, ConcatProperties
  <1> QED
    BY <1>2, <1>3, <1>6, <1>7 DEF s, t

\* fetch_more() and take_head() move the stack into the queues, and that is all.
LEMMA FetchShape ==
  ASSUME NEW L, NEW c, Shape(next, stack, size, free, node, L, c), stack \in Nodes \cup Tags
  PROVE  Shape(Fetched, IF stack \in Nodes THEN "empty" ELSE stack, SizeFetched, free, node, Joined(L, c, high), <<>>)
  <1> DEFINE J == Joined(L, c, high)
             top == IF stack \in Nodes THEN "empty" ELSE stack
  <1>1. /\ L \in [Queues -> Seq(Nodes)] /\ c \in Seq(Nodes)
        /\ \A q \in Queues : Once(L[q])
        /\ Once(c)
        /\ Apart(free, node, L, c)
        /\ size = [q \in Queues |-> Len(L[q])]
    BY DEF Shape, Leading
  <1>2. \A n \in Nodes : In(n, c) => \A q \in Queues : ~In(n, L[q])
    BY <1>1 DEF Apart
  <1>3. ASSUME NEW q \in Queues
        PROVE  /\ J[q] = L[q] \o Sorted(c, high, q)
               /\ J[q] \in Seq(Nodes)
               /\ Once(J[q])
               /\ \A x : In(x, J[q]) <=> In(x, L[q]) \/ (QueueOf(high, x) = q /\ In(x, c))
               /\ Len(J[q]) = Len(L[q]) + Len(Sorted(c, high, q))
    BY <1>1, <1>2, JoinedHas
  <1>4. J \in [Queues -> Seq(Nodes)]
    <2>1. J = [q \in Queues |-> J[q]]
      BY DEF Joined
    <2> HIDE DEF J
    <2> QED
      BY <1>3, <2>1
  <1> HIDE DEF J
  <1>5. Fetched \in Links /\ \A q \in Queues : Linked(Fetched, q, J[q])
    BY <1>3, FetchedIs
  <1>6. <<>> \in Seq(Nodes) /\ Len(<<>>) = 0
    BY EmptySeq
  <1>7. Leading(Fetched, top, J, <<>>)
    <2>1. top \in Tags
      BY DEF Tags
    <2> HIDE DEF top
    <2>2. Stacked(Fetched, top, <<>>) /\ Once(<<>>)
      BY <1>6, <2>1 DEF Stacked, Once
    <2> QED
      BY <1>3, <1>5, <2>2 DEF Leading
  <1>8. Apart(free, node, J, <<>>)
    <2> SUFFICES ASSUME NEW n \in Nodes
                 PROVE  /\ n \in free \/ Held(node, n) \/ In(n, <<>>) \/ \E q \in Queues : In(n, J[q])
                        /\ n \in free => ~Held(node, n)
                        /\ n \in free \/ Held(node, n) => ~In(n, <<>>)
                        /\ n \in free \/ Held(node, n) \/ In(n, <<>>) => \A q \in Queues : ~In(n, J[q])
                        /\ \A p, q \in Queues : In(n, J[p]) /\ In(n, J[q]) => p = q
      BY DEF Apart
    <2>1. /\ n \in free \/ Held(node, n) \/ In(n, c) \/ \E q \in Queues : In(n, L[q])
          /\ n \in free => ~Held(node, n)
          /\ n \in free \/ Held(node, n) => ~In(n, c)
          /\ n \in free \/ Held(node, n) \/ In(n, c) => \A q \in Queues : ~In(n, L[q])
          /\ \A p, q \in Queues : In(n, L[p]) /\ In(n, L[q]) => p = q
      BY <1>1 DEF Apart
    <2>2. ~In(n, <<>>)
      BY <1>6 DEF In
    <2>3. QueueOf(high, n) \in Queues
      BY Names DEF QueueOf
    <2>4. \A q \in Queues : In(n, J[q]) <=> In(n, L[q]) \/ (QueueOf(high, n) = q /\ In(n, c))
      BY <1>3
    <2> QED
      BY <2>1, <2>2, <2>3, <2>4
  <1>9. SizeFetched = [q \in Queues |-> Len(J[q])]
    <2>1. ASSUME NEW q \in Queues
          PROVE  Cardinality({n \in Range(Chain) : Queue(n) = q}) = Len(Sorted(c, high, q))
      <3> DEFINE S == {n \in Range(Chain) : Queue(n) = q}
                 t == Sorted(c, high, q)
      <3>1. t \in Seq(Nodes) /\ Once(t) /\ \A x : In(x, t) <=> QueueOf(high, x) = q /\ In(x, c)
        BY <1>1, SortedHas
      <3>2. Chain = c /\ DOMAIN c = 1 .. Len(c)
        BY <1>1, Seen, SeqIs
      <3>3. \A x : x \in Range(Chain) <=> In(x, c)
        BY <3>2 DEF Range, In
      <3>4. \A x : Queue(x) = QueueOf(high, x)
        BY DEF Queue, QueueOf
      <3>5. \A x : x \in S <=> In(x, t)
        BY <3>1, <3>3, <3>4
      <3> HIDE DEF S, t
      <3> QED
        BY <3>1, <3>5, Counted DEF S, t
    <2>2. \A q \in Queues : size[q] + Cardinality({n \in Range(Chain) : Queue(n) = q}) = Len(J[q])
      BY <1>1, <1>3, <2>1
    <2> QED
      BY <2>2 DEF SizeFetched
  <1> QED
    BY <1>4, <1>5, <1>6, <1>7, <1>8, <1>9 DEF Shape, J

-----------------------------------------------------------------------------
(* The steps.                                                              *)

\* a and b are the lines of the mailbox before a step and after it, and o and p
\* say whether it is open: a step of PriorityFifo, or none.
FifoStep(a, b, o, p) ==
    \/ b = a /\ (p <=> o)
    \/ /\ o /\ p
       /\ \E n \in Nodes, q \in Queues : \/ b = [a EXCEPT ![q] = Append(@, n)]
                                         \/ b = [a EXCEPT ![q] = <<n>> \o @]
    \/ (p <=> o) /\ \E q \in Queues : a[q] # <<>> /\ b = [a EXCEPT ![q] = Tail(@)]
    \/ o /\ ~p /\ b = [q \in Queues |-> <<>>]

Before(L, c) == Types /\ SendersOK /\ Shape(next, stack, size, free, node, L, c)

\* M and d are the sequences after a step.
After(L, c, M, d) ==
    /\ Types' /\ SendersOK'
    /\ Shape(next', stack', size', free', node', M, d)
    /\ FifoStep(Joined(L, c, high), Joined(M, d, high'), stack # "closed", stack' # "closed")

\* What Shape says, in one place.
LEMMA ShapeIs ==
  ASSUME NEW nx, NEW top, NEW sz, NEW fr, NEW nd, NEW L, NEW c, Shape(nx, top, sz, fr, nd, L, c)
  PROVE  /\ L \in [Queues -> Seq(Nodes)] /\ c \in Seq(Nodes) /\ nx \in Links
         /\ \A q \in Queues : L[q] \in Seq(Nodes) /\ Linked(nx, q, L[q]) /\ Once(L[q])
         /\ Stacked(nx, top, c) /\ Once(c)
         /\ Leading(nx, top, L, c)
         /\ Apart(fr, nd, L, c)
         /\ sz = [q \in Queues |-> Len(L[q])]
         /\ \A x : In(x, c) => x \in Nodes
         /\ \A q \in Queues : \A x : In(x, L[q]) => x \in Nodes
  <1>1. /\ L \in [Queues -> Seq(Nodes)] /\ c \in Seq(Nodes) /\ nx \in Links
        /\ \A q \in Queues : L[q] \in Seq(Nodes) /\ Linked(nx, q, L[q]) /\ Once(L[q])
        /\ Stacked(nx, top, c) /\ Once(c)
        /\ Leading(nx, top, L, c)
        /\ Apart(fr, nd, L, c)
        /\ sz = [q \in Queues |-> Len(L[q])]
    BY DEF Shape, Leading
  <1>2. \A s \in Seq(Nodes) : \A x : In(x, s) => x \in Nodes
    BY SeqIs DEF In
  <1> QED
    BY <1>1, <1>2

\* The lists are as they were if their own links are.
LEMMA LeadingSame ==
  ASSUME NEW L \in [Queues -> Seq(Nodes)], NEW c \in Seq(Nodes), NEW nx, NEW ny, NEW top,
         Leading(nx, top, L, c),
         \A q \in Queues : ny[Head_(q)] = nx[Head_(q)] /\ ny[Tail_(q)] = nx[Tail_(q)],
         \A x \in Nodes : In(x, c) \/ (\E q \in Queues : In(x, L[q])) => ny[x] = nx[x]
  PROVE  Leading(ny, top, L, c)
  <1>1. ASSUME NEW q \in Queues PROVE Linked(ny, q, L[q]) /\ Once(L[q])
    <2> DEFINE s == L[q]
    <2>1. s \in Seq(Nodes) /\ Linked(nx, q, s) /\ Once(s) /\ \A x \in Nodes : In(x, s) => ny[x] = nx[x]
      BY DEF Leading
    <2> HIDE DEF s
    <2>2. Linked(ny, q, s)
      BY <2>1, LinkedSame
    <2> QED
      BY <2>1, <2>2 DEF s
  <1>2. Stacked(ny, top, c) /\ Once(c)
    <2>1. Stacked(nx, top, c) /\ Once(c) /\ \A x \in Nodes : In(x, c) => ny[x] = nx[x]
      BY DEF Leading
    <2> QED
      BY <2>1, StackedSame
  <1> QED
    BY <1>1, <1>2 DEF Leading

\* The lines depend on the priorities of the messages on the stack only.
LEMMA JoinedSame ==
  ASSUME NEW L, NEW c \in Seq(Nodes), NEW H, NEW G, \A x \in Nodes : In(x, c) => (x \in H <=> x \in G)
  PROVE  Joined(L, c, H) = Joined(L, c, G)
  <1>1. \A q \in Queues : Sorted(c, H, q) = Sorted(c, G, q)
    BY SortedSame
  <1> QED
    BY <1>1 DEF Joined

LEMMA JoinedEmpty ==
  ASSUME NEW L \in [Queues -> Seq(Nodes)], NEW H
  PROVE  Joined(L, <<>>, H) = L
  <1>1. ASSUME NEW q \in Queues PROVE L[q] \o Sorted(<<>>, H, q) = L[q]
    <2>1. L[q] \in Seq(Nodes)
      OBVIOUS
    <2>2. L[q] \o <<>> = L[q]
      BY <2>1, ConcatEmptySeq
    <2> QED
      BY <2>2, SortedEmpty
  <1> QED
    BY <1>1 DEF Joined

\* A tag at the top: nothing is on the stack.
LEMMA Bare ==
  ASSUME NEW nx, NEW top \in Tags, NEW c \in Seq(Nodes), Stacked(nx, top, c)
  PROVE  c = <<>> /\ \A y : \A t \in Tags : Stacked(y, t, c)
  <1>1. c = <<>>
    <2> SUFFICES ASSUME c # <<>> PROVE FALSE
      OBVIOUS
    <2>1. Len(c) \in Nat /\ Len(c) # 0 /\ \A i \in 1 .. Len(c) : c[i] \in Nodes
      BY SeqIs
    <2>2. top = c[1] /\ 1 \in 1 .. Len(c)
      BY <2>1 DEF Stacked
    <2> QED
      BY <2>1, <2>2, Names
  <1>2. Len(<<>>) = 0
    BY EmptySeq
  <1> QED
    BY <1>1, <1>2 DEF Stacked

\* A message is allocated: nothing of it is in a list.
LEMMA MakeMessageStep ==
  ASSUME NEW L, NEW c, Before(L, c), NEW s \in Senders, MakeMessage(s)
  PROVE  After(L, c, L, c)
  <1>1. PICK n \in free, h \in BOOLEAN :
          /\ node' = [node EXCEPT ![s] = n]
          /\ high' = IF h THEN high \cup {n} ELSE high
          /\ free' = free \ {n}
    BY DEF MakeMessage
  <1>2. node[s] = Null /\ UNCHANGED <<stack, next, size, last>>
    BY DEF MakeMessage
  <1>3. Types /\ SendersOK /\ Shape(next, stack, size, free, node, L, c) /\ Apart(free, node, L, c)
    BY DEF Before, Shape
  <1>4. n \in Nodes /\ n # Null /\ Null \notin Nodes
    BY <1>3, Names DEF Types
  <1>5. /\ \A t \in Senders : node'[t] = IF t = s THEN n ELSE node[t]
        /\ node' \in [Senders -> Nodes \cup {Null}]
    BY <1>1, <1>3, <1>4 DEF Types
  <1>6. ~Held(node, n) /\ ~In(n, c)
    BY <1>3, <1>4 DEF Apart
  <1>7. Types'
    BY <1>1, <1>2, <1>3, <1>4, <1>5 DEF Types
  <1>8. SendersOK'
    <2>1. \A t \in Senders : node[t] # n
      BY <1>6 DEF Held
    <2> QED
      BY <1>2, <1>3, <1>4, <1>5, <2>1 DEF SendersOK
  <1>9. \A m \in Nodes : Held(node', m) <=> Held(node, m) \/ m = n
    BY <1>2, <1>4, <1>5 DEF Held
  <1>10. Apart(free', node', L, c)
    BY <1>1, <1>3, <1>4, <1>9 DEF Apart
  <1>11. Shape(next', stack', size', free', node', L, c)
    BY <1>2, <1>3, <1>10 DEF Shape
  <1>12. Joined(L, c, high) = Joined(L, c, high')
    <2>1. \A x \in Nodes : In(x, c) => (x \in high <=> x \in high')
      BY <1>1, <1>6
    <2> QED
      BY <1>3, <2>1, JoinedSame DEF Shape
  <1> QED
    BY <1>2, <1>7, <1>8, <1>11, <1>12 DEF After, FifoStep

LEMMA LoadHeadStep ==
  ASSUME NEW L, NEW c, Before(L, c), NEW s \in Senders, LoadHead(s)
  PROVE  After(L, c, L, c)
  <1>1. /\ Types /\ SendersOK /\ Shape(next, stack, size, free, node, L, c)
        /\ node[s] # Null /\ last' = [last EXCEPT ![s] = stack] /\ UNCHANGED <<stack, next, size, high, free, node>>
    BY DEF Before, LoadHead
  <1>2. Types'
    BY <1>1 DEF Types
  <1>3. SendersOK'
    BY <1>1 DEF SendersOK, Types
  <1> QED
    BY <1>1, <1>2, <1>3 DEF After, FifoStep

\* new_element->next is set, whatever becomes of the exchange.
LEMMA LinkSet ==
  ASSUME NEW L, NEW c, Before(L, c), NEW s \in Senders, TryPush(s)
  PROVE  /\ node[s] \in Nodes /\ Held(node, node[s]) /\ LinkedTo(s) \in Nodes \cup {Null}
         /\ next' \in Links /\ next'[node[s]] = LinkedTo(s)
         /\ \A x \in Cells : x # node[s] => next'[x] = next[x]
         /\ ~In(node[s], c) /\ \A q \in Queues : ~In(node[s], L[q])
         /\ Leading(next', stack, L, c)
  <1> DEFINE n == node[s]
  <1>1. /\ Types /\ SendersOK /\ Shape(next, stack, size, free, node, L, c)
        /\ last[s] \in Nodes \cup {"empty", "blocked"} /\ next' = [next EXCEPT ![n] = LinkedTo(s)]
    BY DEF Before, TryPush
  <1>2. n \in Nodes
    <2>1. last[s] # Null
      BY <1>1, Names DEF Tags
    <2> QED
      BY <1>1, <2>1 DEF SendersOK, Types
  <1>3. Held(node, n)
    BY DEF Held
  <1>4. LinkedTo(s) \in Nodes \cup {Null}
    BY DEF LinkedTo
  <1>5. /\ L \in [Queues -> Seq(Nodes)] /\ c \in Seq(Nodes) /\ next \in Links
        /\ Leading(next, stack, L, c) /\ Apart(free, node, L, c)
    BY <1>1, ShapeIs
  <1> HIDE DEF n
  <1>6. ~In(n, c) /\ \A q \in Queues : ~In(n, L[q])
    BY <1>2, <1>3, <1>5 DEF Apart
  <1>7. next' \in Links /\ next'[n] = LinkedTo(s) /\ \A x \in Cells : x # n => next'[x] = next[x]
    BY <1>1, <1>2, <1>4, <1>5, Names DEF Links
  <1>8. Leading(next', stack, L, c)
    <2>1. \A q \in Queues : next'[Head_(q)] = next[Head_(q)] /\ next'[Tail_(q)] = next[Tail_(q)]
      BY <1>2, <1>7, Names
    <2>2. \A x \in Nodes : In(x, c) \/ (\E q \in Queues : In(x, L[q])) => next'[x] = next[x]
      BY <1>6, <1>7, Names
    <2> QED
      BY <1>5, <2>1, <2>2, LeadingSame
  <1> QED
    BY <1>2, <1>3, <1>4, <1>6, <1>7, <1>8 DEF n

\* An exchange that fails has loaded the head again.
LEMMA PushFailedStep ==
  ASSUME NEW L, NEW c, Before(L, c), NEW s \in Senders, TryPush(s), ~HeadUnchanged(s)
  PROVE  After(L, c, L, c)
  <1>1. /\ Types /\ SendersOK /\ Shape(next, stack, size, free, node, L, c)
        /\ last' = [last EXCEPT ![s] = stack] /\ UNCHANGED <<stack, node, size, high, free>>
    BY DEF Before, TryPush
  <1>2. node[s] \in Nodes /\ next' \in Links /\ Leading(next', stack, L, c)
    BY LinkSet
  <1>3. Types'
    BY <1>1 DEF Types
  <1>4. SendersOK'
    BY <1>1, <1>2, Names DEF SendersOK, Types
  <1>5. Shape(next', stack', size', free', node', L, c)
    BY <1>1, <1>2 DEF Shape
  <1> QED
    BY <1>1, <1>3, <1>4, <1>5 DEF After, FifoStep

\* One that succeeds has the message on top of the very stack that it links to:
\* whatever has come and gone since the head was loaded, the head is the same.
LEMMA PushedStep ==
  ASSUME NEW L, NEW c, Before(L, c), NEW s \in Senders, TryPush(s), HeadUnchanged(s)
  PROVE  After(L, c, L, <<node[s]>> \o c)
  <1> DEFINE n == node[s]
             d == <<n>> \o c
  <1>1. /\ Types /\ SendersOK /\ Shape(next, stack, size, free, node, L, c)
        /\ last[s] \in Nodes \cup {"empty", "blocked"} /\ stack = last[s]
        /\ stack' = n /\ node' = [node EXCEPT ![s] = Null] /\ last' = [last EXCEPT ![s] = Null]
        /\ UNCHANGED <<size, high, free>>
    BY DEF Before, TryPush, HeadUnchanged
  <1>2. /\ n \in Nodes /\ Held(node, n) /\ next' \in Links /\ next'[n] = LinkedTo(s)
        /\ \A x \in Cells : x # n => next'[x] = next[x]
        /\ ~In(n, c) /\ \A q \in Queues : ~In(n, L[q])
        /\ Leading(next', stack, L, c)
    BY LinkSet
  <1>3. /\ L \in [Queues -> Seq(Nodes)] /\ c \in Seq(Nodes) /\ Once(c) /\ Apart(free, node, L, c)
        /\ Stacked(next, stack, c)
    BY <1>1, ShapeIs
  <1> HIDE DEF n
  <1>4. /\ Len(c) \in Nat /\ d \in Seq(Nodes) /\ Len(d) = Len(c) + 1 /\ d[1] = n
        /\ \A i \in 2 .. Len(c) + 1 : d[i] = c[i - 1]
        /\ \A x : In(x, d) <=> x = n \/ In(x, c)
        /\ Once(d) /\ (c = <<>> <=> Len(c) = 0)
    BY <1>2, <1>3, SeqIs, InFront, InFrontIn
  <1>5. LinkedTo(s) = IF c = <<>> THEN Null ELSE c[1]
    <2>1. CASE c = <<>>
      BY <1>1, <1>3, <2>1, Names DEF LinkedTo, Stacked
    <2>2. CASE c # <<>>
      <3>1. stack = c[1] /\ c[1] \in Nodes
        BY <1>3, <1>4, <2>2, SeqIs DEF Stacked
      <3> QED
        BY <1>1, <2>2, <3>1 DEF LinkedTo
    <2> QED
      BY <2>1, <2>2
  <1>6. Stacked(next', n, d)
    <2>1. ASSUME NEW i \in 1 .. Len(d) PROVE next'[d[i]] = IF i = Len(d) THEN Null ELSE d[i + 1]
      <3>1. CASE i = 1
        <4>1. Len(c) # 0 => 2 \in 2 .. Len(c) + 1
          BY <1>4
        <4>2. Len(c) # 0 => d[2] = c[1]
          BY <1>4, <4>1
        <4>3. i = Len(d) <=> Len(c) = 0
          BY <1>4, <3>1
        <4>4. CASE Len(c) = 0
          BY <1>2, <1>4, <1>5, <3>1, <4>3, <4>4
        <4>5. CASE Len(c) # 0
          BY <1>2, <1>4, <1>5, <3>1, <4>2, <4>3, <4>5
        <4> QED
          BY <4>4, <4>5
      <3>2. CASE i # 1
        <4>1. /\ i \in 2 .. Len(c) + 1 /\ i - 1 \in 1 .. Len(c) /\ (i = Len(d) <=> i - 1 = Len(c))
              /\ (i # Len(d) => i + 1 \in 2 .. Len(c) + 1) /\ (i + 1) - 1 = (i - 1) + 1
          BY <1>4, <3>2
        <4>2. d[i] = c[i - 1] /\ (i # Len(d) => d[i + 1] = c[(i - 1) + 1])
          BY <1>4, <4>1
        <4>3. next'[c[i - 1]] = IF i - 1 = Len(c) THEN Null ELSE c[(i - 1) + 1]
          <5>1. Stacked(next', stack, c)
            BY <1>2 DEF Leading
          <5> QED
            BY <4>1, <5>1 DEF Stacked
        <4> QED
          BY <4>1, <4>2, <4>3
      <3> QED
        BY <3>1, <3>2
    <2>2. d # <<>> /\ n = d[1]
      <3>1. Len(d) # 0
        BY <1>4
      <3> HIDE DEF d
      <3> QED
        BY <1>4, <3>1, SeqIs
    <2> HIDE DEF d
    <2> QED
      BY <2>1, <2>2 DEF Stacked
  <1>7. Types'
    BY <1>1, <1>2 DEF Types
  <1>8. /\ node' \in [Senders -> Nodes \cup {Null}] /\ last' \in [Senders -> Nodes \cup Tags \cup {Null}]
        /\ \A t \in Senders : node'[t] = (IF t = s THEN Null ELSE node[t]) /\ last'[t] = IF t = s THEN Null ELSE last[t]
    BY <1>1, <1>7 DEF Types
  <1>9. SendersOK'
    BY <1>1, <1>8 DEF SendersOK
  <1>10. \A m \in Nodes : Held(node', m) <=> Held(node, m) /\ m # n
    <2>1. \A t \in Senders : node[t] = n => t = s
      BY <1>1, <1>2, Names DEF SendersOK, n
    <2>2. \A m \in Nodes : m # Null
      BY Names
    <2> QED
      BY <1>8, <2>1, <2>2 DEF Held, n
  <1> HIDE DEF d
  <1>11. Apart(free', node', L, d)
    BY <1>1, <1>2, <1>3, <1>4, <1>10 DEF Apart
  <1>12. Leading(next', stack', L, d)
    BY <1>1, <1>2, <1>4, <1>6 DEF Leading
  <1>13. Shape(next', stack', size', free', node', L, d)
    BY <1>1, <1>2, <1>3, <1>4, <1>11, <1>12 DEF Shape
  <1>14. FifoStep(Joined(L, c, high), Joined(L, d, high'), stack # "closed", stack' # "closed")
    <2> DEFINE p == QueueOf(high, n)
               a == Joined(L, c, high)
    <2>1. p \in Queues
      BY Names DEF QueueOf
    <2>2. ASSUME NEW q \in Queues
          PROVE  L[q] \o Sorted(d, high, q) = IF q = p THEN Append(a[q], n) ELSE a[q]
      <3> DEFINE u == L[q]
                 t == Sorted(c, high, q)
      <3>1. u \in Seq(Nodes) /\ t \in Seq(Nodes) /\ <<n>> \in Seq(Nodes) /\ u \o t \in Seq(Nodes)
        BY <1>2, <1>3, SortedHas, ConcatProperties
      <3>2. a[q] = u \o t
        BY DEF Joined
      <3>3. Sorted(d, high, q) = IF p = q THEN Append(t, n) ELSE t
        BY <1>2, <1>3, SortedPushed DEF d
      <3> HIDE DEF u, t
      <3>4. Append(t, n) = t \o <<n>> /\ Append(u \o t, n) = (u \o t) \o <<n>>
        BY <1>2, <3>1, AppendIsConcat
      <3>5. (u \o t) \o <<n>> = u \o (t \o <<n>>)
        BY <3>1, ConcatAssociative
      <3>6. L[q] \o Sorted(d, high, q) = IF q = p THEN u \o (t \o <<n>>) ELSE u \o t
        BY <3>3, <3>4 DEF u
      <3> QED
        BY <3>2, <3>4, <3>5, <3>6
    <2>3. Joined(L, d, high) = [a EXCEPT ![p] = Append(@, n)]
      <3>1. a = [q \in Queues |-> a[q]]
        BY DEF Joined
      <3> HIDE DEF a, p
      <3>2. [a EXCEPT ![p] = Append(@, n)] = [q \in Queues |-> IF q = p THEN Append(a[q], n) ELSE a[q]]
        BY <2>1, <3>1
      <3> QED
        BY <2>2, <3>2 DEF Joined
    <2>4. stack # "closed" /\ stack' # "closed"
      BY <1>1, <1>2, Names DEF Tags
    <2> HIDE DEF a, p
    <2> QED
      BY <1>1, <1>2, <2>1, <2>3, <2>4 DEF FifoStep, a
  <1> QED
    BY <1>7, <1>9, <1>13, <1>14 DEF After, d, n

\* The inbox is closed: the message is deleted, and nothing else.
LEMMA PushClosedStep ==
  ASSUME NEW L, NEW c, Before(L, c), NEW s \in Senders, PushClosed(s)
  PROVE  After(L, c, L, c)
  <1> DEFINE n == node[s]
  <1>1. /\ Types /\ SendersOK /\ Shape(next, stack, size, free, node, L, c)
        /\ last[s] = "closed"
        /\ free' = free \cup {n} /\ high' = high \ {n}
        /\ next' = [x \in DOMAIN next |-> IF x \in {n} THEN Null ELSE next[x]]
        /\ node' = [node EXCEPT ![s] = Null] /\ last' = [last EXCEPT ![s] = Null]
        /\ UNCHANGED <<stack, size>>
    BY DEF Before, PushClosed, Deleted
  <1>2. n \in Nodes
    <2>1. last[s] # Null
      BY <1>1, Names DEF Tags
    <2> QED
      BY <1>1, <2>1 DEF SendersOK, Types
  <1>3. Held(node, n)
    BY DEF Held
  <1>4. /\ L \in [Queues -> Seq(Nodes)] /\ c \in Seq(Nodes) /\ next \in Links
        /\ Leading(next, stack, L, c) /\ Apart(free, node, L, c)
    BY <1>1, ShapeIs
  <1> HIDE DEF n
  <1>5. ~In(n, c) /\ \A q \in Queues : ~In(n, L[q])
    BY <1>2, <1>3, <1>4 DEF Apart
  <1>6. next' \in Links /\ \A x \in Cells : x # n => next'[x] = next[x]
    BY <1>1, <1>2, <1>4 DEF Links
  <1>7. Leading(next', stack, L, c)
    <2>1. \A q \in Queues : next'[Head_(q)] = next[Head_(q)] /\ next'[Tail_(q)] = next[Tail_(q)]
      BY <1>2, <1>6, Names
    <2>2. \A x \in Nodes : In(x, c) \/ (\E q \in Queues : In(x, L[q])) => next'[x] = next[x]
      BY <1>5, <1>6, Names
    <2> QED
      BY <1>4, <2>1, <2>2, LeadingSame
  <1>8. Types'
    BY <1>1, <1>2 DEF Types
  <1>9. /\ node' \in [Senders -> Nodes \cup {Null}] /\ last' \in [Senders -> Nodes \cup Tags \cup {Null}]
        /\ \A t \in Senders : node'[t] = (IF t = s THEN Null ELSE node[t]) /\ last'[t] = IF t = s THEN Null ELSE last[t]
    BY <1>1, <1>8 DEF Types
  <1>10. SendersOK'
    BY <1>1, <1>9 DEF SendersOK
  <1>11. \A m \in Nodes : Held(node', m) <=> Held(node, m) /\ m # n
    <2>1. \A t \in Senders : node[t] = n => t = s
      BY <1>1, <1>2, Names DEF SendersOK, n
    <2>2. \A m \in Nodes : m # Null
      BY Names
    <2> QED
      BY <1>9, <2>1, <2>2 DEF Held, n
  <1>12. Apart(free', node', L, c)
    BY <1>1, <1>2, <1>4, <1>5, <1>11 DEF Apart
  <1>13. Shape(next', stack', size', free', node', L, c)
    BY <1>1, <1>4, <1>6, <1>7, <1>12 DEF Shape
  <1>14. Joined(L, c, high) = Joined(L, c, high')
    <2>1. \A x \in Nodes : In(x, c) => (x \in high <=> x \in high')
      BY <1>1, <1>5
    <2> QED
      BY <1>4, <2>1, JoinedSame
  <1> QED
    BY <1>1, <1>8, <1>10, <1>13, <1>14 DEF After, FifoStep

\* A fetch: no line has changed.
LEMMA SizeStep ==
  ASSUME NEW L, NEW c, Before(L, c), Size
  PROVE  After(L, c, Joined(L, c, high), <<>>)
  <1> DEFINE J == Joined(L, c, high)
  <1>1. /\ Types /\ SendersOK /\ Shape(next, stack, size, free, node, L, c)
        /\ stack' = (IF stack \in Nodes THEN "empty" ELSE stack)
        /\ next' = Fetched /\ size' = SizeFetched /\ UNCHANGED <<high, free, node, last>>
    BY DEF Before, Size, TakeHead
  <1>2. Shape(next', stack', size', free', node', J, <<>>)
    BY <1>1, FetchShape DEF Types
  <1>3. Types' /\ SendersOK'
    BY <1>1 DEF Types, SendersOK, Tags
  <1>4. Joined(J, <<>>, high') = J
    BY <1>2, JoinedEmpty, ShapeIs
  <1>5. stack' # "closed" <=> stack # "closed"
    BY <1>1, Names DEF Tags
  <1> QED
    BY <1>2, <1>3, <1>4, <1>5 DEF After, FifoStep

LEMMA TailConcat ==
  ASSUME NEW s \in Seq(Nodes), NEW t \in Seq(Nodes), s # <<>>
  PROVE  s \o t # <<>> /\ Tail(s \o t) = Tail(s) \o t
  <1> DEFINE r == s \o t
             u == Tail(s)
  <1>1. /\ Len(s) \in Nat /\ Len(t) \in Nat /\ Len(s) # 0
        /\ u \in Seq(Nodes) /\ Len(u) = Len(s) - 1 /\ \A i \in 1 .. Len(s) - 1 : u[i] = s[i + 1]
    BY SeqIs, TailIn
  <1>2. /\ r \in Seq(Nodes) /\ Len(r) = Len(s) + Len(t)
        /\ \A i \in 1 .. Len(s) + Len(t) : r[i] = IF i <= Len(s) THEN s[i] ELSE t[i - Len(s)]
    BY ConcatProperties
  <1> HIDE DEF u
  <1>3. /\ u \o t \in Seq(Nodes) /\ Len(u \o t) = Len(u) + Len(t)
        /\ \A i \in 1 .. Len(u) + Len(t) : (u \o t)[i] = IF i <= Len(u) THEN u[i] ELSE t[i - Len(u)]
    BY <1>1, ConcatProperties
  <1> HIDE DEF r
  <1>4. r # <<>>
    BY <1>1, <1>2, SeqIs
  <1>5. Tail(r) \in Seq(Nodes) /\ Len(Tail(r)) = Len(r) - 1 /\ \A i \in 1 .. Len(r) - 1 : Tail(r)[i] = r[i + 1]
    BY <1>2, <1>4, TailIn
  <1>6. ASSUME NEW i \in 1 .. Len(r) - 1 PROVE Tail(r)[i] = (u \o t)[i]
    <2>1. /\ i + 1 \in 1 .. Len(s) + Len(t) /\ i \in 1 .. Len(u) + Len(t)
          /\ (i + 1 <= Len(s) <=> i <= Len(u)) /\ (i + 1) - Len(s) = i - Len(u)
          /\ (i <= Len(u) => i \in 1 .. Len(s) - 1)
      BY <1>1, <1>2
    <2>2. Tail(r)[i] = IF i + 1 <= Len(s) THEN s[i + 1] ELSE t[(i + 1) - Len(s)]
      BY <1>2, <1>5, <2>1
    <2>3. (u \o t)[i] = IF i <= Len(u) THEN u[i] ELSE t[i - Len(u)]
      BY <1>3, <2>1
    <2>4. CASE i <= Len(u)
      BY <1>1, <2>1, <2>2, <2>3, <2>4
    <2>5. CASE ~(i <= Len(u))
      BY <2>1, <2>2, <2>3, <2>5
    <2> QED
      BY <2>4, <2>5
  <1>7. Len(Tail(r)) = Len(u \o t)
    BY <1>1, <1>2, <1>3, <1>5
  <1>8. Tail(r) = u \o t
    BY <1>3, <1>5, <1>6, <1>7, SeqEqual
  <1> QED
    BY <1>4, <1>8 DEF r, u

\* The first of a line, as the links and the sizes have it, is deleted.
LEMMA PopFromIs ==
  ASSUME NEW nx, NEW top, NEW sz, NEW L, NEW c, Shape(nx, top, sz, free, node, L, c), Types,
         sz["urgent"] # 0 \/ sz["normal"] # 0,
         PopFrom(nx, sz), UNCHANGED node
  PROVE  \E q \in Queues :
           /\ L[q] # <<>>
           /\ Shape(next', top, size', free', node', [L EXCEPT ![q] = Tail(@)], c)
           /\ free' \subseteq Nodes /\ high' \subseteq Nodes
           /\ \A x \in Nodes : In(x, c) => (x \in high <=> x \in high')
  <1> DEFINE q == IF sz["urgent"] # 0 THEN "urgent" ELSE "normal"
             s == L[q]
             ny == Popped(nx, q, sz[q] - 1)
             n == nx[Head_(q)]
             M == [L EXCEPT ![q] = Tail(@)]
  <1>1. /\ size' = [sz EXCEPT ![q] = @ - 1]
        /\ free' = free \cup {n} /\ high' = high \ {n}
        /\ next' = [x \in DOMAIN ny |-> IF x \in {n} THEN Null ELSE ny[x]]
    BY DEF PopFrom, Deleted
  <1>2. q \in Queues /\ sz[q] # 0
    BY DEF Queues
  <1> HIDE DEF q
  <1>3. /\ L \in [Queues -> Seq(Nodes)] /\ c \in Seq(Nodes) /\ nx \in Links
        /\ \A p \in Queues : L[p] \in Seq(Nodes) /\ Linked(nx, p, L[p]) /\ Once(L[p])
        /\ Leading(nx, top, L, c) /\ Apart(free, node, L, c)
        /\ sz = [p \in Queues |-> Len(L[p])]
        /\ \A p \in Queues : \A x : In(x, L[p]) => x \in Nodes
        /\ \A x : In(x, c) => x \in Nodes
    BY ShapeIs
  <1>4. /\ s \in Seq(Nodes) /\ Linked(nx, q, s) /\ Once(s) /\ Len(s) = sz[q] /\ s # <<>>
    BY <1>2, <1>3, SeqIs
  <1> HIDE DEF s
  <1>5. /\ n = s[1] /\ ny \in Links /\ Linked(ny, q, Tail(s))
        /\ \A x \in Cells : x # Head_(q) /\ x # Tail_(q) => ny[x] = nx[x]
    BY <1>2, <1>3, <1>4, PoppedIs
  <1> HIDE DEF ny, n
  <1>6. /\ Tail(s) \in Seq(Nodes) /\ Len(Tail(s)) = Len(s) - 1 /\ n \in Nodes
        /\ \A x : In(x, s) <=> x = n \/ In(x, Tail(s))
        /\ Once(Tail(s)) /\ ~In(n, Tail(s))
    BY <1>4, <1>5, TailIn
  <1>7. /\ M \in [Queues -> Seq(Nodes)] /\ M[q] = Tail(s)
        /\ \A p \in Queues : p # q => M[p] = L[p]
    BY <1>2, <1>3, <1>6 DEF s
  <1> HIDE DEF M
  <1>8. /\ ~In(n, c) /\ n \notin free /\ ~Held(node, n) /\ In(n, L[q])
        /\ \A p \in Queues : p # q => ~In(n, L[p])
    BY <1>2, <1>3, <1>6 DEF Apart, s
  <1>9. next' \in Links /\ \A x \in Cells : x # n => next'[x] = ny[x]
    <2>1. DOMAIN ny = Cells
      BY <1>5 DEF Links
    <2> QED
      BY <1>1, <1>5, <2>1 DEF Links
  <1>10. \A x \in Nodes : x # n => next'[x] = nx[x]
    BY <1>2, <1>5, <1>9, Names
  <1>11. ASSUME NEW p \in Queues PROVE Linked(next', p, M[p]) /\ Once(M[p])
    <2>1. Head_(p) \in Cells /\ Tail_(p) \in Cells /\ Head_(p) # n /\ Tail_(p) # n
      BY <1>6, Names
    <2>2. CASE p = q
      <3>1. /\ next'[Head_(q)] = ny[Head_(q)] /\ next'[Tail_(q)] = ny[Tail_(q)]
            /\ \A x \in Nodes : In(x, Tail(s)) => next'[x] = ny[x]
        BY <1>6, <1>9, <2>1, <2>2, Names
      <3>2. Linked(next', q, Tail(s))
        BY <1>2, <1>5, <1>6, <3>1, LinkedSame
      <3> QED
        BY <1>6, <1>7, <2>2, <3>2
    <2>3. CASE p # q
      <3> DEFINE t == L[p]
      <3>1. t \in Seq(Nodes) /\ Linked(nx, p, t) /\ Once(t) /\ ~In(n, t)
        BY <1>3, <1>8, <2>3
      <3> HIDE DEF t
      <3>2. next'[Head_(p)] = nx[Head_(p)] /\ next'[Tail_(p)] = nx[Tail_(p)]
        BY <1>2, <1>5, <1>9, <2>1, <2>3, Names
      <3>3. \A x \in Nodes : In(x, t) => next'[x] = nx[x]
        BY <1>10, <3>1
      <3>4. Linked(next', p, t)
        BY <3>1, <3>2, <3>3, LinkedSame
      <3> QED
        BY <1>7, <2>3, <3>1, <3>4 DEF t
    <2> QED
      BY <2>2, <2>3
  <1>12. Stacked(next', top, c) /\ Once(c)
    <2>1. Stacked(nx, top, c) /\ Once(c)
      BY <1>3 DEF Leading
    <2>2. \A x \in Nodes : In(x, c) => next'[x] = nx[x]
      BY <1>8, <1>10
    <2> QED
      BY <1>3, <2>1, <2>2, StackedSame
  <1>13. Apart(free', node', M, c)
    <2>1. \A p \in Queues, m \in Nodes : In(m, M[p]) <=> In(m, L[p]) /\ m # n
      BY <1>6, <1>7, <1>8 DEF s
    <2>2. node' = node /\ \A m : m \in free' <=> m \in free \/ m = n
      BY <1>1
    <2> QED
      BY <1>2, <1>3, <1>8, <2>1, <2>2 DEF Apart
  <1>14. size' = [p \in Queues |-> Len(M[p])]
    <2>1. \A p \in Queues : Len(M[p]) = IF p = q THEN sz[q] - 1 ELSE sz[p]
      BY <1>3, <1>4, <1>6, <1>7
    <2>2. size' = [p \in Queues |-> IF p = q THEN sz[q] - 1 ELSE sz[p]]
      BY <1>1, <1>2, <1>3
    <2> QED
      BY <2>1, <2>2
  <1>15. Shape(next', top, size', free', node', M, c)
    BY <1>3, <1>7, <1>9, <1>11, <1>12, <1>13, <1>14 DEF Shape, Leading
  <1>16. L[q] # <<>> /\ free' \subseteq Nodes /\ high' \subseteq Nodes /\ \A x \in Nodes : In(x, c) => (x \in high <=> x \in high')
    BY <1>1, <1>4, <1>6, <1>8 DEF Types, s
  <1> QED
    BY <1>2, <1>15, <1>16 DEF M

\* The sequences a without the first of a[q].
Without(a, q) == [a EXCEPT ![q] = Tail(@)]

LEMMA JoinedPopped ==
  ASSUME NEW L \in [Queues -> Seq(Nodes)], NEW c \in Seq(Nodes), NEW H, NEW q \in Queues, L[q] # <<>>
  PROVE  /\ Joined(L, c, H)[q] # <<>>
         /\ Joined(Without(L, q), c, H) = Without(Joined(L, c, H), q)
  <1> DEFINE a == Joined(L, c, H)
             M == Without(L, q)
  <1>1. L[q] \o Sorted(c, H, q) # <<>> /\ Tail(L[q] \o Sorted(c, H, q)) = Tail(L[q]) \o Sorted(c, H, q)
    <2> DEFINE s == L[q]
               t == Sorted(c, H, q)
    <2>1. s \in Seq(Nodes) /\ t \in Seq(Nodes) /\ s # <<>>
      BY SortedHas
    <2> HIDE DEF s, t
    <2>2. s \o t # <<>> /\ Tail(s \o t) = Tail(s) \o t
      BY <2>1, TailConcat
    <2> QED
      BY <2>2 DEF s, t
  <1>2. \A p \in Queues : a[p] = L[p] \o Sorted(c, H, p)
    BY DEF Joined
  <1>3. a = [p \in Queues |-> a[p]]
    BY DEF Joined
  <1>4. M[q] = Tail(L[q]) /\ \A p \in Queues : p # q => M[p] = L[p]
    BY DEF Without
  <1> HIDE DEF a, M
  <1>5. [a EXCEPT ![q] = Tail(@)] = [p \in Queues |-> IF p = q THEN Tail(a[q]) ELSE a[p]]
    BY <1>3
  <1>6. \A p \in Queues : M[p] \o Sorted(c, H, p) = IF p = q THEN Tail(a[q]) ELSE a[p]
    BY <1>1, <1>2, <1>4
  <1>7. Joined(M, c, H) = [a EXCEPT ![q] = Tail(@)]
    BY <1>5, <1>6 DEF Joined
  <1> QED
    BY <1>1, <1>2, <1>7 DEF a, M, Without

\* The oldest message of one line leaves it, also when the reader has to fetch
\* first.
LEMMA PopFrontStep ==
  ASSUME NEW L, NEW c, Before(L, c), PopFront
  PROVE  \E M, d : After(L, c, M, d)
  <1>1. /\ Types /\ SendersOK /\ Shape(next, stack, size, free, node, L, c)
        /\ UNCHANGED <<node, last>>
    BY DEF Before, PopFront
  <1>2. /\ L \in [Queues -> Seq(Nodes)] /\ c \in Seq(Nodes)
        /\ size = [p \in Queues |-> Len(L[p])] /\ Stacked(next, stack, c) /\ Once(c)
        /\ Apart(free, node, L, c) /\ \A q \in Queues : Once(L[q])
    BY <1>1, ShapeIs
  <1>3. CASE cached # 0 /\ PopFrom(next, size) /\ UNCHANGED stack
    <2>1. size["urgent"] # 0 \/ size["normal"] # 0
      BY <1>3 DEF cached
    <2>2. PICK q \in Queues :
            /\ L[q] # <<>>
            /\ Shape(next', stack, size', free', node', [L EXCEPT ![q] = Tail(@)], c)
            /\ free' \subseteq Nodes /\ high' \subseteq Nodes
            /\ \A x \in Nodes : In(x, c) => (x \in high <=> x \in high')
      BY <1>1, <1>3, <2>1, PopFromIs
    <2> DEFINE M == Without(L, q)
    <2>3. /\ Joined(L, c, high)[q] # <<>>
          /\ Joined(M, c, high) = [Joined(L, c, high) EXCEPT ![q] = Tail(@)]
      <3>1. L \in [Queues -> Seq(Nodes)] /\ c \in Seq(Nodes) /\ L[q] # <<>>
        BY <1>2, <2>2
      <3>2. Joined(L, c, high)[q] # <<>> /\ Joined(M, c, high) = Without(Joined(L, c, high), q)
        BY <3>1, JoinedPopped
      <3> QED
        BY <3>2 DEF Without
    <2> HIDE DEF M
    <2>4. Joined(M, c, high') = Joined(M, c, high)
      <3>1. \A x \in Nodes : In(x, c) => (x \in high <=> x \in high')
        BY <2>2
      <3> QED
        BY <1>2, <3>1, JoinedSame
    <2>5. FifoStep(Joined(L, c, high), Joined(M, c, high'), stack # "closed", stack' # "closed")
      BY <1>3, <2>3, <2>4 DEF FifoStep
    <2>6. Types' /\ SendersOK'
      BY <1>1, <1>3, <2>2 DEF Types, SendersOK
    <2>7. Shape(next', stack', size', free', node', M, c)
      BY <1>3, <2>2 DEF M, Without
    <2>8. After(L, c, M, c)
      BY <2>5, <2>6, <2>7 DEF After
    <2> QED
      BY <2>8
  <1>4. CASE stack \in Nodes /\ TakeHead /\ PopFrom(Fetched, SizeFetched)
    <2> DEFINE J == Joined(L, c, high)
               sz == SizeFetched
               nx == Fetched
    <2>1. Shape(nx, IF stack \in Nodes THEN "empty" ELSE stack, sz, free, node, J, <<>>)
      BY <1>1, FetchShape DEF Types
    <2>2. Shape(nx, "empty", sz, free, node, J, <<>>) /\ stack' = "empty"
      BY <1>4, <2>1 DEF TakeHead
    <2>3. J \in [Queues -> Seq(Nodes)] /\ sz = [p \in Queues |-> Len(J[p])]
      BY <2>2, ShapeIs
    <2>4. sz["urgent"] # 0 \/ sz["normal"] # 0
      <3> DEFINE p == QueueOf(high, c[1])
      <3>1. c # <<>>
        BY <1>2, <1>4, Names DEF Stacked
      <3>2. Len(c) \in Nat /\ Len(c) # 0
        BY <1>2, <3>1, SeqIs
      <3>3. In(c[1], c) /\ p \in {"urgent", "normal"} /\ p \in Queues
        BY <3>2, Names DEF In, QueueOf
      <3>4. \A n \in Nodes : In(n, c) => \A q \in Queues : ~In(n, L[q])
        BY <1>2 DEF Apart
      <3>5. \A x : In(x, J[p]) <=> In(x, L[p]) \/ (QueueOf(high, x) = p /\ In(x, c))
        <4>1. /\ L \in [Queues -> Seq(Nodes)] /\ c \in Seq(Nodes) /\ Once(c)
              /\ \A q \in Queues : Once(L[q])
          BY <1>2
        <4> HIDE DEF p
        <4>2. p \in Queues
          BY <3>3
        <4> QED
          BY <3>4, <4>1, <4>2, JoinedHas
      <3>6. In(c[1], J[p])
        BY <3>3, <3>5
      <3> HIDE DEF J, p
      <3>7. J[p] \in Seq(Nodes) /\ Len(J[p]) # 0
        BY <2>3, <3>3, <3>6, SeqIs DEF In
      <3>8. sz[p] # 0
        BY <2>3, <3>3, <3>7
      <3> QED
        BY <3>3, <3>8
    <2> HIDE DEF J, sz, nx
    <2>5. PopFrom(nx, sz)
      BY <1>4 DEF nx, sz
    <2>6. PICK q \in Queues :
            /\ J[q] # <<>>
            /\ Shape(next', "empty", size', free', node', [J EXCEPT ![q] = Tail(@)], <<>>)
            /\ free' \subseteq Nodes /\ high' \subseteq Nodes
      BY <1>1, <2>2, <2>4, <2>5, PopFromIs
    <2> DEFINE M == [J EXCEPT ![q] = Tail(@)]
    <2>7. Joined(M, <<>>, high') = M
      <3>1. M \in [Queues -> Seq(Nodes)]
        BY <2>6, ShapeIs
      <3> QED
        BY <3>1, JoinedEmpty
    <2>8. stack # "closed" /\ stack' # "closed"
      BY <1>4, <2>2, Names DEF Tags
    <2>9. FifoStep(J, Joined(M, <<>>, high'), stack # "closed", stack' # "closed")
      BY <2>6, <2>7, <2>8 DEF FifoStep
    <2>10. Types' /\ SendersOK'
      BY <1>1, <2>2, <2>6 DEF Types, SendersOK, Tags
    <2>11. Shape(next', stack', size', free', node', M, <<>>)
      BY <2>2, <2>6
    <2>12. After(L, c, M, <<>>)
      BY <2>9, <2>10, <2>11 DEF After, J
    <2> QED
      BY <2>12
  <1> QED
    BY <1>3, <1>4 DEF PopFront

\* A message in front of a line.
LEMMA PushFrontStep ==
  ASSUME NEW L, NEW c, Before(L, c), PushFront
  PROVE  \E M, d : After(L, c, M, d)
  <1>1. /\ Types /\ SendersOK /\ Shape(next, stack, size, free, node, L, c)
        /\ Reading /\ UNCHANGED <<stack, node, last>>
    BY DEF Before, PushFront
  <1>2. PICK n \in free, q \in Queues :
          /\ next' = PushedFront(next, q, n)
          /\ size' = [size EXCEPT ![q] = @ + 1]
          /\ high' = IF q = "urgent" THEN high \cup {n} ELSE high
          /\ free' = free \ {n}
    BY DEF PushFront
  <1> DEFINE s == L[q]
             r == <<n>> \o s
             M == [L EXCEPT ![q] = <<n>> \o @]
             a == Joined(L, c, high)
  <1>3. /\ L \in [Queues -> Seq(Nodes)] /\ c \in Seq(Nodes) /\ next \in Links
        /\ \A p \in Queues : L[p] \in Seq(Nodes) /\ Linked(next, p, L[p]) /\ Once(L[p])
        /\ Leading(next, stack, L, c) /\ Apart(free, node, L, c)
        /\ size = [p \in Queues |-> Len(L[p])]
    BY <1>1, ShapeIs
  <1>4. /\ n \in Nodes /\ ~In(n, c) /\ ~Held(node, n) /\ \A p \in Queues : ~In(n, L[p])
    BY <1>1, <1>3 DEF Types, Apart
  <1>5. s \in Seq(Nodes) /\ Linked(next, q, s) /\ Once(s) /\ ~In(n, s)
    BY <1>3, <1>4
  <1> HIDE DEF s
  <1>6. /\ next' \in Links /\ Linked(next', q, r)
        /\ \A x \in Cells : x # n /\ x # Head_(q) /\ x # Tail_(q) => next'[x] = next[x]
    BY <1>2, <1>3, <1>4, <1>5, PushedFrontIs
  <1>7. /\ r \in Seq(Nodes) /\ Len(r) = Len(s) + 1 /\ Once(r)
        /\ \A x : In(x, r) <=> x = n \/ In(x, s)
    BY <1>4, <1>5, InFront, InFrontIn
  <1> HIDE DEF r
  <1>8. M \in [Queues -> Seq(Nodes)] /\ M[q] = r /\ \A p \in Queues : p # q => M[p] = L[p]
    BY <1>3, <1>7 DEF r, s
  <1> HIDE DEF M
  <1>9. \A x \in Nodes : x # n => next'[x] = next[x]
    BY <1>6, Names
  <1>10. ASSUME NEW p \in Queues PROVE Linked(next', p, M[p]) /\ Once(M[p])
    <2>1. CASE p = q
      BY <1>6, <1>7, <1>8, <2>1
    <2>2. CASE p # q
      <3> DEFINE t == L[p]
      <3>1. t \in Seq(Nodes) /\ Linked(next, p, t) /\ Once(t) /\ ~In(n, t)
        BY <1>3, <1>4
      <3> HIDE DEF t
      <3>2. next'[Head_(p)] = next[Head_(p)] /\ next'[Tail_(p)] = next[Tail_(p)]
        BY <1>4, <1>6, <2>2, Names
      <3>3. \A x \in Nodes : In(x, t) => next'[x] = next[x]
        BY <1>9, <3>1
      <3>4. Linked(next', p, t)
        BY <3>1, <3>2, <3>3, LinkedSame
      <3> QED
        BY <1>8, <2>2, <3>1, <3>4 DEF t
    <2> QED
      BY <2>1, <2>2
  <1>11. Stacked(next', stack', c) /\ Once(c)
    <2>1. Stacked(next, stack, c) /\ Once(c)
      BY <1>3 DEF Leading
    <2>2. \A x \in Nodes : In(x, c) => next'[x] = next[x]
      BY <1>4, <1>9
    <2> QED
      BY <1>1, <1>3, <2>1, <2>2, StackedSame
  <1>12. Apart(free', node', M, c)
    <2>1. \A p \in Queues, m \in Nodes : In(m, M[p]) <=> In(m, L[p]) \/ (p = q /\ m = n)
      BY <1>7, <1>8 DEF s
    <2>2. node' = node /\ \A m : m \in free' <=> m \in free /\ m # n
      BY <1>1, <1>2
    <2> QED
      BY <1>3, <1>4, <2>1, <2>2 DEF Apart
  <1>13. size' = [p \in Queues |-> Len(M[p])]
    <2>1. \A p \in Queues : Len(M[p]) = IF p = q THEN size[q] + 1 ELSE size[p]
      BY <1>3, <1>7, <1>8 DEF s
    <2>2. size' = [p \in Queues |-> IF p = q THEN size[q] + 1 ELSE size[p]]
      BY <1>2, <1>3
    <2> QED
      BY <2>1, <2>2
  <1>14. Shape(next', stack', size', free', node', M, c)
    BY <1>3, <1>6, <1>8, <1>10, <1>11, <1>12, <1>13 DEF Shape, Leading
  <1>15. Types' /\ SendersOK'
    BY <1>1, <1>2, <1>4 DEF Types, SendersOK
  <1>16. Joined(M, c, high') = [a EXCEPT ![q] = <<n>> \o @]
    <2>1. Joined(M, c, high') = Joined(M, c, high)
      <3>1. \A x \in Nodes : In(x, c) => (x \in high <=> x \in high')
        BY <1>2, <1>4
      <3> QED
        BY <1>3, <3>1, JoinedSame
    <2>2. r \o Sorted(c, high, q) = <<n>> \o (s \o Sorted(c, high, q))
      <3> DEFINE t == Sorted(c, high, q)
      <3>1. <<n>> \in Seq(Nodes) /\ s \in Seq(Nodes) /\ t \in Seq(Nodes)
        BY <1>3, <1>4, <1>5, SortedHas
      <3> HIDE DEF t
      <3>2. \A u, v \in Seq(Nodes) : (u \o v) \o t = u \o (v \o t)
        BY <3>1, ConcatAssociative, SMTT(30)
      <3>3. (<<n>> \o s) \o t = <<n>> \o (s \o t)
        BY <3>1, <3>2, Zenon
      <3> QED
        BY <3>3 DEF r, t
    <2>3. a = [p \in Queues |-> a[p]] /\ \A p \in Queues : a[p] = L[p] \o Sorted(c, high, p)
      BY DEF Joined
    <2> HIDE DEF a
    <2>4. [a EXCEPT ![q] = <<n>> \o @] = [p \in Queues |-> IF p = q THEN <<n>> \o a[q] ELSE a[p]]
      BY <2>3
    <2>5. \A p \in Queues : M[p] \o Sorted(c, high, p) = IF p = q THEN <<n>> \o a[q] ELSE a[p]
      BY <1>8, <2>2, <2>3 DEF s
    <2> QED
      BY <2>1, <2>4, <2>5 DEF Joined
  <1>17. FifoStep(a, Joined(M, c, high'), stack # "closed", stack' # "closed")
    BY <1>1, <1>4, <1>16 DEF FifoStep, Reading
  <1>18. After(L, c, M, c)
    BY <1>14, <1>15, <1>17 DEF After
  <1> QED
    BY <1>18

\* The tags come and go on an empty stack.
LEMMA BlockStep ==
  ASSUME NEW L, NEW c, Before(L, c), TryBlock \/ TryUnblock
  PROVE  After(L, c, L, c)
  <1>1. /\ Types /\ SendersOK /\ Shape(next, stack, size, free, node, L, c)
        /\ stack \in {"empty", "blocked"} /\ stack' \in {"empty", "blocked"}
        /\ UNCHANGED <<next, size, high, free, node, last>>
    BY DEF Before, TryBlock, TryUnblock
  <1>2. stack \in Tags /\ stack' \in Tags /\ stack # "closed" /\ stack' # "closed"
    BY <1>1 DEF Tags
  <1>3. Types' /\ SendersOK'
    BY <1>1, <1>2 DEF Types, SendersOK
  <1>4. Stacked(next, stack', c)
    <2>1. c \in Seq(Nodes) /\ Stacked(next, stack, c)
      BY <1>1, ShapeIs
    <2> QED
      BY <1>2, <2>1, Bare
  <1>5. Shape(next', stack', size', free', node', L, c)
    BY <1>1, <1>4 DEF Shape, Leading
  <1> QED
    BY <1>1, <1>2, <1>3, <1>5 DEF After, FifoStep

\* Both lists are emptied, one after the other.
LEMMA BothEmptied ==
  ASSUME NEW nx \in Links
  PROVE  LET ny == Emptied(Emptied(nx, "urgent"), "normal")
         IN  /\ ny \in Links
             /\ \A q \in Queues : Linked(ny, q, <<>>)
  <1> DEFINE nz == Emptied(nx, "urgent")
             ny == Emptied(nz, "normal")
  <1>1. "urgent" \in Queues /\ "normal" \in Queues /\ "urgent" # "normal" /\ \A q \in Queues : q \in {"urgent", "normal"}
    BY Names
  <1>2. nz \in Links /\ Linked(nz, "urgent", <<>>)
    BY <1>1, EmptiedIs
  <1> HIDE DEF nz
  <1>3. /\ ny \in Links /\ Linked(ny, "normal", <<>>)
        /\ \A x \in Cells : x # Head_("normal") /\ x # Tail_("normal") => ny[x] = nz[x]
    BY <1>1, <1>2, EmptiedIs
  <1> HIDE DEF ny
  <1>4. ny[Head_("urgent")] = nz[Head_("urgent")] /\ ny[Tail_("urgent")] = nz[Tail_("urgent")]
    BY <1>1, <1>3, Names
  <1>5. Linked(ny, "urgent", <<>>)
    <2>1. <<>> \in Seq(Nodes) /\ \A x : ~In(x, <<>>)
      BY EmptySeq DEF In
    <2> DEFINE e == <<>>
    <2>2. e \in Seq(Nodes) /\ Linked(nz, "urgent", e) /\ \A x \in Nodes : In(x, e) => ny[x] = nz[x]
      BY <1>2, <2>1
    <2> HIDE DEF e
    <2>3. Linked(ny, "urgent", e)
      BY <1>1, <1>4, <2>2, LinkedSame
    <2> QED
      BY <2>3 DEF e
  <1> QED
    BY <1>1, <1>3, <1>5 DEF ny, nz

\* Nothing is in empty sequences.
LEMMA Nothing ==
  /\ <<>> \in Seq(Nodes) /\ Len(<<>>) = 0 /\ Once(<<>>) /\ \A x : ~In(x, <<>>)
  /\ [q \in Queues |-> <<>>] \in [Queues -> Seq(Nodes)]
  /\ \A nx : \A top \in Tags : Stacked(nx, top, <<>>)
  <1>1. <<>> \in Seq(Nodes) /\ Len(<<>>) = 0
    BY EmptySeq
  <1> QED
    BY <1>1 DEF Once, In, Stacked

\* Both queues and the stack are emptied, and what was there is deleted.
LEMMA CloseStep ==
  ASSUME NEW L, NEW c, Before(L, c), Close
  PROVE  After(L, c, [q \in Queues |-> <<>>], <<>>)
  <1> DEFINE ny == Emptied(Emptied(next, "urgent"), "normal")
             gone == Range(Cached("urgent")) \cup Range(Cached("normal")) \cup Range(Chain)
             M == [q \in Queues |-> <<>>]
             d == <<>>
  <1>1. /\ Types /\ SendersOK /\ Shape(next, stack, size, free, node, L, c)
        /\ stack # "closed" /\ stack' = "closed"
        /\ free' = free \cup gone /\ high' = high \ gone
        /\ next' = [x \in DOMAIN ny |-> IF x \in gone THEN Null ELSE ny[x]]
        /\ size' = [q \in Queues |-> 0] /\ UNCHANGED <<node, last>>
    BY DEF Before, Close, Deleted
  <1>2. /\ L \in [Queues -> Seq(Nodes)] /\ c \in Seq(Nodes) /\ next \in Links
        /\ Apart(free, node, L, c)
        /\ \A x : In(x, c) => x \in Nodes
        /\ \A q \in Queues : \A x : In(x, L[q]) => x \in Nodes
    BY <1>1, ShapeIs
  <1>3. ny \in Links /\ \A q \in Queues : Linked(ny, q, <<>>)
    BY <1>2, BothEmptied
  <1>4. \A x : x \in gone <=> In(x, c) \/ \E q \in Queues : In(x, L[q])
    <2>1. Chain = c /\ \A q \in Queues : Cached(q) = L[q]
      BY <1>1, Seen DEF Types
    <2>2. "urgent" \in Queues /\ "normal" \in Queues /\ \A q \in Queues : q \in {"urgent", "normal"}
      BY Names
    <2>3. \A s \in Seq(Nodes) : \A x : x \in Range(s) <=> In(x, s)
      <3>1. \A s \in Seq(Nodes) : DOMAIN s = 1 .. Len(s)
        BY SeqIs
      <3> QED
        BY <3>1 DEF Range, In
    <2>4. \A q \in Queues : L[q] \in Seq(Nodes)
      BY <1>2
    <2>5. \A x : /\ x \in Range(Chain) <=> In(x, c)
                 /\ x \in Range(Cached("urgent")) <=> In(x, L["urgent"])
                 /\ x \in Range(Cached("normal")) <=> In(x, L["normal"])
      BY <1>2, <2>1, <2>2, <2>3, <2>4
    <2> QED
      BY <2>2, <2>5
  <1> HIDE DEF ny, gone
  <1>5. \A x \in gone : x \in Nodes
    BY <1>2, <1>4
  <1>6. next' \in Links /\ \A q \in Queues : next'[Head_(q)] = ny[Head_(q)] /\ next'[Tail_(q)] = ny[Tail_(q)]
    <2>1. DOMAIN ny = Cells
      BY <1>3 DEF Links
    <2>2. next' \in Links /\ \A x \in Cells : x \notin gone => next'[x] = ny[x]
      BY <1>1, <1>3, <2>1 DEF Links
    <2> QED
      BY <1>5, <2>2, Names
  <1>7. /\ d \in Seq(Nodes) /\ Len(d) = 0 /\ Once(d) /\ \A x : ~In(x, d)
        /\ M \in [Queues -> Seq(Nodes)] /\ \A q \in Queues : M[q] = d
        /\ Stacked(next', stack', d)
    BY <1>1, Nothing DEF Tags
  <1>8. \A q \in Queues : Linked(ny, q, d)
    BY <1>3
  <1>9. Joined(M, d, high') = M
    BY <1>7, JoinedEmpty
  <1> HIDE DEF d
  <1>10. ASSUME NEW q \in Queues PROVE Linked(next', q, M[q]) /\ Once(M[q])
    <2>1. Linked(next', q, d)
      BY <1>6, <1>7, <1>8, LinkedSame
    <2> QED
      BY <1>7, <2>1
  <1>11. FifoStep(Joined(L, c, high), Joined(M, d, high'), stack # "closed", stack' # "closed")
    BY <1>1, <1>9 DEF FifoStep
  <1>12. size' = [q \in Queues |-> Len(M[q])]
    BY <1>1, <1>7
  <1> HIDE DEF M
  <1>13. Apart(free', node', M, d)
    <2>1. node' = node /\ \A m : m \in free' <=> m \in free \/ In(m, c) \/ \E q \in Queues : In(m, L[q])
      BY <1>1, <1>4
    <2> QED
      BY <1>2, <1>7, <2>1 DEF Apart
  <1>14. Shape(next', stack', size', free', node', M, d)
    BY <1>6, <1>7, <1>10, <1>12, <1>13 DEF Shape, Leading
  <1>15. Types' /\ SendersOK'
    BY <1>1, <1>5 DEF Types, SendersOK, Tags
  <1>16. After(L, c, M, d)
    BY <1>11, <1>14, <1>15 DEF After
  <1> QED
    BY <1>16 DEF M, d

\* A mailbox starts with nothing in it.
LEMMA InitShape ==
  ASSUME Init
  PROVE  /\ Types /\ SendersOK
         /\ Shape(next, stack, size, free, node, [q \in Queues |-> <<>>], <<>>)
  <1> DEFINE none == [n \in Nodes \cup Sentinels |-> Null]
             M == [q \in Queues |-> <<>>]
             d == <<>>
  <1>1. /\ stack = "blocked" /\ next = Emptied(Emptied(none, "urgent"), "normal")
        /\ size = [q \in Queues |-> 0] /\ high = {} /\ free = Nodes
        /\ node = [s \in Senders |-> Null] /\ last = [s \in Senders |-> Null]
    BY DEF Init
  <1>2. none \in Links
    BY DEF Links, Cells
  <1> HIDE DEF none
  <1>3. next \in Links /\ \A q \in Queues : Linked(next, q, <<>>)
    BY <1>1, <1>2, BothEmptied
  <1>4. /\ d \in Seq(Nodes) /\ Len(d) = 0 /\ Once(d) /\ \A x : ~In(x, d)
        /\ M \in [Queues -> Seq(Nodes)] /\ \A q \in Queues : M[q] = d
        /\ Stacked(next, stack, d)
    BY <1>1, Nothing DEF Tags
  <1>5. \A q \in Queues : Linked(next, q, M[q]) /\ Once(M[q])
    BY <1>3, <1>4
  <1>6. size = [q \in Queues |-> Len(M[q])]
    BY <1>1, <1>4
  <1> HIDE DEF d, M
  <1>7. \A n \in Nodes : ~Held(node, n)
    BY <1>1, Names DEF Held
  <1>8. Apart(free, node, M, d)
    BY <1>1, <1>4, <1>7 DEF Apart
  <1>9. Shape(next, stack, size, free, node, M, d)
    BY <1>3, <1>4, <1>5, <1>6, <1>8 DEF Shape, Leading
  <1>10. Types /\ SendersOK
    BY <1>1 DEF Types, SendersOK, Tags
  <1> QED
    BY <1>9, <1>10 DEF M, d

\* Every step leaves sequences behind that follow from those before it.
LEMMA EveryStep ==
  ASSUME NEW L, NEW c, Before(L, c), Next
  PROVE  \E M, d : After(L, c, M, d)
  <1>1. ASSUME NEW s \in Senders, Push(s) PROVE \E M, d : After(L, c, M, d)
    <2>1. CASE MakeMessage(s)
      BY <2>1, MakeMessageStep
    <2>2. CASE LoadHead(s)
      BY <2>2, LoadHeadStep
    <2>3. CASE TryPush(s)
      <3>1. CASE HeadUnchanged(s)
        BY <2>3, <3>1, PushedStep
      <3>2. CASE ~HeadUnchanged(s)
        BY <2>3, <3>2, PushFailedStep
      <3> QED
        BY <3>1, <3>2
    <2>4. CASE PushClosed(s)
      BY <2>4, PushClosedStep
    <2> QED
      BY <1>1, <2>1, <2>2, <2>3, <2>4 DEF Push
  <1>2. ASSUME Reader PROVE \E M, d : After(L, c, M, d)
    <2>1. CASE Size
      BY <2>1, SizeStep
    <2>2. CASE PopFront
      BY <2>2, PopFrontStep
    <2>3. CASE PushFront
      BY <2>3, PushFrontStep
    <2>4. CASE TryBlock \/ TryUnblock
      BY <2>4, BlockStep
    <2>5. CASE Close
      BY <2>5, CloseStep
    <2> QED
      BY <1>2, <2>1, <2>2, <2>3, <2>4, <2>5 DEF Reader
  <1> QED
    BY <1>1, <1>2 DEF Next

-----------------------------------------------------------------------------
(* The theorems.                                                           *)

\* Sequences that say where every message is exist in every state.
THEOREM MailboxInvariant == Spec => []Inv
  <1>1. Init => Inv
    BY InitShape DEF Inv
  <1>2. Inv /\ [Next]_vars => Inv'
    <2> SUFFICES ASSUME Inv, [Next]_vars PROVE Inv'
      OBVIOUS
    <2>1. PICK L, c : Before(L, c)
      BY DEF Inv, Before
    <2>2. CASE Next
      <3>1. PICK M, d : After(L, c, M, d)
        BY <2>1, <2>2, EveryStep
      <3> QED
        BY <3>1 DEF After, Inv
    <2>3. CASE UNCHANGED vars
      BY <2>1, <2>3 DEF Before, Inv, Types, SendersOK, vars
    <2> QED
      BY <2>2, <2>3
  <1> QED
    BY <1>1, <1>2, PTL DEF Spec

\* Every variable keeps its type; in particular no queue counts more messages
\* than there are addresses, however many are sent.
THEOREM MailboxTypeOK == Spec => []TypeOK
  <1>1. Inv => TypeOK
    <2> SUFFICES ASSUME Inv PROVE TypeOK
      OBVIOUS
    <2>1. PICK L, c : Shape(next, stack, size, free, node, L, c)
      BY DEF Inv
    <2>2. /\ next \in Links /\ size = [q \in Queues |-> Len(L[q])]
          /\ \A q \in Queues : L[q] \in Seq(Nodes) /\ Once(L[q])
      BY <2>1, ShapeIs
    <2>3. ASSUME NEW q \in Queues PROVE Len(L[q]) \in 0 .. Cardinality(Nodes)
      <3> DEFINE s == L[q]
      <3>1. s \in Seq(Nodes) /\ Once(s)
        BY <2>2
      <3> HIDE DEF s
      <3>2. Len(s) \in Nat /\ Len(s) <= Cardinality(Nodes) /\ Cardinality(Nodes) \in Nat
        BY <3>1, SeqIs, Fits, Names
      <3>3. Len(s) \in 0 .. Cardinality(Nodes)
        BY <3>2
      <3> QED
        BY <3>3 DEF s
    <2>4. size \in [Queues -> 0 .. Cardinality(Nodes)]
      BY <2>2, <2>3
    <2> QED
      BY <2>2, <2>4 DEF TypeOK, Inv, Types, Links, Cells
  <1> QED
    BY <1>1, MailboxInvariant, PTL

\* The lists are whole, and every address is in one place.
THEOREM MailboxAccounted == Spec => []Accounted
  <1>1. Inv => Accounted
    <2> SUFFICES ASSUME Inv PROVE Accounted
      OBVIOUS
    <2>1. PICK L, c : Shape(next, stack, size, free, node, L, c)
      BY DEF Inv
    <2>2. /\ L \in [Queues -> Seq(Nodes)] /\ c \in Seq(Nodes) /\ next \in Links
          /\ \A q \in Queues : L[q] \in Seq(Nodes) /\ Linked(next, q, L[q]) /\ Once(L[q])
          /\ Once(c) /\ Apart(free, node, L, c)
          /\ size = [q \in Queues |-> Len(L[q])]
          /\ \A x : In(x, c) => x \in Nodes
          /\ \A q \in Queues : \A x : In(x, L[q]) => x \in Nodes
      BY <2>1, ShapeIs
    <2>3. Chain = c /\ \A q \in Queues : Cached(q) = L[q]
      BY <2>1, Seen DEF Inv, Types
    <2>4. WellLinked
      <3>1. ASSUME NEW q \in Queues
            PROVE  /\ next[Tail_(q)] = IF Len(L[q]) = 0 THEN Head_(q) ELSE Last(L[q])
                   /\ next[next[Tail_(q)]] = Tail_(q)
        <4> DEFINE s == L[q]
        <4>1. s \in Seq(Nodes) /\ Linked(next, q, s)
          BY <2>2
        <4> HIDE DEF s
        <4>2. /\ Len(s) \in Nat /\ Place(q, s, 0) = Head_(q) /\ Place(q, s, Len(s) + 1) = Tail_(q)
              /\ \A i \in 1 .. Len(s) : Place(q, s, i) = s[i]
          BY <4>1, Places
        <4>3. Len(s) \in 0 .. Len(s) /\ (Len(s) # 0 => Len(s) \in 1 .. Len(s))
          BY <4>2
        <4>4. next[Tail_(q)] = Place(q, s, Len(s)) /\ next[Place(q, s, Len(s))] = Tail_(q)
          BY <4>1, <4>2, <4>3 DEF Linked
        <4>5. next[Tail_(q)] = IF Len(s) = 0 THEN Head_(q) ELSE Last(s)
          BY <4>2, <4>3, <4>4 DEF Last
        <4> QED
          BY <4>4, <4>5 DEF s
      <3> QED
        BY <2>2, <2>3, <3>1 DEF WellLinked
    <2> DEFINE u == L["urgent"]
               v == L["normal"]
               in == u \o v \o c
               held == {node[s] : s \in Senders} \ {Null}
    <2>5. "urgent" \in Queues /\ "normal" \in Queues /\ "urgent" # "normal" /\ \A q \in Queues : q \in {"urgent", "normal"}
      BY Names
    <2>6. /\ \A n \in Nodes : In(n, u) \/ In(n, v) <=> \E q \in Queues : In(n, L[q])
          /\ \A n \in Nodes : ~(In(n, u) /\ In(n, v))
      BY <2>2, <2>5 DEF Apart
    <2>7. /\ u \in Seq(Nodes) /\ v \in Seq(Nodes) /\ Once(u) /\ Once(v)
          /\ \A x : In(x, u) \/ In(x, v) => x \in Nodes
      BY <2>2, <2>5
    <2> HIDE DEF u, v
    <2>8. /\ u \o v \in Seq(Nodes) /\ Once(u \o v)
          /\ \A x : In(x, u \o v) <=> In(x, u) \/ In(x, v)
      <3>1. \A x : ~(In(x, u) /\ In(x, v))
        BY <2>6, <2>7
      <3> QED
        BY <2>7, <3>1, ConcatIn, ConcatProperties
    <2>9. /\ in \in Seq(Nodes) /\ Once(in)
          /\ \A x : In(x, in) <=> In(x, u) \/ In(x, v) \/ In(x, c)
      <3> DEFINE w == u \o v
      <3>1. \A x : ~(In(x, w) /\ In(x, c))
        BY <2>2, <2>6, <2>8 DEF Apart
      <3>2. w \in Seq(Nodes) /\ Once(w) /\ \A x : In(x, w) <=> In(x, u) \/ In(x, v)
        BY <2>8
      <3> HIDE DEF w
      <3>3. w \o c \in Seq(Nodes) /\ Once(w \o c) /\ \A x : In(x, w \o c) <=> In(x, w) \/ In(x, c)
        BY <2>2, <3>1, <3>2, ConcatIn, ConcatProperties
      <3> QED
        BY <3>2, <3>3 DEF w
    <2>10. in = Cached("urgent") \o Cached("normal") \o Chain
      BY <2>3, <2>5 DEF u, v
    <2> HIDE DEF in
    <2>11. DOMAIN in = 1 .. Len(in)
      BY <2>9, SeqIs
    <2>12. IsInjective(in)
      BY <2>9, <2>11 DEF IsInjective, Once
    <2>13. \A x : x \in Range(in) <=> In(x, in)
      BY <2>11 DEF Range, In
    <2>14. \A n \in Nodes : n \in held <=> Held(node, n)
      BY Names DEF Held
    <2>15. held \subseteq Nodes /\ free \subseteq Nodes
      BY DEF Inv, Types
    <2> HIDE DEF held
    <2>16. \A n \in Nodes : n \in Range(in) <=> In(n, c) \/ \E q \in Queues : In(n, L[q])
      BY <2>6, <2>9, <2>13
    <2>17. Range(in) \subseteq Nodes
      BY <2>2, <2>7, <2>9, <2>13
    <2>18. /\ free \cup held \cup Range(in) = Nodes
           /\ free \cap held = {} /\ free \cap Range(in) = {} /\ held \cap Range(in) = {}
      <3>1. ASSUME NEW n \in Nodes
            PROVE  /\ n \in free \/ n \in held \/ n \in Range(in)
                   /\ ~(n \in free /\ n \in held) /\ ~(n \in free /\ n \in Range(in))
                   /\ ~(n \in held /\ n \in Range(in))
        BY <2>2, <2>14, <2>16 DEF Apart
      <3> QED
        BY <2>15, <2>17, <3>1
    <2> QED
      BY <2>4, <2>10, <2>12, <2>18 DEF Accounted, Inv, SendersOK, held
  <1> QED
    BY <1>1, MailboxInvariant, PTL

\* The lines of the refinement mapping.
Lines == [q \in Queues |-> Cached(q) \o Waiting(q)]

LinesOK == \A L, c : Shape(next, stack, size, free, node, L, c) => Lines = Joined(L, c, high)

LEMMA LinesAre ==
  ASSUME stack \in Nodes \cup Tags
  PROVE  LinesOK
  <1> SUFFICES ASSUME NEW L, NEW c, Shape(next, stack, size, free, node, L, c)
               PROVE  Lines = Joined(L, c, high)
    BY DEF LinesOK
  <1>1. Chain = c /\ \A q \in Queues : Cached(q) = L[q]
    BY Seen
  <1>2. \A x : Queue(x) = QueueOf(high, x)
    BY DEF Queue, QueueOf
  <1>3. \A q \in Queues : Waiting(q) = Sorted(c, high, q)
    BY <1>1, <1>2 DEF Waiting, Sorted
  <1> QED
    BY <1>1, <1>3 DEF Lines, Joined

\* Messages of one priority leave in the order in which they were pushed, each
\* once: the mailbox is a first-in first-out line for each priority.
THEOREM MailboxImplementsFifo == Spec => ImplementsFifo
  <1>1. Init => Fifo!Init
    <2> SUFFICES ASSUME Init PROVE Fifo!Init
      OBVIOUS
    <2> DEFINE M == [q \in Queues |-> <<>>]
    <2>1. Types /\ Shape(next, stack, size, free, node, M, <<>>)
      BY InitShape
    <2>2. Lines = Joined(M, <<>>, high)
      BY <2>1, LinesAre DEF LinesOK, Types
    <2>3. Joined(M, <<>>, high) = M
      BY Nothing, JoinedEmpty
    <2>4. stack # "closed"
      BY DEF Init
    <2> QED
      BY <2>2, <2>3, <2>4 DEF Fifo!Init, Lines
  <1>2. Inv => LinesOK
    BY LinesAre DEF Inv, Types
  <1>3. Inv /\ [Next]_vars /\ LinesOK /\ LinesOK' => [Fifo!Next]_(Fifo!vars)
    <2> SUFFICES ASSUME Inv, [Next]_vars, LinesOK, LinesOK' PROVE Fifo!Next \/ UNCHANGED Fifo!vars
      BY DEF Fifo!vars
    <2>1. PICK L, c : Before(L, c)
      BY DEF Inv, Before
    <2>2. Lines = Joined(L, c, high)
      BY <2>1 DEF LinesOK, Before
    <2>3. \A M, d : Shape(next', stack', size', free', node', M, d) => Lines' = Joined(M, d, high')
      BY DEF LinesOK
    <2>4. CASE UNCHANGED vars
      <3>1. Shape(next', stack', size', free', node', L, c) /\ high' = high /\ stack' = stack
        BY <2>1, <2>4 DEF Before, vars
      <3>2. Lines' = Lines
        BY <2>2, <2>3, <3>1
      <3> QED
        BY <3>1, <3>2 DEF Fifo!vars, Lines
    <2>5. CASE Next
      <3>1. PICK M, d : After(L, c, M, d)
        BY <2>1, <2>5, EveryStep
      <3>2. FifoStep(Lines, Lines', stack # "closed", stack' # "closed")
        BY <2>2, <2>3, <3>1 DEF After
      <3>3. CASE Lines' = Lines /\ (stack' # "closed" <=> stack # "closed")
        BY <3>3 DEF Fifo!vars, Lines
      <3>4. ASSUME NEW n \in Nodes, NEW q \in Queues, stack # "closed", stack' # "closed",
                   \/ Lines' = [Lines EXCEPT ![q] = Append(@, n)]
                   \/ Lines' = [Lines EXCEPT ![q] = <<n>> \o @]
            PROVE  Fifo!Next
        BY <3>4 DEF Fifo!Next, Fifo!Push, Fifo!PushFront, Lines
      <3>5. ASSUME NEW q \in Queues, stack' # "closed" <=> stack # "closed",
                   Lines[q] # <<>>, Lines' = [Lines EXCEPT ![q] = Tail(@)]
            PROVE  Fifo!Next
        BY <3>5 DEF Fifo!Next, Fifo!Pop, Lines
      <3>6. CASE stack # "closed" /\ ~(stack' # "closed") /\ Lines' = [q \in Queues |-> <<>>]
        BY <3>6 DEF Fifo!Next, Fifo!Close, Lines
      <3> QED
        BY <3>2, <3>3, <3>4, <3>5, <3>6 DEF FifoStep
    <2> QED
      BY <2>4, <2>5
  <1> QED
    BY <1>1, <1>2, <1>3, MailboxInvariant, PTL DEF Spec, ImplementsFifo, Fifo!Spec

=============================================================================
