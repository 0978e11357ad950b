--------------------------- MODULE DispatchProofs ---------------------------
(***************************************************************************)
(* Proofs about Dispatch, for every set of methods, every table of them    *)
(* and any number of actors and addresses.                                 *)
(***************************************************************************)
EXTENDS Dispatch, WellFoundedInduction, TLAPS

-----------------------------------------------------------------------------
(* Least elements.                                                         *)

Less == {p \in Nat \X Nat : p[1] < p[2]}

\* Every set of numbers that is not empty has a least one: the induction the
\* search through a table needs.
LEMMA Least ==
  ASSUME NEW S, S \subseteq Nat, S # {}
  PROVE  \E x \in S : \A y \in S : x <= y
  <1>1. IsWellFoundedOn(Less, Nat)
    BY NatLessThanWellFounded DEF OpToRel, Less
  <1>2. PICK x \in S : \A y \in S : ~(<<y, x>> \in Less)
    BY <1>1, WFMin
  <1>3. ASSUME NEW y \in S PROVE x <= y
    <2>1. x \in Nat /\ y \in Nat
      BY <1>2
    <2>2. <<y, x>> \in Less <=> y < x
      BY <2>1 DEF Less
    <2> QED
      BY <1>2, <2>1, <2>2
  <1> QED
    BY <1>3

\* Min() is what its name says, on a set of numbers that has a member.
LEMMA MinLeast ==
  ASSUME NEW S, S \subseteq Nat, S # {}
  PROVE  Min(S) \in S /\ \A y \in S : Min(S) <= y
  BY Least DEF Min

-----------------------------------------------------------------------------
(* The search for a method's number.                                       *)

\* A table lists methods under the numbers from 1.
LEMMA TableDomain ==
  ASSUME NEW t \in Tables
  PROVE  /\ Len(t) \in 1 .. MaxMethods /\ DOMAIN t = 1 .. Len(t)
         /\ \A i \in DOMAIN t : t[i] \in Methods
  <1>1. PICK n \in 1 .. MaxMethods : t \in [1 .. n -> Methods]
    BY DEF Tables
  <1>2. t \in Seq(Methods) /\ DOMAIN t = 1 .. n /\ n \in Nat
    BY <1>1, IndexAssumption DEF IndexAssumption
  <1>3. Len(t) = n
    BY <1>2
  <1> QED
    BY <1>1, <1>2, <1>3

\* find_method_index(): the first place of a registered method.
LEMMA FirstIndex ==
  ASSUME NEW t \in Tables, NEW m, \E i \in DOMAIN t : t[i] = m
  PROVE  /\ find_method_index(m, t) + 1 \in DOMAIN t
         /\ find_method_index(m, t) \in 0 .. Len(t) - 1
         /\ t[find_method_index(m, t) + 1] = m
         /\ \A j \in DOMAIN t : t[j] = m => find_method_index(m, t) + 1 <= j
  <1> DEFINE S == {i \in DOMAIN t : t[i] = m}
  <1>1. Len(t) \in Nat /\ DOMAIN t = 1 .. Len(t)
    BY TableDomain, IndexAssumption DEF IndexAssumption
  <1>2. S \subseteq Nat /\ S # {}
    BY <1>1
  <1>3. Min(S) \in S /\ \A y \in S : Min(S) <= y
    BY <1>2, MinLeast
  <1>4. find_method_index(m, t) = Min(S) - 1
    BY DEF find_method_index
  <1>5. Min(S) \in 1 .. Len(t)
    BY <1>1, <1>3
  <1>6. find_method_index(m, t) + 1 = Min(S)
    BY <1>4, <1>5
  <1> HIDE DEF S
  <1>7. find_method_index(m, t) \in 0 .. Len(t) - 1
    BY <1>1, <1>4, <1>5
  <1> USE DEF S
  <1> QED
    BY <1>3, <1>6, <1>7

Hit(m, t, i) == SameSignature(t[i], m) /\ t[i] = m

\* dispatch_one_impl, entry by entry, finds what find_method_index() computes,
\* or nothing where the method is not registered.
LEMMA Searched ==
  ASSUME NEW t \in Tables, NEW m
  PROVE  SearchedIndex(m, t) = IF \E i \in DOMAIN t : t[i] = m
                                 THEN find_method_index(m, t) ELSE Null
  <1> DEFINE n == Len(t)
             Step(f) == [i \in 1 .. n + 1 |-> IF i > n THEN Null
                           ELSE IF Hit(m, t, i) THEN i - 1 ELSE f[i + 1]]
             Hits(i) == {j \in 1 .. n : i <= j /\ t[j] = m}
             g == [i \in 1 .. n + 1 |-> IF Hits(i) = {} THEN Null ELSE Min(Hits(i)) - 1]
             from == CHOOSE f : f = Step(f)
  <1>1. n \in Nat /\ DOMAIN t = 1 .. n
    BY TableDomain, IndexAssumption DEF IndexAssumption
  <1>2. \A i \in 1 .. n : Hit(m, t, i) <=> t[i] = m
    BY DEF Hit, SameSignature
  <1>3. SearchedIndex(m, t) = from[1]
    BY DEF SearchedIndex, Hit
  <1> HIDE DEF n
  <1>4. ASSUME NEW i \in 1 .. n, t[i] = m
        PROVE  Hits(i) # {} /\ Min(Hits(i)) = i
    <2>1. i \in Hits(i) /\ Hits(i) \subseteq Nat /\ \A j \in Hits(i) : i <= j
      BY <1>1, <1>4
    <2>2. Min(Hits(i)) \in Hits(i) /\ Min(Hits(i)) <= i
      BY <2>1, MinLeast
    <2>3. Min(Hits(i)) \in Nat /\ i <= Min(Hits(i))
      BY <2>1, <2>2
    <2> QED
      BY <1>1, <2>1, <2>2, <2>3
  <1>5. ASSUME NEW i \in 1 .. n, t[i] # m
        PROVE  Hits(i) = Hits(i + 1)
    BY <1>1, <1>5
  <1>6. Hits(n + 1) = {}
    BY <1>1
  <1>7. g = Step(g)
    <2>1. ASSUME NEW i \in 1 .. n + 1
          PROVE  g[i] = IF i > n THEN Null ELSE IF Hit(m, t, i) THEN i - 1 ELSE g[i + 1]
      <3>1. CASE i > n
        <4>1. i = n + 1
          BY <1>1, <3>1
        <4> QED
          BY <1>6, <3>1, <4>1
      <3>2. CASE ~(i > n) /\ t[i] = m
        <4>1. i \in 1 .. n
          BY <1>1, <3>2
        <4> QED
          BY <1>2, <1>4, <3>2, <4>1
      <3>3. CASE ~(i > n) /\ t[i] # m
        <4>1. i \in 1 .. n /\ i + 1 \in 1 .. n + 1
          BY <1>1, <3>3
        <4>2. Hits(i) = Hits(i + 1)
          BY <1>5, <3>3, <4>1
        <4>3. g[i] = g[i + 1]
          BY <4>1, <4>2
        <4> QED
          BY <1>2, <3>3, <4>1, <4>3
      <3> QED
        BY <3>1, <3>2, <3>3
    <2> QED
      BY <2>1, Zenon
  <1>8. from = Step(from)
    BY <1>7
  <1> HIDE DEF from
  <1>9. \A i \in 1 .. n + 1 : from[i] = IF i > n THEN Null
                                ELSE IF Hit(m, t, i) THEN i - 1 ELSE from[i + 1]
    BY <1>8, Zenon
  <1>10. \A i \in 1 .. n + 1 : g[i] = IF i > n THEN Null
                                 ELSE IF Hit(m, t, i) THEN i - 1 ELSE g[i + 1]
    BY <1>7, Zenon
  <1>11. from[1] = g[1]
    <2> DEFINE Bad == {k \in 0 .. n : from[n + 1 - k] # g[n + 1 - k]}
    <2> HIDE DEF g
    <2>1. SUFFICES ASSUME from[1] # g[1] PROVE FALSE
      OBVIOUS
    <2>2. n \in Bad /\ Bad \subseteq Nat
      BY <1>1, <2>1
    <2>3. PICK k \in Bad : \A j \in Bad : k <= j
      BY <2>2, Least
    <2>4. k \in 0 .. n /\ from[n + 1 - k] # g[n + 1 - k]
      BY <2>3
    <2>5. k # 0
      BY <1>1, <1>9, <1>10, <2>4
    <2>6. k - 1 \in 0 .. n /\ ~(k <= k - 1)
      BY <1>1, <2>4, <2>5
    <2>7. from[n + 1 - (k - 1)] = g[n + 1 - (k - 1)]
      BY <2>3, <2>6
    <2>8. /\ n + 1 - k \in 1 .. n + 1 /\ ~(n + 1 - k > n)
          /\ (n + 1 - k) + 1 = n + 1 - (k - 1)
      BY <1>1, <2>4, <2>5
    <2> QED
      BY <1>9, <1>10, <2>4, <2>7, <2>8
  <1>12. Hits(1) = {i \in DOMAIN t : t[i] = m}
    BY <1>1
  <1>13. g[1] = IF \E i \in DOMAIN t : t[i] = m THEN find_method_index(m, t) ELSE Null
    BY <1>1, <1>12 DEF find_method_index
  <1> QED
    BY <1>3, <1>11, <1>13

-----------------------------------------------------------------------------
(* The invariant.                                                          *)

\* The tables the compiler let through.
TableOK ==
    /\ contract \in Tables
    /\ table \in [Actors -> Tables]
    /\ \A a \in Actors : ValidImplementation(table[a]) /\ Dispatchable(table[a])

\* The three members of an address are of one actor, or of none.
AddressOK ==
    address \in [Slots -> {EmptyAddress} \cup {AddressOf(a) : a \in Actors}]

Registered(m, t) == \E i \in DOMAIN t : t[i] = m

\* The number in a message is the first place of its method in the table of
\* the actor it goes to, or, through an interface, in the contract.
NumberOK ==
    /\ msg.via # "interface" =>
         Registered(msg.method, table[msg.to]) /\ msg.command = msg_id(msg.method, table[msg.to])
    /\ msg.via = "interface" =>
         Registered(msg.method, contract) /\ msg.command = msg_id(msg.method, contract)

Messages ==
    [to : Actors, resource : Actors, via : {"actor", "interface", "router"},
     method : Methods, command : Nat]

MessageOK ==
    msg # Null =>
        /\ msg \in Messages
        /\ msg.via = "router" \/ msg.resource = msg.to
        /\ NumberOK

\* A method runs for the message that is there.
CallOK ==
    call # Null => call \in Methods /\ msg # Null /\ call \in Cases(msg.to)

Inv == TableOK /\ AddressOK /\ MessageOK /\ CallOK

-----------------------------------------------------------------------------
(* Every operation keeps it.                                               *)

\* A number the search has found is that of a listed method, and its id is
\* the one send() stamps.
LEMMA FoundIndex ==
  ASSUME NEW t \in Tables, NEW m, SearchedIndex(m, t) # Null
  PROVE  /\ Registered(m, t) /\ SearchedIndex(m, t) = find_method_index(m, t)
         /\ make_message_id(SearchedIndex(m, t)) = msg_id(m, t)
         /\ msg_id(m, t) \in Nat
  <1>1. Registered(m, t) /\ SearchedIndex(m, t) = find_method_index(m, t)
    BY Searched DEF Registered
  <1>2. find_method_index(m, t) \in 0 .. Len(t) - 1 /\ Len(t) \in Nat
    BY <1>1, FirstIndex, TableDomain, IndexAssumption DEF Registered, IndexAssumption
  <1> QED
    BY <1>1, <1>2 DEF msg_id, make_message_id, PriorityBit

\* Before anything is built the invariant is empty.
LEMMA InitInv == Init => Inv
  BY DEF Init, Inv, TableOK, AddressOK, MessageOK, CallOK

\* Each operation of Dispatch keeps the invariant.
LEMMA NextInv == Inv /\ [Next]_vars => Inv'
  <1> SUFFICES ASSUME Inv, [Next]_vars PROVE Inv'
    OBVIOUS
  <1>i. TableOK /\ AddressOK /\ MessageOK /\ CallOK
    BY DEF Inv
  <1>t. UNCHANGED <<contract, table>>
    BY DEF Next, MakeAddress, CopyAddress, SwapAddress, SendToActor, Restamp,
       SendToInterface, SendUnregistered, Behave, Unhandled, Return, vars
  <1>u. TableOK'
    BY <1>i, <1>t DEF TableOK, ValidImplementation, Dispatchable
  <1>m. ASSUME msg' = msg PROVE MessageOK'
    BY <1>i, <1>t, <1>m DEF MessageOK, NumberOK
  <1>c. ASSUME msg' = msg, call' = call PROVE CallOK'
    BY <1>i, <1>t, <1>c DEF CallOK, Cases
  <1>n. ASSUME call = Null, call' = call PROVE CallOK'
    BY <1>n DEF CallOK
  <1>a. ASSUME address' = address PROVE AddressOK'
    BY <1>i, <1>a DEF AddressOK
  <1>1. ASSUME NEW s \in Slots, NEW a \in Actors, MakeAddress(s, a) PROVE Inv'
    <2>1. AddressOK'
      BY <1>1, <1>i DEF MakeAddress, AddressOK
    <2> QED
      BY <1>1, <1>u, <1>m, <1>c, <2>1 DEF MakeAddress, Inv
  <1>2. ASSUME NEW s \in Slots, NEW t \in Slots, CopyAddress(s, t) \/ SwapAddress(s, t)
        PROVE  Inv'
    <2>1. AddressOK'
      BY <1>2, <1>i DEF CopyAddress, SwapAddress, Swapped, AddressOK
    <2> QED
      BY <1>2, <1>u, <1>m, <1>c, <2>1 DEF CopyAddress, SwapAddress, Inv
  <1>3. ASSUME NEW a \in Actors, NEW m \in Methods, SendToActor(a, m) PROVE Inv'
    <2>1. call = Null /\ table[a] \in Tables
      BY <1>3, <1>i DEF SendToActor, CallOK, TableOK
    <2>2. /\ Registered(m, table[a]) /\ msg_id(m, table[a]) \in Nat
          /\ make_message_id(SearchedIndex(m, table[a])) = msg_id(m, table[a])
      BY <1>3, <2>1, FoundIndex DEF SendToActor
    <2>3. msg' = [to |-> a, resource |-> a, via |-> "actor", method |-> m,
                  command |-> msg_id(m, table[a])]
      BY <1>3, <2>2 DEF SendToActor, Message
    <2>4. MessageOK'
      BY <1>t, <2>2, <2>3 DEF MessageOK, Messages, NumberOK
    <2> QED
      BY <1>3, <1>u, <1>n, <1>a, <2>1, <2>4 DEF SendToActor, Inv
  <1>4. ASSUME NEW s \in Slots, NEW m \in Methods, SendToInterface(s, m) PROVE Inv'
    <2>1. call = Null /\ contract \in Tables
      BY <1>4, <1>i DEF SendToInterface, CallOK, TableOK
    <2>2. /\ Registered(m, contract) /\ msg_id(m, contract) \in Nat
          /\ make_message_id(SearchedIndex(m, contract)) = msg_id(m, contract)
      BY <1>4, <2>1, FoundIndex DEF SendToInterface
    <2>3. PICK a \in Actors : address[s] = AddressOf(a)
      BY <1>4, <1>i DEF SendToInterface, AddressOK, EmptyAddress
    <2>4. address[s].enqueue_fn = a /\ address[s].resource = a
      BY <2>3 DEF AddressOf
    <2>5. msg' = [to |-> a, resource |-> a, via |-> "interface", method |-> m,
                  command |-> msg_id(m, contract)]
      BY <1>4, <2>2, <2>4 DEF SendToInterface, Message
    <2>6. MessageOK'
      BY <1>t, <2>2, <2>5 DEF MessageOK, Messages, NumberOK
    <2> QED
      BY <1>4, <1>u, <1>n, <1>a, <2>1, <2>6 DEF SendToInterface, Inv
  <1>5. ASSUME NEW b \in Actors, NEW m \in Methods, Restamp(b, m) PROVE Inv'
    <2>1. table[b] \in Tables /\ msg \in Messages
      BY <1>5, <1>i DEF Restamp, TableOK, MessageOK
    <2>2. DOMAIN table[b] = 1 .. Len(table[b]) /\ Len(table[b]) \in Nat
      BY <2>1, TableDomain, IndexAssumption DEF IndexAssumption
    <2>3. Registered(m, table[b])
      BY <1>5, <2>2 DEF Restamp, Contains, Registered
    <2>4. msg_id(m, table[b]) \in Nat
      BY <2>1, <2>2, <2>3, FirstIndex DEF Registered, msg_id, make_message_id, PriorityBit
    <2>5. /\ msg' = [msg EXCEPT !.to = b, !.via = "router", !.method = m,
                                !.command = msg_id(m, table[b])]
          /\ call = Null /\ call' = call /\ address' = address
      BY <1>5 DEF Restamp
    <2>6. msg' = [to |-> b, resource |-> msg.resource, via |-> "router", method |-> m,
                  command |-> msg_id(m, table[b])]
      BY <2>1, <2>5 DEF Messages
    <2>7. MessageOK'
      BY <1>t, <2>1, <2>3, <2>4, <2>6 DEF MessageOK, Messages, NumberOK
    <2> QED
      BY <1>u, <1>n, <1>a, <2>5, <2>7 DEF Inv
  <1>6. ASSUME NEW m \in Methods, SendUnregistered(m) PROVE Inv'
    BY <1>6, <1>u, <1>m, <1>c, <1>a DEF SendUnregistered, Inv
  <1>7. CASE Behave
    <2>1. PICK m \in Cases(msg.to) : call' = m
      BY <1>7 DEF Behave
    <2>2. msg # Null /\ msg' = msg /\ msg.to \in Actors /\ address' = address
      BY <1>7, <1>i DEF Behave, MessageOK, Messages
    <2>3. m \in Methods
      BY <1>i, <2>1, <2>2, TableDomain DEF Cases, Range, TableOK
    <2>4. CallOK'
      BY <1>t, <2>1, <2>2, <2>3 DEF CallOK, Cases
    <2> QED
      BY <1>u, <1>m, <1>a, <2>2, <2>4 DEF Inv
  <1>8. CASE Unhandled \/ Return
    <2>1. msg' = Null /\ call' = Null /\ address' = address
      BY <1>8 DEF Unhandled, Return
    <2> QED
      BY <1>u, <1>a, <2>1 DEF Inv, MessageOK, CallOK
  <1>9. CASE UNCHANGED vars
    BY <1>9, <1>u, <1>m, <1>c, <1>a DEF vars, Inv
  <1> QED
    BY <1>1, <1>2, <1>3, <1>4, <1>5, <1>6, <1>7, <1>8, <1>9 DEF Next

-----------------------------------------------------------------------------
(* The theorems.                                                           *)

\* Tables, addresses, messages and calls stay consistent with the methods they
\* were made from, however many actors and contracts there are.
THEOREM DispatchInvariant == Spec => []Inv
  BY InitInv, NextInv, PTL DEF Spec

\* What the number in a message leads to: one place of the actor's table, which
\* is the only one a case of behavior()'s switch can have.
LEMMA NumberedPlace ==
  ASSUME Inv, msg # Null
  PROVE  \E i \in DOMAIN table[msg.to] :
           /\ i - 1 \in 0 .. 255 /\ msg.command = (i - 1) + 256
           /\ \A m \in Cases(msg.to) : m = table[msg.to][i]
           /\ msg.via # "interface" =>
                msg.method = table[msg.to][i] /\ msg.method \in Cases(msg.to)
           /\ msg.via = "interface" =>
                /\ i = find_method_index(msg.method, contract) + 1
                /\ SameSignature(table[msg.to][i], msg.method)
                /\ IsInjective(table[msg.to]) => table[msg.to][i] \in Cases(msg.to)
  <1> DEFINE T == table[msg.to]
  <1>0. PriorityBit = 256
    BY DEF PriorityBit
  <1>1. /\ msg.to \in Actors /\ T \in Tables /\ contract \in Tables /\ NumberOK
        /\ Len(T) = Len(contract)
        /\ \A i \in DOMAIN T : SameSignature(contract[i], T[i])
    BY DEF Inv, TableOK, MessageOK, Messages, ValidImplementation
  <1>2. /\ Len(T) \in 1 .. 256 /\ DOMAIN T = 1 .. Len(T) /\ DOMAIN contract = 1 .. Len(T)
    <2>1. MaxMethods \in 0 .. 256
      BY <1>0, IndexAssumption DEF IndexAssumption
    <2>2. Len(T) \in 1 .. MaxMethods /\ DOMAIN T = 1 .. Len(T)
      BY <1>1, TableDomain
    <2>3. DOMAIN contract = 1 .. Len(contract)
      BY <1>1, TableDomain
    <2>4. ASSUME NEW n \in 1 .. MaxMethods PROVE n \in 1 .. 256
      BY <2>1
    <2>5. Len(T) \in 1 .. 256
      BY <2>2, <2>4, Zenon
    <2> QED
      BY <1>1, <2>2, <2>3, <2>5, Zenon
  <1>3. PICK i \in DOMAIN T :
          /\ msg.command = (i - 1) + 256
          /\ msg.via # "interface" => msg.method = T[i] /\ i = find_method_index(msg.method, T) + 1
          /\ msg.via = "interface" =>
               msg.method = contract[i] /\ i = find_method_index(msg.method, contract) + 1
    <2>1. CASE msg.via # "interface"
      <3>1. Registered(msg.method, T) /\ msg.command = msg_id(msg.method, T)
        BY <1>1, <2>1 DEF NumberOK
      <3>2. /\ find_method_index(msg.method, T) + 1 \in DOMAIN T
            /\ find_method_index(msg.method, T) \in 0 .. Len(T) - 1
            /\ T[find_method_index(msg.method, T) + 1] = msg.method
        BY <1>1, <3>1, FirstIndex DEF Registered
      <3>3. (find_method_index(msg.method, T) + 1) - 1 = find_method_index(msg.method, T)
        BY <1>2, <3>2
      <3> QED
        BY <1>0, <2>1, <3>1, <3>2, <3>3 DEF msg_id, make_message_id
    <2>2. CASE msg.via = "interface"
      <3>1. Registered(msg.method, contract) /\ msg.command = msg_id(msg.method, contract)
        BY <1>1, <2>2 DEF NumberOK
      <3>2. /\ find_method_index(msg.method, contract) + 1 \in DOMAIN contract
            /\ find_method_index(msg.method, contract) \in 0 .. Len(contract) - 1
            /\ contract[find_method_index(msg.method, contract) + 1] = msg.method
        BY <1>1, <3>1, FirstIndex DEF Registered
      <3>3. (find_method_index(msg.method, contract) + 1) - 1
              = find_method_index(msg.method, contract)
        BY <1>1, <1>2, <3>2
      <3> QED
        BY <1>0, <1>2, <2>2, <3>1, <3>2, <3>3 DEF msg_id, make_message_id
    <2> QED
      BY <2>1, <2>2
  <1>4. i \in 1 .. Len(T) /\ i - 1 \in 0 .. 255
    <2>1. i \in DOMAIN T
      OBVIOUS
    <2>2. ASSUME NEW n \in 1 .. 256, NEW k \in 1 .. n PROVE k - 1 \in 0 .. 255
      OBVIOUS
    <2> QED
      BY <1>2, <2>1, <2>2, Zenon
  <1>5. ASSUME NEW m \in Range(T)
        PROVE  /\ m \in Cases(msg.to) <=> find_method_index(m, T) + 1 = i
               /\ T[find_method_index(m, T) + 1] = m
               /\ find_method_index(m, T) + 1 \in DOMAIN T
    <2>1. /\ find_method_index(m, T) \in 0 .. Len(T) - 1
          /\ T[find_method_index(m, T) + 1] = m
          /\ find_method_index(m, T) + 1 \in DOMAIN T
      BY <1>1, FirstIndex DEF Range
    <2>2. m \in Cases(msg.to) <=> find_method_index(m, T) + 256 = msg.command
      BY <1>0 DEF Cases, msg_id, make_message_id
    <2> QED
      BY <1>2, <1>3, <1>4, <2>1, <2>2
  <1>6. \A m \in Cases(msg.to) : m = T[i]
    BY <1>5 DEF Cases
  <1>7. T[i] \in Range(T)
    BY DEF Range
  <1>8. msg.via # "interface" => msg.method \in Cases(msg.to)
    BY <1>3, <1>5, <1>7
  <1>9. IsInjective(T) => T[i] \in Cases(msg.to)
    BY <1>5, <1>7 DEF IsInjective
  <1>10. msg.via = "interface" => SameSignature(T[i], msg.method)
    BY <1>1, <1>3 DEF SameSignature
  <1> QED
    BY <1>3, <1>4, <1>6, <1>8, <1>9, <1>10

\* send(), set_command(), implements<> and behavior(): for any tables, any
\* copying and swapping of addresses, and both ways to find a number, the
\* message is a normal one, it is in the resource of the actor it reaches, and
\* what runs is the method that was sent, or, through an interface, the one at the
\* place where the contract has it, with its signature.
THEOREM RightMethodRuns == Spec => []RightMethod
  <1>1. Inv => RightMethod
    <2> SUFFICES ASSUME Inv, msg # Null PROVE RightMethod
      BY DEF RightMethod, Inv, CallOK
    <2>1. PICK i \in DOMAIN table[msg.to] :
           /\ i - 1 \in 0 .. 255 /\ msg.command = (i - 1) + 256
           /\ \A m \in Cases(msg.to) : m = table[msg.to][i]
           /\ msg.via # "interface" =>
                msg.method = table[msg.to][i] /\ msg.method \in Cases(msg.to)
           /\ msg.via = "interface" =>
                /\ i = find_method_index(msg.method, contract) + 1
                /\ SameSignature(table[msg.to][i], msg.method)
                /\ IsInjective(table[msg.to]) => table[msg.to][i] \in Cases(msg.to)
      BY NumberedPlace
    <2>2. ~HighPriority(msg.command)
      <3>1. PriorityBit = 256
        BY DEF PriorityBit
      <3>2. msg.command \div 256 = 1
        BY <2>1
      <3> QED
        BY <3>1, <3>2 DEF HighPriority
    <2>3. msg.via = "router" \/ msg.resource = msg.to
      BY DEF Inv, MessageOK
    <2>4. call # Null => call = table[msg.to][i]
      BY <2>1 DEF Inv, CallOK
    <2>5. /\ call # Null /\ msg.via # "interface" => call = msg.method
          /\ call # Null /\ msg.via = "interface" =>
               /\ call = table[msg.to][find_method_index(msg.method, contract) + 1]
               /\ SameSignature(call, msg.method)
      BY <2>1, <2>4
    <2>6. Cases(msg.to) = {} => msg.via = "interface" /\ ~IsInjective(table[msg.to])
      BY <2>1
    <2> QED
      BY <2>2, <2>3, <2>5, <2>6 DEF RightMethod
  <1> QED
    BY <1>1, DispatchInvariant, PTL

=============================================================================
