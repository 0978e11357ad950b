------------------------------ MODULE Dispatch ------------------------------
(***************************************************************************)
(* From send(target, &Class::method, args...) to the method that runs: the *)
(* method tables of actors and of the contracts they implement, the number *)
(* a message carries, and addresses.                                       *)
(*                                                                         *)
(* A method is a record: its name, the type of its arguments, how it takes *)
(* them, what it returns, and whether it returns it in a unique_future.    *)
(* Which types differ is all that matters of them.                         *)
(***************************************************************************)
EXTENDS Naturals, SequencesExt

CONSTANTS
    Methods,    \* the member functions a class may have
    MaxMethods, \* length of a method table at most
    Actors,     \* actors, all of which implement the contract
    Slots,      \* variables of type address_t
    Null        \* a null pointer

ASSUME MethodsAssumption ==
    \A m \in Methods :
        m.by \in {"value", "rvalue_ref", "lvalue_ref", "const_ref", "move_only_ref"}

Tables == UNION {[1 .. n -> Methods] : n \in 1 .. MaxMethods}

VARIABLES
    contract,   \* Contract::dispatch_traits::methods
    table,      \* Actor::dispatch_traits::methods
    address,    \* the address_t in a slot
    msg,        \* the message on its way or being handled, or Null
    call,       \* the method that handles it, or Null
    aborted     \* the process has been aborted

vars == <<contract, table, address, msg, call, aborted>>

TypeOK ==
    /\ contract \in Tables
    /\ table \in [Actors -> Tables]
    /\ address \in [Slots -> [ptr : Actors \cup {Null}, resource : Actors \cup {Null},
                             enqueue_fn : Actors \cup {Null}]]
    /\ msg # Null =>
         /\ msg.to \in Actors /\ msg.resource \in Actors /\ msg.method \in Methods
         /\ msg.via \in {"actor", "interface", "router"} /\ msg.command \in Nat
    /\ call \in Methods \cup {Null}
    /\ aborted \in BOOLEAN

-----------------------------------------------------------------------------
(* Method tables.                                                          *)

\* dispatch_traits' assertions: all_valid, all_no_const_ref and
\* all_no_rvalue_move_only.
AllValid(methods) ==
    \A i \in DOMAIN methods :
        methods[i].future /\ methods[i].by \notin {"const_ref", "move_only_ref"}

\* The same type: arguments, how they are taken, and result.
SameSignature(m, n) ==
    m.type = n.type /\ m.by = n.by /\ m.result = n.result /\ m.future = n.future

\* implements<Contract, ActorMethods...>: as many methods, and each with the
\* signature of the contract's at its place.
ValidImplementation(methods) ==
    /\ Len(methods) = Len(contract)
    /\ AllValid(methods)
    /\ \A i \in DOMAIN methods : SameSignature(contract[i], methods[i])

\* dispatch() is instantiated for every method of an actor and refuses T&.
Dispatchable(methods) == \A i \in DOMAIN methods : methods[i].by # "lvalue_ref"

\* What send() checks while it is compiled: some method has this signature.
method_signature_exists(method, methods) ==
    \E i \in DOMAIN methods : SameSignature(methods[i], method)

\* The first place of a method, from 0: find_method_index() at compile time.
find_method_index(method, methods) ==
    Min({i \in DOMAIN methods : methods[i] = method}) - 1

\* Wrong: the search goes by the signature alone.
SearchBySignature(method, methods) ==
    Min({i \in DOMAIN methods : SameSignature(methods[i], method)}) - 1

\* dispatch_one_impl: the table is searched at run time, entry by entry, past
\* the ones of another type; Null where it aborts, at the end of the table.
SearchedIndex(method, methods) ==
    LET from[i \in 1 .. Len(methods) + 1] ==
            IF i > Len(methods) THEN Null
            ELSE IF SameSignature(methods[i], method) /\ methods[i] = method
                   THEN i - 1 ELSE from[i + 1]
    IN  from[1]

\* make_message_id() of normal priority sets a bit above any index.
PriorityBit == 2 ^ 8

ASSUME IndexAssumption == MaxMethods \in Nat /\ MaxMethods <= PriorityBit

make_message_id(value) == value + PriorityBit

msg_id(method, methods) == make_message_id(find_method_index(method, methods))

\* is_high_priority(): the bit is down.
HighPriority(id) == (id \div PriorityBit) % 4 = 0

-----------------------------------------------------------------------------
(* Addresses: a pointer, its resource and its enqueue function.            *)

EmptyAddress == [ptr |-> Null, resource |-> Null, enqueue_fn |-> Null]

AddressOf(a) == [ptr |-> a, resource |-> a, enqueue_fn |-> a]

Init ==
    /\ contract \in {t \in Tables : AllValid(t)}
    /\ table \in [Actors -> {t \in Tables : ValidImplementation(t) /\ Dispatchable(t)}]
    /\ address = [s \in Slots |-> EmptyAddress]
    /\ msg = Null
    /\ call = Null
    /\ aborted = FALSE

MakeAddress(s, a) ==
    /\ address' = [address EXCEPT ![s] = AddressOf(a)]
    /\ UNCHANGED <<contract, table, msg, call, aborted>>

CopyAddress(s, t) ==
    /\ address' = [address EXCEPT ![s] = address[t]]
    /\ UNCHANGED <<contract, table, msg, call, aborted>>

Swapped(s, t) == [address EXCEPT ![s] = address[t], ![t] = address[s]]

\* swap(), and the move assignment, which is one: what was in the target goes
\* to the source.
SwapAddress(s, t) ==
    /\ s # t
    /\ address' = Swapped(s, t)
    /\ UNCHANGED <<contract, table, msg, call, aborted>>

-----------------------------------------------------------------------------
(* Sending.  One message at a time: what becomes of several is Mailbox.    *)

Message(to, resource, via, method, index) ==
    [to |-> to, resource |-> resource, via |-> via, method |-> method,
     command |-> make_message_id(index)]

\* send(Actor*, &Actor::method), and through an address_t when the method is of
\* the actor's own class: static_cast<Actor*>(target.get()).
SendToActor(a, m) ==
    /\ msg = Null
    /\ method_signature_exists(m, table[a])
    /\ SearchedIndex(m, table[a]) # Null
    /\ msg' = Message(a, a, "actor", m, SearchedIndex(m, table[a]))
    /\ UNCHANGED <<contract, table, address, call, aborted>>

\* send(address_t, &Contract::method): the number is the contract's.
SendToInterface(s, m) ==
    /\ msg = Null
    /\ address[s].ptr # Null
    /\ method_signature_exists(m, contract)
    /\ SearchedIndex(m, contract) # Null
    /\ msg' = Message(address[s].enqueue_fn, address[s].resource, "interface", m,
                      SearchedIndex(m, contract))
    /\ UNCHANGED <<contract, table, address, call, aborted>>

\* A method of the class that is not registered and has the signature of one that
\* is: send() compiles, and its search ends in std::abort().
SendUnregistered(m) ==
    /\ msg = Null
    /\ \E methods \in Range(table) \cup {contract} :
         /\ method_signature_exists(m, methods)
         /\ SearchedIndex(m, methods) = Null
    /\ aborted' = TRUE
    /\ UNCHANGED <<contract, table, address, msg, call>>

\* A router forwards what it was sent to b with set_command(); that m takes and
\* returns what the caller's method does is the router's promise.
Restamp(b, m) ==
    /\ msg # Null /\ call = Null
    /\ msg.via = "actor" /\ msg.to # b
    /\ Contains(table[b], m) /\ SameSignature(m, msg.method)
    /\ msg' = [msg EXCEPT !.to = b, !.via = "router", !.method = m,
                          !.command = msg_id(m, table[b])]
    /\ UNCHANGED <<contract, table, address, call, aborted>>

-----------------------------------------------------------------------------
(* Handling.                                                               *)

\* The methods behavior()'s switch has the case of.
Cases(a) == {m \in Range(table[a]) : msg_id(m, table[a]) = msg.command}

\* dispatch() calls the method with the arguments in the message.
Behave ==
    /\ msg # Null /\ call = Null
    /\ \E m \in Cases(msg.to) : call' = m
    /\ UNCHANGED <<contract, table, address, msg, aborted>>

\* No case: the message dies with its promise, the caller's future fails.
Unhandled ==
    /\ msg # Null /\ call = Null
    /\ Cases(msg.to) = {}
    /\ msg' = Null
    /\ UNCHANGED <<contract, table, address, call, aborted>>

\* The method ends, and its message is gone; what becomes of both while it is
\* suspended is AwaitChain.
Return ==
    /\ call # Null
    /\ call' = Null
    /\ msg' = Null
    /\ UNCHANGED <<contract, table, address, aborted>>

-----------------------------------------------------------------------------
Next ==
    /\ ~aborted
    /\ \/ \E s \in Slots, a \in Actors : MakeAddress(s, a)
       \/ \E s, t \in Slots : CopyAddress(s, t) \/ SwapAddress(s, t)
       \/ \E a \in Actors, m \in Methods : SendToActor(a, m) \/ Restamp(a, m)
       \/ \E s \in Slots, m \in Methods : SendToInterface(s, m)
       \/ \E m \in Methods : SendUnregistered(m)
       \/ Behave \/ Unhandled \/ Return

Spec == Init /\ [][Next]_vars

-----------------------------------------------------------------------------
(* Properties.                                                             *)

\* A message is a normal one, made in the resource of the actor it reaches,
\* however the address was copied and swapped.  The method that runs is the one
\* that was sent, whether its number was found at run time by send() or at
\* compile time by a router.  Through an interface it is the one the actor lists
\* where the contract has the one that was sent, first if more than once, and has
\* the arguments that were packed and the result that was promised.  Only a table
\* that lists one method twice leaves a number without a case.
RightMethod ==
    /\ msg # Null => ~HighPriority(msg.command) /\ (msg.via = "router" \/ msg.resource = msg.to)
    /\ call # Null /\ msg.via # "interface" => call = msg.method
    /\ call # Null /\ msg.via = "interface" =>
         /\ call = table[msg.to][find_method_index(msg.method, contract) + 1]
         /\ SameSignature(call, msg.method)
    /\ msg # Null /\ Cases(msg.to) = {} =>
         msg.via = "interface" /\ ~IsInjective(table[msg.to])

=============================================================================
