--------------------------------- MODULE Rtt ---------------------------------
(***************************************************************************)
(* rtt, the type-erased buffer that carries a message's arguments: one     *)
(* allocation that holds the arguments, each at its alignment, and behind  *)
(* them a table of their offsets and destructors.  What is in the buffer   *)
(* is a value; who owns it, and what is done to the allocation, is         *)
(* Message's.                                                              *)
(***************************************************************************)
EXTENDS Naturals, SequencesExt

CONSTANTS
    Types,      \* of arguments, as they are passed and as they are stored
    SizeOf,     \* sizeof
    AlignOf,    \* alignof
    Decay,      \* the type an argument is stored as
    Null        \* a null pointer

ASSUME TypesAssumption ==
    /\ SizeOf \in [Types -> Nat \ {0}]
    /\ AlignOf \in [Types -> {1, 2, 4, 8, 16}]
    /\ Decay \in [Types -> Types]
    /\ \A t \in Types : Decay[Decay[t]] = Decay[t]

\* An entry of the table: an offset and a pointer to a destructor.
EntrySize == 16
EntryAlign == 8

align_up(n, align) == ((n + align - 1) \div align) * align

\* The capacity is computed from the types as they are passed.
getSize(args) ==
    FoldLeft(LAMBDA n, t : align_up(n, AlignOf[t]) + SizeOf[t], 0, args)

\* What is allocated for `capacity` bytes of `count` arguments.
total_size(capacity, count) ==
    align_up(capacity, EntryAlign) + count * EntrySize

\* A buffer with nothing in it: a new one, or one moved from.
Empty(resource) ==
    [resource |-> resource, capacity |-> 0, volume |-> 0,
     allocation |-> Null, objects |-> <<>>]

\* Wrong: the place is not aligned.
NextByte(volume, type) == volume

\* std::align() on an allocation that is aligned for every type.
try_to_align(volume, type) == align_up(volume, AlignOf[type])

Fits(body, t) ==
    try_to_align(body.volume, Decay[t]) + SizeOf[Decay[t]] <= body.capacity

\* push_back_no_realloc(); the caller has seen that it fits.
PushBack(body, t) ==
    LET type == Decay[t]
        offset == try_to_align(body.volume, type)
    IN  [body EXCEPT !.objects = Append(@, [offset |-> offset, type |-> type]),
                     !.volume = offset + SizeOf[type]]

\* The buffer when the first n arguments have been pushed, or as many of them
\* as come before one that force_align() finds no room for.
Filled(body, args, n) ==
    LET at[i \in 0 .. n] ==
            IF i = 0 THEN body
            ELSE IF Len(at[i - 1].objects) = i - 1 /\ Fits(at[i - 1], args[i])
                   THEN PushBack(at[i - 1], args[i])
                   ELSE at[i - 1]
    IN  at[n]

=============================================================================
