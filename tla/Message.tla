------------------------------- MODULE Message -------------------------------
(***************************************************************************)
(* The handles of one exchange.  A message owns the buffer of its arguments*)
(* and, until dispatch() takes it over, the duty to settle the caller's    *)
(* future; a promise owns that duty afterwards; a unique_future owns the   *)
(* other end of the shared state.  All of them are made, moved, assigned   *)
(* over each other and destroyed in any order, messages are swapped too,   *)
(* and nothing they own may be lost, or given back twice, on the way.      *)
(*                                                                         *)
(* The n-th state made is the state of the n-th message, if it has one, and*)
(* the buffer of that message is the n-th.  Commands and what arguments    *)
(* and values hold are left out.  What the two ends of a state do at the   *)
(* same time is SharedState; the frame a future may own is AwaitChain.     *)
(***************************************************************************)
EXTENDS Rtt, FiniteSets

CONSTANTS
    Objects,    \* places where a message may live
    Promises,   \* places of promises
    Futures,    \* places of unique_futures
    Resources,  \* memory resources
    ArgLists,   \* argument lists that are sent
    MaxMade     \* bound on the states made

Ids == 1 .. MaxMade

Bodies ==
    [resource : Resources \cup {Null}, capacity : {0} \cup {getSize(args) : args \in ArgLists},
     volume : Nat, allocation : Ids \cup {Null},
     objects : Seq([offset : Nat, type : Types])]

Messages == [slot : Ids \cup {Null}, transferred : BOOLEAN, body : Bodies]

ASSUME MessageAssumption ==
    /\ MaxMade \in Nat \ {0}
    /\ ArgLists \subseteq Seq(Types)
    /\ Null \notin Ids /\ Null \notin Messages
    /\ Null \notin {"force_align", "take_ready"}

VARIABLES
    msg,        \* the message that lives at a place, or Null
    prom,       \* the state a promise has, or Null
    fut,        \* the state a unique_future has, or Null
    state,      \* the shared states
    made,       \* how many have been made
    heap,       \* of a buffer: where it came from, and what was done to it
    thrown,     \* the messages whose construction an argument ended
    aborted     \* what has ended the process, or Null

vars == <<msg, prom, fut, state, made, heap, thrown, aborted>>

State ==
    [value_set : BOOLEAN, error_set : BOOLEAN, has_value : BOOLEAN, destroyed : 0 .. 1,
     claimed : BOOLEAN, promise_released : 0 .. 1, future_released : 0 .. 1, freed : 0 .. 1]

TypeOK ==
    /\ msg \in [Objects -> Messages \cup {Null}]
    /\ prom \in [Promises -> Ids \cup {Null}]
    /\ fut \in [Futures -> Ids \cup {Null}]
    /\ state \in [Ids -> State]
    /\ made \in 0 .. MaxMade
    /\ DOMAIN heap = Ids
    /\ thrown \subseteq Ids
    /\ aborted \in {Null, "force_align", "take_ready"}

NoBuffer ==
    [resource |-> Null, size |-> 0, count |-> 0, destroyed |-> <<>>, freed |-> <<>>]

\* shared_state's members as its constructor leaves them; `claimed` once a
\* future has been made for it, and how often each side was released.
NewState ==
    [value_set |-> FALSE, error_set |-> FALSE, has_value |-> FALSE, destroyed |-> 0,
     claimed |-> FALSE, promise_released |-> 0, future_released |-> 0, freed |-> 0]

Init ==
    /\ msg = [o \in Objects |-> Null]
    /\ prom = [p \in Promises |-> Null]
    /\ fut = [f \in Futures |-> Null]
    /\ state = [n \in Ids |-> NewState]
    /\ made = 0
    /\ heap = [n \in Ids |-> NoBuffer]
    /\ thrown = {}
    /\ aborted = Null

-----------------------------------------------------------------------------
(* A shared state and its result_storage, one side at a time.              *)

\* deallocate(): the destructor of the storage destroys a value it still has.
Deallocated(st) ==
    [st EXCEPT !.freed = @ + 1, !.has_value = FALSE,
               !.destroyed = IF st.has_value THEN @ + 1 ELSE @]

SetValue(st) == [st EXCEPT !.value_set = TRUE, !.has_value = TRUE]

SetError(st) == [st EXCEPT !.error_set = TRUE]

\* Wrong: take() leaves has_value_ up.
StillHeld(st) == [st EXCEPT !.destroyed = @ + 1]

\* take(): the value is moved out and what is left of it destroyed.
Taken(st) == [st EXCEPT !.destroyed = @ + 1, !.has_value = FALSE]

\* The last side out deallocates.
ReleasePromise(st) ==
    LET out == [st EXCEPT !.promise_released = @ + 1,
                          !.error_set = @ \/ ~st.value_set]
    IN  IF st.future_released > 0 THEN Deallocated(out) ELSE out

ReleaseFuture(st) ==
    LET out == [st EXCEPT !.future_released = @ + 1]
    IN  IF st.promise_released > 0 THEN Deallocated(out) ELSE out

\* What becomes of the states when a promise, or a future, lets go of n.
PromiseDies(n) ==
    IF n = Null THEN state ELSE [state EXCEPT ![n] = ReleasePromise(SetError(@))]

FutureDies(n) ==
    IF n = Null THEN state ELSE [state EXCEPT ![n] = ReleaseFuture(@)]

-----------------------------------------------------------------------------
(* The pieces of the special members.                                      *)

\* A message constructed with a body, and init_future_slot().
Made(n, body) == [slot |-> n, transferred |-> FALSE, body |-> body]

\* What std::exchange() and rtt's move leave behind.
MovedFrom(m) == [slot |-> Null, transferred |-> FALSE, body |-> Empty(Null)]

\* ~message() and operator=: the slot's cleanup_fn_, unless it is transferred.
CleanedUp(m) ==
    IF m.slot # Null /\ ~m.transferred
      THEN PromiseDies(m.slot)
      ELSE state

\* Wrong: operator= does not look at the slot it overwrites.
Overwritten(m) == state

CleanedUpByAssign(m) == CleanedUp(m)

DestroyOrder(body) == Reverse([i \in DOMAIN body.objects |-> i])

\* What rtt::clear() does to an allocation: destroy the arguments, give it back.
GivenBack(h, body) ==
    [h EXCEPT !.destroyed = @ \o DestroyOrder(body),
              !.freed = Append(@, [resource |-> body.resource,
                                   size |-> total_size(body.capacity, Len(body.objects))])]

Cleared(body) ==
    IF body.allocation = Null THEN heap
    ELSE [heap EXCEPT ![body.allocation] = GivenBack(@, body)]

\* Wrong: the buffer is taken and its memory_resource_ is not.
BufferOnly(mine, other) == [other EXCEPT !.resource = mine.resource]

\* rtt::operator=, past clear().
AssignedBody(mine, other) == other

-----------------------------------------------------------------------------
(* Operations.                                                             *)

Allocated(r, args) ==
    IF args = <<>> THEN NoBuffer
    ELSE [NoBuffer EXCEPT !.resource = r, !.count = Len(args),
                          !.size = total_size(getSize(args), Len(args))]

\* The buffer that rtt's constructor begins to fill.
Fresh(r, args) ==
    IF args = <<>> THEN Empty(r)
    ELSE [Empty(r) EXCEPT !.capacity = getSize(args), !.allocation = made + 1]

Running == aborted = Null

\* make_message(): the state, the arguments' rtt, the message it moves to, and
\* the future.
MakeMessage(o, f, r, args) ==
    /\ Running
    /\ made < MaxMade
    /\ msg[o] = Null /\ fut[f] = Null
    /\ made' = made + 1
    /\ heap' = [heap EXCEPT ![made + 1] = Allocated(r, args)]
    /\ LET body == Filled(Fresh(r, args), args, Len(args))
       IN  \/ /\ Len(body.objects) = Len(args)
              /\ msg' = [msg EXCEPT ![o] = Made(made + 1, body)]
              /\ fut' = [fut EXCEPT ![f] = made + 1]
              /\ state' = [state EXCEPT ![made + 1].claimed = TRUE]
              /\ UNCHANGED aborted
           \/ /\ Len(body.objects) < Len(args)
              /\ aborted' = "force_align"
              /\ UNCHANGED <<msg, fut, state>>
    /\ UNCHANGED <<prom, thrown>>

\* The n-th argument's constructor throws.  rtt's destructor does not run, as
\* its constructor has not ended, and the state is held by a bare pointer.
MakeThrows(r, args, n) ==
    /\ Running
    /\ made < MaxMade
    /\ Len(Filled(Fresh(r, args), args, n - 1).objects) = n - 1
    /\ Fits(Filled(Fresh(r, args), args, n - 1), args[n])
    /\ made' = made + 1
    /\ heap' = [heap EXCEPT ![made + 1] = Allocated(r, args)]
    /\ thrown' = thrown \cup {made + 1}
    /\ UNCHANGED <<msg, prom, fut, state, aborted>>

\* The two move constructors; the allocator-extended one asserts that it is
\* given the resource of the body.
MoveConstruct(o, from) ==
    /\ Running
    /\ msg[o] = Null
    /\ msg[from] # Null
    /\ msg' = [msg EXCEPT ![o] = msg[from], ![from] = MovedFrom(msg[from])]
    /\ UNCHANGED <<prom, fut, state, made, heap, thrown, aborted>>

\* operator=.  rtt's asserts that the resources agree; without asserts it goes
\* on, and so it does here.
MoveAssign(o, from) ==
    /\ Running
    /\ o # from
    /\ msg[o] # Null
    /\ msg[from] # Null
    /\ state' = CleanedUpByAssign(msg[o])
    /\ heap' = Cleared(msg[o].body)
    /\ msg' = [msg EXCEPT
                 ![o] = [msg[from] EXCEPT
                           !.body = AssignedBody(msg[o].body, msg[from].body)],
                 ![from] = MovedFrom(msg[from])]
    /\ UNCHANGED <<prom, fut, made, thrown, aborted>>

\* swap(): std::swap() on an rtt is a move construction and two assignments,
\* each to a buffer that has just been moved from.
SwapMessages(o, p) ==
    /\ Running
    /\ o # p
    /\ msg[o] # Null
    /\ msg[p] # Null
    /\ msg' = [msg EXCEPT ![o] = msg[p], ![p] = msg[o]]
    /\ UNCHANGED <<prom, fut, state, made, heap, thrown, aborted>>

\* get_result_promise() and transfer_ownership(), as dispatch() and a router
\* call them: once, on a message that has a slot.
TransferOwnership(o, p) ==
    /\ Running
    /\ msg[o] # Null /\ prom[p] = Null
    /\ msg[o].slot # Null
    /\ ~msg[o].transferred
    /\ prom' = [prom EXCEPT ![p] = msg[o].slot]
    /\ msg' = [msg EXCEPT ![o].transferred = TRUE]
    /\ UNCHANGED <<fut, state, made, heap, thrown, aborted>>

\* message_deleter: ~message() and ~rtt().
DestroyMessage(o) ==
    /\ Running
    /\ msg[o] # Null
    /\ state' = CleanedUp(msg[o])
    /\ heap' = Cleared(msg[o].body)
    /\ msg' = [msg EXCEPT ![o] = Null]
    /\ UNCHANGED <<prom, fut, made, thrown, aborted>>

-----------------------------------------------------------------------------
(* Promises and futures.                                                   *)

\* promise(memory_resource*).
MakePromise(p) ==
    /\ Running
    /\ made < MaxMade
    /\ prom[p] = Null
    /\ made' = made + 1
    /\ prom' = [prom EXCEPT ![p] = made + 1]
    /\ UNCHANGED <<msg, fut, state, heap, thrown, aborted>>

\* get_future(), which is to be called once.
GetFuture(p, f) ==
    /\ Running
    /\ prom[p] # Null /\ fut[f] = Null
    /\ ~state[prom[p]].claimed
    /\ fut' = [fut EXCEPT ![f] = prom[p]]
    /\ state' = [state EXCEPT ![prom[p]].claimed = TRUE]
    /\ UNCHANGED <<msg, prom, made, heap, thrown, aborted>>

\* make_ready_future() and make_error(): a promise that is settled before its
\* future is returned.
MakeReadyFuture(f) ==
    /\ Running
    /\ made < MaxMade
    /\ fut[f] = Null
    /\ made' = made + 1
    /\ fut' = [fut EXCEPT ![f] = made + 1]
    /\ \E st \in {SetValue(NewState), SetError(NewState)} :
         state' = [state EXCEPT ![made + 1] = [ReleasePromise(st) EXCEPT !.claimed = TRUE]]
    /\ UNCHANGED <<msg, prom, heap, thrown, aborted>>

\* set_value(), error() and exception(): the outcome, settle(), and no state.
SettlePromise(p) ==
    /\ Running
    /\ prom[p] # Null
    /\ \E st \in {SetValue(state[prom[p]]), SetError(state[prom[p]])} :
         state' = [state EXCEPT ![prom[p]] = ReleasePromise(st)]
    /\ prom' = [prom EXCEPT ![p] = Null]
    /\ UNCHANGED <<msg, fut, made, heap, thrown, aborted>>

\* The move constructor, operator= and, with nothing to move, the destructor:
\* release_if_needed() on what p had.
MovePromise(p, from) ==
    /\ Running
    /\ p # from
    /\ state' = PromiseDies(prom[p])
    /\ prom' = [prom EXCEPT ![p] = prom[from], ![from] = Null]
    /\ UNCHANGED <<msg, fut, made, heap, thrown, aborted>>

\* The same of a unique_future, where release() also is detach().
MoveFuture(f, from) ==
    /\ Running
    /\ f # from
    /\ state' = FutureDies(fut[f])
    /\ fut' = [fut EXCEPT ![f] = fut[from], ![from] = Null]
    /\ UNCHANGED <<msg, prom, made, heap, thrown, aborted>>

\* check_extractable(): a result and no error.
Extractable(st) == st.value_set /\ ~st.error_set

\* take_ready(), which does not wait: the value, and release(); without a value
\* refuse_valueless_extraction() aborts.
TakeReady(f) ==
    /\ Running
    /\ fut[f] # Null
    /\ \/ /\ Extractable(state[fut[f]])
          /\ state' = [state EXCEPT ![fut[f]] = ReleaseFuture(Taken(@))]
          /\ fut' = [fut EXCEPT ![f] = Null]
          /\ UNCHANGED aborted
       \/ /\ ~Extractable(state[fut[f]])
          /\ aborted' = "take_ready"
          /\ UNCHANGED <<state, fut>>
    /\ UNCHANGED <<msg, prom, made, heap, thrown>>

Next ==
    \/ \E r \in Resources, args \in ArgLists :
         \/ \E o \in Objects, f \in Futures : MakeMessage(o, f, r, args)
         \/ \E n \in DOMAIN args : MakeThrows(r, args, n)
    \/ \E o, p \in Objects :
         \/ MoveConstruct(o, p)
         \/ MoveAssign(o, p)
         \/ SwapMessages(o, p)
    \/ \E o \in Objects : DestroyMessage(o)
    \/ \E o \in Objects, p \in Promises : TransferOwnership(o, p)
    \/ \E p \in Promises : MakePromise(p) \/ SettlePromise(p)
    \/ \E p, q \in Promises : MovePromise(p, q)
    \/ \E p \in Promises, f \in Futures : GetFuture(p, f)
    \/ \E f \in Futures : MakeReadyFuture(f) \/ TakeReady(f)
    \/ \E f, g \in Futures : MoveFuture(f, g)

Spec == Init /\ [][Next]_vars

-----------------------------------------------------------------------------
(* Properties.                                                             *)

Live == {o \in Objects : msg[o] # Null}

\* Those whose construction did not end.
Unborn == thrown \cup (IF aborted = "force_align" THEN {made} ELSE {})

\* The caller's future is settled exactly once: at any time it has been, or
\* one message or one promise is left that will do it.  Only a message whose
\* construction threw leaves nobody, and nobody holds its future.
OneSettler ==
    \A n \in 1 .. made :
        LET owners == {o \in Live : msg[o].slot = n /\ ~msg[o].transferred}
            promises == {p \in Promises : prom[p] = n}
        IN  state[n].promise_released + Cardinality(owners) + Cardinality(promises)
                = (IF n \in Unborn THEN 0 ELSE 1)

\* A state that has a future has one, until it lets go once.  The state is given
\* back once, exactly when both sides have left, and a value that was put into
\* it is destroyed exactly once by then, taken or not.  One whose future was
\* never asked for is never given back.
StateReturned ==
    \A n \in 1 .. made \ Unborn :
        LET st == state[n]
            holders == {f \in Futures : fut[f] = n}
        IN  /\ st.future_released + Cardinality(holders) = (IF st.claimed THEN 1 ELSE 0)
            /\ st.freed = st.promise_released * st.future_released
            /\ st.destroyed + (IF st.has_value THEN 1 ELSE 0) = (IF st.value_set THEN 1 ELSE 0)
            /\ st.freed = 1 => ~st.has_value

\* A buffer is given back once, to the resource it came from and with the size
\* it was allocated with, after its arguments were destroyed, the last one
\* first, and no message has it afterwards: clear() computes all of this from
\* members that moves have carried along.  It is never dropped.
BufferReturned ==
    \A n \in Ids :
        LET owners == {o \in Live : msg[o].body.allocation = n}
            whole == [resource |-> heap[n].resource, size |-> heap[n].size]
        IN  /\ heap[n].freed \in {<<>>, <<whole>>}
            /\ heap[n].size > 0 /\ n \notin Unborn =>
                   (heap[n].freed = <<>> <=> Cardinality(owners) = 1)
            /\ heap[n].freed # <<>> => owners = {}
            /\ heap[n].destroyed = IF heap[n].freed = <<>> THEN <<>>
                                   ELSE Reverse([i \in 1 .. heap[n].count |-> i])

\* The arguments lie at their alignment, apart from each other, and below the
\* table that is laid out behind the capacity.
LayoutSound ==
    \A o \in Live :
        LET b == msg[o].body
            End(i) == b.objects[i].offset + SizeOf[b.objects[i].type]
        IN  /\ \A i \in DOMAIN b.objects :
                   /\ b.objects[i].offset % AlignOf[b.objects[i].type] = 0
                   /\ End(i) <= b.capacity
            /\ \A i, j \in DOMAIN b.objects :
                   i < j => End(i) <= b.objects[j].offset

\* "force_align() cannot fail: getSize<>() fixes the capacity at compile time."
ForceAlignFits == aborted # "force_align"

=============================================================================
