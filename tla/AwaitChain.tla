----------------------------- MODULE AwaitChain -----------------------------
(***************************************************************************)
(* The coroutines of one message: behavior(), the root of the await chain, *)
(* dispatch(), which it co_awaits, the method dispatch() calls, and the    *)
(* coroutines that calls in turn.  All run on the thread that holds        *)
(* `running`.  What they wait for in the end is a leaf: the future of a    *)
(* send(), settled by another thread, flag-only.  resume_impl()'s drain    *)
(* finds the leaf, and the coroutine to resume, through pointers that the  *)
(* coroutines keep up to date in the root.                                 *)
(*                                                                         *)
(* A future is named by its producer: a coroutine or a leaf.  The two      *)
(* pointers of a promise to the awaited state, awaited_flags_ and          *)
(* awaited_continuation_, always move together and are one here, as are    *)
(* the pointers to the outer promise.  How a shared state is given back is *)
(* SharedState's; here it is gone when both sides have released it.        *)
(***************************************************************************)
EXTENDS Naturals, FiniteSets, SequencesExt

CONSTANTS
    Methods,    \* method coroutines, each called at most once
    Leaves,     \* futures of send(), each made at most once
    Root,       \* the coroutine of behavior()
    Dispatch,   \* the coroutine of dispatch()
    Null        \* a null pointer

Frames == Methods \cup {Root, Dispatch}
Futures == Methods \cup {Dispatch} \cup Leaves

ASSUME NamesAssumption ==
    /\ IsFiniteSet(Methods)
    /\ Methods \cap Leaves = {}
    /\ {Root, Dispatch, Null} \cap (Methods \cup Leaves) = {}
    /\ Cardinality({Root, Dispatch, Null}) = 3
    /\ "released" \notin Methods \cup {Root, Dispatch, Null}

VARIABLES
    frame,      \* of a coroutine: not yet there, live, at its end, destroyed
    stack,      \* the coroutines the thread is in, innermost last
    step,       \* where in a co_await the innermost one is
    target,     \* the future that a coroutine's co_await owns
    holder,     \* the coroutine whose unique_future it is
    settled,    \* how far the producer of a future is
    cont,       \* continuation_ of a future's state
    awaited,    \* awaited_flags_ and awaited_continuation_ of a promise
    outer,      \* outer_promise_raw_ of a promise
    method,     \* the method that dispatch() has called
    outcome,    \* how a method ended
    message,    \* the message: queued, in resume_impl()'s hands, or gone
    transferred,\* the message's ownership_transferred_
    promise,    \* whether dispatch()'s result_promise has yet to settle
    result      \* what the caller's future reads

vars == <<frame, stack, step, target, holder, settled, cont, awaited, outer,
          method, outcome, message, transferred, promise, result>>
chainVars == <<settled, cont, awaited, outer>>
callVars == <<method, outcome, message, transferred, promise, result>>

Outcomes == {"value", "exception", "error"}

TypeOK ==
    /\ frame \in [Frames -> {"none", "live", "done", "destroyed"}]
    /\ stack \in Seq(Frames)
    /\ step \in {"body", "ready", "register", "recheck", "resume"}
    /\ target \in [Frames -> Futures \cup {Null}]
    /\ holder \in [Futures -> Frames \cup {Null, "released"}]
    /\ settled \in [Futures -> {"pending", "set", "released"}]
    /\ cont \in [Futures -> Frames \cup {Null}]
    /\ awaited \in [Frames -> Futures \cup {Null}]
    /\ outer \in [Frames -> Frames \cup {Null}]
    /\ method \in Methods \cup {Null}
    /\ outcome \in [Methods -> Outcomes \cup {"none"}]
    /\ message \in {"queued", "handled", "gone"}
    /\ transferred \in BOOLEAN
    /\ promise \in BOOLEAN
    /\ result \in Outcomes \cup {"pending", "cancelled"}

Init ==
    /\ frame = [f \in Frames |-> "none"]
    /\ stack = <<>>
    /\ step = "body"
    /\ target = [f \in Frames |-> Null]
    /\ holder = [x \in Futures |-> Null]
    /\ settled = [x \in Futures |-> "pending"]
    /\ cont = [x \in Futures |-> Null]
    /\ awaited = [f \in Frames |-> Null]
    /\ outer = [f \in Frames |-> Null]
    /\ method = Null
    /\ outcome = [m \in Methods |-> "none"]
    /\ message = "queued"
    /\ transferred = FALSE
    /\ promise = FALSE
    /\ result = "pending"

Executes(f) == stack # <<>> /\ Last(stack) = f

InBody(f) == Executes(f) /\ step = "body"

HasResult(x) == settled[x] # "pending"
IsReady(x) == settled[x] = "released"

-----------------------------------------------------------------------------
(* The bodies.  They are the user's: any of them calls, sends, awaits and  *)
(* drops in any order, except dispatch()'s.                                *)

\* resume_impl() calls behavior(msg), which starts at once.
Behave ==
    /\ message = "queued"
    /\ message' = "handled"
    /\ frame' = [frame EXCEPT ![Root] = "live"]
    /\ stack' = <<Root>>
    /\ step' = "body"
    /\ UNCHANGED <<target, holder, chainVars, method, outcome,
                   transferred, promise, result>>

\* Wrong: transfer_ownership() is left to the other side of the co_await.
NotTransferred == FALSE

TransferOwnership == TRUE

\* dispatch(), up to where its method first suspends or ends: it takes the
\* caller's promise over from the message and calls the method.  A behavior
\* that has been suspended has no message left to dispatch.
CallDispatch(m) ==
    /\ InBody(Root)
    /\ message = "handled"
    /\ frame[Dispatch] = "none"
    /\ frame[m] = "none"
    /\ frame' = [frame EXCEPT ![Dispatch] = "live", ![m] = "live"]
    /\ holder' = [holder EXCEPT ![Dispatch] = Root, ![m] = Dispatch]
    /\ stack' = stack \o <<Dispatch, m>>
    /\ method' = m
    /\ promise' = TRUE
    /\ transferred' = TransferOwnership
    /\ UNCHANGED <<step, target, chainVars, outcome, message, result>>

\* A coroutine starts inside its caller, which gets the future back when the
\* callee first suspends or ends.
CallMethod(f, m) ==
    /\ f # Dispatch
    /\ InBody(f)
    /\ frame[m] = "none"
    /\ frame' = [frame EXCEPT ![m] = "live"]
    /\ holder' = [holder EXCEPT ![m] = f]
    /\ stack' = Append(stack, m)
    /\ UNCHANGED <<step, target, chainVars, callVars>>

\* send() to another actor: a future that somebody else will settle.
Send(f, l) ==
    /\ f # Dispatch
    /\ InBody(f)
    /\ holder[l] = Null
    /\ holder' = [holder EXCEPT ![l] = f]
    /\ UNCHANGED <<frame, stack, step, target, chainVars, callVars>>

\* Wrong: the frame is left to its producer even when that has ended.
FrameKept(x) == frame

\* unique_future::release(): a frame at its end is destroyed.
Reclaimed(x) ==
    [f \in Frames |-> IF f = x /\ frame[f] = "done" THEN "destroyed" ELSE frame[f]]

Release(x) ==
    /\ holder' = [holder EXCEPT ![x] = "released"]
    /\ frame' = Reclaimed(x)

DropFuture(f, x) ==
    /\ f # Dispatch
    /\ InBody(f)
    /\ holder[x] = f
    /\ Release(x)
    /\ UNCHANGED <<stack, step, target, chainVars, callVars>>

\* dispatch() passes on what the method gave.
SettleResult ==
    /\ InBody(Dispatch)
    /\ promise
    /\ holder[method] = "released"
    /\ promise' = FALSE
    /\ result' = outcome[method]
    /\ UNCHANGED <<frame, stack, step, target, holder, chainVars, method,
                   outcome, message, transferred>>

-----------------------------------------------------------------------------
(* co_await std::move(future).                                             *)

\* The promise of f and the ones above it, as far as outer pointers lead.
Up(f) ==
    LET at[i \in 0 .. Cardinality(Frames)] ==
            IF i = 0 THEN f
            ELSE IF at[i - 1] = Null THEN Null ELSE outer[at[i - 1]]
    IN  {at[i] : i \in 0 .. Cardinality(Frames)} \ {Null}

\* Wrong: the promises above do not learn of it.
SetHere(f, x) == [awaited EXCEPT ![f] = x]

\* awaited_flags_ of f, and update_propagated_outer().
Propagated(f, x) == [g \in Frames |-> IF g \in Up(f) THEN x ELSE awaited[g]]

\* Wrong: the future that f itself awaits, whatever it waits for.
Shallow(x) == x

\* What the drain has to look at when f awaits x: what x itself awaits.
Deepest(x) == IF x \in Frames /\ awaited[x] # Null THEN awaited[x] ELSE x

\* await_transform(): propagate_awaited_state().  dispatch() awaits its method.
Await(f, x) ==
    /\ InBody(f)
    /\ holder[x] = f
    /\ target' = [target EXCEPT ![f] = x]
    /\ step' = "ready"
    /\ \/ /\ HasResult(x)
          /\ awaited' = Propagated(f, Null)
          /\ UNCHANGED outer
       \/ /\ ~HasResult(x)
          /\ awaited' = Propagated(f, Deepest(x))
          /\ outer' = [g \in Frames |-> IF g = x THEN f ELSE outer[g]]
    /\ UNCHANGED <<frame, stack, holder, settled, cont, callVars>>

AwaitReady(f) ==
    /\ Executes(f)
    /\ step = "ready"
    /\ step' = IF HasResult(target[f]) THEN "resume" ELSE "register"
    /\ UNCHANGED <<frame, stack, target, holder, chainVars, callVars>>

\* future_await_suspend_cas(): register, then look again.
Register(f) ==
    /\ Executes(f)
    /\ step = "register"
    /\ cont' = [cont EXCEPT ![target[f]] = f]
    /\ step' = "recheck"
    /\ UNCHANGED <<frame, stack, target, holder, settled, awaited, outer, callVars>>

\* Wrong: it is read and stays.
LeftRegistered(x) == cont

\* continuation_.exchange(nullptr).
Unregistered(x) == [cont EXCEPT ![x] = Null]

\* A coroutine that suspends gives its caller, or the drain, control back.
Recheck(f) ==
    /\ Executes(f)
    /\ step = "recheck"
    /\ \/ /\ HasResult(target[f])
          /\ cont' = Unregistered(target[f])
          /\ step' = "resume"
          /\ UNCHANGED stack
       \/ /\ ~HasResult(target[f])
          /\ stack' = Front(stack)
          /\ step' = "body"
          /\ UNCHANGED cont
    /\ UNCHANGED <<frame, target, holder, settled, awaited, outer, callVars>>

\* refuse_valueless_extraction(): the process is aborted, the thread goes no
\* further.
Refuses(f) == target[f] \in Methods /\ outcome[target[f]] = "error"

\* await_resume(): clear_awaited_chain(), take or rethrow; and the end of the
\* awaiter, which owns the future.
AwaitResume(f) ==
    /\ Executes(f)
    /\ step = "resume"
    /\ ~Refuses(f)
    /\ awaited' = Propagated(f, Null)
    /\ Release(target[f])
    /\ target' = [target EXCEPT ![f] = Null]
    /\ step' = "body"
    /\ UNCHANGED <<stack, settled, cont, outer, callVars>>

-----------------------------------------------------------------------------
(* The end of a coroutine.                                                 *)

HoldsNothing(f) == \A x \in Futures : holder[x] # f

\* The coroutine to go on with, or the caller.
TransferTo(f) ==
    IF cont[f] = Null THEN Front(stack) ELSE Append(Front(stack), cont[f])

\* final_awaiter: take the continuation, release the promise.  A frame whose
\* future has gone destroys itself, any other stays for release().
FinalSuspend(f) ==
    /\ cont' = Unregistered(f)
    /\ settled' = [settled EXCEPT ![f] = "released"]
    /\ IF holder[f] = "released"
         THEN /\ frame' = [frame EXCEPT ![f] = "destroyed"]
              /\ stack' = Front(stack)
              /\ step' = "body"
         ELSE /\ frame' = [frame EXCEPT ![f] = "done"]
              /\ stack' = TransferTo(f)
              /\ step' = IF cont[f] = Null THEN "body" ELSE "resume"
    /\ UNCHANGED <<target, holder, awaited, outer>>

\* co_return of a value or of an std::error_code, or an exception that
\* unhandled_exception() stores.
MethodEnds(m) ==
    /\ InBody(m)
    /\ HoldsNothing(m)
    /\ \E o \in Outcomes : outcome' = [outcome EXCEPT ![m] = o]
    /\ FinalSuspend(m)
    /\ UNCHANGED <<method, message, transferred, promise, result>>

DispatchEnds ==
    /\ InBody(Dispatch)
    /\ ~promise
    /\ FinalSuspend(Dispatch)
    /\ UNCHANGED callVars

\* The root has no state to release and nobody to resume.
BehaviorEnds ==
    /\ InBody(Root)
    /\ HoldsNothing(Root)
    /\ frame' = [frame EXCEPT ![Root] = "done"]
    /\ stack' = Front(stack)
    /\ UNCHANGED <<step, target, holder, chainVars, callVars>>

-----------------------------------------------------------------------------
(* resume_impl() around the coroutines, the owner, and the other threads.  *)

\* ~message(): its cleanup_fn_ settles what nobody has taken over.
ResultAtMessageEnd == IF transferred THEN result ELSE "cancelled"

\* behavior(msg) has returned, and message_guard goes.
MessageGuardEnds ==
    /\ message = "handled"
    /\ stack = <<>>
    /\ message' = "gone"
    /\ result' = ResultAtMessageEnd
    /\ UNCHANGED <<frame, stack, step, target, holder, chainVars, method,
                   outcome, transferred, promise>>

\* is_busy(), is_awaited_ready() and take_awaited_continuation().
Drain ==
    /\ message = "gone"
    /\ stack = <<>>
    /\ frame[Root] = "live"
    /\ awaited[Root] # Null
    /\ IsReady(awaited[Root])
    /\ cont[awaited[Root]] # Null
    /\ stack' = <<cont[awaited[Root]]>>
    /\ step' = "resume"
    /\ cont' = Unregistered(awaited[Root])
    /\ UNCHANGED <<frame, target, holder, settled, awaited, outer, callVars>>

\* The actor is destroyed, nobody being in resume(): the root's frame goes,
\* with the futures it holds, then the mailbox with a queued message.  A frame
\* is destroyed by its future only at its end; one that is suspended stays.
DestroyActor ==
    /\ stack = <<>>
    /\ \/ message = "queued"
       \/ message = "gone" /\ frame[Root] # "destroyed"
    /\ holder' = [x \in Futures |-> IF holder[x] = Root THEN "released" ELSE holder[x]]
    /\ frame' = [f \in Frames |->
                    IF \/ f = Root
                       \/ f \in Futures /\ holder[f] = Root /\ frame[f] = "done"
                      THEN "destroyed" ELSE frame[f]]
    /\ message' = "gone"
    /\ result' = ResultAtMessageEnd
    /\ UNCHANGED <<stack, step, target, chainVars, method, outcome, transferred,
                   promise>>

\* The promise of a leaf: set_value() and its kin, then release_promise().
SetLeaf(l) ==
    /\ holder[l] # Null
    /\ settled[l] = "pending"
    /\ settled' = [settled EXCEPT ![l] = "set"]
    /\ UNCHANGED <<frame, stack, step, target, holder, cont, awaited, outer, callVars>>

ReleaseLeaf(l) ==
    /\ settled[l] = "set"
    /\ settled' = [settled EXCEPT ![l] = "released"]
    /\ UNCHANGED <<frame, stack, step, target, holder, cont, awaited, outer, callVars>>

-----------------------------------------------------------------------------
Body(f) ==
    \/ \E m \in Methods : CallMethod(f, m)
    \/ \E l \in Leaves : Send(f, l)
    \/ \E x \in Futures : DropFuture(f, x) \/ Await(f, x)
    \/ AwaitReady(f)
    \/ Register(f)
    \/ Recheck(f)
    \/ AwaitResume(f)

Resume ==
    \/ \E f \in Frames : Body(f)
    \/ \E m \in Methods : CallDispatch(m) \/ MethodEnds(m)
    \/ SettleResult
    \/ DispatchEnds
    \/ BehaviorEnds
    \/ MessageGuardEnds
    \/ Drain

Leaf(l) == SetLeaf(l) \/ ReleaseLeaf(l)

Next == Behave \/ Resume \/ DestroyActor \/ \E l \in Leaves : Leaf(l)

Spec == Init /\ [][Next]_vars

\* A body that runs goes on, an actor whose behavior is suspended is resumed
\* (SuspendedNotStranded of CooperativeActor), and what is sent is answered.
Fairness == WF_vars(Resume) /\ \A l \in Leaves : WF_vars(Leaf(l))

LiveSpec == Spec /\ Fairness

-----------------------------------------------------------------------------
(* Properties.                                                             *)

\* Where the co_awaits lead from f: the future nobody in the chain produces.
ChainEnd(f) ==
    LET at[i \in 0 .. Cardinality(Frames)] ==
            IF i = 0 THEN target[f]
            ELSE IF at[i - 1] \in Frames THEN target[at[i - 1]] ELSE at[i - 1]
    IN  at[Cardinality(Frames)]

\* When the thread has left a suspended behavior, the root points at the leaf
\* its co_awaits lead to, through however many coroutines; that leaf's state
\* is still there, and its continuation is the coroutine that awaits it.  The
\* drain has nothing else to go by.
DrainFindsLeaf ==
    stack = <<>> /\ frame[Root] = "live" =>
        /\ awaited[Root] = ChainEnd(Root)
        /\ awaited[Root] \in Leaves
        /\ holder[awaited[Root]] \in Frames
        /\ target[cont[awaited[Root]]] = awaited[Root]

\* A frame at its final suspend point always has a future that will reclaim
\* it, and nobody ever resumes or is inside a frame that has ended.
EndedFrames ==
    /\ \A f \in Frames \ {Root} : frame[f] = "done" => holder[f] \in Frames
    /\ \A i \in DOMAIN stack : frame[stack[i]] = "live"

\* The caller's future is settled once: by the message's destructor or by
\* dispatch(), never by both, whenever the message dies.
SettledOnce == [][result # "pending" => result' = result]_vars

\* A coroutine that has suspended is the continuation of what it awaits and of
\* nothing else, and one that runs is nobody's, except between its registration
\* and the second look.  So whoever comes first, producer, drain or the awaiter
\* itself, resumes it, for a result that is there, and the others find nothing.
ResumedOnce ==
    /\ IsInjective(stack)
    /\ step = "resume" => HasResult(target[Last(stack)])
    /\ frame[Root] = "live" =>
         /\ \A f \in Frames : frame[f] = "live" /\ f \notin Range(stack) =>
               target[f] # Null /\ cont[target[f]] = f
         /\ \A x \in Futures : cont[x] # Null =>
               /\ target[cont[x]] = x
               /\ cont[x] \in Range(stack) => Executes(cont[x]) /\ step = "recheck"

\* A suspended behavior comes to its end, is destroyed, or comes to a co_await
\* that is refused.
ChainUnwinds ==
    frame[Root] = "live" ~>
        frame[Root] # "live" \/ \E f \in Frames : Executes(f) /\ step = "resume" /\ Refuses(f)

\* "A future may outlive its actor and reads as failed()": so the guide says
\* of what unique_future::release() and ~actor leave, here for a behavior that
\* awaits its dispatch() as every behavior is told to.
OutlivingFutureFails ==
    frame[Root] = "destroyed" /\ target[Root] = Dispatch => result # "pending"

=============================================================================
