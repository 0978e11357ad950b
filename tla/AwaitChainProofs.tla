-------------------------- MODULE AwaitChainProofs ---------------------------
(***************************************************************************)
(* Proofs about AwaitChain, for any number of method coroutines and leaves.*)
(***************************************************************************)
EXTENDS AwaitChain, FiniteSetTheorems, SequenceTheorems, WellFoundedInduction, TLAPS

-----------------------------------------------------------------------------
(* The inductive invariant.                                                *)

Coroutines == Methods \cup {Dispatch}

OnStack(f) == \E i \in DOMAIN stack : stack[i] = f

\* A coroutine has a future from its first step, and one at its end has it still.
BornOK ==
    \A f \in Coroutines :
        /\ frame[f] = "none" <=> holder[f] = Null
        /\ frame[f] = "done" => holder[f] \in Frames

\* The thread is in live coroutines only, each once; each but the first is
\* held by the one that called it; and while it is in one the behavior is alive.
StackOK ==
    /\ \A i \in DOMAIN stack : frame[stack[i]] = "live"
    /\ \A i, j \in DOMAIN stack : stack[i] = stack[j] => i = j
    /\ \A i \in DOMAIN stack : i # 1 => stack[i] \in Coroutines /\ holder[stack[i]] = stack[i - 1]
    /\ stack # <<>> => frame[Root] = "live"

\* Where the innermost coroutine is in a co_await, it has the future it awaits.
AwaitOK ==
    /\ step # "body" => stack # <<>>
    /\ step # "body" => \A f \in Frames : Executes(f) => target[f] \in Futures /\ holder[target[f]] = f

\* A continuation is a live coroutine that awaits the future and that the thread
\* has left, or is about to leave.
ContOK ==
    frame[Root] = "live" =>
        \A x \in Futures :
            cont[x] # Null =>
                /\ frame[cont[x]] = "live" /\ target[cont[x]] = x /\ holder[x] = cont[x]
                /\ OnStack(cont[x]) => Executes(cont[x]) /\ step = "recheck"

\* Before behavior() starts nothing awaits anything.
QueuedOK ==
    /\ message = "queued" => frame[Root] = "none" /\ stack = <<>>
    /\ frame[Root] = "none" => \A x \in Futures : cont[x] = Null /\ holder[x] = Null

\* Who has to settle the caller.
ResultOK ==
    /\ message = "queued" => ~transferred
    /\ frame[Dispatch] = "none" => ~transferred
    /\ promise => transferred /\ result = "pending"
    /\ ~transferred => result = IF message = "gone" THEN "cancelled" ELSE "pending"

\* dispatch() has its method's outcome when it gives the method's future up, and a
\* co_await is over only when there is something to take.
MethodOK ==
    /\ promise => /\ method \in Methods
                  /\ holder[method] = Dispatch \/ (holder[method] = "released" /\ outcome[method] # "none")
    /\ \A m \in Methods : settled[m] # "pending" => outcome[m] # "none"
    /\ step = "resume" => \A f \in Frames : Executes(f) => settled[target[f]] # "pending"

Inv ==
    /\ TypeOK /\ BornOK /\ StackOK /\ AwaitOK /\ ContOK /\ QueuedOK
    /\ ResultOK /\ MethodOK

-----------------------------------------------------------------------------
(* Names, and the thread's stack.                                          *)

\* The names are apart.
LEMMA Names ==
  /\ Frames = Coroutines \cup {Root} /\ Futures = Coroutines \cup Leaves
  /\ Root \notin Coroutines /\ Root \notin Futures /\ Null \notin Frames /\ Null \notin Futures
  /\ Leaves \cap Frames = {} /\ "released" \notin Frames /\ "released" # Null
  /\ Dispatch \notin Methods /\ Dispatch # Root /\ Null # Root
  <1>1. Root # Dispatch /\ Root # Null /\ Dispatch # Null
    <2>1. Cardinality({Root, Dispatch, Null}) = 3
      BY NamesAssumption DEF NamesAssumption
    <2>2. ASSUME NEW a, NEW b PROVE Cardinality({a, b}) # 3
      <3>1. CASE a = b
        <4>1. {a, b} = {a}
          BY <3>1
        <4> QED
          BY <4>1, FS_Singleton, SMTT(30)
      <3>2. CASE a # b
        <4>1. IsFiniteSet({a}) /\ Cardinality({a}) = 1 /\ b \notin {a} /\ {a, b} = {a} \cup {b}
          BY <3>2, FS_Singleton
        <4>2. Cardinality({a} \cup {b}) = 2
          BY <4>1, FS_AddElement
        <4> QED
          BY <4>1, <4>2
      <3> QED
        BY <3>1, <3>2
    <2>3. CASE Root = Dispatch
      <3>1. {Root, Dispatch, Null} = {Root, Null}
        BY <2>3
      <3> QED
        BY <2>1, <2>2, <3>1
    <2>4. CASE Root = Null
      <3>1. {Root, Dispatch, Null} = {Root, Dispatch}
        BY <2>4
      <3> QED
        BY <2>1, <2>2, <3>1
    <2>5. CASE Dispatch = Null
      <3>1. {Root, Dispatch, Null} = {Root, Null}
        BY <2>5
      <3> QED
        BY <2>1, <2>2, <3>1
    <2> QED
      BY <2>3, <2>4, <2>5
  <1> QED
    BY <1>1, NamesAssumption DEF NamesAssumption, Frames, Futures, Coroutines

\* The innermost coroutine, and the stack without it.
LEMMA Top ==
  ASSUME TypeOK, stack # <<>>
  PROVE  /\ Len(stack) \in DOMAIN stack /\ Last(stack) = stack[Len(stack)] /\ Last(stack) \in Frames
         /\ Front(stack) \in Seq(Frames) /\ DOMAIN Front(stack) = DOMAIN stack \ {Len(stack)}
         /\ \A i \in DOMAIN Front(stack) : Front(stack)[i] = stack[i]
         /\ DOMAIN stack \subseteq Nat /\ 1 \in DOMAIN stack
         /\ \A i \in DOMAIN stack : i # 1 => i - 1 \in DOMAIN stack /\ i - 1 # Len(stack)
         /\ Len(stack) = 1 => Front(stack) = <<>>
         /\ Len(Front(stack)) + 1 = Len(stack)
  <1>1. stack \in Seq(Frames) /\ Len(stack) \in Nat /\ Len(stack) # 0 /\ DOMAIN stack = 1 .. Len(stack)
    BY DEF TypeOK
  <1> DEFINE n == Len(stack)
  <1>2. /\ n \in DOMAIN stack /\ Last(stack) = stack[n] /\ Last(stack) \in Frames
        /\ DOMAIN stack \subseteq Nat /\ 1 \in DOMAIN stack
        /\ \A i \in DOMAIN stack : i # 1 => i - 1 \in DOMAIN stack /\ i - 1 # n
    BY <1>1 DEF Last
  <1>3. /\ Front(stack) \in Seq(Frames) /\ Len(Front(stack)) = n - 1
        /\ \A i \in 1 .. n - 1 : Front(stack)[i] = stack[i]
    BY <1>1 DEF Front
  <1> DEFINE t == Front(stack)
  <1> HIDE DEF t
  <1>4. t \in Seq(Frames) /\ Len(t) = n - 1
    BY <1>3 DEF t
  <1>5. DOMAIN t = 1 .. n - 1
    BY <1>4
  <1>6. DOMAIN t = DOMAIN stack \ {n}
    BY <1>1, <1>5
  <1>7. n = 1 => t = <<>>
    BY <1>4
  <1> QED
    BY <1>1, <1>2, <1>3, <1>5, <1>6, <1>7 DEF t

\* A coroutine is called.
LEMMA Pushed ==
  ASSUME TypeOK, NEW m \in Frames
  PROVE  /\ Append(stack, m) \in Seq(Frames) /\ Append(stack, m) # <<>>
         /\ Last(Append(stack, m)) = m
         /\ DOMAIN Append(stack, m) = DOMAIN stack \cup {Len(stack) + 1}
         /\ Len(stack) + 1 \notin DOMAIN stack /\ Append(stack, m)[Len(stack) + 1] = m
         /\ \A i \in DOMAIN stack : Append(stack, m)[i] = stack[i]
  BY DEF TypeOK, Last

\* Two coroutines are called.
LEMMA Joined ==
  ASSUME NEW S, NEW s \in Seq(S), NEW t \in Seq(S), Len(s) = 1, Len(t) = 2
  PROVE  /\ s \o t \in Seq(S) /\ Len(s \o t) = 3
         /\ (s \o t)[1] = s[1] /\ (s \o t)[2] = t[1] /\ (s \o t)[3] = t[2]
  <1> DEFINE u == s \o t
  <1>0. /\ u \in Seq(S) /\ Len(u) = Len(s) + Len(t)
        /\ \A i \in 1 .. Len(s) + Len(t) : u[i] = IF i <= Len(s) THEN s[i] ELSE t[i - Len(s)]
    BY ConcatProperties, Zenon
  <1> HIDE DEF u
  <1>1. u \in Seq(S) /\ Len(u) = 1 + 2
    BY <1>0
  <1>2. \A i \in 1 .. 1 + 2 : u[i] = IF i <= 1 THEN s[i] ELSE t[i - 1]
    BY <1>0
  <1>3. /\ 1 \in 1 .. 1 + 2 /\ 2 \in 1 .. 1 + 2 /\ 3 \in 1 .. 1 + 2 /\ 2 - 1 = 1 /\ 3 - 1 = 2
        /\ 1 + 2 = 3
    OBVIOUS
  <1>4. u[1] = s[1]
    BY <1>2, <1>3
  <1>5. u[2] = t[1]
    <2>1. u[2] = t[2 - 1]
      BY <1>2, <1>3
    <2> QED
      BY <1>3, <2>1
  <1>6. u[3] = t[2]
    <2>1. u[3] = t[3 - 1]
      BY <1>2, <1>3
    <2> QED
      BY <1>3, <2>1
  <1> QED
    BY <1>1, <1>3, <1>4, <1>5, <1>6 DEF u

\* A coroutine that is awaited has been left, except where it looks again.
LEMMA Left ==
  ASSUME Inv, stack # <<>>, step # "recheck", NEW x \in Futures, cont[x] # Null
  PROVE  ~OnStack(cont[x])
  BY DEF Inv, StackOK, ContOK

\* Whoever is on top of another is held by it, and has no continuation.
LEMMA Below ==
  ASSUME Inv, stack # <<>>, step # "recheck", cont[Last(stack)] # Null, Last(stack) \in Futures
  PROVE  Len(stack) = 1
  <1>1. ASSUME Len(stack) # 1 PROVE FALSE
    <2>1. /\ Len(stack) \in DOMAIN stack /\ Last(stack) = stack[Len(stack)]
          /\ Len(stack) - 1 \in DOMAIN stack
      BY <1>1, Top DEF Inv
    <2>2. holder[Last(stack)] = stack[Len(stack) - 1]
      BY <1>1, <2>1 DEF Inv, StackOK
    <2>3. OnStack(holder[Last(stack)])
      BY <2>1, <2>2 DEF OnStack
    <2>4. holder[Last(stack)] = cont[Last(stack)]
      BY DEF Inv, StackOK, ContOK
    <2> QED
      BY <2>3, <2>4, Left
  <1> QED
    BY <1>1

\* Nothing has begun.
LEMMA InitInv == Init => Inv
  <1> SUFFICES ASSUME Init PROVE Inv
    OBVIOUS
  <1>1. TypeOK
    <2>1. stack \in Seq(Frames)
      BY DEF Init
    <2>2. transferred \in BOOLEAN /\ promise \in BOOLEAN
      BY Zenon DEF Init
    <2> QED
      BY <2>1, <2>2 DEF Init, TypeOK
  <1>2. BornOK /\ StackOK /\ AwaitOK /\ ContOK /\ QueuedOK /\ ResultOK
    BY Names DEF Init, BornOK, StackOK, AwaitOK, ContOK, QueuedOK, ResultOK, Futures, Frames, Coroutines
  <1>3. MethodOK
    BY DEF Init, MethodOK, Futures
  <1> QED
    BY <1>1, <1>2, <1>3 DEF Inv

\* The thread stays where it is.
LEMMA StackSame ==
  ASSUME StackOK, stack' = stack, \A f : OnStack(f) => frame'[f] = "live",
         \A i \in DOMAIN stack : i # 1 => holder'[stack[i]] = holder[stack[i]],
         stack # <<>> => frame'[Root] = "live"
  PROVE  StackOK'
  BY DEF StackOK, OnStack

\* All that is said of coroutines and the thread.
Threads == TypeOK /\ BornOK /\ StackOK /\ AwaitOK /\ ContOK /\ QueuedOK

-----------------------------------------------------------------------------
(* The bodies.                                                             *)

\* The message of a running behavior has been taken from the mailbox.
LEMMA Working ==
  ASSUME Inv, stack # <<>>
  PROVE  frame[Root] = "live" /\ message # "queued"
  BY DEF Inv, StackOK, QueuedOK

\* resume_impl() calls behavior().
LEMMA BehaveThreads ==
  ASSUME Inv, Behave
  PROVE  Threads'
  <1>1. /\ frame[Root] = "none" /\ stack = <<>>
        /\ \A x \in Futures : cont[x] = Null /\ holder[x] = Null
    BY DEF Inv, QueuedOK, Behave
  <1>2. /\ frame \in [Frames -> {"none", "live", "done", "destroyed"}]
        /\ frame' = [frame EXCEPT ![Root] = "live"] /\ stack' = <<Root>> /\ step' = "body"
        /\ message' = "handled"
        /\ UNCHANGED <<target, holder, settled, cont, awaited, outer, method, outcome, transferred,
                       promise, result>>
    BY DEF Inv, TypeOK, Behave, chainVars
  <1>3. /\ frame' \in [Frames -> {"none", "live", "done", "destroyed"}] /\ frame'[Root] = "live"
        /\ \A f \in Coroutines : frame'[f] = frame[f]
    BY <1>2, Names
  <1>4. stack' \in Seq(Frames) /\ stack' # <<>> /\ DOMAIN stack' = {1} /\ stack'[1] = Root
    BY <1>2, Names
  <1>5. TypeOK'
    BY <1>2, <1>3, <1>4 DEF Inv, TypeOK
  <1>6. BornOK'
    BY <1>2, <1>3 DEF Inv, BornOK
  <1>7. StackOK'
    BY <1>3, <1>4 DEF StackOK
  <1>8. AwaitOK' /\ ContOK' /\ QueuedOK'
    BY <1>1, <1>2, <1>3, <1>4 DEF AwaitOK, ContOK, QueuedOK
  <1> QED
    BY <1>5, <1>6, <1>7, <1>8 DEF Threads

\* A coroutine m starts inside f.
LEMMA Starts ==
  ASSUME Inv, NEW f \in Frames, NEW m \in Coroutines, InBody(f), frame[m] = "none",
         frame' = [frame EXCEPT ![m] = "live"], holder' = [holder EXCEPT ![m] = f],
         stack' = Append(stack, m), UNCHANGED <<step, target, settled, cont, awaited, outer, message>>
  PROVE  /\ BornOK' /\ StackOK' /\ AwaitOK' /\ ContOK' /\ QueuedOK'
         /\ frame' \in [Frames -> {"none", "live", "done", "destroyed"}]
         /\ holder' \in [Futures -> Frames \cup {Null, "released"}]
         /\ stack' \in Seq(Frames)
  <1>0. /\ stack # <<>> /\ Last(stack) = f /\ step = "body" /\ m \in Frames /\ m \in Futures /\ m # Root
        /\ holder[m] = Null /\ f # Null /\ f # "released"
    BY Names DEF InBody, Executes, Inv, BornOK
  <1>1. /\ frame' \in [Frames -> {"none", "live", "done", "destroyed"}] /\ frame'[m] = "live"
        /\ \A g \in Frames : g # m => frame'[g] = frame[g]
        /\ holder' \in [Futures -> Frames \cup {Null, "released"}] /\ holder'[m] = f
        /\ \A x \in Futures : x # m => holder'[x] = holder[x]
    BY <1>0 DEF Inv, TypeOK
  <1>2. /\ stack' \in Seq(Frames) /\ stack' # <<>> /\ Last(stack') = m
        /\ DOMAIN stack' = DOMAIN stack \cup {Len(stack) + 1} /\ Len(stack) + 1 \notin DOMAIN stack
        /\ stack'[Len(stack) + 1] = m /\ \A i \in DOMAIN stack : stack'[i] = stack[i]
    BY <1>0, Pushed DEF Inv
  <1>3. /\ Len(stack) \in DOMAIN stack /\ stack[Len(stack)] = f /\ DOMAIN stack \subseteq Nat
        /\ \A i \in DOMAIN stack : i # 1 => i - 1 \in DOMAIN stack
    BY <1>0, Top DEF Inv
  <1>4. \A i \in DOMAIN stack : stack[i] # m /\ stack[i] \in Frames /\ frame'[stack[i]] = "live"
    <2>1. \A i \in DOMAIN stack : stack[i] \in Frames
      BY DEF Inv, TypeOK
    <2> QED
      BY <1>1, <2>1 DEF Inv, StackOK
  <1>5. frame'[Root] = "live"
    BY <1>0, <1>1, Working, Names
  <1>6. BornOK'
    BY <1>0, <1>1, Names DEF Inv, BornOK
  <1>7. StackOK'
    <2>1. \A i \in DOMAIN stack' : frame'[stack'[i]] = "live"
      BY <1>1, <1>2, <1>4
    <2>2. \A i, j \in DOMAIN stack' : stack'[i] = stack'[j] => i = j
      BY <1>2, <1>4 DEF Inv, StackOK
    <2>3. \A i \in DOMAIN stack : i # 1 => stack'[i] \in Coroutines /\ holder'[stack'[i]] = stack'[i - 1]
      <3> SUFFICES ASSUME NEW i \in DOMAIN stack, i # 1
                   PROVE  stack'[i] \in Coroutines /\ holder'[stack'[i]] = stack'[i - 1]
        OBVIOUS
      <3>1. stack[i] \in Coroutines /\ holder[stack[i]] = stack[i - 1] /\ stack[i] # m /\ stack[i] \in Futures
        BY <1>4, Names DEF Inv, StackOK
      <3> QED
        BY <1>1, <1>2, <1>3, <3>1
    <2>4. holder'[m] = stack'[Len(stack)]
      BY <1>1, <1>2, <1>3
    <2>5. Len(stack) + 1 - 1 = Len(stack)
      BY <1>3
    <2>6. \A i \in DOMAIN stack' : i # 1 => stack'[i] \in Coroutines /\ holder'[stack'[i]] = stack'[i - 1]
      <3> SUFFICES ASSUME NEW i \in DOMAIN stack', i # 1
                   PROVE  stack'[i] \in Coroutines /\ holder'[stack'[i]] = stack'[i - 1]
        OBVIOUS
      <3>1. CASE i \in DOMAIN stack
        BY <2>3, <3>1
      <3>2. CASE i = Len(stack) + 1
        <4>1. i - 1 = Len(stack) /\ stack'[i] = m
          BY <1>2, <2>5, <3>2
        <4> QED
          BY <2>4, <4>1
      <3> QED
        BY <1>2, <3>1, <3>2
    <2> QED
      BY <1>5, <2>1, <2>2, <2>6 DEF StackOK
  <1>8. AwaitOK'
    BY <1>0 DEF AwaitOK
  <1>9. ContOK'
    <2> SUFFICES ASSUME NEW x \in Futures, cont[x] # Null
                 PROVE  /\ frame'[cont[x]] = "live" /\ target[cont[x]] = x /\ holder'[x] = cont[x]
                        /\ ~OnStack(cont[x])'
      BY DEF ContOK
    <2>1. /\ frame[cont[x]] = "live" /\ target[cont[x]] = x /\ holder[x] = cont[x] /\ ~OnStack(cont[x])
          /\ cont[x] \in Frames
      <3>1. cont[x] \in Frames
        BY DEF Inv, TypeOK
      <3> QED
        BY <1>0, <3>1, Left, Working DEF Inv, ContOK
    <2>2. x # m /\ cont[x] # m
      BY <1>0, <2>1
    <2>3. ~OnStack(cont[x])'
      BY <1>2, <2>1, <2>2 DEF OnStack
    <2> QED
      BY <1>1, <2>1, <2>2, <2>3
  <1>10. QueuedOK'
    BY <1>0, <1>5, Working DEF QueuedOK
  <1> QED
    BY <1>1, <1>2, <1>6, <1>7, <1>8, <1>9, <1>10

\* A body calls a method.
LEMMA CallMethodThreads ==
  ASSUME Inv, NEW f \in Frames, NEW m \in Methods, CallMethod(f, m)
  PROVE  Threads'
  <1>1. /\ m \in Coroutines /\ InBody(f) /\ frame[m] = "none"
        /\ frame' = [frame EXCEPT ![m] = "live"] /\ holder' = [holder EXCEPT ![m] = f]
        /\ stack' = Append(stack, m)
        /\ UNCHANGED <<step, target, settled, cont, awaited, outer, message>>
        /\ UNCHANGED <<method, outcome, transferred, promise, result>>
    BY DEF CallMethod, Coroutines, chainVars, callVars
  <1>2. /\ BornOK' /\ StackOK' /\ AwaitOK' /\ ContOK' /\ QueuedOK'
        /\ frame' \in [Frames -> {"none", "live", "done", "destroyed"}]
        /\ holder' \in [Futures -> Frames \cup {Null, "released"}]
        /\ stack' \in Seq(Frames)
    BY <1>1, Starts
  <1>3. TypeOK'
    BY <1>1, <1>2 DEF Inv, TypeOK
  <1> QED
    BY <1>2, <1>3 DEF Threads

\* behavior() is below everything else on the thread.
LEMMA RootBelow ==
  ASSUME Inv, Executes(Root)
  PROVE  Len(stack) = 1 /\ DOMAIN stack = {1} /\ stack[1] = Root /\ stack = <<Root>>
  <1>1. stack # <<>> /\ Last(stack) = Root /\ stack \in Seq(Frames)
    BY DEF Executes, Inv, TypeOK
  <1>2. Len(stack) \in DOMAIN stack /\ stack[Len(stack)] = Root
    BY <1>1, Top DEF Inv
  <1>3. Len(stack) = 1
    BY <1>2, Names DEF Inv, StackOK
  <1> QED
    BY <1>1, <1>2, <1>3

\* behavior() calls dispatch(), and that its method.
LEMMA CallDispatchThreads ==
  ASSUME Inv, NEW m \in Methods, CallDispatch(m)
  PROVE  Threads'
  <1>1. /\ InBody(Root) /\ message = "handled" /\ frame[Dispatch] = "none" /\ frame[m] = "none"
        /\ frame' = [frame EXCEPT ![Dispatch] = "live", ![m] = "live"]
        /\ holder' = [holder EXCEPT ![Dispatch] = Root, ![m] = Dispatch]
        /\ stack' = stack \o <<Dispatch, m>> /\ method' = m
        /\ UNCHANGED <<step, target, settled, cont, awaited, outer, outcome, message, result>>
    BY DEF CallDispatch, chainVars
  <1>2. promise' \in BOOLEAN /\ transferred' \in BOOLEAN
    BY Zenon DEF CallDispatch, TransferOwnership
  <1>3. stack = <<Root>> /\ DOMAIN stack = {1} /\ stack # <<>> /\ step = "body" /\ Executes(Root)
    BY <1>1, RootBelow DEF InBody, Executes
  <1>4. /\ m \in Frames /\ m \in Futures /\ m \in Coroutines /\ Dispatch \in Coroutines /\ Dispatch \in Frames
        /\ Dispatch \in Futures /\ m # Root /\ Dispatch # Root /\ m # Dispatch /\ Root \in Frames
        /\ m # Null /\ Dispatch # Null /\ Root # Null
    BY Names DEF Coroutines
  <1>5. /\ frame' \in [Frames -> {"none", "live", "done", "destroyed"}]
        /\ frame'[m] = "live" /\ frame'[Dispatch] = "live"
        /\ \A g \in Frames : g # m /\ g # Dispatch => frame'[g] = frame[g]
    BY <1>1, <1>4 DEF Inv, TypeOK
  <1>6. /\ holder' \in [Futures -> Frames \cup {Null, "released"}]
        /\ holder'[Dispatch] = Root /\ holder'[m] = Dispatch
        /\ \A x \in Futures : x # m /\ x # Dispatch => holder'[x] = holder[x]
    BY <1>1, <1>4 DEF Inv, TypeOK
  <1>7. /\ stack \in Seq(Frames) /\ Len(stack) = 1 /\ stack[1] = Root
        /\ <<Dispatch, m>> \in Seq(Frames) /\ Len(<<Dispatch, m>>) = 2
        /\ <<Dispatch, m>>[1] = Dispatch /\ <<Dispatch, m>>[2] = m
    BY <1>3, <1>4, RootBelow DEF Inv, TypeOK
  <1>8. /\ stack' \in Seq(Frames) /\ DOMAIN stack' = {1, 2, 3} /\ stack' # <<>>
        /\ stack'[1] = Root /\ stack'[2] = Dispatch /\ stack'[3] = m
    <2> DEFINE t == <<Dispatch, m>>
    <2>1. t \in Seq(Frames) /\ Len(t) = 2 /\ t[1] = Dispatch /\ t[2] = m /\ stack' = stack \o t
      BY <1>1, <1>7
    <2> HIDE DEF t
    <2>2. /\ stack' \in Seq(Frames) /\ Len(stack') = 3
          /\ stack'[1] = stack[1] /\ stack'[2] = t[1] /\ stack'[3] = t[2]
      <3>1. stack \in Seq(Frames) /\ Len(stack) = 1
        BY <1>7
      <3> QED
        BY <2>1, <3>1, Joined
    <2>3. DOMAIN stack' = 1 .. 3
      BY <2>2
    <2>4. 1 .. 3 = {1, 2, 3}
      OBVIOUS
    <2> QED
      BY <1>7, <2>1, <2>2, <2>3, <2>4
  <1>9. frame'[Root] = "live"
    BY <1>3, <1>4, <1>5, Working
  <1>10. TypeOK'
    BY <1>1, <1>2, <1>5, <1>6, <1>8 DEF Inv, TypeOK
  <1>11. BornOK'
    <2> SUFFICES ASSUME NEW f \in Coroutines
                 PROVE  /\ frame'[f] = "none" <=> holder'[f] = Null
                        /\ frame'[f] = "done" => holder'[f] \in Frames
      BY DEF BornOK
    <2>1. CASE f = m \/ f = Dispatch
      BY <1>4, <1>5, <1>6, <2>1
    <2>2. CASE f # m /\ f # Dispatch
      <3>1. frame'[f] = frame[f] /\ holder'[f] = holder[f]
        BY <1>5, <1>6, <2>2, Names
      <3> QED
        BY <3>1 DEF Inv, BornOK
    <2> QED
      BY <2>1, <2>2
  <1>12. StackOK'
    <2>1. \A i \in DOMAIN stack' : frame'[stack'[i]] = "live"
      BY <1>5, <1>8, <1>9
    <2>2. \A i, j \in DOMAIN stack' : stack'[i] = stack'[j] => i = j
      BY <1>4, <1>8
    <2>3. \A i \in DOMAIN stack' : i # 1 => stack'[i] \in Coroutines /\ holder'[stack'[i]] = stack'[i - 1]
      <3>1. stack'[2 - 1] = Root /\ stack'[3 - 1] = Dispatch
        BY <1>8
      <3> QED
        BY <1>4, <1>6, <1>8, <3>1
    <2> QED
      BY <1>9, <2>1, <2>2, <2>3 DEF StackOK
  <1>13. AwaitOK'
    BY <1>1, <1>3 DEF AwaitOK
  <1>14. ContOK'
    <2> SUFFICES ASSUME NEW x \in Futures, cont[x] # Null
                 PROVE  /\ frame'[cont[x]] = "live" /\ target[cont[x]] = x /\ holder'[x] = cont[x]
                        /\ ~OnStack(cont[x])'
      BY <1>1 DEF ContOK
    <2>1. /\ frame[cont[x]] = "live" /\ target[cont[x]] = x /\ holder[x] = cont[x] /\ ~OnStack(cont[x])
          /\ cont[x] \in Frames
      <3>1. cont[x] \in Frames
        BY DEF Inv, TypeOK
      <3> QED
        BY <1>3, <3>1, Left, Working DEF Inv, ContOK
    <2>2. holder[m] = Null /\ holder[Dispatch] = Null
      BY <1>1, <1>4 DEF Inv, BornOK
    <2>0. OnStack(Root)
      BY <1>3, <1>7 DEF OnStack
    <2>3. x # m /\ x # Dispatch /\ cont[x] # m /\ cont[x] # Dispatch /\ cont[x] # Root
      <3>1. x # m /\ x # Dispatch
        BY <2>1, <2>2
      <3>2. cont[x] # m /\ cont[x] # Dispatch
        BY <1>1, <2>1
      <3>3. cont[x] # Root
        BY <2>0, <2>1
      <3> QED
        BY <3>1, <3>2, <3>3
    <2>4. ~OnStack(cont[x])'
      <3>1. \A i \in DOMAIN stack' : stack'[i] # cont[x]
        BY <1>8, <2>3
      <3> QED
        BY <1>1, <3>1 DEF OnStack
    <2> QED
      BY <1>5, <1>6, <2>1, <2>3, <2>4
  <1>15. QueuedOK'
    BY <1>1, <1>9 DEF QueuedOK
  <1> QED
    BY <1>10, <1>11, <1>12, <1>13, <1>14, <1>15 DEF Threads

\* The thread stays in f, which changes only what it awaits or holds.
LEMMA Stays ==
  ASSUME Inv, NEW f \in Frames, Executes(f), stack' = stack, message' = message,
         step' # "body" => target'[f] \in Futures /\ holder'[target'[f]] = f,
         \A g \in Frames : frame[g] = "live" <=> frame'[g] = "live",
         \A g \in Frames : g # f => target'[g] = target[g],
         \A x \in Futures : holder[x] # f /\ holder[x] # Null => holder'[x] = holder[x],
         \A x \in Futures : \/ cont'[x] = cont[x] /\ cont[x] # f
                            \/ cont'[x] = Null
                            \/ cont'[x] = f /\ target'[f] = x /\ holder'[x] = f /\ step' = "recheck"
  PROVE  StackOK' /\ AwaitOK' /\ ContOK' /\ QueuedOK'
  <1>0. stack # <<>> /\ Last(stack) = f
    BY DEF Executes
  <1>1. \A i \in DOMAIN stack : stack[i] \in Frames
    BY DEF Inv, TypeOK
  <1>2. frame'[Root] = "live" /\ message # "queued"
    BY <1>0, Working, Names
  <1>3. StackOK'
    <2>1. \A g : OnStack(g) => frame'[g] = "live"
      BY <1>1 DEF Inv, StackOK, OnStack
    <2>2. \A i \in DOMAIN stack : i # 1 => holder'[stack[i]] = holder[stack[i]]
      <3> SUFFICES ASSUME NEW i \in DOMAIN stack, i # 1 PROVE holder'[stack[i]] = holder[stack[i]]
        OBVIOUS
      <3>1. /\ i - 1 \in DOMAIN stack /\ i - 1 # Len(stack) /\ Len(stack) \in DOMAIN stack
            /\ stack[Len(stack)] = f
        BY <1>0, Top DEF Inv
      <3>2. holder[stack[i]] = stack[i - 1] /\ stack[i] \in Futures
        BY Names DEF Inv, StackOK
      <3>3. stack[i - 1] # f /\ stack[i - 1] # Null
        <4>1. stack[i - 1] \in Frames
          BY <1>1, <3>1
        <4> QED
          BY <3>1, <4>1, Names DEF Inv, StackOK
      <3> QED
        BY <3>2, <3>3
    <2> QED
      BY <1>2, <2>1, <2>2, StackSame DEF Inv
  <1>4. AwaitOK'
    <2>1. \A g : Executes(g)' => g = f
      BY <1>0 DEF Executes
    <2> QED
      BY <1>0, <2>1 DEF AwaitOK
  <1>5. ContOK'
    <2> SUFFICES ASSUME NEW x \in Futures, NEW g, cont'[x] = g, g # Null
                 PROVE  /\ frame'[g] = "live" /\ target'[g] = x /\ holder'[x] = g
                        /\ OnStack(g)' => Executes(g)' /\ step' = "recheck"
      BY DEF ContOK
    <2>1. CASE g = f /\ target'[f] = x /\ holder'[x] = f /\ step' = "recheck"
      <3>1. frame'[f] = "live"
        <4>1. OnStack(f)
          BY <1>0, Top DEF Inv, OnStack
        <4> QED
          BY <4>1 DEF Inv, StackOK, OnStack
      <3>2. Executes(f)'
        BY <1>0 DEF Executes
      <3> QED
        BY <2>1, <3>1, <3>2
    <2>2. CASE cont[x] = g /\ g # f
      <3>1. /\ frame[g] = "live" /\ target[g] = x /\ holder[x] = g /\ g \in Frames
            /\ OnStack(g) => Executes(g)
        <4>1. g \in Frames
          BY <2>2 DEF Inv, TypeOK
        <4> QED
          BY <1>0, <2>2, <4>1, Working DEF Inv, ContOK
      <3>2. ~OnStack(g)
        BY <2>2, <3>1, <1>0 DEF Executes
      <3>3. ~OnStack(g)'
        BY <3>2 DEF OnStack
      <3> QED
        BY <2>2, <3>1, <3>3
    <2> QED
      BY <2>1, <2>2
  <1>6. QueuedOK'
    BY <1>2 DEF QueuedOK
  <1> QED
    BY <1>3, <1>4, <1>5, <1>6

\* No future is waiting to resume the coroutine the thread is in.
LEMMA NotWaiting ==
  ASSUME Inv, NEW f \in Frames, Executes(f), step # "recheck", NEW x \in Futures
  PROVE  cont[x] # f
  <1>1. stack # <<>> /\ OnStack(f)
    BY Top DEF Executes, OnStack, Inv
  <1>2. f # Null
    BY Names
  <1> QED
    BY <1>1, <1>2, Left

\* A body sends a message: it has one more future.
LEMMA SendThreads ==
  ASSUME Inv, NEW f \in Frames, NEW l \in Leaves, Send(f, l)
  PROVE  Threads'
  <1>1. /\ Executes(f) /\ step = "body" /\ holder[l] = Null /\ l \in Futures /\ l \notin Coroutines
    BY Names DEF Send, InBody
  <1>2. /\ holder' = [holder EXCEPT ![l] = f]
        /\ UNCHANGED <<frame, stack, step, target, settled, cont, awaited, outer, message>>
        /\ UNCHANGED <<method, outcome, transferred, promise, result>>
    BY DEF Send, chainVars, callVars
  <1>3. /\ holder' \in [Futures -> Frames \cup {Null, "released"}]
        /\ \A x \in Futures : x # l => holder'[x] = holder[x]
    BY <1>2 DEF Inv, TypeOK
  <1>4. TypeOK'
    BY <1>2, <1>3 DEF Inv, TypeOK
  <1>5. BornOK'
    BY <1>1, <1>2, <1>3, Names DEF Inv, BornOK
  <1>6. \A x \in Futures : cont[x] # f
    BY <1>1, NotWaiting
  <1>7. StackOK' /\ AwaitOK' /\ ContOK' /\ QueuedOK'
    BY <1>1, <1>2, <1>3, <1>6, Stays
  <1> QED
    BY <1>4, <1>5, <1>7 DEF Threads

\* A future that f holds is released.
LEMMA Released ==
  ASSUME Inv, NEW f \in Frames, NEW x \in Futures, holder[x] = f, Release(x)
  PROVE  /\ frame' \in [Frames -> {"none", "live", "done", "destroyed"}]
         /\ holder' \in [Futures -> Frames \cup {Null, "released"}]
         /\ BornOK'
         /\ holder'[x] = "released"
         /\ \A y \in Futures : y # x => holder'[y] = holder[y]
         /\ \A g \in Frames : frame[g] = "live" <=> frame'[g] = "live"
         /\ \A g \in Frames : frame[g] = "none" <=> frame'[g] = "none"
  <1>1. /\ holder' \in [Futures -> Frames \cup {Null, "released"}] /\ holder'[x] = "released"
        /\ \A y \in Futures : y # x => holder'[y] = holder[y]
    BY DEF Release, Inv, TypeOK
  <1>2. frame' = [g \in Frames |-> IF g = x /\ frame[g] = "done" THEN "destroyed" ELSE frame[g]]
    BY DEF Release, Reclaimed
  <1>3. frame' \in [Frames -> {"none", "live", "done", "destroyed"}]
    BY <1>2 DEF Inv, TypeOK
  <1>4. /\ \A g \in Frames : frame[g] = "live" <=> frame'[g] = "live"
        /\ \A g \in Frames : frame[g] = "none" <=> frame'[g] = "none"
        /\ \A g \in Frames : frame'[g] = "done" => g # x /\ frame[g] = "done"
    BY <1>2
  <1>5. BornOK'
    <2> SUFFICES ASSUME NEW g \in Coroutines
                 PROVE  /\ frame'[g] = "none" <=> holder'[g] = Null
                        /\ frame'[g] = "done" => holder'[g] \in Frames
      BY DEF BornOK
    <2>1. /\ frame[g] = "none" <=> holder[g] = Null
          /\ frame[g] = "done" => holder[g] \in Frames
          /\ g \in Frames /\ g \in Futures
      BY Names DEF Inv, BornOK
    <2>2. CASE g = x
      BY <1>1, <1>4, <2>1, <2>2, Names
    <2>3. CASE g # x
      BY <1>1, <1>4, <2>1, <2>3
    <2> QED
      BY <2>2, <2>3
  <1> QED
    BY <1>1, <1>3, <1>4, <1>5

\* A body drops a future.
LEMMA DropFutureThreads ==
  ASSUME Inv, NEW f \in Frames, NEW x \in Futures, DropFuture(f, x)
  PROVE  Threads'
  <1>1. Executes(f) /\ step = "body" /\ holder[x] = f /\ Release(x)
    BY DEF DropFuture, InBody
  <1>2. /\ UNCHANGED <<stack, step, target, settled, cont, awaited, outer, message>>
        /\ UNCHANGED <<method, outcome, transferred, promise, result>>
    BY DEF DropFuture, chainVars, callVars
  <1>3. /\ frame' \in [Frames -> {"none", "live", "done", "destroyed"}]
        /\ holder' \in [Futures -> Frames \cup {Null, "released"}]
        /\ BornOK'
        /\ \A y \in Futures : y # x => holder'[y] = holder[y]
        /\ \A g \in Frames : frame[g] = "live" <=> frame'[g] = "live"
    BY <1>1, Released
  <1>4. TypeOK'
    BY <1>2, <1>3 DEF Inv, TypeOK
  <1>5. \A y \in Futures : cont[y] # f
    BY <1>1, NotWaiting
  <1>6. StackOK' /\ AwaitOK' /\ ContOK' /\ QueuedOK'
    BY <1>1, <1>2, <1>3, <1>5, Stays
  <1> QED
    BY <1>3, <1>4, <1>6 DEF Threads

\* dispatch() settles the caller: no coroutine moves.
LEMMA SettleResultThreads ==
  ASSUME Inv, SettleResult
  PROVE  Threads'
  <1>1. /\ Executes(Dispatch) /\ step = "body" /\ result' = outcome[method]
        /\ UNCHANGED <<frame, stack, step, target, holder, settled, cont, awaited, outer, method,
                       outcome, message, transferred>>
    BY DEF SettleResult, InBody, chainVars
  <1>2. promise' \in BOOLEAN /\ transferred' \in BOOLEAN
    BY Zenon DEF SettleResult, Inv, TypeOK
  <1>0. method \in Methods /\ outcome[method] # "none"
    BY Names DEF SettleResult, Inv, MethodOK, Coroutines
  <1>3. result' \in Outcomes \cup {"pending", "cancelled"}
    BY <1>0, <1>1 DEF Inv, TypeOK
  <1>4. TypeOK'
    BY <1>1, <1>2, <1>3 DEF Inv, TypeOK
  <1>5. Dispatch \in Frames /\ \A x \in Futures : cont[x] # Dispatch
    BY <1>1, NotWaiting, Names DEF Coroutines
  <1>6. StackOK' /\ AwaitOK' /\ ContOK' /\ QueuedOK'
    BY <1>1, <1>5, Stays
  <1>7. BornOK'
    BY <1>1 DEF Inv, BornOK
  <1> QED
    BY <1>4, <1>6, <1>7 DEF Threads

-----------------------------------------------------------------------------
(* A co_await.                                                             *)

\* What the promises above f are told is a future or nothing.
LEMMA PropagatedType ==
  ASSUME TypeOK, NEW f, NEW x \in Futures \cup {Null}
  PROVE  Propagated(f, x) \in [Frames -> Futures \cup {Null}]
  BY DEF TypeOK, Propagated

\* await_transform(): f takes the future into its co_await.
LEMMA AwaitThreads ==
  ASSUME Inv, NEW f \in Frames, NEW x \in Futures, Await(f, x)
  PROVE  Threads'
  <1>1. /\ Executes(f) /\ step = "body" /\ holder[x] = f
        /\ target' = [target EXCEPT ![f] = x] /\ step' = "ready"
        /\ UNCHANGED <<frame, stack, holder, settled, cont, message>>
        /\ UNCHANGED <<method, outcome, transferred, promise, result>>
    BY DEF Await, InBody, callVars
  <1>2. Deepest(x) \in Futures \cup {Null}
    BY DEF Deepest, Inv, TypeOK
  <1>3. awaited' = Propagated(f, Null) \/ awaited' = Propagated(f, Deepest(x))
    BY DEF Await
  <1>4. awaited' \in [Frames -> Futures \cup {Null}]
    BY <1>2, <1>3, PropagatedType DEF Inv
  <1>5. outer' = outer \/ outer' = [g \in Frames |-> IF g = x THEN f ELSE outer[g]]
    BY DEF Await
  <1>6. outer' \in [Frames -> Frames \cup {Null}]
    <2>1. outer \in [Frames -> Frames \cup {Null}]
      BY DEF Inv, TypeOK
    <2> QED
      BY <1>5, <2>1
  <1>7. /\ target' \in [Frames -> Futures \cup {Null}] /\ target'[f] = x
        /\ \A g \in Frames : g # f => target'[g] = target[g]
    BY <1>1 DEF Inv, TypeOK
  <1>8. TypeOK'
    BY <1>1, <1>4, <1>6, <1>7 DEF Inv, TypeOK
  <1>9. \A y \in Futures : cont[y] # f
    BY <1>1, NotWaiting
  <1>10. StackOK' /\ AwaitOK' /\ ContOK' /\ QueuedOK'
    BY <1>1, <1>7, <1>9, Stays
  <1>11. BornOK'
    BY <1>1 DEF Inv, BornOK
  <1> QED
    BY <1>8, <1>10, <1>11 DEF Threads

\* Inside a co_await, f has the future it awaits.
LEMMA Awaiting ==
  ASSUME Inv, NEW f \in Frames, Executes(f), step # "body"
  PROVE  target[f] \in Futures /\ holder[target[f]] = f
  BY DEF Inv, AwaitOK

\* await_ready().
LEMMA AwaitReadyThreads ==
  ASSUME Inv, NEW f \in Frames, AwaitReady(f)
  PROVE  Threads'
  <1>1. /\ Executes(f) /\ step = "ready" /\ step' \in {"resume", "register"}
        /\ UNCHANGED <<frame, stack, target, holder, settled, cont, awaited, outer, message>>
        /\ UNCHANGED <<method, outcome, transferred, promise, result>>
    BY DEF AwaitReady, chainVars, callVars
  <1>2. TypeOK'
    BY <1>1 DEF Inv, TypeOK
  <1>3. target[f] \in Futures /\ holder[target[f]] = f
    BY <1>1, Awaiting
  <1>4. \A y \in Futures : cont[y] # f
    BY <1>1, NotWaiting
  <1>5. StackOK' /\ AwaitOK' /\ ContOK' /\ QueuedOK'
    BY <1>1, <1>3, <1>4, Stays
  <1>6. BornOK'
    BY <1>1 DEF Inv, BornOK
  <1> QED
    BY <1>2, <1>5, <1>6 DEF Threads

\* The continuation is registered.
LEMMA RegisterThreads ==
  ASSUME Inv, NEW f \in Frames, Register(f)
  PROVE  Threads'
  <1>1. /\ Executes(f) /\ step = "register" /\ step' = "recheck"
        /\ cont' = [cont EXCEPT ![target[f]] = f]
        /\ UNCHANGED <<frame, stack, target, holder, settled, awaited, outer, message>>
        /\ UNCHANGED <<method, outcome, transferred, promise, result>>
    BY DEF Register, callVars
  <1>2. target[f] \in Futures /\ holder[target[f]] = f
    BY <1>1, Awaiting
  <1>3. /\ cont' \in [Futures -> Frames \cup {Null}] /\ cont'[target[f]] = f
        /\ \A y \in Futures : y # target[f] => cont'[y] = cont[y]
    BY <1>1, <1>2 DEF Inv, TypeOK
  <1>4. TypeOK'
    BY <1>1, <1>3 DEF Inv, TypeOK
  <1>5. \A y \in Futures : cont[y] # f
    BY <1>1, NotWaiting
  <1>6. StackOK' /\ AwaitOK' /\ ContOK' /\ QueuedOK'
    BY <1>1, <1>2, <1>3, <1>5, Stays
  <1>7. BornOK'
    BY <1>1 DEF Inv, BornOK
  <1> QED
    BY <1>4, <1>6, <1>7 DEF Threads

\* await_resume(): the future is released.
LEMMA AwaitResumeThreads ==
  ASSUME Inv, NEW f \in Frames, AwaitResume(f)
  PROVE  Threads'
  <1>1. /\ Executes(f) /\ step = "resume" /\ Release(target[f]) /\ awaited' = Propagated(f, Null)
        /\ target' = [target EXCEPT ![f] = Null] /\ step' = "body"
        /\ UNCHANGED <<stack, settled, cont, outer, message>>
        /\ UNCHANGED <<method, outcome, transferred, promise, result>>
    BY DEF AwaitResume, callVars
  <1>2. target[f] \in Futures /\ holder[target[f]] = f
    BY <1>1, Awaiting
  <1>3. /\ frame' \in [Frames -> {"none", "live", "done", "destroyed"}]
        /\ holder' \in [Futures -> Frames \cup {Null, "released"}]
        /\ BornOK'
        /\ \A y \in Futures : y # target[f] => holder'[y] = holder[y]
        /\ \A g \in Frames : frame[g] = "live" <=> frame'[g] = "live"
    BY <1>1, <1>2, Released
  <1>4. /\ target' \in [Frames -> Futures \cup {Null}]
        /\ \A g \in Frames : g # f => target'[g] = target[g]
    BY <1>1 DEF Inv, TypeOK
  <1>5. awaited' \in [Frames -> Futures \cup {Null}]
    BY <1>1, PropagatedType DEF Inv
  <1>6. TypeOK'
    BY <1>1, <1>3, <1>4, <1>5 DEF Inv, TypeOK
  <1>7. \A y \in Futures : cont[y] # f
    BY <1>1, NotWaiting
  <1>8. StackOK' /\ AwaitOK' /\ ContOK' /\ QueuedOK'
    BY <1>1, <1>2, <1>3, <1>4, <1>7, Stays
  <1> QED
    BY <1>3, <1>6, <1>8 DEF Threads

-----------------------------------------------------------------------------
(* The thread leaves a coroutine, for its caller or for a continuation.    *)

\* The thread goes back to who called f.
LEMMA Popped ==
  ASSUME Inv, NEW f \in Frames, Executes(f), stack' = Front(stack), holder' = holder,
         \A g \in Frames : g # f => frame'[g] = frame[g]
  PROVE  /\ StackOK' /\ stack' \in Seq(Frames)
         /\ \A g : OnStack(g)' => OnStack(g) /\ g # f
  <1>1. stack # <<>> /\ Last(stack) = f
    BY DEF Executes
  <1>2. /\ Len(stack) \in DOMAIN stack /\ stack[Len(stack)] = f
        /\ stack' \in Seq(Frames) /\ DOMAIN stack' = DOMAIN stack \ {Len(stack)}
        /\ \A i \in DOMAIN stack' : stack'[i] = stack[i]
        /\ \A i \in DOMAIN stack : i # 1 => i - 1 \in DOMAIN stack /\ i - 1 # Len(stack)
        /\ Len(stack) = 1 => stack' = <<>>
    BY <1>1, Top DEF Inv
  <1>3. \A i \in DOMAIN stack' : stack'[i] # f /\ stack'[i] \in Frames
    <2>1. \A i \in DOMAIN stack : stack[i] \in Frames
      BY DEF Inv, TypeOK
    <2> QED
      BY <1>2, <2>1 DEF Inv, StackOK
  <1>4. \A g : OnStack(g)' => OnStack(g) /\ g # f
    BY <1>2, <1>3 DEF OnStack
  <1>5. stack' # <<>> => frame'[Root] = "live"
    <2>1. f = Root => stack' = <<>>
      BY <1>2, RootBelow
    <2> QED
      BY <1>1, <2>1, Working, Names
  <1>6. \A i \in DOMAIN stack' : frame'[stack'[i]] = "live"
    BY <1>2, <1>3 DEF Inv, StackOK
  <1>7. \A i, j \in DOMAIN stack' : stack'[i] = stack'[j] => i = j
    BY <1>2 DEF Inv, StackOK
  <1>8. \A i \in DOMAIN stack' : i # 1 => stack'[i] \in Coroutines /\ holder'[stack'[i]] = stack'[i - 1]
    <2> SUFFICES ASSUME NEW i \in DOMAIN stack', i # 1
                 PROVE  stack'[i] \in Coroutines /\ holder[stack'[i]] = stack'[i - 1]
      OBVIOUS
    <2>1. i \in DOMAIN stack /\ i - 1 \in DOMAIN stack'
      BY <1>2
    <2>2. stack'[i] = stack[i] /\ stack'[i - 1] = stack[i - 1]
      BY <1>2, <2>1
    <2>3. stack[i] \in Coroutines /\ holder[stack[i]] = stack[i - 1]
      BY <2>1 DEF Inv, StackOK
    <2> QED
      BY <2>2, <2>3
  <1>9. StackOK'
    BY <1>5, <1>6, <1>7, <1>8 DEF StackOK
  <1> QED
    BY <1>2, <1>4, <1>9

\* Looking again after the registration: f goes on, or the thread leaves it.
LEMMA RecheckThreads ==
  ASSUME Inv, NEW f \in Frames, Recheck(f)
  PROVE  Threads'
  <1>1. /\ Executes(f) /\ step = "recheck"
        /\ UNCHANGED <<frame, target, holder, settled, awaited, outer, message>>
        /\ UNCHANGED <<method, outcome, transferred, promise, result>>
    BY DEF Recheck, Unregistered, callVars
  <1>2. target[f] \in Futures /\ holder[target[f]] = f
    BY <1>1, Awaiting
  <1>3. BornOK'
    BY <1>1 DEF Inv, BornOK
  <1>4. CASE cont' = [cont EXCEPT ![target[f]] = Null] /\ step' = "resume" /\ stack' = stack
    <2>1. /\ cont' \in [Futures -> Frames \cup {Null}] /\ cont'[target[f]] = Null
          /\ \A y \in Futures : y # target[f] => cont'[y] = cont[y]
      BY <1>2, <1>4 DEF Inv, TypeOK
    <2>2. TypeOK'
      BY <1>1, <1>4, <2>1 DEF Inv, TypeOK
    <2>3. \A y \in Futures : cont[y] = f => y = target[f]
      BY <1>1, Working, Names DEF Inv, ContOK, Executes
    <2>4. StackOK' /\ AwaitOK' /\ ContOK' /\ QueuedOK'
      BY <1>1, <1>2, <1>4, <2>1, <2>3, Stays
    <2> QED
      BY <1>3, <2>2, <2>4 DEF Threads
  <1>5. CASE stack' = Front(stack) /\ step' = "body" /\ cont' = cont
    <2>1. /\ StackOK' /\ stack' \in Seq(Frames)
          /\ \A g : OnStack(g)' => OnStack(g) /\ g # f
      BY <1>1, <1>5, Popped
    <2>2. TypeOK'
      BY <1>1, <1>5, <2>1 DEF Inv, TypeOK
    <2>3. frame[Root] = "live" /\ message # "queued"
      BY <1>1, Working DEF Executes
    <2>4. AwaitOK' /\ QueuedOK'
      BY <1>1, <1>5, <2>3 DEF AwaitOK, QueuedOK
    <2>5. ContOK'
      <3> SUFFICES ASSUME NEW x \in Futures, NEW g, cont[x] = g, g # Null
                   PROVE  /\ frame[g] = "live" /\ target[g] = x /\ holder[x] = g
                          /\ ~OnStack(g)'
        BY <1>1, <1>5 DEF ContOK
      <3>1. /\ frame[g] = "live" /\ target[g] = x /\ holder[x] = g
            /\ OnStack(g) => Executes(g)
        BY <2>3 DEF Inv, ContOK
      <3>2. Executes(g) => g = f
        BY <1>1 DEF Executes
      <3> QED
        BY <2>1, <3>1, <3>2
    <2> QED
      BY <1>3, <2>1, <2>2, <2>4, <2>5 DEF Threads
  <1> QED
    BY <1>4, <1>5 DEF Recheck, Unregistered

\* The thread goes to the continuation g of x, from an empty stack.
LEMMA Resumed ==
  ASSUME Inv, frame[Root] = "live", NEW x \in Futures, NEW g \in Frames, cont[x] = g,
         stack' = <<g>>, step' = "resume", target' = target, holder' = holder, message' # "queued",
         cont' = [cont EXCEPT ![x] = Null], frame'[Root] = frame[Root],
         \A y \in Futures : cont[y] # Null => frame'[cont[y]] = frame[cont[y]]
  PROVE  /\ StackOK' /\ AwaitOK' /\ ContOK' /\ QueuedOK'
         /\ stack' \in Seq(Frames) /\ cont' \in [Futures -> Frames \cup {Null}]
  <1>1. g # Null
    BY Names
  <1>2. frame[g] = "live" /\ target[g] = x /\ holder[x] = g /\ frame'[g] = "live"
    BY <1>1 DEF Inv, ContOK
  <1>3. stack' \in Seq(Frames) /\ stack' # <<>> /\ DOMAIN stack' = {1} /\ stack'[1] = g /\ Last(stack') = g
    BY DEF Last
  <1>4. /\ cont' \in [Futures -> Frames \cup {Null}] /\ cont'[x] = Null
        /\ \A y \in Futures : y # x => cont'[y] = cont[y]
    BY DEF Inv, TypeOK
  <1>5. StackOK'
    BY <1>2, <1>3 DEF StackOK
  <1>6. AwaitOK'
    <2>1. \A h : Executes(h)' => h = g
      BY <1>3 DEF Executes
    <2> QED
      BY <1>2, <1>3, <2>1 DEF AwaitOK
  <1>7. ContOK'
    <2> SUFFICES ASSUME NEW y \in Futures, NEW h, cont'[y] = h, h # Null
                 PROVE  /\ frame'[h] = "live" /\ target[h] = y /\ holder[y] = h
                        /\ ~OnStack(h)'
      BY DEF ContOK
    <2>1. y # x /\ cont[y] = h
      BY <1>4
    <2>2. frame[h] = "live" /\ target[h] = y /\ holder[y] = h /\ frame'[h] = "live"
      BY <2>1 DEF Inv, ContOK
    <2>3. h # g
      BY <1>2, <2>1, <2>2
    <2>4. ~OnStack(h)'
      BY <1>3, <2>3 DEF OnStack
    <2> QED
      BY <2>2, <2>4
  <1>8. QueuedOK'
    BY DEF QueuedOK
  <1> QED
    BY <1>3, <1>4, <1>5, <1>6, <1>7, <1>8

\* The end of a coroutine: its caller goes on, or its continuation.
LEMMA FinalSuspendThreads ==
  ASSUME Inv, NEW f \in Coroutines, InBody(f), FinalSuspend(f), message' = message
  PROVE  /\ BornOK' /\ StackOK' /\ AwaitOK' /\ ContOK' /\ QueuedOK'
         /\ frame' \in [Frames -> {"none", "live", "done", "destroyed"}]
         /\ stack' \in Seq(Frames) /\ step' \in {"body", "resume"}
         /\ settled' \in [Futures -> {"pending", "set", "released"}] /\ settled'[f] = "released"
         /\ \A x \in Futures : x # f => settled'[x] = settled[x]
         /\ cont' \in [Futures -> Frames \cup {Null}]
         /\ step' = "resume" => \A g : Executes(g)' => target'[g] = f
  <1>1. /\ Executes(f) /\ step = "body" /\ stack # <<>> /\ Last(stack) = f
        /\ f \in Frames /\ f \in Futures /\ f # Root /\ Root \in Frames
    BY Names DEF InBody, Executes
  <1>2. /\ cont' = [cont EXCEPT ![f] = Null] /\ settled' = [settled EXCEPT ![f] = "released"]
        /\ UNCHANGED <<target, holder, awaited, outer>>
    BY DEF FinalSuspend, Unregistered
  <1>3. frame[Root] = "live" /\ message # "queued" /\ frame[f] = "live"
    <2>1. OnStack(f)
      BY <1>1, Top DEF Inv, OnStack
    <2> QED
      BY <1>1, <2>1, Working DEF Inv, StackOK, OnStack
  <1>4. /\ cont' \in [Futures -> Frames \cup {Null}] /\ cont'[f] = Null
        /\ \A x \in Futures : x # f => cont'[x] = cont[x]
        /\ settled' \in [Futures -> {"pending", "set", "released"}] /\ settled'[f] = "released"
        /\ \A x \in Futures : x # f => settled'[x] = settled[x]
    BY <1>1, <1>2 DEF Inv, TypeOK
  <1>5. frame' = [frame EXCEPT ![f] = IF holder[f] = "released" THEN "destroyed" ELSE "done"]
    BY DEF FinalSuspend, Unregistered
  <1>6. /\ frame' \in [Frames -> {"none", "live", "done", "destroyed"}]
        /\ frame'[f] = IF holder[f] = "released" THEN "destroyed" ELSE "done"
        /\ \A g \in Frames : g # f => frame'[g] = frame[g]
    BY <1>1, <1>5 DEF Inv, TypeOK
  <1>7. holder[f] \in Frames \cup {"released"}
    BY <1>1, <1>3 DEF Inv, TypeOK, BornOK
  <1>8. BornOK'
    <2> SUFFICES ASSUME NEW g \in Coroutines
                 PROVE  /\ frame'[g] = "none" <=> holder[g] = Null
                        /\ frame'[g] = "done" => holder[g] \in Frames
      BY <1>2 DEF BornOK
    <2>1. /\ frame[g] = "none" <=> holder[g] = Null
          /\ frame[g] = "done" => holder[g] \in Frames
      BY DEF Inv, BornOK
    <2>2. CASE g = f
      BY <1>6, <1>7, <2>2, Names
    <2>3. CASE g # f
      <3>1. frame'[g] = frame[g]
        BY <1>6, <2>3, Names
      <3> QED
        BY <2>1, <3>1
    <2> QED
      BY <2>2, <2>3
  <1>9. \A x \in Futures : cont[x] # f
    BY <1>1, NotWaiting
  <1>10. CASE stack' = Front(stack) /\ step' = "body"
    <2>1. /\ StackOK' /\ stack' \in Seq(Frames)
          /\ \A g : OnStack(g)' => OnStack(g) /\ g # f
      BY <1>1, <1>2, <1>6, <1>10, Popped
    <2>2. AwaitOK' /\ QueuedOK'
      BY <1>1, <1>3, <1>6, <1>10 DEF AwaitOK, QueuedOK
    <2>3. ContOK'
      <3> SUFFICES ASSUME NEW x \in Futures, NEW g, cont'[x] = g, g # Null
                   PROVE  /\ frame'[g] = "live" /\ target[g] = x /\ holder[x] = g
                          /\ ~OnStack(g)'
        BY <1>2 DEF ContOK
      <3>1. cont[x] = g /\ g # f
        BY <1>4, <1>9
      <3>2. g \in Frames
        BY <3>1 DEF Inv, TypeOK
      <3>3. frame[g] = "live" /\ target[g] = x /\ holder[x] = g /\ ~OnStack(g)
        BY <1>1, <1>3, <3>1, Left DEF Inv, ContOK
      <3> QED
        BY <1>6, <2>1, <3>1, <3>2, <3>3
    <2> QED
      BY <1>4, <1>6, <1>8, <1>10, <2>1, <2>2, <2>3
  <1>11. CASE cont[f] # Null /\ stack' = Append(Front(stack), cont[f]) /\ step' = "resume"
    <2> DEFINE g == cont[f]
    <2>1. g \in Frames /\ g # Null
      BY <1>1, <1>11 DEF Inv, TypeOK
    <2>2. Front(stack) = <<>>
      BY <1>1, <1>11, Below, Top DEF Inv
    <2>3. stack' = <<g>>
      BY <1>11, <2>1, <2>2
    <2>4. \A y \in Futures : cont[y] # Null => frame'[cont[y]] = frame[cont[y]]
      <3> SUFFICES ASSUME NEW y \in Futures, cont[y] # Null PROVE frame'[cont[y]] = frame[cont[y]]
        OBVIOUS
      <3>1. cont[y] \in Frames
        BY DEF Inv, TypeOK
      <3> QED
        BY <1>6, <1>9, <3>1
    <2>5. /\ frame'[Root] = frame[Root] /\ message' # "queued" /\ target' = target /\ holder' = holder
          /\ step' = "resume" /\ cont' = [cont EXCEPT ![f] = Null]
      BY <1>1, <1>2, <1>3, <1>6, <1>11
    <2>6. cont[f] = g
      OBVIOUS
    <2>7. target[g] = f
      BY <1>1, <1>3, <2>1 DEF Inv, ContOK
    <2> HIDE DEF g
    <2>8. /\ StackOK' /\ AwaitOK' /\ ContOK' /\ QueuedOK' /\ stack' \in Seq(Frames)
      BY <1>1, <1>3, <2>1, <2>3, <2>4, <2>5, <2>6, Resumed
    <2>9. \A h : Executes(h)' => target'[h] = f
      BY <2>3, <2>5, <2>7 DEF Executes, Last
    <2> QED
      BY <1>4, <1>6, <1>8, <1>11, <2>8, <2>9
  <1>12. \/ stack' = Front(stack) /\ step' = "body"
         \/ cont[f] # Null /\ stack' = Append(Front(stack), cont[f]) /\ step' = "resume"
    BY DEF FinalSuspend, Unregistered, TransferTo
  <1> QED
    BY <1>10, <1>11, <1>12

\* A method ends.
LEMMA MethodEndsThreads ==
  ASSUME Inv, NEW m \in Methods, MethodEnds(m)
  PROVE  Threads'
  <1>1. /\ m \in Coroutines /\ InBody(m) /\ FinalSuspend(m)
        /\ UNCHANGED <<method, message, transferred, promise, result>>
        /\ UNCHANGED <<target, holder, awaited, outer>>
    BY DEF MethodEnds, FinalSuspend, Unregistered, Coroutines
  <1>2. PICK o \in Outcomes : outcome' = [outcome EXCEPT ![m] = o]
    BY DEF MethodEnds
  <1>3. outcome' \in [Methods -> Outcomes \cup {"none"}]
    BY <1>2 DEF Inv, TypeOK
  <1>4. /\ BornOK' /\ StackOK' /\ AwaitOK' /\ ContOK' /\ QueuedOK'
        /\ frame' \in [Frames -> {"none", "live", "done", "destroyed"}]
        /\ stack' \in Seq(Frames) /\ step' \in {"body", "resume"}
        /\ settled' \in [Futures -> {"pending", "set", "released"}]
        /\ cont' \in [Futures -> Frames \cup {Null}]
    BY <1>1, FinalSuspendThreads
  <1>5. TypeOK'
    BY <1>1, <1>3, <1>4 DEF Inv, TypeOK
  <1> QED
    BY <1>4, <1>5 DEF Threads

\* dispatch() ends.
LEMMA DispatchEndsThreads ==
  ASSUME Inv, DispatchEnds
  PROVE  Threads'
  <1>1. /\ Dispatch \in Coroutines /\ InBody(Dispatch) /\ FinalSuspend(Dispatch)
        /\ UNCHANGED <<method, message, outcome, transferred, promise, result>>
        /\ UNCHANGED <<target, holder, awaited, outer>>
    BY DEF DispatchEnds, FinalSuspend, Unregistered, Coroutines, callVars
  <1>2. /\ BornOK' /\ StackOK' /\ AwaitOK' /\ ContOK' /\ QueuedOK'
        /\ frame' \in [Frames -> {"none", "live", "done", "destroyed"}]
        /\ stack' \in Seq(Frames) /\ step' \in {"body", "resume"}
        /\ settled' \in [Futures -> {"pending", "set", "released"}]
        /\ cont' \in [Futures -> Frames \cup {Null}]
    BY <1>1, FinalSuspendThreads
  <1>3. TypeOK'
    BY <1>1, <1>2 DEF Inv, TypeOK
  <1> QED
    BY <1>2, <1>3 DEF Threads

\* behavior() ends, and the thread is nowhere.
LEMMA BehaviorEndsThreads ==
  ASSUME Inv, BehaviorEnds
  PROVE  Threads'
  <1>1. /\ Executes(Root) /\ step = "body" /\ frame' = [frame EXCEPT ![Root] = "done"]
        /\ stack' = Front(stack) /\ stack # <<>> /\ Last(stack) = Root
        /\ UNCHANGED <<step, target, holder, settled, cont, awaited, outer, message>>
        /\ UNCHANGED <<method, outcome, transferred, promise, result>>
    BY DEF BehaviorEnds, InBody, Executes, chainVars, callVars
  <1>2. /\ frame' \in [Frames -> {"none", "live", "done", "destroyed"}] /\ frame'[Root] = "done"
        /\ \A g \in Frames : g # Root => frame'[g] = frame[g]
    BY <1>1, Names DEF Inv, TypeOK
  <1>3. stack' = <<>> /\ message # "queued" /\ stack' \in Seq(Frames)
    BY <1>1, RootBelow, Top, Working DEF Inv
  <1>4. TypeOK'
    BY <1>1, <1>2, <1>3 DEF Inv, TypeOK
  <1>5. BornOK'
    BY <1>1, <1>2, Names DEF Inv, BornOK
  <1>6. StackOK' /\ AwaitOK' /\ ContOK' /\ QueuedOK'
    BY <1>1, <1>2, <1>3 DEF StackOK, AwaitOK, ContOK, QueuedOK
  <1> QED
    BY <1>4, <1>5, <1>6 DEF Threads

-----------------------------------------------------------------------------
(* Around the coroutines.                                                  *)

\* message_guard goes.
LEMMA MessageGuardEndsThreads ==
  ASSUME Inv, MessageGuardEnds
  PROVE  Threads'
  <1>1. /\ message' = "gone"
        /\ UNCHANGED <<frame, stack, step, target, holder, settled, cont, awaited, outer>>
        /\ UNCHANGED <<method, outcome, transferred, promise>>
    BY DEF MessageGuardEnds, chainVars
  <1>2. result' \in Outcomes \cup {"pending", "cancelled"}
    BY DEF MessageGuardEnds, ResultAtMessageEnd, Inv, TypeOK
  <1>3. TypeOK'
    BY <1>1, <1>2 DEF Inv, TypeOK
  <1>4. BornOK' /\ StackOK' /\ AwaitOK'
    BY <1>1 DEF Inv, BornOK, StackOK, AwaitOK, Executes
  <1>5. ContOK'
    BY <1>1 DEF Inv, ContOK, OnStack, Executes
  <1>6. QueuedOK'
    BY <1>1 DEF Inv, QueuedOK
  <1> QED
    BY <1>3, <1>4, <1>5, <1>6 DEF Threads

\* The drain resumes the coroutine that awaits the leaf.
LEMMA DrainThreads ==
  ASSUME Inv, Drain
  PROVE  Threads'
  <1> DEFINE x == awaited[Root]
             g == cont[x]
  <1>1. /\ message = "gone" /\ frame[Root] = "live" /\ x # Null /\ g # Null /\ settled[x] = "released"
        /\ stack' = <<g>> /\ step' = "resume" /\ cont' = [cont EXCEPT ![x] = Null]
        /\ UNCHANGED <<frame, target, holder, settled, awaited, outer, message>>
        /\ UNCHANGED <<method, outcome, transferred, promise, result>>
    BY DEF Drain, Unregistered, IsReady, callVars
  <1>2. x \in Futures
    BY <1>1, Names DEF Inv, TypeOK
  <1>3. g \in Frames /\ cont[x] = g
    BY <1>1, <1>2 DEF Inv, TypeOK
  <1> HIDE DEF x, g
  <1>4. message' # "queued" /\ frame' = frame /\ target' = target /\ holder' = holder
    BY <1>1
  <1>5. /\ StackOK' /\ AwaitOK' /\ ContOK' /\ QueuedOK'
        /\ stack' \in Seq(Frames) /\ cont' \in [Futures -> Frames \cup {Null}]
    BY <1>1, <1>2, <1>3, <1>4, Resumed
  <1>6. TypeOK'
    BY <1>1, <1>5 DEF Inv, TypeOK
  <1>7. BornOK'
    BY <1>1 DEF Inv, BornOK
  <1> QED
    BY <1>5, <1>6, <1>7 DEF Threads

\* The actor is destroyed.
LEMMA DestroyActorThreads ==
  ASSUME Inv, DestroyActor
  PROVE  Threads'
  <1>1. /\ stack = <<>> /\ message' = "gone"
        /\ UNCHANGED <<stack, step, target, settled, cont, awaited, outer>>
        /\ UNCHANGED <<method, outcome, transferred, promise>>
    BY DEF DestroyActor, chainVars
  <1>2. holder' = [x \in Futures |-> IF holder[x] = Root THEN "released" ELSE holder[x]]
    BY DEF DestroyActor
  <1>3. frame' = [f \in Frames |->
                    IF \/ f = Root
                       \/ f \in Futures /\ holder[f] = Root /\ frame[f] = "done"
                      THEN "destroyed" ELSE frame[f]]
    BY DEF DestroyActor
  <1>4. result' \in Outcomes \cup {"pending", "cancelled"}
    BY DEF DestroyActor, ResultAtMessageEnd, Inv, TypeOK
  <1>5. /\ holder' \in [Futures -> Frames \cup {Null, "released"}]
        /\ frame' \in [Frames -> {"none", "live", "done", "destroyed"}]
        /\ frame'[Root] = "destroyed"
    BY <1>2, <1>3, Names DEF Inv, TypeOK
  <1>6. TypeOK'
    BY <1>1, <1>4, <1>5 DEF Inv, TypeOK
  <1>7. BornOK'
    <2> SUFFICES ASSUME NEW f \in Coroutines
                 PROVE  /\ frame'[f] = "none" <=> holder'[f] = Null
                        /\ frame'[f] = "done" => holder'[f] \in Frames
      BY DEF BornOK
    <2>1. f \in Frames /\ f \in Futures /\ f # Root /\ "released" # Null /\ Root # Null
      BY Names
    <2>2. /\ frame[f] = "none" <=> holder[f] = Null
          /\ frame[f] = "done" => holder[f] \in Frames
      BY DEF Inv, BornOK
    <2> QED
      BY <1>2, <1>3, <2>1, <2>2
  <1>8. StackOK' /\ AwaitOK' /\ ContOK' /\ QueuedOK'
    <2>1. step = "body"
      BY <1>1 DEF Inv, AwaitOK
    <2> QED
      BY <1>1, <1>5, <2>1 DEF StackOK, AwaitOK, ContOK, QueuedOK
  <1> QED
    BY <1>6, <1>7, <1>8 DEF Threads

\* A leaf is settled elsewhere.
LEMMA LeafThreads ==
  ASSUME Inv, NEW l \in Leaves, Leaf(l)
  PROVE  Threads' /\ MethodOK' /\ ResultOK'
  <1>1. /\ UNCHANGED <<frame, stack, step, target, holder, cont, awaited, outer, message>>
        /\ UNCHANGED <<method, outcome, transferred, promise, result>>
    BY DEF Leaf, SetLeaf, ReleaseLeaf, callVars
  <1>2. PICK v \in {"set", "released"} : settled' = [settled EXCEPT ![l] = v]
    BY DEF Leaf, SetLeaf, ReleaseLeaf
  <1>3. /\ settled' \in [Futures -> {"pending", "set", "released"}]
        /\ \A x \in Futures : x # l => settled'[x] = settled[x]
        /\ settled'[l] = v
    BY <1>2, Names DEF Inv, TypeOK
  <1>4. TypeOK'
    BY <1>1, <1>3 DEF Inv, TypeOK
  <1>5. BornOK' /\ StackOK' /\ AwaitOK'
    BY <1>1 DEF Inv, BornOK, StackOK, AwaitOK, Executes
  <1>6. ContOK'
    BY <1>1 DEF Inv, ContOK, OnStack, Executes
  <1>7. QueuedOK' /\ ResultOK'
    BY <1>1 DEF Inv, QueuedOK, ResultOK
  <1>8. MethodOK'
    <2>1. \A m \in Methods : settled'[m] = settled[m]
      <3>1. \A m \in Methods : m \in Futures /\ m # l
        BY Names DEF Coroutines, Frames
      <3> QED
        BY <1>3, <3>1
    <2>2. \A x \in Futures : settled[x] # "pending" => settled'[x] # "pending"
      BY <1>3
    <2>3. step = "resume" => \A f \in Frames : Executes(f)' => settled'[target[f]] # "pending"
      <3> SUFFICES ASSUME step = "resume", NEW f \in Frames, Executes(f)'
                   PROVE  settled'[target[f]] # "pending"
        OBVIOUS
      <3>1. Executes(f)
        BY <1>1 DEF Executes
      <3>2. target[f] \in Futures /\ settled[target[f]] # "pending"
        BY <3>1, Awaiting DEF Inv, MethodOK
      <3> QED
        BY <2>2, <3>2
    <2> QED
      BY <1>1, <2>1, <2>3 DEF Inv, MethodOK
  <1> QED
    BY <1>4, <1>5, <1>6, <1>7, <1>8 DEF Threads

-----------------------------------------------------------------------------
(* Who settles the caller, and with what.                                  *)

\* The thread goes on without touching the message or the result.
LEMMA QuietResult ==
  ASSUME Inv, UNCHANGED <<message, transferred, promise, result>>,
         frame'[Dispatch] = "none" => frame[Dispatch] = "none"
  PROVE  ResultOK'
  BY DEF Inv, ResultOK

\* No method ends, dispatch() keeps its method's future, and no co_await is over.
LEMMA QuietMethod ==
  ASSUME Inv, UNCHANGED <<promise, method, outcome, settled>>, step' # "resume",
         promise /\ method \in Methods => holder'[method] = holder[method]
  PROVE  MethodOK'
  BY DEF Inv, MethodOK

\* A step of a body, and of a co_await.
LEMMA BodyBooks ==
  ASSUME Inv, NEW f \in Frames, Body(f)
  PROVE  ResultOK' /\ MethodOK'
  <1>0. UNCHANGED <<message, transferred, promise, result, method, outcome, settled>>
    BY DEF Body, CallMethod, Send, DropFuture, Await, AwaitReady, Register, Recheck, Unregistered, AwaitResume,
           callVars, chainVars
  <1>1. Dispatch \in Coroutines /\ Dispatch \in Frames /\ \A m \in Methods : m \in Coroutines /\ m \in Futures
    BY Names DEF Coroutines
  <1>2. ASSUME NEW m \in Methods, CallMethod(f, m) PROVE ResultOK' /\ MethodOK'
    <2>1. /\ InBody(f) /\ f # Dispatch /\ frame[m] = "none" /\ step' = "body" /\ m # Dispatch
          /\ frame' = [frame EXCEPT ![m] = "live"] /\ holder' = [holder EXCEPT ![m] = f]
      BY <1>2, Names DEF CallMethod, InBody
    <2>2. holder[m] = Null
      BY <1>1, <2>1 DEF Inv, BornOK
    <2>3. frame'[Dispatch] = frame[Dispatch]
      BY <1>1, <2>1 DEF Inv, TypeOK
    <2>4. promise /\ method \in Methods => method # m
      BY <2>2, Names DEF Inv, MethodOK, Coroutines
    <2>5. promise /\ method \in Methods => holder'[method] = holder[method]
      BY <1>1, <2>1, <2>4 DEF Inv, TypeOK
    <2> QED
      BY <1>0, <2>1, <2>3, <2>5, QuietResult, QuietMethod
  <1>3. ASSUME NEW l \in Leaves, Send(f, l) PROVE ResultOK' /\ MethodOK'
    <2>1. frame' = frame /\ step' = "body" /\ holder' = [holder EXCEPT ![l] = f]
      BY <1>3 DEF Send, InBody
    <2>2. \A m \in Methods : m # l
      BY Names DEF Coroutines
    <2>3. \A m \in Methods : holder'[m] = holder[m]
      BY <1>1, <2>1, <2>2 DEF Inv, TypeOK
    <2> QED
      BY <1>0, <2>1, <2>3, QuietResult, QuietMethod
  <1>4. ASSUME NEW x \in Futures, DropFuture(f, x) PROVE ResultOK' /\ MethodOK'
    <2>1. f # Dispatch /\ step' = "body" /\ holder[x] = f /\ Release(x)
      BY <1>4 DEF DropFuture, InBody
    <2>2. /\ \A y \in Futures : y # x => holder'[y] = holder[y]
          /\ \A g \in Frames : frame[g] = "none" <=> frame'[g] = "none"
      BY <2>1, Released
    <2>3. promise /\ method \in Methods => method # x
      BY <2>1, Names DEF Inv, MethodOK
    <2> QED
      BY <1>0, <1>1, <2>1, <2>2, <2>3, QuietResult, QuietMethod
  <1>5. ASSUME NEW x \in Futures, Await(f, x) PROVE ResultOK' /\ MethodOK'
    <2>1. frame' = frame /\ holder' = holder /\ step' = "ready"
      BY <1>5 DEF Await
    <2> QED
      BY <1>0, <2>1, QuietResult, QuietMethod
  <1>6. CASE AwaitReady(f) \/ Register(f) \/ Recheck(f)
    <2>1. /\ Executes(f) /\ frame' = frame /\ holder' = holder /\ target' = target
          /\ step' = "resume" => settled[target[f]] # "pending" /\ stack' = stack
      BY <1>6 DEF AwaitReady, Register, Recheck, Unregistered, HasResult
    <2>2. ResultOK'
      BY <1>0, <2>1, QuietResult
    <2>3. step' = "resume" => \A g : Executes(g)' => settled'[target'[g]] # "pending"
      <3> SUFFICES ASSUME step' = "resume", NEW g, Executes(g)' PROVE settled'[target'[g]] # "pending"
        OBVIOUS
      <3>1. g = f
        BY <2>1 DEF Executes
      <3> QED
        BY <1>0, <2>1, <3>1
    <2>4. MethodOK'
      BY <1>0, <2>1, <2>3 DEF Inv, MethodOK
    <2> QED
      BY <2>2, <2>4
  <1>7. CASE AwaitResume(f)
    <2>1. Executes(f) /\ step = "resume" /\ step' = "body" /\ Release(target[f])
      BY <1>7 DEF AwaitResume
    <2>2. target[f] \in Futures /\ holder[target[f]] = f /\ settled[target[f]] # "pending"
      BY <2>1, Awaiting DEF Inv, MethodOK
    <2>3. /\ \A y \in Futures : y # target[f] => holder'[y] = holder[y]
          /\ holder'[target[f]] = "released"
          /\ \A g \in Frames : frame[g] = "none" <=> frame'[g] = "none"
      BY <2>1, <2>2, Released
    <2>4. \A m \in Methods : \/ holder'[m] = holder[m]
                             \/ holder'[m] = "released" /\ outcome[m] # "none"
      BY <1>1, <2>2, <2>3 DEF Inv, MethodOK
    <2>5. MethodOK'
      BY <1>0, <2>1, <2>4 DEF Inv, MethodOK
    <2>6. ResultOK'
      BY <1>0, <1>1, <2>3, QuietResult
    <2> QED
      BY <2>5, <2>6
  <1> QED
    BY <1>2, <1>3, <1>4, <1>5, <1>6, <1>7 DEF Body

\* A coroutine ends.
LEMMA EndsBooks ==
  ASSUME Inv, NEW f \in Coroutines, InBody(f), FinalSuspend(f),
         UNCHANGED <<message, transferred, promise, result, method>>,
         outcome' = outcome \/ (f \in Methods /\ \E o \in Outcomes : outcome' = [outcome EXCEPT ![f] = o]),
         f \in Methods => outcome'[f] \in Outcomes
  PROVE  ResultOK' /\ MethodOK'
  <1>1. /\ f \in Frames /\ f \in Futures /\ Dispatch \in Frames /\ Executes(f) /\ stack # <<>>
        /\ \A m \in Methods : m \in Futures
    BY Names DEF Coroutines, InBody, Executes
  <1>2. /\ settled'[f] = "released" /\ target' = target /\ holder' = holder
        /\ \A x \in Futures : x # f => settled'[x] = settled[x]
        /\ step' = "resume" => \A g : Executes(g)' => target'[g] = f
    BY FinalSuspendThreads DEF FinalSuspend, Unregistered
  <1>3. frame' = [frame EXCEPT ![f] = IF holder[f] = "released" THEN "destroyed" ELSE "done"]
    BY DEF FinalSuspend, Unregistered
  <1>4. frame'[Dispatch] = "none" => frame[Dispatch] = "none"
    <2>1. frame \in [Frames -> {"none", "live", "done", "destroyed"}]
      BY DEF Inv, TypeOK
    <2> QED
      BY <1>1, <1>3, <2>1
  <1>5. ResultOK'
    BY <1>4, QuietResult
  <1>6. \A m \in Methods : outcome[m] # "none" => outcome'[m] # "none"
    BY DEF Inv, TypeOK, Outcomes
  <1>7. \A m \in Methods : settled'[m] # "pending" => outcome'[m] # "none"
    <2> SUFFICES ASSUME NEW m \in Methods, settled'[m] # "pending" PROVE outcome'[m] # "none"
      OBVIOUS
    <2>1. CASE m = f
      BY <2>1 DEF Outcomes
    <2>2. CASE m # f
      BY <1>1, <1>2, <1>6, <2>2 DEF Inv, MethodOK
    <2> QED
      BY <2>1, <2>2
  <1>8. step' = "resume" => \A g \in Frames : Executes(g)' => settled'[target'[g]] # "pending"
    BY <1>2
  <1>9. promise => /\ method \in Methods
                   /\ holder[method] = Dispatch \/ (holder[method] = "released" /\ outcome'[method] # "none")
    BY <1>6 DEF Inv, MethodOK
  <1>10. MethodOK'
    BY <1>2, <1>7, <1>8, <1>9 DEF MethodOK
  <1> QED
    BY <1>5, <1>10

\* dispatch() takes the caller over from the message, which has not settled it.
LEMMA CallDispatchBooks ==
  ASSUME Inv, NEW m \in Methods, CallDispatch(m)
  PROVE  ResultOK' /\ MethodOK'
  <1>1. /\ message = "handled" /\ message' = message /\ result' = result /\ step' = "body"
        /\ frame[Dispatch] = "none" /\ method' = m
        /\ frame' = [frame EXCEPT ![Dispatch] = "live", ![m] = "live"]
        /\ holder' = [holder EXCEPT ![Dispatch] = Root, ![m] = Dispatch]
        /\ outcome' = outcome /\ settled' = settled
    BY DEF CallDispatch, InBody, chainVars
  <1>2. promise' /\ transferred'
    BY DEF CallDispatch, TransferOwnership
  <1>3. result = "pending"
    BY <1>1 DEF Inv, ResultOK
  <1>4. frame'[Dispatch] = "live" /\ holder'[m] = Dispatch
    BY <1>1, Names DEF Inv, TypeOK, Coroutines
  <1>5. ResultOK'
    BY <1>1, <1>2, <1>3, <1>4 DEF ResultOK
  <1>6. MethodOK'
    BY <1>1, <1>4 DEF Inv, MethodOK
  <1> QED
    BY <1>5, <1>6

\* What happens around the coroutines.
LEMMA AroundBooks ==
  ASSUME Inv, Behave \/ BehaviorEnds \/ SettleResult \/ MessageGuardEnds \/ DestroyActor \/ Drain
  PROVE  ResultOK' /\ MethodOK'
  <1>0. Dispatch \in Frames /\ Root \in Frames /\ Dispatch # Root /\ \A m \in Methods : m \in Futures
    BY Names DEF Coroutines
  <1>1. CASE Behave
    <2>1. /\ message = "queued" /\ message' = "handled" /\ step' = "body" /\ holder' = holder
          /\ frame' = [frame EXCEPT ![Root] = "live"]
          /\ UNCHANGED <<method, outcome, transferred, promise, result, settled>>
      BY <1>1 DEF Behave, chainVars
    <2>2. frame'[Dispatch] = frame[Dispatch]
      BY <1>0, <2>1 DEF Inv, TypeOK
    <2>3. ResultOK'
      BY <2>1, <2>2 DEF Inv, ResultOK
    <2> QED
      BY <2>1, <2>3, QuietMethod
  <1>2. CASE BehaviorEnds
    <2>1. /\ step' = "body" /\ holder' = holder /\ frame' = [frame EXCEPT ![Root] = "done"]
          /\ UNCHANGED <<message, method, outcome, transferred, promise, result, settled>>
      BY <1>2 DEF BehaviorEnds, InBody, chainVars, callVars
    <2>2. frame'[Dispatch] = frame[Dispatch]
      BY <1>0, <2>1 DEF Inv, TypeOK
    <2> QED
      BY <2>1, <2>2, QuietResult, QuietMethod
  <1>3. CASE SettleResult
    <2>1. /\ promise /\ ~promise' /\ step' = "body"
          /\ UNCHANGED <<frame, holder, method, outcome, message, transferred, settled>>
      BY <1>3 DEF SettleResult, InBody, chainVars
    <2> QED
      BY <2>1 DEF Inv, ResultOK, MethodOK
  <1>4. CASE MessageGuardEnds
    <2>1. /\ message = "handled" /\ message' = "gone" /\ stack = <<>>
          /\ result' = IF transferred THEN result ELSE "cancelled"
          /\ UNCHANGED <<frame, step, holder, settled, method, outcome, transferred, promise>>
      BY <1>4 DEF MessageGuardEnds, ResultAtMessageEnd, chainVars
    <2>2. step = "body"
      BY <2>1 DEF Inv, AwaitOK
    <2>3. ResultOK'
      BY <2>1 DEF Inv, ResultOK
    <2> QED
      BY <2>1, <2>2, <2>3, QuietMethod
  <1>5. CASE DestroyActor
    <2>1. /\ message' = "gone" /\ stack = <<>>
          /\ result' = IF transferred THEN result ELSE "cancelled"
          /\ UNCHANGED <<step, settled, method, outcome, transferred, promise>>
      BY <1>5 DEF DestroyActor, ResultAtMessageEnd, chainVars
    <2>2. /\ holder' = [x \in Futures |-> IF holder[x] = Root THEN "released" ELSE holder[x]]
          /\ frame' = [f \in Frames |->
                        IF \/ f = Root
                           \/ f \in Futures /\ holder[f] = Root /\ frame[f] = "done"
                          THEN "destroyed" ELSE frame[f]]
      BY <1>5 DEF DestroyActor
    <2>3. step = "body"
      BY <2>1 DEF Inv, AwaitOK
    <2>4. frame'[Dispatch] = "none" => frame[Dispatch] = "none"
      BY <1>0, <2>2
    <2>5. ResultOK'
      BY <2>1, <2>4 DEF Inv, ResultOK
    <2>6. promise /\ method \in Methods => holder'[method] = holder[method]
      BY <1>0, <2>2, Names DEF Inv, MethodOK
    <2> QED
      BY <2>1, <2>3, <2>5, <2>6, QuietMethod
  <1>6. CASE Drain
    <2> DEFINE x == awaited[Root]
               g == cont[x]
    <2>1. /\ frame[Root] = "live" /\ x # Null /\ g # Null /\ settled[x] = "released"
          /\ stack' = <<g>>
          /\ UNCHANGED <<frame, target, holder, settled, message>>
          /\ UNCHANGED <<method, outcome, transferred, promise, result>>
      BY <1>6 DEF Drain, Unregistered, IsReady, callVars
    <2>2. x \in Futures
      BY <1>0, <2>1 DEF Inv, TypeOK
    <2>3. target[g] = x
      BY <2>1, <2>2 DEF Inv, ContOK
    <2>4. \A h : Executes(h)' => h = g
      BY <2>1 DEF Executes, Last
    <2>5. MethodOK'
      BY <2>1, <2>3, <2>4 DEF Inv, MethodOK
    <2>6. ResultOK'
      BY <2>1, QuietResult
    <2> QED
      BY <2>5, <2>6
  <1> QED
    BY <1>1, <1>2, <1>3, <1>4, <1>5, <1>6

-----------------------------------------------------------------------------
(* The theorems.                                                           *)

\* Every step keeps the invariant.
LEMMA NextInv ==
  ASSUME Inv, [Next]_vars
  PROVE  Inv'
  <1>1. ASSUME Threads', ResultOK', MethodOK' PROVE Inv'
    BY <1>1 DEF Threads, Inv
  <1>2. CASE Behave
    BY <1>1, <1>2, BehaveThreads, AroundBooks
  <1>3. ASSUME NEW f \in Frames, Body(f) PROVE Inv'
    <2>1. ResultOK' /\ MethodOK'
      BY <1>3, BodyBooks
    <2>2. Threads'
      BY <1>3, CallMethodThreads, SendThreads, DropFutureThreads, AwaitThreads, AwaitReadyThreads,
         RegisterThreads, RecheckThreads, AwaitResumeThreads DEF Body
    <2> QED
      BY <1>1, <2>1, <2>2
  <1>4. ASSUME NEW m \in Methods, CallDispatch(m) PROVE Inv'
    BY <1>1, <1>4, CallDispatchThreads, CallDispatchBooks
  <1>5. ASSUME NEW m \in Methods, MethodEnds(m) PROVE Inv'
    <2>1. /\ m \in Coroutines /\ InBody(m) /\ FinalSuspend(m)
          /\ UNCHANGED <<method, message, transferred, promise, result>>
          /\ \E o \in Outcomes : outcome' = [outcome EXCEPT ![m] = o]
      BY <1>5 DEF MethodEnds, Coroutines
    <2>2. outcome'[m] \in Outcomes
      BY <2>1 DEF Inv, TypeOK
    <2>3. ResultOK' /\ MethodOK'
      BY <2>1, <2>2, EndsBooks
    <2> QED
      BY <1>1, <1>5, <2>3, MethodEndsThreads
  <1>6. CASE DispatchEnds
    <2>1. /\ Dispatch \in Coroutines /\ InBody(Dispatch) /\ FinalSuspend(Dispatch) /\ Dispatch \notin Methods
          /\ UNCHANGED <<method, message, transferred, promise, result>> /\ outcome' = outcome
      BY <1>6, Names DEF DispatchEnds, Coroutines, callVars
    <2>2. ResultOK' /\ MethodOK'
      BY <2>1, EndsBooks
    <2> QED
      BY <1>1, <1>6, <2>2, DispatchEndsThreads
  <1>7. CASE SettleResult
    BY <1>1, <1>7, SettleResultThreads, AroundBooks
  <1>8. CASE BehaviorEnds
    BY <1>1, <1>8, BehaviorEndsThreads, AroundBooks
  <1>9. CASE MessageGuardEnds
    BY <1>1, <1>9, MessageGuardEndsThreads, AroundBooks
  <1>10. CASE Drain
    BY <1>1, <1>10, DrainThreads, AroundBooks
  <1>11. CASE DestroyActor
    BY <1>1, <1>11, DestroyActorThreads, AroundBooks
  <1>12. ASSUME NEW l \in Leaves, Leaf(l) PROVE Inv'
    BY <1>1, <1>12, LeafThreads
  <1>13. CASE UNCHANGED vars
    <2>1. /\ UNCHANGED <<frame, stack, step, target, holder, settled, cont, awaited, outer>>
          /\ UNCHANGED <<method, outcome, message, transferred, promise, result>>
      BY <1>13 DEF vars
    <2>2. TypeOK'
      BY <2>1 DEF Inv, TypeOK
    <2>3. BornOK' /\ StackOK' /\ AwaitOK' /\ ContOK' /\ QueuedOK' /\ ResultOK' /\ MethodOK'
      BY <2>1 DEF Inv, BornOK, StackOK, AwaitOK, ContOK, QueuedOK, ResultOK, MethodOK, Executes, OnStack
    <2> QED
      BY <2>2, <2>3 DEF Inv
  <1> QED
    BY <1>2, <1>3, <1>4, <1>5, <1>6, <1>7, <1>8, <1>9, <1>10, <1>11, <1>12, <1>13 DEF Next, Resume

\* The invariant of the coroutines and the thread holds in every run, for any
\* number of methods and leaves.
THEOREM ChainInvariant == Spec => []Inv
  <1>1. Init => Inv
    BY InitInv
  <1>2. Inv /\ [Next]_vars => Inv'
    BY NextInv
  <1> QED
    BY <1>1, <1>2, PTL DEF Spec

\* The coroutines of a message keep to their types (TypeOK of the run).
THEOREM ChainTypes == Spec => []TypeOK
  <1>1. Inv => TypeOK
    BY DEF Inv
  <1> QED
    BY <1>1, ChainInvariant, PTL

\* A frame at its final suspend point has a future that will reclaim it, and
\* nobody resumes or is inside a frame that has ended: final_awaiter and
\* unique_future::release() never both leave it, and never both destroy it.
THEOREM FramesReclaimed == Spec => []EndedFrames
  <1>1. Inv => EndedFrames
    BY Names DEF Inv, EndedFrames, BornOK, StackOK
  <1> QED
    BY <1>1, ChainInvariant, PTL

\* Once the caller's future is settled no step settles it again: dispatch() settles
\* only what it has taken over, ~message() only what nobody has.
THEOREM CallerSettledOnce == Spec => SettledOnce
  <1>1. Inv /\ [Next]_vars => [result # "pending" => result' = result]_vars
    <2> SUFFICES ASSUME Inv, Next, result # "pending" PROVE result' = result
      BY DEF SettledOnce
    <2>1. ~promise /\ (~transferred => message = "gone" /\ result = "cancelled")
      BY DEF Inv, ResultOK
    <2>2. CASE SettleResult
      BY <2>1, <2>2 DEF SettleResult
    <2>3. CASE MessageGuardEnds \/ DestroyActor
      <3>1. result' = IF transferred THEN result ELSE "cancelled"
        BY <2>3 DEF MessageGuardEnds, DestroyActor, ResultAtMessageEnd
      <3> QED
        BY <2>1, <3>1
    <2>4. ASSUME NEW f \in Frames, Body(f) PROVE result' = result
      BY <2>4 DEF Body, CallMethod, Send, DropFuture, Await, AwaitReady, Register, Recheck, Unregistered,
                  AwaitResume, callVars
    <2>5. CASE Behave \/ DispatchEnds \/ BehaviorEnds \/ Drain
      BY <2>5 DEF Behave, DispatchEnds, BehaviorEnds, Drain, Unregistered, callVars
    <2>6. ASSUME NEW m \in Methods, CallDispatch(m) \/ MethodEnds(m) PROVE result' = result
      BY <2>6 DEF CallDispatch, MethodEnds
    <2>7. ASSUME NEW l \in Leaves, Leaf(l) PROVE result' = result
      BY <2>7 DEF Leaf, SetLeaf, ReleaseLeaf, callVars
    <2> QED
      BY <2>2, <2>3, <2>4, <2>5, <2>6, <2>7 DEF Next, Resume
  <1> QED
    BY <1>1, ChainInvariant, PTL DEF Spec, SettledOnce

-----------------------------------------------------------------------------
(* Following pointers from promise to promise.                             *)

Less == {p \in Nat \X Nat : p[1] < p[2]}

\* Every set of numbers that is not empty has a least one: the induction along
\* a chain of pointers.
LEMMA Least ==
  ASSUME NEW S, S \subseteq Nat, S # {}
  PROVE  \E x \in S : \A y \in S : x <= y
  <1>1. IsWellFoundedOn(Less, Nat)
    BY NatLessThanWellFounded DEF OpToRel, Less
  <1>2. PICK x \in S : \A y \in S : ~(<<y, x>> \in Less)
    BY <1>1, WFMin
  <1>3. ASSUME NEW y \in S PROVE x <= y
    <2>1. x \in Nat /\ y \in Nat
      BY <1>2
    <2>2. <<y, x>> \in Less <=> y < x
      BY <2>1 DEF Less
    <2> QED
      BY <1>2, <2>1, <2>2
  <1> QED
    BY <1>3

\* The pointers o followed from f, as Up follows the outer pointers.
Above(o, f) ==
    LET at[i \in 0 .. Cardinality(Frames)] ==
            IF i = 0 THEN f
            ELSE IF at[i - 1] = Null THEN Null ELSE o[at[i - 1]]
    IN  {at[i] : i \in 0 .. Cardinality(Frames)} \ {Null}

Onward(o, x) == IF x = Null THEN Null ELSE o[x]

Trail(g, o, f, n) == g = [i \in 0 .. n |-> IF i = 0 THEN f ELSE Onward(o, g[i - 1])]

\* There are finitely many coroutines.
LEMMA Finite ==
  IsFiniteSet(Frames) /\ Cardinality(Frames) \in Nat
  <1>1. IsFiniteSet(Methods) /\ IsFiniteSet(Methods \cup {Root}) /\ IsFiniteSet((Methods \cup {Root}) \cup {Dispatch})
    BY NamesAssumption, FS_AddElement DEF NamesAssumption
  <1>2. (Methods \cup {Root}) \cup {Dispatch} = Frames
    BY DEF Frames
  <1>3. IsFiniteSet(Frames)
    BY <1>1, <1>2
  <1> QED
    BY <1>3, FS_CardinalityType

\* A trail of any length exists.
LEMMA TrailExists ==
  ASSUME NEW o, NEW f, NEW n \in Nat
  PROVE  \E g : Trail(g, o, f, n)
  <1> DEFINE Bad == {m \in Nat : ~\E g : Trail(g, o, f, m)}
  <1>1. SUFFICES ASSUME Bad # {} PROVE FALSE
    BY Zenon
  <1>2. PICK m \in Bad : \A k \in Bad : m <= k
    BY <1>1, Least
  <1>3. m \in Nat /\ ~\E g : Trail(g, o, f, m)
    BY <1>2
  <1>4. CASE m = 0
    <2> DEFINE g == [i \in 0 .. 0 |-> f]
    <2>1. g = [i \in 0 .. 0 |-> IF i = 0 THEN f ELSE Onward(o, g[i - 1])]
      OBVIOUS
    <2>2. Trail(g, o, f, 0)
      BY <2>1, Zenon DEF Trail
    <2> QED
      BY <1>3, <1>4, <2>2, Zenon
  <1>5. CASE m # 0
    <2>1. m - 1 \in Nat /\ ~(m <= m - 1)
      BY <1>3, <1>5
    <2>2. PICK h : Trail(h, o, f, m - 1)
      BY <1>2, <2>1
    <2> DEFINE g == [i \in 0 .. m |-> IF i = m THEN Onward(o, h[m - 1]) ELSE h[i]]
    <2>3. \A i \in 0 .. m - 1 : h[i] = IF i = 0 THEN f ELSE Onward(o, h[i - 1])
      BY <2>2, Zenon DEF Trail
    <2>4. ASSUME NEW i \in 0 .. m
          PROVE  g[i] = IF i = 0 THEN f ELSE Onward(o, g[i - 1])
      <3>1. CASE i = 0
        BY <1>3, <1>5, <2>1, <2>3, <3>1
      <3>2. CASE i = m
        <4>1. g[i - 1] = h[m - 1]
          BY <1>3, <1>5, <2>1, <3>2
        <4> QED
          BY <1>5, <3>2, <4>1, Zenon
      <3>3. CASE i # 0 /\ i # m
        <4>1. i \in 0 .. m - 1 /\ i - 1 \in 0 .. m /\ i - 1 # m
          BY <1>3, <3>3
        <4>2. g[i] = h[i] /\ g[i - 1] = h[i - 1]
          BY <3>3, <4>1, Zenon
        <4> QED
          BY <2>3, <3>3, <4>1, <4>2, Zenon
      <3> QED
        BY <3>1, <3>2, <3>3, Zenon
    <2>5. Trail(g, o, f, m)
      BY <2>4, Zenon DEF Trail
    <2> QED
      BY <1>3, <2>5, Zenon
  <1> QED
    BY <1>4, <1>5, Zenon

\* What is above f is what a trail passes.
LEMMA AboveTrail ==
  ASSUME NEW o, NEW f
  PROVE  \E g : /\ Trail(g, o, f, Cardinality(Frames))
                /\ Above(o, f) = {g[i] : i \in 0 .. Cardinality(Frames)} \ {Null}
  <1> DEFINE n == Cardinality(Frames)
             at == CHOOSE g : g = [i \in 0 .. n |-> IF i = 0 THEN f
                                                    ELSE IF g[i - 1] = Null THEN Null ELSE o[g[i - 1]]]
  <1>1. Above(o, f) = {at[i] : i \in 0 .. n} \ {Null}
    BY DEF Above
  <1>2. \E g : g = [i \in 0 .. n |-> IF i = 0 THEN f ELSE IF g[i - 1] = Null THEN Null ELSE o[g[i - 1]]]
    <2>1. PICK g : Trail(g, o, f, n)
      BY TrailExists, Finite, Zenon
    <2> QED
      BY <2>1, Zenon DEF Trail, Onward
  <1>3. Trail(at, o, f, n)
    BY <1>2, Zenon DEF Trail, Onward
  <1> QED
    BY <1>1, <1>3, Zenon

\* What a trail is like, point by point.
LEMMA TrailPoints ==
  ASSUME NEW o \in [Frames -> Frames \cup {Null}], NEW f \in Frames, NEW n \in Nat, NEW g, Trail(g, o, f, n)
  PROVE  /\ g[0] = f
         /\ \A i \in 0 .. n : g[i] \in Frames \cup {Null}
         /\ \A i \in 0 .. n : i # 0 /\ g[i] # Null => g[i - 1] # Null /\ o[g[i - 1]] = g[i]
         /\ \A i \in 0 .. n : i # n /\ g[i] # Null => g[i + 1] = o[g[i]]
         /\ \A i, j \in 0 .. n : i <= j /\ g[j] # Null => g[i] # Null
  <1>1. \A i \in 0 .. n : g[i] = IF i = 0 THEN f ELSE IF g[i - 1] = Null THEN Null ELSE o[g[i - 1]]
    BY Zenon DEF Trail, Onward
  <1>2. g[0] = f
    BY <1>1
  <1>3. \A i \in 0 .. n : i # 0 => i - 1 \in 0 .. n
    OBVIOUS
  <1>4. \A i \in 0 .. n : i # n => i + 1 \in 0 .. n /\ i + 1 # 0 /\ (i + 1) - 1 = i
    OBVIOUS
  <1>5. \A i \in 0 .. n : g[i] \in Frames \cup {Null}
    <2> DEFINE Bad == {i \in 0 .. n : g[i] \notin Frames \cup {Null}}
    <2>1. SUFFICES ASSUME Bad # {} PROVE FALSE
      BY Zenon
    <2>0. Bad \subseteq Nat
      OBVIOUS
    <2>2. PICK i \in Bad : \A j \in Bad : i <= j
      <3> HIDE DEF Bad
      <3> QED
        BY <2>0, <2>1, Least
    <2>3. i \in 0 .. n /\ g[i] \notin Frames \cup {Null} /\ i # 0
      BY <1>2, <2>2
    <2>4. i - 1 \in 0 .. n /\ ~(i <= i - 1)
      BY <2>3
    <2>5. g[i - 1] \in Frames \cup {Null}
      BY <2>2, <2>4
    <2>6. g[i] = IF g[i - 1] = Null THEN Null ELSE o[g[i - 1]]
      BY <1>1, <2>3
    <2> QED
      BY <2>3, <2>5, <2>6
  <1>6. \A i \in 0 .. n : i # 0 /\ g[i] # Null => g[i - 1] # Null /\ o[g[i - 1]] = g[i]
    BY <1>1
  <1>7. \A i \in 0 .. n : i # n /\ g[i] # Null => g[i + 1] = o[g[i]]
    <2> SUFFICES ASSUME NEW i \in 0 .. n, i # n, g[i] # Null PROVE g[i + 1] = o[g[i]]
      OBVIOUS
    <2>1. g[i + 1] = IF g[(i + 1) - 1] = Null THEN Null ELSE o[g[(i + 1) - 1]]
      BY <1>1, <1>4
    <2> QED
      BY <1>4, <2>1
  <1>8. ASSUME NEW j \in 0 .. n, g[j] # Null PROVE \A i \in 0 .. n : i <= j => g[i] # Null
    <2> DEFINE Bad == {d \in 0 .. j : g[j - d] = Null}
    <2>1. Bad = {}
      <3>1. SUFFICES ASSUME Bad # {} PROVE FALSE
        BY Zenon
      <3>0. Bad \subseteq Nat
        OBVIOUS
      <3>2. PICK d \in Bad : \A e \in Bad : d <= e
        <4> HIDE DEF Bad
        <4> QED
          BY <3>0, <3>1, Least
      <3>3. d \in 0 .. j /\ g[j - d] = Null
        BY <3>2
      <3>4. d # 0
        BY <1>8, <3>3
      <3>5. d - 1 \in 0 .. j /\ ~(d <= d - 1) /\ j - (d - 1) = (j - d) + 1 /\ j - d \in 0 .. n /\ j - d # n
        BY <3>3, <3>4
      <3>6. g[j - (d - 1)] # Null
        BY <3>2, <3>5
      <3>7. g[(j - d) + 1] = IF g[((j - d) + 1) - 1] = Null THEN Null ELSE o[g[((j - d) + 1) - 1]]
        BY <1>1, <1>4, <3>5
      <3>8. ((j - d) + 1) - 1 = j - d
        BY <1>4, <3>5
      <3> QED
        BY <3>3, <3>5, <3>6, <3>7, <3>8
    <2>2. ASSUME NEW i \in 0 .. n, i <= j PROVE g[i] # Null
      <3>1. j - i \in 0 .. j /\ j - (j - i) = i
        BY <2>2
      <3>2. j - i \notin Bad
        BY <2>1
      <3> QED
        BY <3>1, <3>2
    <2> QED
      BY <2>2
  <1> QED
    BY <1>2, <1>5, <1>6, <1>7, <1>8

\* S contains what the pointers o lead to from what it contains.
Closed(S, o) == \A g \in S \cap Frames : o[g] # Null => o[g] \in S

\* A set with f that is closed contains a trail from f.
LEMMA TrailWithin ==
  ASSUME NEW o \in [Frames -> Frames \cup {Null}], NEW f \in Frames, NEW n \in Nat, NEW g, Trail(g, o, f, n),
         NEW S, f \in S, Closed(S, o), NEW k \in 0 .. n
  PROVE  g[k] \in S \cup {Null}
  <1> DEFINE Bad == {i \in 0 .. n : g[i] \notin S \cup {Null}}
  <1>1. SUFFICES ASSUME Bad # {} PROVE FALSE
    OBVIOUS
  <1>0. Bad \subseteq Nat
    OBVIOUS
  <1>2. PICK i \in Bad : \A j \in Bad : i <= j
    <2> HIDE DEF Bad
    <2> QED
      BY <1>0, <1>1, Least
  <1>3. i \in 0 .. n /\ g[i] \notin S \cup {Null} /\ i # 0
    BY <1>2, TrailPoints
  <1>4. i - 1 \in 0 .. n /\ ~(i <= i - 1)
    BY <1>3
  <1>5. g[i - 1] \in S \cup {Null}
    BY <1>2, <1>4
  <1>6. g[i - 1] # Null /\ o[g[i - 1]] = g[i] /\ g[i - 1] \in Frames
    BY <1>3, <1>4, TrailPoints
  <1> QED
    BY <1>3, <1>5, <1>6 DEF Closed

\* What is above f: f, all that the pointers lead to and no more, along one path.
LEMMA AboveIs ==
  ASSUME NEW o \in [Frames -> Frames \cup {Null}], NEW f \in Frames
  PROVE  /\ f \in Above(o, f) /\ Above(o, f) \subseteq Frames /\ Closed(Above(o, f), o)
         /\ \A g \in Above(o, f) : g # f => \E h \in Above(o, f) : o[h] = g
         /\ \A S : f \in S /\ Closed(S, o) => Above(o, f) \subseteq S
         /\ \A a, b \in Above(o, f) : o[a] = Null /\ o[b] = Null => a = b
  <1> DEFINE n == Cardinality(Frames)
  <1>0. n \in Nat /\ IsFiniteSet(Frames) /\ Null \notin Frames
    BY Finite, Names
  <1>1. PICK g : Trail(g, o, f, n) /\ Above(o, f) = {g[i] : i \in 0 .. n} \ {Null}
    BY AboveTrail
  <1>2. /\ g[0] = f
        /\ \A i \in 0 .. n : g[i] \in Frames \cup {Null}
        /\ \A i \in 0 .. n : i # 0 /\ g[i] # Null => g[i - 1] # Null /\ o[g[i - 1]] = g[i]
        /\ \A i \in 0 .. n : i # n /\ g[i] # Null => g[i + 1] = o[g[i]]
        /\ \A i, j \in 0 .. n : i <= j /\ g[j] # Null => g[i] # Null
    BY <1>0, <1>1, TrailPoints
  <1> DEFINE A == Above(o, f)
  <1>3. \A x : x \in A <=> \E i \in 0 .. n : g[i] = x /\ x # Null
    BY <1>1
  <1> HIDE DEF A, n
  <1>4. f \in A /\ A \subseteq Frames
    BY <1>0, <1>2, <1>3
  <1>5. \A S : f \in S /\ Closed(S, o) => A \subseteq S
    <2> SUFFICES ASSUME NEW S, f \in S, Closed(S, o), NEW x \in A PROVE x \in S
      OBVIOUS
    <2>1. PICK i \in 0 .. n : g[i] = x /\ x # Null
      BY <1>3
    <2>2. g[i] \in S \cup {Null}
      BY <1>0, <1>1, TrailWithin
    <2> QED
      BY <2>1, <2>2
  <1>6. \A x \in A : x # f => \E h \in A : o[h] = x
    <2> SUFFICES ASSUME NEW x \in A, x # f PROVE \E h \in A : o[h] = x
      OBVIOUS
    <2>1. PICK i \in 0 .. n : g[i] = x /\ x # Null
      BY <1>3
    <2>2. i # 0 /\ i - 1 \in 0 .. n
      BY <1>0, <1>2, <2>1
    <2>3. g[i - 1] \in A /\ o[g[i - 1]] = x
      BY <1>2, <1>3, <2>1, <2>2
    <2> QED
      BY <2>3
  <1>7. \A a, b \in A : o[a] = Null /\ o[b] = Null => a = b
    <2>1. ASSUME NEW i \in 0 .. n, NEW j \in 0 .. n, g[i] # Null, g[j] # Null, o[g[i]] = Null, i < j PROVE FALSE
      <3>1. i # n /\ i + 1 \in 0 .. n /\ i + 1 <= j
        BY <1>0, <2>1
      <3>2. g[i + 1] = Null
        BY <1>2, <2>1, <3>1
      <3> QED
        BY <1>2, <2>1, <3>1, <3>2
    <2> SUFFICES ASSUME NEW a \in A, NEW b \in A, o[a] = Null, o[b] = Null PROVE a = b
      OBVIOUS
    <2>2. PICK i \in 0 .. n : g[i] = a /\ a # Null
      BY <1>3
    <2>3. PICK j \in 0 .. n : g[j] = b /\ b # Null
      BY <1>3
    <2>4. i = j
      <3>1. i \in Nat /\ j \in Nat
        BY <1>0
      <3>2. ~(i < j)
        BY <2>1, <2>2, <2>3
      <3>3. ~(j < i)
        BY <2>1, <2>2, <2>3
      <3> QED
        BY <3>1, <3>2, <3>3
    <2> QED
      BY <2>2, <2>3, <2>4
  <1>8. Closed(A, o)
    <2> SUFFICES ASSUME NEW x \in A, x \in Frames, o[x] # Null PROVE o[x] \in A
      BY DEF Closed
    <2>1. PICK i \in 0 .. n : g[i] = x /\ x # Null
      BY <1>3
    <2>2. CASE i # n
      <3>1. i + 1 \in 0 .. n /\ g[i + 1] = o[x]
        BY <1>0, <1>2, <2>1, <2>2
      <3> QED
        BY <1>3, <3>1
    <2>3. CASE i = n
      <3>1. \A k \in 0 .. n : g[k] # Null /\ g[k] \in Frames
        BY <1>0, <1>2, <2>1, <2>3
      <3> DEFINE t == [k \in 0 .. n |-> g[k]]
      <3>2. t \in [0 .. n -> Frames]
        BY <3>1
      <3>3. IsFiniteSet(0 .. n) /\ Cardinality(Frames) < Cardinality(0 .. n)
        <4>1. IsFiniteSet(0 .. n) /\ Cardinality(0 .. n) = IF 0 > n THEN 0 ELSE n - 0 + 1
          BY <1>0, FS_Interval
        <4>2. Cardinality(0 .. n) = n + 1 /\ n < n + 1 /\ Cardinality(Frames) = n
          BY <1>0, <4>1 DEF n
        <4> QED
          BY <4>1, <4>2
      <3>4. PICK y \in 0 .. n, z \in 0 .. n : y # z /\ t[y] = t[z]
        <4>1. IsFiniteSet(Frames)
          BY <1>0
        <4> HIDE DEF t
        <4> QED
          BY <4>1, <3>2, <3>3, FS_PigeonHole, ZenonT(60)
      <3>5. \E y1 \in 0 .. n, z1 \in 0 .. n : y1 < z1 /\ g[y1] = g[z1]
        <4>1. g[y] = g[z]
          BY <3>4
        <4>2. y < z \/ z < y
          BY <1>0, <3>4
        <4> QED
          BY <4>1, <4>2
      <3>6. PICK y1 \in 0 .. n, z1 \in 0 .. n : y1 < z1 /\ g[y1] = g[z1]
        BY <3>5
      <3> DEFINE S == {g[k] : k \in 0 .. z1 - 1}
      <3>7. f \in S
        <4>1. 0 \in 0 .. z1 - 1
          BY <1>0, <3>6
        <4> QED
          BY <1>2, <4>1
      <3>8. Closed(S, o)
        <4> SUFFICES ASSUME NEW k \in 0 .. z1 - 1 PROVE o[g[k]] \in S
          BY DEF Closed
        <4>1. k \in 0 .. n /\ k # n /\ k + 1 \in 0 .. n /\ y1 \in 0 .. z1 - 1
          BY <1>0, <3>6
        <4>2. g[k + 1] = o[g[k]]
          BY <1>2, <3>1, <4>1
        <4>3. CASE k = z1 - 1
          <5>1. k + 1 = z1
            BY <1>0, <4>3
          <5> QED
            BY <3>6, <4>1, <4>2, <5>1
        <4>4. CASE k # z1 - 1
          <5>1. k + 1 \in 0 .. z1 - 1
            BY <1>0, <3>6, <4>4
          <5> QED
            BY <4>2, <5>1
        <4> QED
          BY <4>3, <4>4
      <3>9. x \in S
        BY <1>5, <3>7, <3>8
      <3>10. o[x] \in S
        BY <3>8, <3>9 DEF Closed
      <3>11. PICK k \in 0 .. z1 - 1 : o[x] = g[k]
        BY <3>10
      <3>12. k \in 0 .. n
        BY <1>0, <3>6
      <3> QED
        BY <1>3, <3>11, <3>12
    <2> QED
      BY <2>2, <2>3
  <1> QED
    BY <1>4, <1>5, <1>6, <1>7, <1>8 DEF A

-----------------------------------------------------------------------------
(* The invariant of the await chains.                                      *)

\* A coroutine that the thread has left before its end.
Suspended(f) == frame[f] = "live" /\ ~OnStack(f)

\* A coroutine's future is settled at its end.
SettledOK == \A x \in Coroutines : settled[x] = "pending" <=> frame[x] \in {"none", "live"}

\* Nobody awaits behavior(), or a coroutine that has not begun.
OuterNone == outer[Root] = Null /\ \A x \in Coroutines : frame[x] = "none" => outer[x] = Null

\* A suspended coroutine is the continuation of what it awaits.
WaitsOK == \A h \in Frames : Suspended(h) => target[h] \in Futures /\ cont[target[h]] = h

\* The outer promise of a live coroutine is the one of its continuation, or of
\* who is just about to become that.
OuterOK ==
    \A x \in Coroutines :
        /\ cont[x] # Null => frame[x] = "live" /\ outer[x] = cont[x]
        /\ frame[x] = "live" /\ outer[x] # Null =>
              \/ cont[x] = outer[x]
              \/ Executes(outer[x]) /\ step \in {"ready", "register"} /\ target[outer[x]] = x

\* A promise points at the leaf that h awaits, or where the awaited one points.
Sees(h) == awaited[h] = IF target[h] \in Frames THEN awaited[target[h]] ELSE target[h]

SeesOK == \A h \in Frames : Suspended(h) => Sees(h)

\* Of the suspended ones only those above the running coroutine point nowhere,
\* and these have somebody above them, up to behavior().
NullOK == \A h \in Coroutines : Suspended(h) /\ awaited[h] = Null => outer[h] # Null

\* A coroutine that is going to suspend.
Suspending(f) ==
    /\ Executes(f)
    /\ step \in {"register", "recheck"} \/ (step = "ready" /\ settled[target[f]] = "pending")

TopOK ==
    \A f \in Frames :
        Suspending(f) =>
            /\ awaited[f] # Null /\ Sees(f)
            /\ target[f] \in Frames => Suspended(target[f]) /\ outer[target[f]] = f
            /\ step = "recheck" => cont[target[f]] = f

\* What the thread resumed first leads up to behavior().
RootUp == stack # <<>> => Root \in Up(stack[1])

Links == WaitsOK /\ OuterOK /\ SeesOK /\ NullOK /\ TopOK /\ RootUp

Linked == SettledOK /\ OuterNone /\ (frame[Root] = "live" => Links)

\* Up follows the outer pointers.
LEMMA UpIs ==
  ASSUME Inv, NEW f \in Frames
  PROVE  /\ f \in Up(f) /\ Up(f) \subseteq Frames /\ Closed(Up(f), outer)
         /\ \A g \in Up(f) : g # f => \E h \in Up(f) : outer[h] = g
         /\ \A S : f \in S /\ Closed(S, outer) => Up(f) \subseteq S
         /\ \A a, b \in Up(f) : outer[a] = Null /\ outer[b] = Null => a = b
  <1>1. outer \in [Frames -> Frames \cup {Null}]
    BY DEF Inv, TypeOK
  <1>2. Up(f) = Above(outer, f)
    BY DEF Up, Above
  <1> QED
    BY <1>1, <1>2, AboveIs

\* Where the thread is on the stack.
LEMMA OnTop ==
  ASSUME Inv, NEW f \in Frames, Executes(f)
  PROVE  /\ stack # <<>> /\ OnStack(f) /\ frame[f] = "live" /\ frame[Root] = "live"
         /\ 1 \in DOMAIN stack /\ stack[1] \in Frames /\ OnStack(stack[1])
         /\ Len(stack) = 1 => stack[1] = f
  <1>1. stack # <<>> /\ Last(stack) = f
    BY DEF Executes
  <1>2. Len(stack) \in DOMAIN stack /\ stack[Len(stack)] = f /\ 1 \in DOMAIN stack
    BY <1>1, Top DEF Inv
  <1>3. \A i \in DOMAIN stack : stack[i] \in Frames
    BY DEF Inv, TypeOK
  <1> QED
    BY <1>1, <1>2, <1>3, Working DEF OnStack, Inv, StackOK

\* Between two co_awaits, whoever has an outer promise is awaited by it.
LEMMA OuterWaits ==
  ASSUME Inv, Linked, frame[Root] = "live", step \notin {"ready", "register"}, NEW x \in Frames,
         frame[x] = "live", outer[x] # Null
  PROVE  x \in Coroutines /\ cont[x] = outer[x]
  <1>1. x \in Coroutines
    BY Names DEF Linked, OuterNone
  <1> QED
    BY <1>1 DEF Linked, Links, OuterOK

\* The promises above the running coroutine: the others are suspended, each on the
\* one below, and the topmost is behavior()'s.
LEMMA UpChain ==
  ASSUME Inv, Linked, NEW f \in Frames, Executes(f), step \in {"body", "resume"}
  PROVE  /\ f \in Up(f) /\ Up(f) \subseteq Frames
         /\ \A h \in Up(f) : h # f => Suspended(h) /\ target[h] \in Up(f)
         /\ \A h \in Up(f) : h # f /\ h # Root => outer[h] # Null
         /\ \A h \in Frames : Suspended(h) /\ target[h] \in Up(f) => h \in Up(f)
  <1> DEFINE U == Up(f)
  <1>1. /\ stack # <<>> /\ OnStack(f) /\ frame[f] = "live" /\ frame[Root] = "live"
        /\ Len(stack) = 1 => stack[1] = f
    BY OnTop
  <1>2. step # "recheck" /\ step \notin {"ready", "register"} /\ Links
    BY <1>1 DEF Linked
  <1>3. /\ f \in U /\ U \subseteq Frames /\ Closed(U, outer)
        /\ \A g \in U : g # f => \E h \in U : outer[h] = g
        /\ \A S : f \in S /\ Closed(S, outer) => U \subseteq S
        /\ \A a, b \in U : outer[a] = Null /\ outer[b] = Null => a = b
    BY UpIs
  <1> HIDE DEF U
  <1>4. \A g \in Frames : frame[g] = "live" /\ outer[g] # Null =>
            /\ g \in Coroutines /\ g \in Futures /\ cont[g] = outer[g]
            /\ outer[g] \in Frames /\ frame[outer[g]] = "live" /\ target[outer[g]] = g /\ ~OnStack(outer[g])
    <2> SUFFICES ASSUME NEW g \in Frames, frame[g] = "live", outer[g] # Null
                 PROVE  /\ g \in Coroutines /\ g \in Futures /\ cont[g] = outer[g]
                        /\ outer[g] \in Frames /\ frame[outer[g]] = "live" /\ target[outer[g]] = g /\ ~OnStack(outer[g])
      OBVIOUS
    <2>1. g \in Coroutines /\ g \in Futures /\ cont[g] = outer[g]
      BY <1>1, <1>2, OuterWaits, Names
    <2>2. outer[g] \in Frames
      BY DEF Inv, TypeOK
    <2> QED
      BY <1>1, <1>2, <2>1, <2>2, Left DEF Inv, ContOK
  <1>5. \A g \in U : frame[g] = "live"
    <2> DEFINE S == {g \in Frames : frame[g] = "live"}
    <2>1. f \in S /\ Closed(S, outer)
      BY <1>1, <1>4 DEF Closed
    <2>2. U \subseteq S
      BY <1>3, <2>1
    <2> QED
      BY <2>2
  <1>6. \A h \in U : h # f => Suspended(h) /\ target[h] \in U
    <2> SUFFICES ASSUME NEW h \in U, h # f PROVE Suspended(h) /\ target[h] \in U
      OBVIOUS
    <2>1. PICK t \in U : outer[t] = h
      BY <1>3
    <2>2. t \in Frames /\ frame[t] = "live" /\ h # Null
      BY <1>3, <1>5, Names
    <2> QED
      BY <1>4, <2>1, <2>2 DEF Suspended
  <1>7. \A h \in U : h # f /\ h # Root => outer[h] # Null
    <2> SUFFICES ASSUME NEW h \in U, h # f, h # Root, outer[h] = Null PROVE FALSE
      OBVIOUS
    <2>1. outer[f] # Null
      <3>1. ASSUME outer[f] = Null PROVE FALSE
        <4>1. Closed({f}, outer)
          BY <3>1 DEF Closed
        <4> QED
          BY <1>3, <4>1
      <3> QED
        BY <3>1
    <2>2. f \in Coroutines /\ f \in Futures /\ cont[f] # Null
      BY <1>1, <1>4, <2>1
    <2>3. Len(stack) = 1
      BY <1>1, <1>2, <2>2, Below DEF Executes
    <2>4. Root \in U
      BY <1>1, <1>2, <2>3 DEF Links, RootUp, U
    <2>5. outer[Root] = Null
      BY DEF Linked, OuterNone
    <2> QED
      BY <1>3, <2>4, <2>5
  <1>8. \A h \in Frames : Suspended(h) /\ target[h] \in U => h \in U
    <2> SUFFICES ASSUME NEW h \in Frames, Suspended(h), target[h] \in U PROVE h \in U
      OBVIOUS
    <2>1. target[h] \in Futures /\ cont[target[h]] = h /\ h # Null /\ target[h] \in Frames
      BY <1>2, <1>3, Names DEF Links, WaitsOK
    <2>2. target[h] \in Coroutines
      BY <2>1, Names
    <2>3. outer[target[h]] = h
      BY <1>2, <2>1, <2>2 DEF Links, OuterOK
    <2> QED
      BY <1>3, <2>1, <2>3 DEF Closed
  <1> QED
    BY <1>3, <1>6, <1>7, <1>8 DEF U

\* The promises from f upwards are told y: the others keep what they see.
LEMMA Tell ==
  ASSUME Inv, Linked, NEW f \in Frames, Executes(f), step \in {"body", "resume"},
         NEW y, awaited' = Propagated(f, y),
         \A h \in Frames : h # f => target'[h] = target[h],
         \A h \in Frames : outer[h] # Null => outer'[h] # Null,
         stack' = stack, \A g \in Frames : frame[g] = "live" <=> frame'[g] = "live"
  PROVE  /\ SeesOK' /\ NullOK' /\ awaited'[f] = y
         /\ \A h \in Frames : Suspended(h) <=> Suspended(h)'
         /\ \A h \in Frames : h \notin Up(f) => awaited'[h] = awaited[h]
  <1> DEFINE U == Up(f)
  <1>1. /\ f \in U /\ U \subseteq Frames
        /\ \A h \in U : h # f => Suspended(h) /\ target[h] \in U
        /\ \A h \in U : h # f /\ h # Root => outer[h] # Null
        /\ \A h \in Frames : Suspended(h) /\ target[h] \in U => h \in U
    BY UpChain
  <1>2. \A h \in Frames : awaited'[h] = IF h \in U THEN y ELSE awaited[h]
    BY DEF Propagated
  <1> HIDE DEF U
  <1>3. OnStack(f) /\ Links
    BY OnTop DEF Linked
  <1>4. \A h \in Frames : (Suspended(h) <=> Suspended(h)') /\ (Suspended(h) => h # f)
    BY <1>3 DEF Suspended, OnStack
  <1>5. SeesOK'
    <2> SUFFICES ASSUME NEW h \in Frames, Suspended(h)' PROVE Sees(h)'
      BY DEF SeesOK
    <2>1. Suspended(h) /\ h # f /\ target'[h] = target[h]
      BY <1>4
    <2>2. CASE h \in U
      <3>1. target[h] \in U /\ target[h] \in Frames
        BY <1>1, <2>1, <2>2
      <3> QED
        BY <1>2, <2>1, <2>2, <3>1 DEF Sees
    <2>3. CASE h \notin U
      <3>1. target[h] \notin U /\ Sees(h)
        BY <1>1, <1>3, <2>1, <2>3 DEF Links, SeesOK
      <3> QED
        BY <1>2, <2>1, <2>3, <3>1 DEF Sees
    <2> QED
      BY <2>2, <2>3
  <1>6. NullOK'
    <2> SUFFICES ASSUME NEW h \in Coroutines, Suspended(h)', awaited'[h] = Null PROVE outer'[h] # Null
      BY DEF NullOK
    <2>1. h \in Frames /\ h # Root /\ Suspended(h) /\ h # f
      BY <1>4, Names
    <2>2. CASE h \in U
      BY <1>1, <2>1, <2>2
    <2>3. CASE h \notin U
      BY <1>2, <1>3, <2>1, <2>3 DEF Links, NullOK
    <2> QED
      BY <2>2, <2>3
  <1> QED
    BY <1>1, <1>2, <1>4, <1>5, <1>6 DEF U

\* A future that a running body holds, of a coroutine that has not ended: that is
\* suspended, nobody awaits it, and it points at a leaf.
LEMMA Awaitable ==
  ASSUME Inv, Linked, NEW f \in Frames, InBody(f), NEW x \in Coroutines, holder[x] = f,
         settled[x] = "pending"
  PROVE  /\ Suspended(x) /\ outer[x] = Null /\ cont[x] = Null /\ awaited[x] # Null
         /\ x \notin Up(f)
  <1>1. Executes(f) /\ step = "body" /\ x \in Frames /\ x \in Futures /\ x # Root /\ f # Null
    BY Names DEF InBody
  <1>2. stack # <<>> /\ OnStack(f) /\ frame[Root] = "live" /\ Links /\ stack[1] \in Frames
    BY <1>1, OnTop DEF Linked
  <1>3. frame[x] = "live"
    <2>1. frame[x] # "none"
      BY <1>1 DEF Inv, BornOK
    <2> QED
      BY <2>1 DEF Linked, SettledOK
  <1>4. cont[x] = Null
    BY <1>1, <1>2, NotWaiting DEF Inv, ContOK
  <1>5. outer[x] = Null
    BY <1>1, <1>2, <1>3, <1>4, OuterWaits
  <1>6. ~OnStack(x)
    <2> SUFFICES ASSUME NEW i \in DOMAIN stack, stack[i] = x PROVE FALSE
      BY DEF OnStack
    <2>1. CASE i = 1
      <3>1. Root \in Up(x)
        BY <1>2, <2>1 DEF Links, RootUp
      <3>2. Closed({x}, outer)
        BY <1>5 DEF Closed
      <3>3. Up(x) \subseteq {x}
        BY <1>1, <3>2, UpIs
      <3> QED
        BY <1>1, <3>1, <3>3
    <2>2. CASE i # 1
      <3>1. holder[x] = stack[i - 1]
        BY <2>2 DEF Inv, StackOK
      <3>2. /\ i - 1 \in DOMAIN stack /\ i - 1 # Len(stack) /\ Len(stack) \in DOMAIN stack
            /\ stack[Len(stack)] = f
        BY <1>1, <1>2, <2>2, Top DEF Inv, Executes
      <3> QED
        BY <3>1, <3>2 DEF Inv, StackOK
    <2> QED
      BY <2>1, <2>2
  <1>7. Suspended(x) /\ awaited[x] # Null
    BY <1>2, <1>3, <1>5, <1>6 DEF Suspended, Links, NullOK
  <1>8. x \notin Up(f)
    BY <1>1, <1>2, <1>5, <1>6, UpChain
  <1> QED
    BY <1>4, <1>5, <1>7, <1>8

\* More outer pointers lead further up.
LEMMA UpGrows ==
  ASSUME Inv, Inv', NEW s \in Frames, \A g \in Frames : outer[g] # Null => outer'[g] = outer[g],
         NEW r \in Up(s)
  PROVE  r \in Above(outer', s)
  <1> DEFINE S == Above(outer', s)
  <1>1. outer' \in [Frames -> Frames \cup {Null}]
    BY DEF Inv, TypeOK
  <1>2. s \in S /\ Closed(S, outer')
    BY <1>1, AboveIs
  <1> HIDE DEF S
  <1>3. Closed(S, outer)
    BY <1>2 DEF Closed
  <1>4. Up(s) \subseteq S
    BY <1>2, <1>3, UpIs
  <1> QED
    BY <1>4 DEF S

\* await_transform() keeps the chain in order.
LEMMA AwaitLinked ==
  ASSUME Inv, Inv', Linked, NEW f \in Frames, NEW x \in Futures, Await(f, x)
  PROVE  Linked'
  <1>1. /\ InBody(f) /\ Executes(f) /\ step = "body" /\ holder[x] = f /\ step' = "ready"
        /\ target' = [target EXCEPT ![f] = x] /\ UNCHANGED <<frame, stack, settled, cont>>
    BY DEF Await, InBody
  <1>2. /\ stack # <<>> /\ OnStack(f) /\ frame[Root] = "live" /\ Links /\ stack[1] \in Frames
    BY <1>1, OnTop DEF Linked
  <1>3. target'[f] = x /\ \A h \in Frames : h # f => target'[h] = target[h]
    BY <1>1 DEF Inv, TypeOK
  <1>4. \A h \in Frames : Suspended(h) => h # f
    BY <1>2 DEF Suspended
  <1>5. \A g : Executes(g)' <=> g = f
    BY <1>1 DEF Executes
  <1>6. ASSUME \A h \in Frames : Suspended(h) <=> Suspended(h)' PROVE WaitsOK'
    <2> SUFFICES ASSUME NEW h \in Frames, Suspended(h)' PROVE target'[h] \in Futures /\ cont'[target'[h]] = h
      BY DEF WaitsOK
    <2>1. Suspended(h) /\ target'[h] = target[h]
      BY <1>3, <1>4, <1>6
    <2> QED
      BY <1>1, <1>2, <2>1 DEF Links, WaitsOK
  <1>7. SettledOK'
    BY <1>1 DEF Linked, SettledOK
  <1>8. CASE HasResult(x) /\ awaited' = Propagated(f, Null) /\ outer' = outer
    <2>1. SeesOK' /\ NullOK' /\ \A h \in Frames : Suspended(h) <=> Suspended(h)'
      BY <1>1, <1>3, <1>8, Tell
    <2>2. WaitsOK'
      BY <1>6, <2>1
    <2>3. OuterOK'
      BY <1>1, <1>2, <1>8 DEF Links, OuterOK
    <2>4. TopOK'
      <3>1. \A g \in Frames : ~Suspending(g)'
        BY <1>1, <1>3, <1>5, <1>8 DEF Suspending, HasResult
      <3> QED
        BY <3>1 DEF TopOK
    <2>5. RootUp'
      <3>1. Root \in Up(stack[1])'
        BY <1>1, <1>2, <1>8 DEF Links, RootUp, Up
      <3> QED
        BY <3>1 DEF RootUp
    <2>6. OuterNone'
      BY <1>1, <1>8 DEF Linked, OuterNone
    <2> QED
      BY <1>7, <2>1, <2>2, <2>3, <2>4, <2>5, <2>6 DEF Linked, Links
  <1>9. CASE /\ ~HasResult(x) /\ awaited' = Propagated(f, Deepest(x))
             /\ outer' = [g \in Frames |-> IF g = x THEN f ELSE outer[g]]
    <2>0. settled[x] = "pending" /\ f # Null
      BY <1>9, Names DEF HasResult
    <2>1. \A g \in Frames : outer'[g] = IF g = x THEN f ELSE outer[g]
      BY <1>9
    <2>2. \A h \in Frames : outer[h] # Null => outer'[h] # Null
      BY <2>0, <2>1
    <2>3. /\ SeesOK' /\ NullOK' /\ awaited'[f] = Deepest(x)
          /\ \A h \in Frames : Suspended(h) <=> Suspended(h)'
          /\ \A h \in Frames : h \notin Up(f) => awaited'[h] = awaited[h]
      BY <1>1, <1>3, <1>9, <2>2, Tell
    <2>4. WaitsOK'
      BY <1>6, <2>3
    <2>5. x \in Coroutines =>
            /\ Suspended(x) /\ outer[x] = Null /\ cont[x] = Null /\ awaited[x] # Null
            /\ x \notin Up(f)
      BY <1>1, <2>0, Awaitable
    <2>6. x \in Frames <=> x \in Coroutines
      BY Names
    <2>7. \A g \in Frames : outer[g] # Null => outer'[g] = outer[g]
      BY <2>1, <2>5, <2>6
    <2>8. OuterOK'
      <3> SUFFICES ASSUME NEW z \in Coroutines
                   PROVE  /\ cont[z] # Null => frame[z] = "live" /\ outer'[z] = cont[z]
                          /\ frame[z] = "live" /\ outer'[z] # Null =>
                               cont[z] = outer'[z] \/ (Executes(outer[z])' /\ target'[outer'[z]] = z)
                                                   \/ (outer'[z] = f /\ target'[f] = z)
        <4>1. \A z \in Coroutines : outer'[z] = f => Executes(outer[z])'
          BY <1>5
        <4>2. step' \in {"ready", "register"}
          BY <1>1
        <4> QED
          BY <1>1, <4>1, <4>2 DEF OuterOK
      <3>1. CASE z = x
        BY <1>3, <2>1, <2>5, <2>6, <3>1
      <3>2. CASE z # x
        <4>1. outer'[z] = outer[z]
          BY <2>1, <3>2, Names
        <4> QED
          BY <1>1, <1>2, <4>1 DEF Links, OuterOK
      <3> QED
        BY <3>1, <3>2
    <2>9. TopOK'
      <3> SUFFICES /\ awaited'[f] # Null /\ Sees(f)'
                   /\ x \in Frames => Suspended(x)' /\ outer'[x] = f
        BY <1>1, <1>3, <1>5 DEF TopOK, Suspending
      <3>1. CASE x \in Frames
        <4>1. Deepest(x) = awaited[x] /\ awaited'[x] = awaited[x] /\ outer'[x] = f /\ Suspended(x)'
          BY <2>1, <2>3, <2>5, <2>6, <3>1 DEF Deepest
        <4> QED
          BY <1>3, <2>3, <2>5, <2>6, <3>1, <4>1 DEF Sees
      <3>2. CASE x \notin Frames
        <4>1. Deepest(x) = x /\ x # Null
          BY <3>2, Names DEF Deepest
        <4> QED
          BY <1>3, <2>3, <3>2, <4>1 DEF Sees
      <3> QED
        BY <3>1, <3>2
    <2>10. RootUp'
      <3>1. Root \in Up(stack[1])
        BY <1>2 DEF Links, RootUp
      <3>2. Root \in Above(outer', stack[1])
        BY <1>2, <2>7, <3>1, UpGrows
      <3>3. Up(stack[1])' = Above(outer', stack'[1])
        BY DEF Up, Above
      <3> QED
        BY <1>1, <3>2, <3>3 DEF RootUp
    <2>11. OuterNone'
      <3>1. \A z \in Coroutines : frame[z] = "none" => z # x
        BY <2>5 DEF Suspended
      <3>2. Root # x
        BY Names
      <3> QED
        BY <1>1, <2>1, <3>1, <3>2, Names DEF Linked, OuterNone
    <2> QED
      BY <1>7, <2>3, <2>4, <2>8, <2>9, <2>10, <2>11 DEF Linked, Links
  <1> QED
    BY <1>8, <1>9 DEF Await

\* The bottom of the stack is where it was.
LEMMA RootUpSame ==
  ASSUME RootUp, outer' = outer, stack' # <<>> => stack # <<>> /\ stack'[1] = stack[1]
  PROVE  RootUp'
  <1> SUFFICES ASSUME stack' # <<>> PROVE Root \in Up(stack[1])'
    BY DEF RootUp
  <1>1. Root \in Up(stack[1]) /\ stack'[1] = stack[1]
    BY DEF RootUp
  <1>2. Up(stack[1]) = Above(outer, stack[1]) /\ Up(stack[1])' = Above(outer', stack'[1])
    BY DEF Up, Above
  <1> QED
    BY <1>1, <1>2

\* Nothing that the chain is made of changes.
LEMMA LinkedSame ==
  ASSUME Inv, Linked, UNCHANGED <<stack, step, target, cont, awaited, outer>>,
         \A g \in Frames : frame[g] = "live" <=> frame'[g] = "live",
         \A g \in Frames : frame[g] = "none" <=> frame'[g] = "none",
         \A x \in Futures : settled'[x] = "pending" => settled[x] = "pending",
         \A x \in Coroutines : settled'[x] = settled[x]
  PROVE  Linked'
  <1>1. SettledOK'
    BY Names DEF Linked, SettledOK
  <1>2. OuterNone'
    BY Names DEF Linked, OuterNone
  <1> SUFFICES ASSUME frame'[Root] = "live" PROVE Links'
    BY <1>1, <1>2 DEF Linked
  <1>3. Links
    BY Names DEF Linked
  <1>4. /\ \A h \in Frames : Suspended(h)' <=> Suspended(h)
        /\ \A h : Executes(h)' <=> Executes(h)
        /\ \A h : Sees(h)' <=> Sees(h)
    BY DEF Suspended, OnStack, Executes, Sees
  <1>5. WaitsOK' /\ SeesOK' /\ NullOK'
    BY <1>3, <1>4, Names DEF Links, WaitsOK, SeesOK, NullOK
  <1>6. OuterOK'
    <2>1. \A x \in Coroutines : Executes(outer[x])' <=> Executes(outer[x])
      BY DEF Executes
    <2> QED
      BY <1>3, <2>1, Names DEF Links, OuterOK
  <1>7. TopOK'
    <2> SUFFICES ASSUME NEW f \in Frames, Suspending(f)'
                 PROVE  /\ awaited'[f] # Null /\ Sees(f)'
                        /\ target'[f] \in Frames => Suspended(target[f])' /\ outer'[target'[f]] = f
                        /\ step' = "recheck" => cont'[target'[f]] = f
      BY DEF TopOK
    <2>1. Executes(f) /\ step # "body"
      BY <1>4 DEF Suspending
    <2>2. target[f] \in Futures
      BY <2>1, Awaiting
    <2>3. Suspending(f)
      BY <2>1, <2>2 DEF Suspending
    <2>4. /\ awaited[f] # Null /\ Sees(f)
          /\ target[f] \in Frames => Suspended(target[f]) /\ outer[target[f]] = f
          /\ step = "recheck" => cont[target[f]] = f
      BY <1>3, <2>3 DEF Links, TopOK
    <2>5. target[f] \in Frames => (Suspended(target[f])' <=> Suspended(target[f]))
      BY DEF Suspended, OnStack
    <2> QED
      BY <1>4, <2>4, <2>5
  <1>8. RootUp'
    BY <1>3, RootUpSame DEF Links
  <1> QED
    BY <1>5, <1>6, <1>7, <1>8 DEF Links

\* await_ready().
LEMMA AwaitReadyLinked ==
  ASSUME Inv, Linked, NEW f \in Frames, AwaitReady(f)
  PROVE  Linked'
  <1>1. /\ Executes(f) /\ step = "ready"
        /\ step' = IF settled[target[f]] # "pending" THEN "resume" ELSE "register"
        /\ UNCHANGED <<frame, stack, target, holder, settled, cont, awaited, outer>>
    BY DEF AwaitReady, HasResult, chainVars
  <1>2. Links /\ frame[Root] = "live"
    BY <1>1, OnTop DEF Linked
  <1>3. /\ \A h : Suspended(h)' <=> Suspended(h)
        /\ \A h : Executes(h)' <=> h = f
        /\ \A h : Sees(h)' <=> Sees(h)
    BY <1>1 DEF Suspended, OnStack, Executes, Sees
  <1>4. SettledOK' /\ OuterNone'
    BY <1>1 DEF Linked, SettledOK, OuterNone
  <1>5. WaitsOK' /\ SeesOK' /\ NullOK'
    BY <1>1, <1>2, <1>3 DEF Links, WaitsOK, SeesOK, NullOK
  <1>6. RootUp'
    BY <1>1, <1>2, RootUpSame DEF Links
  <1>7. \A h : Executes(h) => h = f
    BY <1>1 DEF Executes
  <1>8. OuterOK'
    <2> SUFFICES ASSUME NEW x \in Coroutines
                 PROVE  /\ cont[x] # Null => frame[x] = "live" /\ outer[x] = cont[x]
                        /\ frame[x] = "live" /\ outer[x] # Null =>
                             cont[x] = outer[x] \/ (outer[x] = f /\ step' = "register" /\ target[f] = x)
      <3>1. \A x \in Coroutines : outer[x] = f => Executes(outer[x])'
        BY <1>1 DEF Executes
      <3> QED
        BY <1>1, <3>1 DEF OuterOK
    <2>1. frame[x] = "live" => settled[x] = "pending"
      BY DEF Linked, SettledOK
    <2> QED
      BY <1>1, <1>2, <1>7, <2>1 DEF Links, OuterOK
  <1>9. TopOK'
    <2> SUFFICES ASSUME step' = "register"
                 PROVE  /\ awaited[f] # Null /\ Sees(f)
                        /\ target[f] \in Frames => Suspended(target[f]) /\ outer[target[f]] = f
      <3>1. \A g \in Frames : Suspending(g)' => g = f /\ step' = "register"
        BY <1>1, <1>3 DEF Suspending
      <3>2. Suspended(target[f])' <=> Suspended(target[f])
        BY <1>1 DEF Suspended, OnStack
      <3> QED
        BY <1>1, <1>3, <3>1, <3>2 DEF TopOK
    <2>1. Suspending(f)
      BY <1>1 DEF Suspending
    <2> QED
      BY <1>2, <2>1 DEF Links, TopOK
  <1> QED
    BY <1>4, <1>5, <1>6, <1>8, <1>9 DEF Linked, Links

\* The continuation is registered.
LEMMA RegisterLinked ==
  ASSUME Inv, Linked, NEW f \in Frames, Register(f)
  PROVE  Linked'
  <1>1. /\ Executes(f) /\ step = "register" /\ step' = "recheck"
        /\ cont' = [cont EXCEPT ![target[f]] = f]
        /\ UNCHANGED <<frame, stack, target, holder, settled, awaited, outer>>
    BY DEF Register
  <1>2. Links /\ frame[Root] = "live" /\ OnStack(f) /\ f # Null
    BY <1>1, OnTop, Names DEF Linked
  <1>3. target[f] \in Futures /\ holder[target[f]] = f
    BY <1>1, Awaiting
  <1>4. cont'[target[f]] = f /\ \A y \in Futures : y # target[f] => cont'[y] = cont[y]
    BY <1>1, <1>3 DEF Inv, TypeOK
  <1>5. /\ \A h : Suspended(h)' <=> Suspended(h)
        /\ \A h : Executes(h)' <=> h = f
        /\ \A h : Sees(h)' <=> Sees(h)
        /\ \A h : Executes(h) => h = f
    BY <1>1 DEF Suspended, OnStack, Executes, Sees
  <1>6. SettledOK' /\ OuterNone'
    BY <1>1 DEF Linked, SettledOK, OuterNone
  <1>7. SeesOK' /\ NullOK'
    BY <1>1, <1>2, <1>5 DEF Links, SeesOK, NullOK
  <1>8. RootUp'
    BY <1>1, <1>2, RootUpSame DEF Links
  <1>9. /\ awaited[f] # Null /\ Sees(f)
        /\ target[f] \in Frames => Suspended(target[f]) /\ outer[target[f]] = f
    <2>1. Suspending(f)
      BY <1>1 DEF Suspending
    <2> QED
      BY <1>2, <2>1 DEF Links, TopOK
  <1>10. WaitsOK'
    <2> SUFFICES ASSUME NEW h \in Frames, Suspended(h) PROVE target[h] \in Futures /\ cont'[target[h]] = h
      BY <1>1, <1>5 DEF WaitsOK
    <2>1. target[h] \in Futures /\ cont[target[h]] = h /\ h # f /\ h # Null
      BY <1>2, Names DEF Links, WaitsOK, Suspended
    <2>2. holder[target[h]] = h
      BY <1>2, <2>1 DEF Inv, ContOK
    <2> QED
      BY <1>3, <1>4, <2>1, <2>2
  <1>11. OuterOK'
    <2> SUFFICES ASSUME NEW x \in Coroutines
                 PROVE  /\ cont'[x] # Null => frame[x] = "live" /\ outer[x] = cont'[x]
                        /\ frame[x] = "live" /\ outer[x] # Null => cont'[x] = outer[x]
      BY <1>1 DEF OuterOK
    <2>1. x \in Frames /\ x \in Futures
      BY Names
    <2>2. CASE x = target[f]
      BY <1>4, <1>9, <2>1, <2>2 DEF Suspended
    <2>3. CASE x # target[f]
      BY <1>2, <1>4, <1>5, <2>1, <2>3 DEF Links, OuterOK
    <2> QED
      BY <2>2, <2>3
  <1>12. TopOK'
    <2>1. \A g \in Frames : Suspending(g)' => g = f
      BY <1>5 DEF Suspending
    <2>2. Suspended(target[f])' <=> Suspended(target[f])
      BY <1>1 DEF Suspended, OnStack
    <2> QED
      BY <1>1, <1>4, <1>5, <1>9, <2>1, <2>2 DEF TopOK
  <1> QED
    BY <1>6, <1>7, <1>8, <1>10, <1>11, <1>12 DEF Linked, Links

\* await_resume(): the promises from f upwards point nowhere.
LEMMA AwaitResumeLinked ==
  ASSUME Inv, Linked, NEW f \in Frames, AwaitResume(f)
  PROVE  Linked'
  <1>1. /\ Executes(f) /\ step = "resume" /\ step' = "body" /\ Release(target[f])
        /\ awaited' = Propagated(f, Null) /\ target' = [target EXCEPT ![f] = Null]
        /\ UNCHANGED <<stack, settled, cont, outer>>
    BY DEF AwaitResume
  <1>2. Links /\ frame[Root] = "live" /\ OnStack(f)
    BY <1>1, OnTop DEF Linked
  <1>3. target[f] \in Futures /\ holder[target[f]] = f
    BY <1>1, Awaiting
  <1>4. /\ \A g \in Frames : frame[g] = "live" <=> frame'[g] = "live"
        /\ \A g \in Frames : frame[g] = "none" <=> frame'[g] = "none"
    BY <1>1, <1>3, Released
  <1>5. \A h \in Frames : h # f => target'[h] = target[h]
    BY <1>1 DEF Inv, TypeOK
  <1>6. SeesOK' /\ NullOK' /\ \A h \in Frames : Suspended(h) <=> Suspended(h)'
    BY <1>1, <1>4, <1>5, Tell
  <1>7. WaitsOK'
    <2> SUFFICES ASSUME NEW h \in Frames, Suspended(h)' PROVE target'[h] \in Futures /\ cont'[target'[h]] = h
      BY DEF WaitsOK
    <2>1. Suspended(h) /\ target'[h] = target[h]
      BY <1>2, <1>5, <1>6 DEF Suspended
    <2> QED
      BY <1>1, <1>2, <2>1 DEF Links, WaitsOK
  <1>8. OuterOK'
    BY <1>1, <1>2, <1>4, Names DEF Links, OuterOK
  <1>9. TopOK'
    BY <1>1 DEF TopOK, Suspending
  <1>10. RootUp'
    BY <1>1, <1>2, RootUpSame DEF Links
  <1>11. SettledOK' /\ OuterNone'
    BY <1>1, <1>4, Names DEF Linked, SettledOK, OuterNone
  <1> QED
    BY <1>6, <1>7, <1>8, <1>9, <1>10, <1>11 DEF Linked, Links

\* The thread moves between coroutines: nobody is told anything.
LEMMA Moved ==
  ASSUME Inv, Linked, frame[Root] = "live", UNCHANGED <<target, awaited, outer>>,
         step' \in {"body", "resume"}, RootUp',
         \A h \in Frames : Suspended(h)' => Suspended(h) /\ cont'[target[h]] = cont[target[h]],
         \A x \in Coroutines :
            /\ cont'[x] # Null => frame'[x] = "live" /\ outer[x] = cont'[x]
            /\ frame'[x] = "live" /\ outer[x] # Null => cont'[x] = outer[x]
  PROVE  Links'
  <1>1. Links
    BY DEF Linked
  <1>2. \A h : Sees(h)' <=> Sees(h)
    BY DEF Sees
  <1>3. WaitsOK' /\ SeesOK' /\ NullOK'
    BY <1>1, <1>2, Names DEF Links, WaitsOK, SeesOK, NullOK
  <1>4. OuterOK'
    BY DEF OuterOK
  <1>5. TopOK'
    BY DEF TopOK, Suspending
  <1> QED
    BY <1>3, <1>4, <1>5 DEF Links

\* The bottom of the stack stays when its top goes.
LEMMA BottomSame ==
  ASSUME Inv, stack # <<>>, stack' = Front(stack), stack' # <<>>
  PROVE  stack'[1] = stack[1]
  <1>1. /\ DOMAIN stack' = DOMAIN stack \ {Len(stack)} /\ stack' \in Seq(Frames)
        /\ \A i \in DOMAIN stack' : stack'[i] = stack[i]
    BY Top DEF Inv
  <1>2. 1 \in DOMAIN stack'
    BY <1>1
  <1> QED
    BY <1>1, <1>2

\* Looking again after the registration.
LEMMA RecheckLinked ==
  ASSUME Inv, Linked, NEW f \in Frames, Recheck(f)
  PROVE  Linked'
  <1>1. /\ Executes(f) /\ step = "recheck"
        /\ UNCHANGED <<frame, target, holder, settled, awaited, outer>>
    BY DEF Recheck, Unregistered
  <1>2. Links /\ frame[Root] = "live" /\ OnStack(f) /\ stack # <<>> /\ f # Null /\ frame[f] = "live"
    BY <1>1, OnTop, Names DEF Linked
  <1>3. target[f] \in Futures /\ holder[target[f]] = f
    BY <1>1, Awaiting
  <1>4. /\ awaited[f] # Null /\ Sees(f)
        /\ target[f] \in Frames => Suspended(target[f]) /\ outer[target[f]] = f
        /\ cont[target[f]] = f
    <2>1. Suspending(f)
      BY <1>1 DEF Suspending
    <2> QED
      BY <1>1, <1>2, <2>1 DEF Links, TopOK
  <1>5. SettledOK' /\ OuterNone'
    BY <1>1 DEF Linked, SettledOK, OuterNone
  <1>6. CASE HasResult(target[f]) /\ cont' = [cont EXCEPT ![target[f]] = Null] /\ step' = "resume" /\ stack' = stack
    <2>1. target[f] \notin Frames
      <3> SUFFICES ASSUME target[f] \in Frames PROVE FALSE
        OBVIOUS
      <3>1. target[f] \in Coroutines
        BY <1>3, Names
      <3> QED
        BY <1>4, <1>6, <3>1 DEF Linked, SettledOK, Suspended, HasResult
    <2>2. \A y \in Futures : y # target[f] => cont'[y] = cont[y]
      BY <1>6 DEF Inv, TypeOK
    <2>3. \A h \in Frames : Suspended(h)' => Suspended(h) /\ cont'[target[h]] = cont[target[h]]
      <3> SUFFICES ASSUME NEW h \in Frames, Suspended(h)' PROVE Suspended(h) /\ cont'[target[h]] = cont[target[h]]
        OBVIOUS
      <3>1. Suspended(h) /\ h # f
        BY <1>1, <1>2, <1>6 DEF Suspended, OnStack
      <3>2. target[h] \in Futures /\ cont[target[h]] = h
        BY <1>2, <3>1 DEF Links, WaitsOK
      <3> QED
        BY <1>4, <2>2, <3>1, <3>2
    <2>4. \A x \in Coroutines :
            /\ cont'[x] # Null => frame'[x] = "live" /\ outer[x] = cont'[x]
            /\ frame'[x] = "live" /\ outer[x] # Null => cont'[x] = outer[x]
      <3>1. \A x \in Coroutines : x \in Frames /\ x \in Futures /\ x # target[f]
        BY <2>1, Names
      <3> QED
        BY <1>1, <1>2, <2>2, <3>1 DEF Links, OuterOK
    <2>5. RootUp'
      BY <1>1, <1>2, <1>6, RootUpSame DEF Links
    <2>6. Links'
      BY <1>1, <1>2, <1>6, <2>3, <2>4, <2>5, Moved
    <2> QED
      BY <1>5, <2>6 DEF Linked
  <1>7. CASE stack' = Front(stack) /\ step' = "body" /\ cont' = cont
    <2>1. \A h \in Frames : Suspended(h)' => Suspended(h) \/ h = f
      <3> SUFFICES ASSUME NEW h \in Frames, OnStack(h), h # f PROVE OnStack(h)'
        BY <1>1 DEF Suspended
      <3>1. PICK i \in DOMAIN stack : stack[i] = h
        BY DEF OnStack
      <3>2. /\ stack[Len(stack)] = f /\ DOMAIN stack' = DOMAIN stack \ {Len(stack)}
            /\ \A j \in DOMAIN stack' : stack'[j] = stack[j]
        BY <1>1, <1>2, <1>7, Top DEF Inv, Executes
      <3>3. i \in DOMAIN stack' /\ stack'[i] = h
        BY <3>1, <3>2
      <3> QED
        BY <3>3 DEF OnStack
    <2>2. \A h : Sees(h)' <=> Sees(h)
      BY <1>1 DEF Sees
    <2>3. WaitsOK' /\ SeesOK' /\ NullOK'
      BY <1>1, <1>2, <1>3, <1>4, <1>7, <2>1, <2>2, Names DEF Links, WaitsOK, SeesOK, NullOK
    <2>4. OuterOK'
      BY <1>1, <1>2, <1>7 DEF Links, OuterOK
    <2>5. TopOK'
      BY <1>7 DEF TopOK, Suspending
    <2>6. RootUp'
      BY <1>1, <1>2, <1>7, BottomSame, RootUpSame DEF Links
    <2> QED
      BY <1>5, <2>3, <2>4, <2>5, <2>6 DEF Linked, Links
  <1> QED
    BY <1>6, <1>7 DEF Recheck, Unregistered

\* Coroutines begin, and the thread is in them.
LEMMA BegunLinked ==
  ASSUME Inv, Linked, NEW f \in Frames, InBody(f),
         UNCHANGED <<step, target, settled, cont, awaited, outer>>,
         NEW M \in SUBSET Coroutines, \A m \in M : frame[m] = "none" /\ frame'[m] = "live" /\ OnStack(m)',
         \A g \in Frames : g \notin M => frame'[g] = frame[g],
         \A g : OnStack(g) => OnStack(g)', stack'[1] = stack[1]
  PROVE  Linked'
  <1>1. Executes(f) /\ step = "body" /\ stack # <<>> /\ Links /\ frame[Root] = "live"
    BY OnTop DEF InBody, Linked
  <1>2. \A h \in Frames : Suspended(h)' => Suspended(h)
    BY DEF Suspended
  <1>3. \A x \in Coroutines :
          /\ cont'[x] # Null => frame'[x] = "live" /\ outer[x] = cont'[x]
          /\ frame'[x] = "live" /\ outer[x] # Null => cont'[x] = outer[x]
    <2> SUFFICES ASSUME NEW x \in Coroutines
                 PROVE  /\ cont[x] # Null => frame'[x] = "live" /\ outer[x] = cont[x]
                        /\ frame'[x] = "live" /\ outer[x] # Null => cont[x] = outer[x]
      OBVIOUS
    <2>1. CASE x \in M
      BY <1>1, <2>1 DEF Links, OuterOK, Linked, OuterNone
    <2>2. CASE x \notin M
      BY <1>1, <2>2, Names DEF Links, OuterOK
    <2> QED
      BY <2>1, <2>2
  <1>4. RootUp'
    BY <1>1, RootUpSame DEF Links
  <1>5. Links'
    BY <1>1, <1>2, <1>3, <1>4, Moved
  <1>6. SettledOK'
    BY Names DEF Linked, SettledOK
  <1>7. OuterNone'
    BY Names DEF Linked, OuterNone
  <1> QED
    BY <1>5, <1>6, <1>7 DEF Linked

\* A body calls a method.
LEMMA CallMethodLinked ==
  ASSUME Inv, Linked, NEW f \in Frames, NEW m \in Methods, CallMethod(f, m)
  PROVE  Linked'
  <1>1. /\ m \in Coroutines /\ m \in Frames /\ InBody(f) /\ frame[m] = "none" /\ stack # <<>>
        /\ frame' = [frame EXCEPT ![m] = "live"] /\ stack' = Append(stack, m)
        /\ UNCHANGED <<step, target, settled, cont, awaited, outer>>
    BY Names DEF CallMethod, InBody, Executes, Coroutines, chainVars
  <1>2. frame'[m] = "live" /\ \A g \in Frames : g # m => frame'[g] = frame[g]
    BY <1>1 DEF Inv, TypeOK
  <1>3. /\ DOMAIN stack' = DOMAIN stack \cup {Len(stack) + 1} /\ stack'[Len(stack) + 1] = m
        /\ \A i \in DOMAIN stack : stack'[i] = stack[i]
    BY <1>1, Pushed DEF Inv
  <1>4. 1 \in DOMAIN stack
    BY <1>1, Top DEF Inv
  <1>5. OnStack(m)' /\ (\A g : OnStack(g) => OnStack(g)') /\ stack'[1] = stack[1]
    BY <1>3, <1>4 DEF OnStack
  <1> QED
    <2>1. {m} \in SUBSET Coroutines
      BY <1>1
    <2>2. \A z \in {m} : frame[z] = "none" /\ frame'[z] = "live" /\ OnStack(z)'
      BY <1>1, <1>2, <1>5
    <2>3. \A g \in Frames : g \notin {m} => frame'[g] = frame[g]
      BY <1>2
    <2> QED
      BY <1>1, <1>5, <2>1, <2>2, <2>3, BegunLinked

\* behavior() calls dispatch(), and that its method.
LEMMA CallDispatchLinked ==
  ASSUME Inv, Linked, NEW m \in Methods, CallDispatch(m)
  PROVE  Linked'
  <1>1. /\ InBody(Root) /\ frame[Dispatch] = "none" /\ frame[m] = "none" /\ Executes(Root)
        /\ frame' = [frame EXCEPT ![Dispatch] = "live", ![m] = "live"]
        /\ stack' = stack \o <<Dispatch, m>>
        /\ UNCHANGED <<step, target, settled, cont, awaited, outer>>
    BY DEF CallDispatch, InBody, chainVars
  <1>2. m \in Coroutines /\ m \in Frames /\ Dispatch \in Coroutines /\ Dispatch \in Frames /\ Root \in Frames
    BY Names DEF Coroutines
  <1>3. /\ frame'[m] = "live" /\ frame'[Dispatch] = "live"
        /\ \A g \in Frames : g # m /\ g # Dispatch => frame'[g] = frame[g]
    BY <1>1, <1>2 DEF Inv, TypeOK
  <1>4. stack \in Seq(Frames) /\ Len(stack) = 1 /\ stack[1] = Root /\ DOMAIN stack = {1}
    BY <1>1, RootBelow DEF Inv, TypeOK
  <1>5. DOMAIN stack' = 1 .. 3 /\ stack'[1] = Root /\ stack'[2] = Dispatch /\ stack'[3] = m
    <2> DEFINE t == <<Dispatch, m>>
    <2>1. t \in Seq(Frames) /\ Len(t) = 2 /\ t[1] = Dispatch /\ t[2] = m /\ stack' = stack \o t
      BY <1>1, <1>2
    <2> HIDE DEF t
    <2>2. /\ stack' \in Seq(Frames) /\ Len(stack') = 3
          /\ stack'[1] = stack[1] /\ stack'[2] = t[1] /\ stack'[3] = t[2]
      <3>1. stack \in Seq(Frames) /\ Len(stack) = 1
        BY <1>4
      <3> QED
        BY <2>1, <3>1, Joined
    <2>3. DOMAIN stack' = 1 .. 3
      BY <2>2
    <2> QED
      BY <1>4, <2>1, <2>2, <2>3
  <1>6. 1 \in 1 .. 3 /\ 2 \in 1 .. 3 /\ 3 \in 1 .. 3
    OBVIOUS
  <1>7. OnStack(m)' /\ OnStack(Dispatch)' /\ (\A g : OnStack(g) => OnStack(g)') /\ stack'[1] = stack[1]
    BY <1>4, <1>5, <1>6 DEF OnStack
  <1>8. {m, Dispatch} \in SUBSET Coroutines
    BY <1>2
  <1>9. \A z \in {m, Dispatch} : frame[z] = "none" /\ frame'[z] = "live" /\ OnStack(z)'
    BY <1>1, <1>3, <1>7
  <1>10. \A g \in Frames : g \notin {m, Dispatch} => frame'[g] = frame[g]
    BY <1>3
  <1> QED
    BY <1>1, <1>2, <1>7, <1>8, <1>9, <1>10, BegunLinked

\* A coroutine ends.
LEMMA EndsLinked ==
  ASSUME Inv, Linked, NEW f \in Coroutines, InBody(f), FinalSuspend(f)
  PROVE  Linked'
  <1>1. /\ Executes(f) /\ step = "body" /\ f \in Frames /\ f \in Futures /\ f # Root /\ Last(stack) = f
        /\ cont' = [cont EXCEPT ![f] = Null] /\ settled' = [settled EXCEPT ![f] = "released"]
        /\ UNCHANGED <<target, awaited, outer>>
        /\ frame' = [frame EXCEPT ![f] = IF holder[f] = "released" THEN "destroyed" ELSE "done"]
    BY Names DEF InBody, Executes, FinalSuspend, Unregistered
  <1>2. /\ stack # <<>> /\ OnStack(f) /\ frame[f] = "live" /\ frame[Root] = "live" /\ Links
        /\ Len(stack) = 1 => stack[1] = f
    BY <1>1, OnTop DEF Linked
  <1>3. /\ cont'[f] = Null /\ \A x \in Futures : x # f => cont'[x] = cont[x]
    BY <1>1 DEF Inv, TypeOK
  <1>4. settled'[f] = "released" /\ \A x \in Futures : x # f => settled'[x] = settled[x]
    BY <1>1 DEF Inv, TypeOK
  <1>5. frame'[f] \in {"done", "destroyed"} /\ \A g \in Frames : g # f => frame'[g] = frame[g]
    BY <1>1 DEF Inv, TypeOK
  <1>6. SettledOK'
    <2> SUFFICES ASSUME NEW x \in Coroutines
                 PROVE  settled'[x] = "pending" <=> frame'[x] \in {"none", "live"}
      BY DEF SettledOK
    <2>1. x \in Frames /\ x \in Futures /\ (settled[x] = "pending" <=> frame[x] \in {"none", "live"})
      BY Names DEF Linked, SettledOK
    <2> QED
      BY <1>4, <1>5, <2>1
  <1>7. OuterNone'
    BY <1>1, <1>5, Names DEF Linked, OuterNone
  <1>8. \A x \in Coroutines :
          /\ cont'[x] # Null => frame'[x] = "live" /\ outer[x] = cont'[x]
          /\ frame'[x] = "live" /\ outer[x] # Null => cont'[x] = outer[x]
    <2> SUFFICES ASSUME NEW x \in Coroutines
                 PROVE  /\ cont'[x] # Null => frame'[x] = "live" /\ outer[x] = cont'[x]
                        /\ frame'[x] = "live" /\ outer[x] # Null => cont'[x] = outer[x]
      OBVIOUS
    <2>1. CASE x = f
      BY <1>3, <1>5, <2>1
    <2>2. CASE x # f
      <3>1. cont'[x] = cont[x] /\ frame'[x] = frame[x]
        BY <1>3, <1>5, <2>2, Names
      <3> QED
        BY <1>1, <1>2, <3>1 DEF Links, OuterOK
    <2> QED
      BY <2>1, <2>2
  <1>9. CASE cont[f] = Null /\ stack' = Front(stack) /\ step' = "body"
    <2>1. /\ stack[Len(stack)] = f /\ DOMAIN stack' = DOMAIN stack \ {Len(stack)}
          /\ \A j \in DOMAIN stack' : stack'[j] = stack[j]
      BY <1>1, <1>2, <1>9, Top DEF Inv
    <2>2. \A h : OnStack(h) /\ h # f => OnStack(h)'
      BY <2>1 DEF OnStack
    <2>3. \A h \in Frames : Suspended(h)' => Suspended(h) /\ cont'[target[h]] = cont[target[h]]
      <3> SUFFICES ASSUME NEW h \in Frames, Suspended(h)' PROVE Suspended(h) /\ cont'[target[h]] = cont[target[h]]
        OBVIOUS
      <3>1. Suspended(h) /\ h # Null
        BY <1>5, <2>2, Names DEF Suspended
      <3>2. target[h] \in Futures /\ cont[target[h]] = h
        BY <1>2, <3>1 DEF Links, WaitsOK
      <3> QED
        BY <1>3, <1>9, <3>1, <3>2
    <2>4. RootUp'
      BY <1>1, <1>2, <1>9, BottomSame, RootUpSame DEF Links
    <2>5. Links'
      BY <1>1, <1>2, <1>8, <1>9, <2>3, <2>4, Moved
    <2> QED
      BY <1>6, <1>7, <2>5 DEF Linked
  <1>10. CASE cont[f] # Null /\ stack' = Append(Front(stack), cont[f]) /\ step' = "resume"
    <2> DEFINE g == cont[f]
    <2>1. g \in Frames /\ g # Null /\ outer[f] = g
      BY <1>1, <1>2, <1>10 DEF Inv, TypeOK, Links, OuterOK
    <2>2. Front(stack) = <<>> /\ Len(stack) = 1
      BY <1>1, <1>2, <1>10, Below, Top DEF Inv
    <2>3. stack' = <<g>>
      BY <1>10, <2>1, <2>2
    <2>4. DOMAIN stack = {1} /\ stack[1] = f
      <3>1. stack \in Seq(Frames)
        BY DEF Inv, TypeOK
      <3> QED
        BY <1>2, <2>2, <3>1
    <2>5. \A h \in Frames : Suspended(h)' => Suspended(h) /\ cont'[target[h]] = cont[target[h]]
      <3> SUFFICES ASSUME NEW h \in Frames, Suspended(h)' PROVE Suspended(h) /\ cont'[target[h]] = cont[target[h]]
        OBVIOUS
      <3>1. h # f
        BY <1>5 DEF Suspended
      <3>2. Suspended(h)
        BY <1>5, <2>4, <3>1 DEF Suspended, OnStack
      <3>4. h # cont[f]
        <4>1. 1 \in DOMAIN stack' /\ stack'[1] = g
          BY <2>3
        <4>2. h = g => OnStack(h)'
          BY <4>1 DEF OnStack
        <4> QED
          BY <4>2 DEF Suspended
      <3>5. target[h] \in Futures /\ cont[target[h]] = h
        BY <1>2, <3>2 DEF Links, WaitsOK
      <3> QED
        BY <1>3, <3>2, <3>4, <3>5
    <2>6. RootUp'
      <3>1. Root \in Up(f)
        BY <1>2, <2>2 DEF Links, RootUp
      <3>2. g \in Up(g) /\ Closed(Up(g), outer)
        BY <2>1, UpIs
      <3>3. Closed({f} \cup Up(g), outer)
        BY <2>1, <3>2 DEF Closed
      <3>4. Up(f) \subseteq {f} \cup Up(g)
        BY <1>1, <3>3, UpIs
      <3>5. Root \in Up(g)
        BY <1>1, <3>1, <3>4
      <3>6. Up(g) = Above(outer, g) /\ Up(stack[1])' = Above(outer', stack'[1])
        BY DEF Up, Above
      <3>7. stack'[1] = g /\ outer' = outer
        BY <1>1, <2>3
      <3> QED
        BY <3>5, <3>6, <3>7 DEF RootUp
    <2>7. Links'
      BY <1>1, <1>2, <1>8, <1>10, <2>5, <2>6, Moved
    <2> QED
      BY <1>6, <1>7, <2>7 DEF Linked
  <1>11. \/ cont[f] = Null /\ stack' = Front(stack) /\ step' = "body"
         \/ cont[f] # Null /\ stack' = Append(Front(stack), cont[f]) /\ step' = "resume"
    <2>1. holder[f] = "released" => cont[f] = Null
      <3>1. cont[f] # Null => holder[f] = cont[f] /\ cont[f] \in Frames
        BY <1>1, <1>2 DEF Inv, TypeOK, ContOK
      <3> QED
        BY <3>1, Names
    <2> QED
      BY <2>1 DEF FinalSuspend, Unregistered, TransferTo
  <1> QED
    BY <1>9, <1>10, <1>11

-----------------------------------------------------------------------------
(* From behavior() down to the leaf.                                       *)

\* From a future to what its coroutine awaits.
Follow(x) == IF x \in Frames THEN target[x] ELSE x

Path(e, n) == e = [i \in 0 .. n |-> IF i = 0 THEN target[Root] ELSE Follow(e[i - 1])]

\* ChainEnd is the end of a path.
LEMMA ChainPath ==
  ASSUME Inv
  PROVE  \E e : Path(e, Cardinality(Frames)) /\ ChainEnd(Root) = e[Cardinality(Frames)]
  <1> DEFINE n == Cardinality(Frames)
             D == Frames \cup Futures \cup {Null}
             o == [x \in D |-> Follow(x)]
             at == CHOOSE e : e = [i \in 0 .. n |-> IF i = 0 THEN target[Root]
                                                    ELSE IF e[i - 1] \in Frames THEN target[e[i - 1]] ELSE e[i - 1]]
  <1>0. n \in Nat /\ Null \notin Frames
    BY Finite, Names
  <1>1. ChainEnd(Root) = at[n]
    BY DEF ChainEnd
  <1>2. PICK g : Trail(g, o, target[Root], n)
    BY <1>0, TrailExists
  <1>3. \A x \in D : Follow(x) \in D /\ Onward(o, x) = Follow(x)
    <2>1. \A x \in Frames : target[x] \in D
      BY DEF Inv, TypeOK
    <2> QED
      BY <1>0, <2>1 DEF Follow, Onward
  <1>4. \A i \in 0 .. n : g[i] = IF i = 0 THEN target[Root] ELSE Onward(o, g[i - 1])
    BY <1>2, Zenon DEF Trail
  <1>5. target[Root] \in D
    BY Names DEF Inv, TypeOK
  <1> HIDE DEF o, D, n
  <1>6. \A i \in 0 .. n : g[i] \in D
    <2> DEFINE Bad == {i \in 0 .. n : g[i] \notin D}
    <2>1. SUFFICES ASSUME Bad # {} PROVE FALSE
      BY Zenon
    <2>2. Bad \subseteq Nat
      BY <1>0
    <2>3. PICK i \in Bad : \A j \in Bad : i <= j
      <3> HIDE DEF Bad
      <3> QED
        BY <2>1, <2>2, Least
    <2>4. i \in 0 .. n /\ g[i] \notin D /\ i # 0
      BY <1>0, <1>4, <1>5, <2>3
    <2>5. i - 1 \in 0 .. n /\ ~(i <= i - 1)
      BY <1>0, <2>4
    <2>6. g[i - 1] \in D
      BY <2>3, <2>5
    <2> QED
      BY <1>3, <1>4, <2>4, <2>6
  <1>7. \A i \in 0 .. n : g[i] = IF i = 0 THEN target[Root] ELSE Follow(g[i - 1])
    <2> SUFFICES ASSUME NEW i \in 0 .. n, i # 0 PROVE g[i] = Follow(g[i - 1])
      BY <1>4
    <2>1. i - 1 \in 0 .. n
      BY <1>0
    <2> QED
      BY <1>3, <1>4, <1>6, <2>1
  <1>8. Path(g, n)
    <2>1. g = [i \in 0 .. n |-> g[i]]
      BY <1>2, Zenon DEF Trail
    <2>2. [i \in 0 .. n |-> g[i]] = [i \in 0 .. n |-> IF i = 0 THEN target[Root] ELSE Follow(g[i - 1])]
      BY <1>7, Zenon
    <2> QED
      BY <2>1, <2>2, Zenon DEF Path
  <1>9. Path(at, n)
    BY <1>8, Zenon DEF Path, Follow
  <1> QED
    BY <1>1, <1>9, Zenon DEF n

\* A step of the way down: x is awaited, and behavior() is above who awaits it.
Leading(x) ==
    /\ x \in Futures /\ cont[x] \in Frames /\ target[cont[x]] = x /\ Suspended(cont[x])
    /\ awaited[cont[x]] = awaited[Root]
    /\ Root \in Up(cont[x])

\* When the thread has left a suspended behavior, its co_awaits lead to a leaf, the root
\* points at it, and is above the coroutine that awaits it.
LEMMA Descent ==
  ASSUME Inv, Linked, stack = <<>>, frame[Root] = "live"
  PROVE  /\ awaited[Root] = ChainEnd(Root) /\ awaited[Root] \in Leaves
         /\ Leading(awaited[Root])
  <1> DEFINE n == Cardinality(Frames)
  <1>0. n \in Nat /\ IsFiniteSet(Frames) /\ Null \notin Frames /\ Root \in Frames /\ Root \notin Futures
    BY Finite, Names
  <1>1. Links /\ \A h \in Frames : frame[h] = "live" => Suspended(h)
    BY DEF Linked, Suspended, OnStack
  <1>2. PICK e : Path(e, n) /\ ChainEnd(Root) = e[n]
    BY ChainPath
  <1>3. \A i \in 0 .. n : e[i] = IF i = 0 THEN target[Root] ELSE Follow(e[i - 1])
    BY <1>2, Zenon DEF Path
  <1> HIDE DEF n
  <1>4. Leading(target[Root]) /\ cont[target[Root]] = Root
    <2>1. Suspended(Root) /\ target[Root] \in Futures /\ cont[target[Root]] = Root
      BY <1>0, <1>1 DEF Links, WaitsOK
    <2>2. Root \in Up(Root)
      BY <1>0, UpIs
    <2> QED
      BY <1>0, <2>1, <2>2 DEF Leading
  <1>5. ASSUME NEW x, Leading(x), x \in Frames
        PROVE  Leading(target[x]) /\ cont[target[x]] = x
    <2> DEFINE k == cont[x]
    <2>1. x \in Coroutines /\ x \in Futures /\ k \in Frames /\ k # Null /\ target[k] = x /\ Suspended(k)
      BY <1>0, <1>5, Names DEF Leading
    <2>2. frame[x] = "live" /\ outer[x] = k
      BY <1>1, <2>1 DEF Links, OuterOK
    <2>3. Suspended(x) /\ target[x] \in Futures /\ cont[target[x]] = x
      BY <1>1, <1>5, <2>2 DEF Links, WaitsOK
    <2>4. awaited[k] = awaited[x]
      BY <1>1, <1>5, <2>1 DEF Links, SeesOK, Sees
    <2>5. Root \in Up(x)
      <3>1. x \in Up(x) /\ Closed(Up(x), outer)
        BY <1>5, UpIs
      <3>2. k \in Up(x)
        BY <1>5, <2>1, <2>2, <3>1 DEF Closed
      <3>3. Up(k) \subseteq Up(x)
        BY <2>1, <3>1, <3>2, UpIs
      <3> QED
        BY <1>5, <3>3 DEF Leading
    <2> QED
      BY <1>5, <2>3, <2>4, <2>5 DEF Leading
  <1>6. \A i \in 0 .. n : Leading(e[i])
    <2> DEFINE Bad == {i \in 0 .. n : ~Leading(e[i])}
    <2>1. SUFFICES ASSUME Bad # {} PROVE FALSE
      BY Zenon
    <2>2. Bad \subseteq Nat
      BY <1>0
    <2>3. PICK i \in Bad : \A j \in Bad : i <= j
      <3> HIDE DEF Bad
      <3> QED
        BY <2>1, <2>2, Least
    <2>4. i \in 0 .. n /\ ~Leading(e[i])
      BY <2>3
    <2>5. i # 0
      BY <1>0, <1>3, <1>4, <2>4
    <2>6. i - 1 \in 0 .. n /\ ~(i <= i - 1)
      BY <1>0, <2>4, <2>5
    <2>7. Leading(e[i - 1])
      BY <2>3, <2>6
    <2>8. e[i] = Follow(e[i - 1])
      BY <1>3, <2>4, <2>5
    <2> QED
      BY <1>5, <2>4, <2>7, <2>8 DEF Follow
  <1>7. \A i \in 0 .. n : i # 0 /\ e[i - 1] \in Frames => cont[e[i]] = e[i - 1]
    <2> SUFFICES ASSUME NEW i \in 0 .. n, i # 0, e[i - 1] \in Frames PROVE cont[e[i]] = e[i - 1]
      OBVIOUS
    <2>1. i - 1 \in 0 .. n
      BY <1>0
    <2>2. e[i] = target[e[i - 1]] /\ Leading(e[i - 1])
      BY <1>3, <1>6, <2>1 DEF Follow
    <2> QED
      BY <1>5, <2>2
  <1>8. e[n] \notin Frames
    <2> SUFFICES ASSUME e[n] \in Frames PROVE FALSE
      OBVIOUS
    <2>1. \A i \in 0 .. n : e[i] \in Frames
      <3> DEFINE Bad == {d \in 0 .. n : e[n - d] \notin Frames}
      <3>1. SUFFICES ASSUME Bad # {} PROVE FALSE
        <4>1. \A i \in 0 .. n : n - i \in 0 .. n /\ n - (n - i) = i
          BY <1>0
        <4> SUFFICES ASSUME Bad = {}, NEW i \in 0 .. n PROVE e[i] \in Frames
          OBVIOUS
        <4>2. n - i \notin Bad /\ n - i \in 0 .. n /\ n - (n - i) = i
          BY <4>1
        <4> QED
          BY <4>2
      <3>2. Bad \subseteq Nat
        BY <1>0
      <3>3. PICK d \in Bad : \A j \in Bad : d <= j
        <4> HIDE DEF Bad
        <4> QED
          BY <3>1, <3>2, Least
      <3>4. d \in 0 .. n /\ e[n - d] \notin Frames
        BY <3>3
      <3>5. d # 0
        BY <1>0, <3>4
      <3>6. /\ d - 1 \in 0 .. n /\ ~(d <= d - 1) /\ n - (d - 1) \in 0 .. n /\ n - (d - 1) # 0
            /\ (n - (d - 1)) - 1 = n - d
        BY <1>0, <3>4, <3>5
      <3>7. e[n - (d - 1)] \in Frames
        BY <3>3, <3>6
      <3>8. e[n - (d - 1)] = Follow(e[n - d])
        BY <1>3, <3>6
      <3> QED
        BY <3>4, <3>7, <3>8 DEF Follow
    <2> DEFINE Twice == {i \in 0 .. n : \E j \in 0 .. n : i < j /\ e[i] = e[j]}
    <2>2. Twice # {}
      <3> DEFINE t == [k \in 0 .. n |-> e[k]]
      <3>1. t \in [0 .. n -> Frames]
        BY <2>1
      <3>2. IsFiniteSet(0 .. n) /\ Cardinality(Frames) < Cardinality(0 .. n)
        <4>1. IsFiniteSet(0 .. n) /\ Cardinality(0 .. n) = IF 0 > n THEN 0 ELSE n - 0 + 1
          BY <1>0, FS_Interval
        <4>2. Cardinality(0 .. n) = n + 1 /\ n < n + 1 /\ Cardinality(Frames) = n
          BY <1>0, <4>1 DEF n
        <4> QED
          BY <4>1, <4>2
      <3>3. PICK y \in 0 .. n, z \in 0 .. n : y # z /\ t[y] = t[z]
        <4>1. IsFiniteSet(Frames)
          BY <1>0
        <4> HIDE DEF t
        <4> QED
          BY <4>1, <3>1, <3>2, FS_PigeonHole, ZenonT(60)
      <3>4. e[y] = e[z]
        BY <3>3
      <3>5. y < z \/ z < y
        BY <1>0, <3>3
      <3> QED
        BY <3>4, <3>5
    <2>3. Twice \subseteq Nat
      BY <1>0
    <2>4. PICK i \in Twice : \A k \in Twice : i <= k
      <3> HIDE DEF Twice
      <3> QED
        BY <2>2, <2>3, Least
    <2>5. PICK j \in 0 .. n : i \in 0 .. n /\ i < j /\ e[i] = e[j]
      BY <2>4
    <2>6. j # 0 /\ j - 1 \in 0 .. n
      BY <1>0, <2>5
    <2>7. cont[e[j]] = e[j - 1] /\ e[j - 1] \in Futures
      BY <1>6, <1>7, <2>1, <2>6 DEF Leading
    <2>8. CASE i = 0
      <3>1. cont[e[i]] = Root
        BY <1>0, <1>3, <1>4, <2>5, <2>8
      <3> QED
        BY <1>0, <2>5, <2>7, <3>1
    <2>9. CASE i # 0
      <3>1. i - 1 \in 0 .. n /\ i - 1 < j - 1 /\ ~(i <= i - 1)
        BY <1>0, <2>5, <2>6, <2>9
      <3>2. cont[e[i]] = e[i - 1]
        BY <1>7, <2>1, <2>5, <2>9, <3>1
      <3>3. e[i - 1] = e[j - 1]
        BY <2>5, <2>7, <3>2
      <3>4. i - 1 \in Twice
        BY <2>6, <3>1, <3>3
      <3> QED
        BY <2>4, <3>1, <3>4
    <2> QED
      BY <2>8, <2>9
  <1>9. Leading(e[n])
    BY <1>0, <1>6
  <1>10. e[n] \in Leaves
    BY <1>8, <1>9, Names DEF Leading
  <1>11. awaited[Root] = e[n]
    BY <1>1, <1>8, <1>9 DEF Leading, Links, SeesOK, Sees
  <1> QED
    BY <1>2, <1>9, <1>10, <1>11

\* The drain resumes a coroutine that behavior() is above.
LEMMA DrainLinked ==
  ASSUME Inv, Linked, Drain
  PROVE  Linked'
  <1> DEFINE l == awaited[Root]
             g == cont[l]
  <1>1. /\ stack = <<>> /\ frame[Root] = "live" /\ step' = "resume"
        /\ stack' = <<g>> /\ cont' = [cont EXCEPT ![l] = Null]
        /\ UNCHANGED <<frame, target, holder, settled, awaited, outer>>
    BY DEF Drain, Unregistered
  <1>2. l \in Leaves /\ Leading(l)
    BY <1>1, Descent
  <1>3. Links
    BY <1>1 DEF Linked
  <1>4. l \in Futures /\ g \in Frames /\ Root \in Up(g) /\ l \notin Coroutines
    BY <1>2, Names DEF Leading
  <1> HIDE DEF l, g
  <1>5. cont[l] = g
    BY DEF g
  <1>6. \A y \in Futures : y # l => cont'[y] = cont[y]
    BY <1>1 DEF Inv, TypeOK
  <1>7. \A h \in Frames : Suspended(h)' => Suspended(h) /\ cont'[target[h]] = cont[target[h]]
    <2> SUFFICES ASSUME NEW h \in Frames, Suspended(h)' PROVE Suspended(h) /\ cont'[target[h]] = cont[target[h]]
      OBVIOUS
    <2>1. Suspended(h)
      BY <1>1 DEF Suspended, OnStack
    <2>2. h # g
      <3>1. 1 \in DOMAIN stack' /\ stack'[1] = g
        BY <1>1
      <3>2. h = g => OnStack(h)'
        BY <3>1 DEF OnStack
      <3> QED
        BY <3>2 DEF Suspended
    <2>3. target[h] \in Futures /\ cont[target[h]] = h
      BY <1>3, <2>1 DEF Links, WaitsOK
    <2> QED
      BY <1>5, <1>6, <2>1, <2>2, <2>3
  <1>8. \A x \in Coroutines :
          /\ cont'[x] # Null => frame'[x] = "live" /\ outer[x] = cont'[x]
          /\ frame'[x] = "live" /\ outer[x] # Null => cont'[x] = outer[x]
    <2> SUFFICES ASSUME NEW x \in Coroutines
                 PROVE  /\ cont'[x] # Null => frame[x] = "live" /\ outer[x] = cont'[x]
                        /\ frame[x] = "live" /\ outer[x] # Null => cont'[x] = outer[x]
      BY <1>1
    <2>1. cont'[x] = cont[x]
      BY <1>4, <1>6, Names
    <2>2. ~Executes(outer[x])
      BY <1>1 DEF Executes
    <2> QED
      BY <1>3, <2>1, <2>2 DEF Links, OuterOK
  <1>9. RootUp'
    <2>1. Up(g) = Above(outer, g) /\ Up(stack[1])' = Above(outer', stack'[1])
      BY DEF Up, Above
    <2>2. stack'[1] = g /\ outer' = outer
      BY <1>1
    <2> QED
      BY <1>4, <2>1, <2>2 DEF RootUp
  <1>10. Links'
    BY <1>1, <1>7, <1>8, <1>9, Moved
  <1>11. SettledOK' /\ OuterNone'
    BY <1>1 DEF Linked, SettledOK, OuterNone
  <1> QED
    BY <1>10, <1>11 DEF Linked

\* behavior() starts: nobody awaits anything yet.
LEMMA BehaveLinked ==
  ASSUME Inv, Inv', Linked, Behave
  PROVE  Linked'
  <1>1. /\ frame[Root] = "none" /\ stack = <<>>
        /\ \A x \in Futures : cont[x] = Null /\ holder[x] = Null
    BY DEF Inv, QueuedOK, Behave
  <1>2. /\ frame' = [frame EXCEPT ![Root] = "live"] /\ stack' = <<Root>> /\ step' = "body"
        /\ UNCHANGED <<target, settled, cont, awaited, outer>>
    BY DEF Behave, chainVars
  <1>3. \A x \in Coroutines : frame[x] = "none" /\ frame'[x] = "none" /\ outer[x] = Null /\ cont[x] = Null
    <2>1. \A x \in Coroutines : frame[x] = "none" /\ x \in Frames /\ x # Root /\ x \in Futures
      BY <1>1, Names DEF Inv, BornOK
    <2>2. \A x \in Coroutines : frame'[x] = frame[x]
      BY <1>2, <2>1 DEF Inv, TypeOK
    <2> QED
      BY <1>1, <2>1, <2>2 DEF Linked, OuterNone
  <1>4. 1 \in DOMAIN stack' /\ stack'[1] = Root /\ Root \in Frames
    BY <1>2, Names
  <1>5. \A h \in Frames : ~Suspended(h)'
    <2> SUFFICES ASSUME NEW h \in Frames, Suspended(h)' PROVE FALSE
      OBVIOUS
    <2>1. h # Root
      BY <1>4 DEF Suspended, OnStack
    <2> QED
      BY <1>3, <2>1, Names DEF Suspended
  <1>6. WaitsOK' /\ SeesOK' /\ NullOK'
    BY <1>5, Names DEF WaitsOK, SeesOK, NullOK
  <1>7. OuterOK'
    BY <1>2, <1>3 DEF OuterOK
  <1>8. TopOK'
    BY <1>2 DEF TopOK, Suspending
  <1>9. RootUp'
    <2>1. outer' \in [Frames -> Frames \cup {Null}]
      BY DEF Inv, TypeOK
    <2>2. Up(stack[1])' = Above(outer', stack'[1])
      BY DEF Up, Above
    <2>3. Root \in Above(outer', Root)
      BY <1>4, <2>1, AboveIs
    <2> QED
      BY <1>4, <2>2, <2>3 DEF RootUp
  <1>10. SettledOK' /\ OuterNone'
    BY <1>2, <1>3 DEF Linked, SettledOK, OuterNone
  <1> QED
    BY <1>6, <1>7, <1>8, <1>9, <1>10 DEF Linked, Links

\* When behavior()'s frame ends or goes, its chain is of no more interest.
LEMMA RootEndsLinked ==
  ASSUME Inv, Linked, BehaviorEnds \/ DestroyActor
  PROVE  Linked'
  <1>1. UNCHANGED <<settled, outer>>
    BY DEF BehaviorEnds, DestroyActor, chainVars
  <1>2. /\ frame'[Root] # "live"
        /\ \A x \in Coroutines : /\ frame'[x] = "none" <=> frame[x] = "none"
                                 /\ frame'[x] = "live" <=> frame[x] = "live"
    <2>1. CASE BehaviorEnds
      <3>1. frame' = [frame EXCEPT ![Root] = "done"]
        BY <2>1 DEF BehaviorEnds
      <3> QED
        BY <3>1, Names DEF Inv, TypeOK
    <2>2. CASE DestroyActor
      <3>1. frame' = [f \in Frames |->
                        IF \/ f = Root
                           \/ f \in Futures /\ holder[f] = Root /\ frame[f] = "done"
                          THEN "destroyed" ELSE frame[f]]
        BY <2>2 DEF DestroyActor
      <3> QED
        BY <3>1, Names
    <2> QED
      BY <2>1, <2>2
  <1>3. SettledOK'
    BY <1>1, <1>2 DEF Linked, SettledOK
  <1>4. OuterNone'
    BY <1>1, <1>2 DEF Linked, OuterNone
  <1> QED
    BY <1>2, <1>3, <1>4 DEF Linked

\* Every step keeps the chains.
LEMMA NextLinked ==
  ASSUME Inv, Inv', Linked, [Next]_vars
  PROVE  Linked'
  <1>0. /\ \A l \in Leaves : l \in Futures /\ l \notin Coroutines
        /\ \A m \in Methods : m \in Coroutines
        /\ Dispatch \in Coroutines /\ Dispatch \in Frames
    BY Names DEF Coroutines
  <1>1. CASE Behave
    BY <1>1, BehaveLinked
  <1>2. ASSUME NEW f \in Frames, NEW m \in Methods, CallMethod(f, m) PROVE Linked'
    BY <1>2, CallMethodLinked
  <1>3. ASSUME NEW f \in Frames, NEW l \in Leaves, Send(f, l) PROVE Linked'
    <2>1. UNCHANGED <<frame, stack, step, target, settled, cont, awaited, outer>>
      BY <1>3 DEF Send, chainVars
    <2> QED
      BY <2>1, LinkedSame
  <1>4. ASSUME NEW f \in Frames, NEW x \in Futures, DropFuture(f, x) PROVE Linked'
    <2>1. holder[x] = f /\ Release(x) /\ UNCHANGED <<stack, step, target, settled, cont, awaited, outer>>
      BY <1>4 DEF DropFuture, chainVars
    <2>2. /\ \A g \in Frames : frame[g] = "live" <=> frame'[g] = "live"
          /\ \A g \in Frames : frame[g] = "none" <=> frame'[g] = "none"
      BY <2>1, Released
    <2> QED
      BY <2>1, <2>2, LinkedSame
  <1>5. ASSUME NEW f \in Frames, NEW x \in Futures, Await(f, x) PROVE Linked'
    BY <1>5, AwaitLinked
  <1>6. ASSUME NEW f \in Frames, AwaitReady(f) \/ Register(f) \/ Recheck(f) \/ AwaitResume(f) PROVE Linked'
    BY <1>6, AwaitReadyLinked, RegisterLinked, RecheckLinked, AwaitResumeLinked
  <1>7. ASSUME NEW m \in Methods, CallDispatch(m) PROVE Linked'
    BY <1>7, CallDispatchLinked
  <1>8. ASSUME NEW m \in Methods, MethodEnds(m) PROVE Linked'
    BY <1>0, <1>8, EndsLinked DEF MethodEnds
  <1>9. CASE DispatchEnds
    BY <1>0, <1>9, EndsLinked DEF DispatchEnds
  <1>10. CASE SettleResult \/ MessageGuardEnds \/ UNCHANGED vars
    <2>1. UNCHANGED <<frame, stack, step, target, settled, cont, awaited, outer>>
      BY <1>10 DEF SettleResult, MessageGuardEnds, vars, chainVars
    <2> QED
      BY <2>1, LinkedSame
  <1>11. CASE BehaviorEnds \/ DestroyActor
    BY <1>11, RootEndsLinked
  <1>12. CASE Drain
    BY <1>12, DrainLinked
  <1>13. ASSUME NEW l \in Leaves, Leaf(l) PROVE Linked'
    <2>1. UNCHANGED <<frame, stack, step, target, cont, awaited, outer>>
      BY <1>13 DEF Leaf, SetLeaf, ReleaseLeaf
    <2>2. PICK v \in {"set", "released"} : settled' = [settled EXCEPT ![l] = v]
      BY <1>13 DEF Leaf, SetLeaf, ReleaseLeaf
    <2>3. /\ \A x \in Futures : settled'[x] = "pending" => settled[x] = "pending"
          /\ \A x \in Coroutines : settled'[x] = settled[x]
      BY <1>0, <2>2, Names DEF Inv, TypeOK
    <2> QED
      BY <2>1, <2>3, LinkedSame
  <1> QED
    BY <1>1, <1>2, <1>3, <1>4, <1>5, <1>6, <1>7, <1>8, <1>9, <1>10, <1>11, <1>12, <1>13
       DEF Next, Resume, Body

\* The chains of co_awaits stay as the invariant has them, for any number of
\* coroutines and leaves.
THEOREM ChainsLinked == Spec => []Linked
  <1>1. Init => Linked
    <2> SUFFICES ASSUME Init PROVE Linked
      OBVIOUS
    <2>1. \A x \in Coroutines : x \in Frames /\ x \in Futures
      BY Names
    <2> QED
      BY <2>1, Names DEF Init, Linked, SettledOK, OuterNone
  <1>2. Inv /\ Inv' /\ Linked /\ [Next]_vars => Linked'
    BY NextLinked
  <1> QED
    BY <1>1, <1>2, ChainInvariant, PTL DEF Spec

\* await_suspend() and the three that take a continuation, the second look, the
\* producer's end and the drain: a coroutine that has suspended is registered where
\* it is awaited, nobody that runs is, and a co_await ends with a result.
THEOREM ResumedByOne == Spec => []ResumedOnce
  <1>1. Inv /\ Linked => ResumedOnce
    <2> SUFFICES ASSUME Inv, Linked PROVE ResumedOnce
      OBVIOUS
    <2>1. IsInjective(stack)
      BY DEF Inv, StackOK, IsInjective
    <2>2. \A f : f \in Range(stack) <=> OnStack(f)
      BY DEF Range, OnStack
    <2>3. ASSUME step = "resume" PROVE HasResult(target[Last(stack)])
      <3>1. stack # <<>> /\ Executes(Last(stack)) /\ Last(stack) \in Frames
        BY <2>3, Top DEF Inv, AwaitOK, Executes
      <3> QED
        BY <2>3, <3>1 DEF Inv, MethodOK, HasResult
    <2>4. ASSUME frame[Root] = "live", NEW f \in Frames, frame[f] = "live", f \notin Range(stack)
          PROVE  target[f] # Null /\ cont[target[f]] = f
      BY <2>2, <2>4, Names DEF Linked, Links, WaitsOK, Suspended
    <2>5. ASSUME frame[Root] = "live", NEW x \in Futures, cont[x] # Null
          PROVE  /\ target[cont[x]] = x
                 /\ cont[x] \in Range(stack) => Executes(cont[x]) /\ step = "recheck"
      BY <2>2, <2>5 DEF Inv, ContOK
    <2> QED
      BY <2>1, <2>3, <2>4, <2>5 DEF ResumedOnce
  <1> QED
    BY <1>1, ChainInvariant, ChainsLinked, PTL

\* When the thread has left a suspended behavior, the root points at the leaf its
\* co_awaits lead to, however many coroutines there are between; the leaf's state is
\* held, and its continuation is the coroutine that awaits it: propagate_awaited_state()
\* and clear_awaited_chain() never leave the drain with a stale or missing pointer.
THEOREM DrainHasLeaf == Spec => []DrainFindsLeaf
  <1>1. Inv /\ Linked => DrainFindsLeaf
    <2> SUFFICES ASSUME Inv, Linked, stack = <<>>, frame[Root] = "live"
                 PROVE  /\ awaited[Root] = ChainEnd(Root) /\ awaited[Root] \in Leaves
                        /\ holder[awaited[Root]] \in Frames
                        /\ target[cont[awaited[Root]]] = awaited[Root]
      BY DEF DrainFindsLeaf
    <2>1. awaited[Root] = ChainEnd(Root) /\ awaited[Root] \in Leaves /\ Leading(awaited[Root])
      BY Descent
    <2> DEFINE l == awaited[Root]
    <2>2. l \in Futures /\ cont[l] \in Frames /\ cont[l] # Null /\ target[cont[l]] = l
      BY <2>1, Names DEF Leading
    <2>3. holder[l] = cont[l]
      BY <2>2 DEF Inv, ContOK
    <2> QED
      BY <2>1, <2>2, <2>3
  <1> QED
    BY <1>1, ChainInvariant, ChainsLinked, PTL

=============================================================================
