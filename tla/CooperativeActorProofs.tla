----------------------- MODULE CooperativeActorProofs -----------------------
(***************************************************************************)
(* Proofs about CooperativeActor, for every set of messages, every set of  *)
(* runners and every throughput.                                           *)
(***************************************************************************)
EXTENDS CooperativeActor, FiniteSetTheorems, TLAPS

-----------------------------------------------------------------------------
(* The first invariant: types, the frame of a runner, the sender count,    *)
(* exclusion and the destructor's progress.                                *)

\* The loop counter is below its bound wherever it can still grow, and a
\* message is held exactly where one is dispatched.
FrameOK ==
    \A r \in Runners :
        /\ pc[r] \notin {"park", "window", "release", "return"} =>
             handled[r] < MaxThroughput[r]
        /\ pc[r] \in {"dispatch", "behave"} => current[r] \in Messages

InFlightCalls == {m \in Messages : call[m] \in InFlight}

\* The count in the word is the number of calls past the gate.
SendersCounted == state.senders = Cardinality(InFlightCalls)

\* `destroying` tells how far the destructor is, nobody starts a resume() once
\* it is published, and the mailbox is closed by the last step only.
DtorOK ==
    /\ state.destroying <=> dtor # "alive"
    /\ dtor # "alive" => stopped /\ \A r \in Runners : pc[r] # "start"
    /\ inbox.tag = "closed" => dtor = "gone"
    /\ QuietAfterDrain

Inv1 ==
    /\ TypeOK
    /\ FrameOK
    /\ SendersCounted
    /\ RunnerExclusion
    /\ DtorOK

\* The part of the type invariant that a step of resume() moves.
RunnerTypes ==
    /\ pc \in [Runners -> Inside \cup {"idle", "start", "return", "again"}]
    /\ verdict \in [Runners -> {"none", "resume", "awaiting", "done"}]
    /\ keep \in [Runners -> BOOLEAN]

\* The messages are finite, so the calls in flight can be counted.
LEMMA InFlightFinite ==
  IsFiniteSet(InFlightCalls) /\ Cardinality(InFlightCalls) \in Nat
  BY ConstantsAssumption, FS_Subset, FS_CardinalityType DEF InFlightCalls

\* A freshly constructed actor: an idle word, an empty mailbox, nobody in it.

\* A new actor has nobody inside and nothing in its word.
LEMMA InitInv1 == Init => Inv1
  <1> SUFFICES ASSUME Init PROVE Inv1
    OBVIOUS
  <1> MaxThroughput \in [Runners -> Nat \ {0}] /\ MaxAwaits \in Nat
    BY ConstantsAssumption DEF ConstantsAssumption
  <1>0. 0 \in Nat /\ 0 \in 0 .. MaxAwaits /\ \A r \in Runners : 0 < MaxThroughput[r] /\ 0 <= MaxThroughput[r]
    OBVIOUS
  <1>1. TypeOK /\ FrameOK
    <2>1. /\ handled = [r \in Runners |-> 0]
          /\ handled \in [Runners -> Nat] /\ \A r \in Runners : handled[r] = 0
      BY DEF Init
    <2>2. \A r \in Runners : handled[r] <= MaxThroughput[r] /\ handled[r] < MaxThroughput[r]
      BY <1>0, <2>1
    <2>3. FrameOK
      BY <2>2 DEF Init, FrameOK
    <2> QED
      BY <1>0, <2>1, <2>2, <2>3 DEF Init, TypeOK, Inside, Settled, Quiet
  <1>2. SendersCounted
    <2>1. InFlightCalls = {}
      BY DEF Init, InFlightCalls, InFlight
    <2> QED
      BY <2>1, FS_EmptySet DEF Init, SendersCounted
  <1>3. RunnerExclusion /\ DtorOK
    BY DEF Init, RunnerExclusion, DtorOK, QuietAfterDrain, Quiet, Inside
  <1> QED
    BY <1>1, <1>2, <1>3 DEF Inv1

\* No step leaves the types: the sender count stays natural because a call that
\* leaves is one of those counted, the loop counter because the loop stops at
\* max_throughput, the suspensions because they are bounded.
LEMMA NextTypes == Inv1 /\ [Next]_vars => (TypeOK /\ FrameOK)'
  <1> SUFFICES ASSUME Inv1, [Next]_vars PROVE (TypeOK /\ FrameOK)'
    OBVIOUS
  <1> USE DEF Inv1
  <1> MaxThroughput \in [Runners -> Nat \ {0}] /\ MaxAwaits \in Nat
    BY ConstantsAssumption DEF ConstantsAssumption
  <1>1. ASSUME NEW m \in Messages, EnqueueGate(m) PROVE (TypeOK /\ FrameOK)'
    BY <1>1 DEF EnqueueGate, TypeOK, FrameOK, Inside, Settled, Quiet
  <1>2. ASSUME NEW m \in Messages, PushBack(m) PROVE (TypeOK /\ FrameOK)'
    BY <1>2 DEF PushBack, TypeOK, FrameOK, Inside, Settled, Quiet
  <1>3. ASSUME NEW m \in Messages, LeaveAndMaybeSchedule(m)
        PROVE  (TypeOK /\ FrameOK)'
    <2>1. m \in InFlightCalls
      BY <1>3 DEF LeaveAndMaybeSchedule, TypeOK, InFlightCalls, InFlight
    <2>2. Cardinality(InFlightCalls) # 0
      BY <2>1, InFlightFinite, FS_EmptySet
    <2>3. state.senders - 1 \in Nat
      BY <2>2, InFlightFinite DEF SendersCounted
    <2>4. state'.senders = state.senders - 1
      BY <1>3 DEF LeaveAndMaybeSchedule, SubSender, TypeOK
    <2>5. state' \in [scheduled : BOOLEAN, running : BOOLEAN,
                      destroying : BOOLEAN, senders : Nat]
      BY <1>3, <2>3, <2>4 DEF LeaveAndMaybeSchedule, ScheduledAfterLeave, Claims,
         TypeOK
    <2> QED
      BY <1>3, <2>5 DEF LeaveAndMaybeSchedule, TypeOK, FrameOK
  <1>4. ASSUME NEW m \in Messages, SchedulerEnqueue(m)
        PROVE  (TypeOK /\ FrameOK)'
    BY <1>4 DEF SchedulerEnqueue, TypeOK, FrameOK, Inside, Settled, Quiet
  <1>5. ASSUME NEW r \in Runners, WorkerDequeue(r) PROVE (TypeOK /\ FrameOK)'
    BY <1>5 DEF WorkerDequeue, actorVars, frameVars, ownerVars, TypeOK,
       FrameOK, Inside, Settled, Quiet
  <1>6. ASSUME NEW r \in Runners, DriverCall(r) PROVE (TypeOK /\ FrameOK)'
    BY <1>6 DEF DriverCall, actorVars, frameVars, ownerVars, TypeOK, FrameOK,
       Inside, Settled, Quiet
  <1>7. ASSUME NEW r \in Runners, TryAcquireRunning(r)
        PROVE  (TypeOK /\ FrameOK)'
    <2>1. RunnerTypes'
      BY <1>7 DEF TryAcquireRunning, FreeToRun, RunnerTypes, TypeOK, Inside
    <2>2. FrameOK'
      BY <1>7 DEF TryAcquireRunning, FreeToRun, TypeOK, FrameOK, Inside
    <2>3. state' \in [scheduled : BOOLEAN, running : BOOLEAN,
                    destroying : BOOLEAN, senders : Nat]
      BY <1>7 DEF TryAcquireRunning, TypeOK
    <2> QED
      BY <1>7, <2>1, <2>2, <2>3 DEF TryAcquireRunning, FreeToRun, RunnerTypes,
         TypeOK, Settled
  <1>8. ASSUME NEW r \in Runners, ResumeEntry(r) PROVE (TypeOK /\ FrameOK)'
    <2>1. RunnerTypes'
      BY <1>8 DEF ResumeEntry, actorVars, frameVars, ownerVars, Goto,
         Finalize, RunnerTypes, TypeOK, Inside
    <2>2. FrameOK'
      BY <1>8 DEF ResumeEntry, actorVars, frameVars, ownerVars, Goto,
         Finalize, TypeOK, FrameOK, Inside
    <2> QED
      BY <1>8, <2>1, <2>2 DEF ResumeEntry, actorVars, frameVars, ownerVars,
         Goto, Finalize, RunnerTypes, TypeOK, Settled
  <1>9. ASSUME NEW r \in Runners, TryUnblock(r) PROVE (TypeOK /\ FrameOK)'
    BY <1>9 DEF TryUnblock, Unblocked, Goto, TypeOK, FrameOK, Inside, Settled,
       Quiet
  <1>10. ASSUME NEW r \in Runners, DrainBehavior(r) PROVE (TypeOK /\ FrameOK)'
    <2>1. RunnerTypes'
      BY <1>10 DEF DrainBehavior, DrainDone, DrainBusy, Goto, Finalize,
         RunnerTypes, TypeOK, Inside
    <2>2. FrameOK'
      BY <1>10 DEF DrainBehavior, DrainDone, DrainBusy, Goto, Finalize, TypeOK,
         FrameOK, Inside
    <2>3. awaits' \in 0 .. MaxAwaits
      <3>1. awaits \in 0 .. MaxAwaits
        BY DEF TypeOK
      <3>2. awaits' = awaits \/ (awaits < MaxAwaits /\ awaits' = awaits + 1)
        BY <1>10 DEF DrainBehavior, DrainDone, DrainBusy
      <3> QED
        BY <3>1, <3>2
    <2>4. fate' \in [Messages -> {"unsent", "accepted", "active"} \cup Settled]
      <3>1. \/ fate' = fate
            \/ fate' = [m \in Messages |->
                          IF m = behavior THEN "handled" ELSE fate[m]]
        BY <1>10 DEF DrainBehavior, DrainDone, DrainBusy
      <3> QED
        BY <3>1 DEF TypeOK, Settled
    <2>5. behavior' \in Messages \cup {NoMessage} /\ awaited' \in BOOLEAN
      BY <1>10 DEF DrainBehavior, DrainDone, DrainBusy, TypeOK
    <2> QED
      BY <1>10, <2>1, <2>2, <2>3, <2>4, <2>5 DEF DrainBehavior, RunnerTypes,
         TypeOK
  <1>11. ASSUME NEW r \in Runners, CheckMailbox(r) PROVE (TypeOK /\ FrameOK)'
    <2>1. RunnerTypes'
      BY <1>11 DEF CheckMailbox, FetchMore, Goto, Finalize, RunnerTypes,
         TypeOK, Inside
    <2>2. FrameOK'
      BY <1>11 DEF CheckMailbox, FetchMore, Goto, Finalize, TypeOK, FrameOK,
         Inside
    <2> QED
      BY <1>11, <2>1, <2>2 DEF CheckMailbox, FetchMore, Goto, Finalize,
         RunnerTypes, TypeOK, Settled
  <1>12. ASSUME NEW r \in Runners, LoopHead(r) PROVE (TypeOK /\ FrameOK)'
    <2>1. RunnerTypes'
      BY <1>12 DEF LoopHead, actorVars, frameVars, ownerVars, Goto, Finalize,
         RunnerTypes, TypeOK, Inside
    <2>2. FrameOK'
      BY <1>12 DEF LoopHead, actorVars, frameVars, ownerVars, Goto, Finalize,
         TypeOK, FrameOK, Inside
    <2> QED
      BY <1>12, <2>1, <2>2 DEF LoopHead, actorVars, frameVars, ownerVars, Goto,
         Finalize, RunnerTypes, TypeOK, Settled
  <1>13. ASSUME NEW r \in Runners, PopFront(r) PROVE (TypeOK /\ FrameOK)'
    <2>1. RunnerTypes'
      BY <1>13 DEF PopFront, Goto, Finalize, RunnerTypes, TypeOK, Inside
    <2>2. FrameOK'
      BY <1>13 DEF PopFront, Goto, Finalize, TypeOK, FrameOK, Inside
    <2> QED
      BY <1>13, <2>1, <2>2 DEF PopFront, Goto, Finalize, RunnerTypes, TypeOK,
         Settled
  <1>14. ASSUME NEW r \in Runners, Dispatch(r) PROVE (TypeOK /\ FrameOK)'
    BY <1>14 DEF Dispatch, NextIteration, StillBusy, actorVars, frameVars,
       ownerVars, Goto, Finalize, TypeOK, FrameOK, Inside, Settled, Quiet
  <1>15. ASSUME NEW r \in Runners, BehaviorReturns(r)
         PROVE  (TypeOK /\ FrameOK)'
    <2>1. RunnerTypes'
      BY <1>15, ZenonT(40) DEF BehaviorReturns, NextIteration, StillBusy, Goto, Finalize,
         RunnerTypes, TypeOK, Inside
    <2>2. FrameOK'
      BY <1>15 DEF BehaviorReturns, NextIteration, StillBusy, Goto, Finalize,
         TypeOK, FrameOK, Inside
    <2>3. awaits' \in 0 .. MaxAwaits
      <3>1. awaits \in 0 .. MaxAwaits
        BY DEF TypeOK
      <3>2. awaits' = awaits \/ (awaits < MaxAwaits /\ awaits' = awaits + 1)
        BY <1>15 DEF BehaviorReturns
      <3> QED
        BY <3>1, <3>2
    <2>4. /\ fate' \in [Messages -> {"unsent", "accepted", "active"} \cup Settled]
          /\ behavior' \in Messages \cup {NoMessage}
          /\ awaited' \in BOOLEAN
      <3>1. current[r] \in Messages
        BY <1>15 DEF BehaviorReturns, FrameOK
      <3>2. \/ /\ fate' = [fate EXCEPT ![current[r]] = "handled"]
               /\ behavior' = behavior /\ awaited' = awaited
            \/ fate' = fate /\ behavior' = current[r] /\ awaited' = FALSE
        BY <1>15 DEF BehaviorReturns
      <3> QED
        BY <3>1, <3>2 DEF TypeOK, Settled
    <2>5. handled' \in [Runners -> Nat] /\ \A q \in Runners : handled'[q] <= MaxThroughput[q]
      <3>1. handled[r] \in Nat /\ handled[r] < MaxThroughput[r] /\ MaxThroughput[r] \in Nat
        BY <1>15 DEF BehaviorReturns, TypeOK, FrameOK
      <3>2. handled' = [handled EXCEPT ![r] = @ + 1]
        BY <1>15 DEF BehaviorReturns, NextIteration
      <3> QED
        BY <3>1, <3>2 DEF TypeOK
    <2>6. current' \in [Runners -> Messages \cup {NoMessage}]
      BY <1>15 DEF BehaviorReturns, NextIteration, TypeOK
    <2> QED
      BY <1>15, <2>1, <2>2, <2>3, <2>4, <2>5, <2>6 DEF BehaviorReturns,
         RunnerTypes, TypeOK
  <1>16. ASSUME NEW r \in Runners, Park(r) PROVE (TypeOK /\ FrameOK)'
    <2>1. RunnerTypes'
      BY <1>16 DEF Park, NothingLeft, Goto, Finalize, RunnerTypes, TypeOK, Inside
    <2>2. FrameOK'
      BY <1>16 DEF Park, NothingLeft, Goto, Finalize, TypeOK, FrameOK, Inside
    <2> QED
      BY <1>16, <2>1, <2>2 DEF Park, NothingLeft, Goto, Finalize, RunnerTypes, TypeOK,
         Settled
  <1>17. ASSUME NEW r \in Runners, CheckRaceWindow(r)
         PROVE  (TypeOK /\ FrameOK)'
    <2>1. RunnerTypes'
      BY <1>17 DEF CheckRaceWindow, FetchMore, WindowVerdict, Goto, Finalize,
         RunnerTypes, TypeOK, Inside
    <2>2. FrameOK'
      BY <1>17 DEF CheckRaceWindow, FetchMore, WindowVerdict, Goto, Finalize,
         TypeOK, FrameOK, Inside
    <2> QED
      BY <1>17, <2>1, <2>2 DEF CheckRaceWindow, FetchMore, WindowVerdict, Goto,
         Finalize, RunnerTypes, TypeOK, Settled
  <1>18. ASSUME NEW r \in Runners, ResumeGuardRelease(r)
         PROVE  (TypeOK /\ FrameOK)'
    BY <1>18, ZenonT(40) DEF ResumeGuardRelease, ReportedVerdict, TypeOK, FrameOK, Inside,
       Settled, Quiet
  <1>19. ASSUME NEW r \in Runners, ReturnVerdict(r) PROVE (TypeOK /\ FrameOK)'
    BY <1>19 DEF ReturnVerdict, TypeOK, FrameOK, Inside, Settled, Quiet
  <1>20. ASSUME SettleAwaited PROVE (TypeOK /\ FrameOK)'
    BY <1>20 DEF SettleAwaited, actorVars, frameVars, ownerVars, TypeOK,
       FrameOK, Inside, Settled, Quiet
  <1>21. ASSUME StopScheduler PROVE (TypeOK /\ FrameOK)'
    BY <1>21 DEF StopScheduler, actorVars, frameVars, ownerVars, TypeOK,
       FrameOK, Inside, Settled, Quiet
  <1>22. ASSUME DtorPublish PROVE (TypeOK /\ FrameOK)'
    BY <1>22 DEF DtorPublish, actorVars, frameVars, ownerVars, TypeOK,
       FrameOK, Inside, Settled, Quiet
  <1>23. ASSUME DtorDrained PROVE (TypeOK /\ FrameOK)'
    BY <1>23 DEF DtorDrained, Busy, actorVars, frameVars, ownerVars, TypeOK,
       FrameOK, Inside, Settled, Quiet
  <1>24. ASSUME DtorTerminal PROVE (TypeOK /\ FrameOK)'
    BY <1>24 DEF DtorTerminal, actorVars, frameVars, ownerVars, TypeOK,
       FrameOK, Inside, Settled, Quiet
  <1>25. ASSUME DtorMembers PROVE (TypeOK /\ FrameOK)'
    BY <1>25 DEF DtorMembers, ClosedMessages, actorVars, frameVars, ownerVars,
       TypeOK, FrameOK, Inside, Settled, Quiet
  <1>26. CASE UNCHANGED vars
    BY <1>26 DEF vars, TypeOK, FrameOK
  <1> QED
    BY <1>1, <1>2, <1>3, <1>4, <1>5, <1>6, <1>7, <1>8, <1>9, <1>10, <1>11,
       <1>12, <1>13, <1>14, <1>15, <1>16, <1>17, <1>18, <1>19, <1>20, <1>21,
       <1>22, <1>23, <1>24, <1>25, <1>26
    DEF Next, Call, Resume, Destructor

\* add_sender() and sub_sender() keep the count equal to the number of calls
\* past the gate, and make_state() erases nobody: the drain has left none.
LEMMA NextSenders == Inv1 /\ [Next]_vars => SendersCounted'
  <1> SUFFICES ASSUME Inv1, [Next]_vars PROVE SendersCounted'
    OBVIOUS
  <1> USE DEF Inv1
  <1>1. ASSUME NEW m \in Messages, EnqueueGate(m) PROVE SendersCounted'
    <2>1. CASE state.destroying
      <3>1. InFlightCalls' = InFlightCalls
        BY <1>1, <2>1 DEF EnqueueGate, TypeOK, InFlightCalls, InFlight
      <3> QED
        BY <1>1, <2>1, <3>1 DEF EnqueueGate, SendersCounted
    <2>2. CASE ~state.destroying
      <3>1. InFlightCalls' = InFlightCalls \cup {m} /\ m \notin InFlightCalls
        BY <1>1, <2>2 DEF EnqueueGate, TypeOK, InFlightCalls, InFlight
      <3>2. Cardinality(InFlightCalls') = Cardinality(InFlightCalls) + 1
        BY <3>1, InFlightFinite, FS_AddElement
      <3> QED
        BY <1>1, <2>2, <3>2 DEF EnqueueGate, SendersCounted, TypeOK
    <2> QED
      BY <2>1, <2>2
  <1>2. ASSUME NEW m \in Messages, LeaveAndMaybeSchedule(m)
        PROVE  SendersCounted'
    <2>1. InFlightCalls' = InFlightCalls \ {m} /\ m \in InFlightCalls
      BY <1>2 DEF LeaveAndMaybeSchedule, TypeOK, InFlightCalls, InFlight
    <2>2. Cardinality(InFlightCalls') = Cardinality(InFlightCalls) - 1
      BY <2>1, InFlightFinite, FS_RemoveElement
    <2>3. state'.senders = state.senders - 1
      BY <1>2 DEF LeaveAndMaybeSchedule, SubSender, TypeOK
    <2> QED
      BY <2>2, <2>3 DEF SendersCounted
  <1>3. ASSUME DtorTerminal PROVE SendersCounted'
    <2>1. InFlightCalls' = {}
      BY <1>3 DEF DtorTerminal, DtorOK, QuietAfterDrain, Quiet, InFlightCalls
    <2> QED
      BY <1>3, <2>1, FS_EmptySet DEF DtorTerminal, SendersCounted
  <1>4. ASSUME NEW m \in Messages, PushBack(m) \/ SchedulerEnqueue(m)
        PROVE  SendersCounted'
    <2>1. InFlightCalls' = InFlightCalls /\ state' = state
      BY <1>4 DEF PushBack, SchedulerEnqueue, TypeOK, InFlightCalls, InFlight
    <2> QED
      BY <2>1 DEF SendersCounted
  <1>5. ASSUME NEW r \in Runners,
               WorkerDequeue(r) \/ DriverCall(r) \/ Resume(r)
        PROVE  call' = call /\ state'.senders = state.senders
    BY <1>5 DEF WorkerDequeue, DriverCall, Resume, TryAcquireRunning, ResumeEntry,
       TryUnblock, DrainBehavior, CheckMailbox, LoopHead, PopFront, Dispatch,
       BehaviorReturns, Park, NothingLeft, CheckRaceWindow, ResumeGuardRelease, ReturnVerdict,
       actorVars, TypeOK
  <1>6. ASSUME SettleAwaited \/ StopScheduler \/ DtorPublish \/ DtorDrained
               \/ DtorMembers \/ UNCHANGED vars
        PROVE  call' = call /\ state'.senders = state.senders
    BY <1>6 DEF SettleAwaited, StopScheduler, DtorPublish, DtorDrained,
       DtorMembers, vars, actorVars, TypeOK
  <1>7. call' = call /\ state'.senders = state.senders => SendersCounted'
    BY DEF SendersCounted, InFlightCalls
  <1> QED
    BY <1>1, <1>2, <1>3, <1>4, <1>5, <1>6, <1>7 DEF Next, Call, Destructor

\* try_acquire_running() sets `running` only where it was clear, every exit of
\* resume_impl() goes through ~resume_guard, and the destructor leaves its wait
\* only with no sender counted and `running` clear.
LEMMA NextExclusion == Inv1 /\ [Next]_vars => (RunnerExclusion /\ DtorOK)'
  <1> SUFFICES ASSUME Inv1, [Next]_vars PROVE (RunnerExclusion /\ DtorOK)'
    OBVIOUS
  <1> USE DEF Inv1, TypeOK, RunnerExclusion, DtorOK, QuietAfterDrain,
     InFlight, Quiet, Inside
  <1>1. ASSUME NEW m \in Messages, EnqueueGate(m)
        PROVE  (RunnerExclusion /\ DtorOK)'
    BY <1>1 DEF EnqueueGate
  <1>2. ASSUME NEW m \in Messages, PushBack(m)
        PROVE  (RunnerExclusion /\ DtorOK)'
    BY <1>2 DEF PushBack
  <1>3. ASSUME NEW m \in Messages, LeaveAndMaybeSchedule(m)
        PROVE  (RunnerExclusion /\ DtorOK)'
    BY <1>3 DEF LeaveAndMaybeSchedule, ScheduledAfterLeave, OwesEnqueue,
       Claims
  <1>4. ASSUME NEW m \in Messages, SchedulerEnqueue(m)
        PROVE  (RunnerExclusion /\ DtorOK)'
    BY <1>4 DEF SchedulerEnqueue
  <1>5. ASSUME NEW r \in Runners, WorkerDequeue(r)
        PROVE  (RunnerExclusion /\ DtorOK)'
    BY <1>5 DEF WorkerDequeue, actorVars, frameVars, ownerVars
  <1>6. ASSUME NEW r \in Runners, DriverCall(r)
        PROVE  (RunnerExclusion /\ DtorOK)'
    BY <1>6 DEF DriverCall, actorVars, frameVars, ownerVars
  <1>7. ASSUME NEW r \in Runners, TryAcquireRunning(r)
        PROVE  (RunnerExclusion /\ DtorOK)'
    <2>1. CASE state.running
      BY <1>7, <2>1 DEF TryAcquireRunning, FreeToRun
    <2>2. CASE ~state.running
      <3>1. \A q \in Runners : pc[q] \notin Inside
        BY <2>2
      <3>2. state'.running /\ \A q \in Runners : pc'[q] \in Inside <=> q = r
        BY <1>7, <2>2, <3>1 DEF TryAcquireRunning, FreeToRun
      <3>3. RunnerExclusion'
        BY <3>2
      <3>4. DtorOK'
        BY <1>7 DEF TryAcquireRunning
      <3> QED
        BY <3>3, <3>4
    <2> QED
      BY <2>1, <2>2
  <1>8. ASSUME NEW r \in Runners, ResumeEntry(r)
        PROVE  (RunnerExclusion /\ DtorOK)'
    BY <1>8 DEF ResumeEntry, actorVars, frameVars, ownerVars, Goto, Finalize
  <1>9. ASSUME NEW r \in Runners, TryUnblock(r)
        PROVE  (RunnerExclusion /\ DtorOK)'
    BY <1>9 DEF TryUnblock, Unblocked, Goto
  <1>10. ASSUME NEW r \in Runners, DrainBehavior(r)
         PROVE  (RunnerExclusion /\ DtorOK)'
    BY <1>10 DEF DrainBehavior, DrainDone, DrainBusy, Goto, Finalize
  <1>11. ASSUME NEW r \in Runners, CheckMailbox(r)
         PROVE  (RunnerExclusion /\ DtorOK)'
    BY <1>11 DEF CheckMailbox, FetchMore, Goto, Finalize
  <1>12. ASSUME NEW r \in Runners, LoopHead(r)
         PROVE  (RunnerExclusion /\ DtorOK)'
    BY <1>12 DEF LoopHead, actorVars, frameVars, ownerVars, Goto, Finalize
  <1>13. ASSUME NEW r \in Runners, PopFront(r)
         PROVE  (RunnerExclusion /\ DtorOK)'
    BY <1>13 DEF PopFront, Goto, Finalize
  <1>14. ASSUME NEW r \in Runners, Dispatch(r)
         PROVE  (RunnerExclusion /\ DtorOK)'
    BY <1>14 DEF Dispatch, NextIteration, StillBusy, actorVars, frameVars,
       ownerVars, Goto, Finalize
  <1>15. ASSUME NEW r \in Runners, BehaviorReturns(r)
         PROVE  (RunnerExclusion /\ DtorOK)'
    BY <1>15 DEF BehaviorReturns, NextIteration, StillBusy, Goto, Finalize
  <1>16. ASSUME NEW r \in Runners, Park(r) PROVE (RunnerExclusion /\ DtorOK)'
    BY <1>16 DEF Park, NothingLeft, Goto, Finalize
  <1>17. ASSUME NEW r \in Runners, CheckRaceWindow(r)
         PROVE  (RunnerExclusion /\ DtorOK)'
    BY <1>17 DEF CheckRaceWindow, FetchMore, WindowVerdict, Goto, Finalize
  <1>18. ASSUME NEW r \in Runners, ResumeGuardRelease(r)
         PROVE  (RunnerExclusion /\ DtorOK)'
    BY <1>18 DEF ResumeGuardRelease, ReportedVerdict
  <1>19. ASSUME NEW r \in Runners, ReturnVerdict(r)
         PROVE  (RunnerExclusion /\ DtorOK)'
    BY <1>19 DEF ReturnVerdict
  <1>20. ASSUME SettleAwaited PROVE (RunnerExclusion /\ DtorOK)'
    BY <1>20 DEF SettleAwaited, actorVars, frameVars, ownerVars
  <1>21. ASSUME StopScheduler PROVE (RunnerExclusion /\ DtorOK)'
    BY <1>21 DEF StopScheduler, actorVars, frameVars, ownerVars
  <1>22. ASSUME DtorPublish PROVE (RunnerExclusion /\ DtorOK)'
    BY <1>22 DEF DtorPublish, actorVars, frameVars, ownerVars
  <1>23. ASSUME DtorDrained PROVE (RunnerExclusion /\ DtorOK)'
    <2>1. Cardinality(InFlightCalls) = 0
      BY <1>23 DEF DtorDrained, Busy, SendersCounted
    <2>2. InFlightCalls = {}
      BY <2>1, InFlightFinite, FS_EmptySet
    <2>3. \A m \in Messages : call[m] \notin InFlight
      BY <2>2 DEF InFlightCalls
    <2>4. \A r \in Runners : pc[r] \notin Inside \cup {"start"}
      BY <1>23 DEF DtorDrained, Busy
    <2> QED
      BY <1>23, <2>3, <2>4 DEF DtorDrained, actorVars, frameVars
  <1>24. ASSUME DtorTerminal PROVE (RunnerExclusion /\ DtorOK)'
    BY <1>24 DEF DtorTerminal, actorVars, frameVars, ownerVars
  <1>25. ASSUME DtorMembers PROVE (RunnerExclusion /\ DtorOK)'
    BY <1>25 DEF DtorMembers, ClosedMessages, actorVars, frameVars, ownerVars
  <1>26. CASE UNCHANGED vars
    BY <1>26 DEF vars
  <1> QED
    BY <1>1, <1>2, <1>3, <1>4, <1>5, <1>6, <1>7, <1>8, <1>9, <1>10, <1>11,
       <1>12, <1>13, <1>14, <1>15, <1>16, <1>17, <1>18, <1>19, <1>20, <1>21,
       <1>22, <1>23, <1>24, <1>25, <1>26
    DEF Next, Call, Resume, Destructor

\* The first invariant holds throughout: the word, the runners and the
\* destructor agree on who is inside.
THEOREM Spec_Inv1 == Spec => []Inv1
  <1>1. Inv1 /\ [Next]_vars => Inv1'
    BY NextTypes, NextSenders, NextExclusion DEF Inv1
  <1> QED
    BY <1>1, InitInv1, PTL DEF Spec

-----------------------------------------------------------------------------
(* The second invariant: parking and waking.                               *)

\* Where a runner may be while a behavior is suspended: before a drain, or
\* on its way out with a verdict that is not `awaiting`.
MaySuspend(r) ==
    \/ pc[r] \in {"entry", "unpark", "drain", "loop", "redrain"}
    \/ pc[r] = "release" /\ verdict[r] # "awaiting"

SomeUnblocked == \E m \in Messages : call[m] = "unblocked"

\* What park() has established by the time it answers `awaiting`: the queues
\* are empty, and the inbox is still blocked, or the sender that unblocked it
\* has yet to leave, or it has left its mark in the word.
AwaitingOK ==
    cache = {} /\ (inbox.tag = "blocked" \/ state.scheduled \/ SomeUnblocked)

VerdictOK(r) ==
    pc[r] = "release" =>
        /\ verdict[r] \in {"resume", "awaiting", "done"}
        /\ keep[r] => verdict[r] = "resume"
        /\ verdict[r] = "done" => dtor # "alive"
        /\ verdict[r] = "awaiting" /\ dtor = "alive" => AwaitingOK

ParkOK ==
    /\ HolderUnparked
    /\ inbox.tag # "empty" => inbox.stack = {}
    /\ inbox.tag = "blocked" => cache = {}
    /\ \A r \in Runners :
         /\ pc[r] = "window" =>
              cache = {} /\ (inbox.tag = "blocked" \/ inbox.stack # {})
         /\ pc[r] \in Inside /\ behavior # NoMessage => MaySuspend(r)
         /\ VerdictOK(r)

\* An inbox without its blocked tag has somebody who looks after it.
UnparkedServed ==
    InService /\ inbox.tag # "blocked" =>
        state.running \/ Committed \/ SomeUnblocked

WakeOK ==
    /\ UnparkedServed
    /\ ScheduledHasJob
    /\ SuspendedNotStranded

Inv2 == ParkOK /\ WakeOK

\* The constructor parks the actor, with nothing to wake it for.
LEMMA InitInv2 == Init => Inv2
  BY DEF Init, Inv2, ParkOK, HolderUnparked, VerdictOK, WakeOK, UnparkedServed,
     ScheduledHasJob, SuspendedNotStranded, Inside

\* Whoever holds `running` has taken the blocked tag down until park() puts it
\* up again, and park() answers `awaiting` only for an empty mailbox that is
\* blocked or whose next sender is about to say so.
LEMMA NextPark == Inv1 /\ Inv2 /\ [Next]_vars => ParkOK'
  <1> SUFFICES ASSUME Inv1, Inv2, [Next]_vars PROVE ParkOK'
    OBVIOUS
  <1> USE DEF Inv2, ParkOK, HolderUnparked, MaySuspend, VerdictOK, AwaitingOK,
     SomeUnblocked, Inside, Inv1, TypeOK, FrameOK, RunnerExclusion, DtorOK,
     QuietAfterDrain, Quiet
  <1>1. ASSUME NEW m \in Messages, EnqueueGate(m) PROVE ParkOK'
    BY <1>1 DEF EnqueueGate
  <1>2. ASSUME NEW m \in Messages, PushBack(m) PROVE ParkOK'
    BY <1>2 DEF PushBack
  <1>3. ASSUME NEW m \in Messages, LeaveAndMaybeSchedule(m) PROVE ParkOK'
    BY <1>3 DEF LeaveAndMaybeSchedule, ScheduledAfterLeave, OwesEnqueue,
       Claims
  <1>4. ASSUME NEW m \in Messages, SchedulerEnqueue(m) PROVE ParkOK'
    BY <1>4 DEF SchedulerEnqueue
  <1>5. ASSUME NEW r \in Runners, WorkerDequeue(r) PROVE ParkOK'
    BY <1>5 DEF WorkerDequeue, actorVars, frameVars, ownerVars
  <1>6. ASSUME NEW r \in Runners, DriverCall(r) PROVE ParkOK'
    BY <1>6 DEF DriverCall, actorVars, frameVars, ownerVars
  <1>7. ASSUME NEW r \in Runners, TryAcquireRunning(r) PROVE ParkOK'
    BY <1>7 DEF TryAcquireRunning, FreeToRun
  <1>8. ASSUME NEW r \in Runners, ResumeEntry(r) PROVE ParkOK'
    BY <1>8 DEF ResumeEntry, actorVars, frameVars, ownerVars, Goto, Finalize
  <1>9. ASSUME NEW r \in Runners, TryUnblock(r) PROVE ParkOK'
    BY <1>9 DEF TryUnblock, Unblocked, Goto
  <1>10. ASSUME NEW r \in Runners, DrainBehavior(r) PROVE ParkOK'
    BY <1>10 DEF DrainBehavior, DrainDone, DrainBusy, Goto, Finalize
  <1>11. ASSUME NEW r \in Runners, CheckMailbox(r) PROVE ParkOK'
    BY <1>11 DEF CheckMailbox, FetchMore, Goto, Finalize
  <1>12. ASSUME NEW r \in Runners, LoopHead(r) PROVE ParkOK'
    BY <1>12 DEF LoopHead, actorVars, frameVars, ownerVars, Goto, Finalize
  <1>13. ASSUME NEW r \in Runners, PopFront(r) PROVE ParkOK'
    BY <1>13 DEF PopFront, Goto, Finalize
  <1>14. ASSUME NEW r \in Runners, Dispatch(r) PROVE ParkOK'
    BY <1>14 DEF Dispatch, NextIteration, StillBusy, actorVars, frameVars,
       ownerVars, Goto, Finalize
  <1>15. ASSUME NEW r \in Runners, BehaviorReturns(r) PROVE ParkOK'
    BY <1>15 DEF BehaviorReturns, NextIteration, StillBusy, Goto, Finalize
  <1>16. ASSUME NEW r \in Runners, Park(r) PROVE ParkOK'
    BY <1>16 DEF Park, NothingLeft, Goto, Finalize
  <1>17. ASSUME NEW r \in Runners, CheckRaceWindow(r) PROVE ParkOK'
    BY <1>17 DEF CheckRaceWindow, FetchMore, WindowVerdict, Goto, Finalize
  <1>18. ASSUME NEW r \in Runners, ResumeGuardRelease(r) PROVE ParkOK'
    BY <1>18 DEF ResumeGuardRelease, ReportedVerdict
  <1>19. ASSUME NEW r \in Runners, ReturnVerdict(r) PROVE ParkOK'
    BY <1>19 DEF ReturnVerdict
  <1>20. ASSUME SettleAwaited PROVE ParkOK'
    BY <1>20 DEF SettleAwaited, actorVars, frameVars, ownerVars
  <1>21. ASSUME StopScheduler PROVE ParkOK'
    BY <1>21 DEF StopScheduler, actorVars, frameVars, ownerVars
  <1>22. ASSUME DtorPublish PROVE ParkOK'
    BY <1>22 DEF DtorPublish, actorVars, frameVars, ownerVars
  <1>23. ASSUME DtorDrained PROVE ParkOK'
    BY <1>23 DEF DtorDrained, Busy, actorVars, frameVars, ownerVars
  <1>24. ASSUME DtorTerminal PROVE ParkOK'
    BY <1>24 DEF DtorTerminal, actorVars, frameVars, ownerVars
  <1>25. ASSUME DtorMembers PROVE ParkOK'
    BY <1>25 DEF DtorMembers, ClosedMessages, actorVars, frameVars, ownerVars
  <1>26. CASE UNCHANGED vars
    BY <1>26 DEF vars
  <1> QED
    BY <1>1, <1>2, <1>3, <1>4, <1>5, <1>6, <1>7, <1>8, <1>9, <1>10, <1>11,
       <1>12, <1>13, <1>14, <1>15, <1>16, <1>17, <1>18, <1>19, <1>20, <1>21,
       <1>22, <1>23, <1>24, <1>25, <1>26
    DEF Next, Call, Resume, Destructor

\* Neither a message, nor a suspended behavior, nor the scheduled bit is left
\* without a runner, a job or the sender that owes one: the steps inside
\* resume() keep `running`, and ~resume_guard leaves by a verdict that hands the
\* duty on.
LEMMA NextWake == Inv1 /\ Inv1' /\ Inv2 /\ [Next]_vars => WakeOK'
  <1> SUFFICES ASSUME Inv1, Inv1', Inv2, [Next]_vars PROVE WakeOK'
    OBVIOUS
  <1> USE DEF Inv2
  <1>1. ASSUME NEW m \in Messages, EnqueueGate(m) PROVE WakeOK'
    BY <1>1 DEF EnqueueGate, WakeOK, UnparkedServed, ScheduledHasJob,
       SuspendedNotStranded, Committed, HoldsNode, SomeUnblocked, InService,
       Inv1, TypeOK, RunnerExclusion, DtorOK, Inside
  <1>2. ASSUME NEW m \in Messages, PushBack(m) PROVE WakeOK'
    BY <1>2 DEF PushBack, WakeOK, UnparkedServed, ScheduledHasJob,
       SuspendedNotStranded, Committed, HoldsNode, SomeUnblocked, InService,
       Inv1, TypeOK, RunnerExclusion, DtorOK, Inside
  <1>3. ASSUME NEW m \in Messages, LeaveAndMaybeSchedule(m) PROVE WakeOK'
    BY <1>3 DEF LeaveAndMaybeSchedule, ScheduledAfterLeave, OwesEnqueue,
       Claims, WakeOK, UnparkedServed, ScheduledHasJob, SuspendedNotStranded,
       Committed, HoldsNode, SomeUnblocked, InService, Inv1, TypeOK,
       RunnerExclusion, DtorOK, Inside
  <1>4. ASSUME NEW m \in Messages, SchedulerEnqueue(m) PROVE WakeOK'
    BY <1>4 DEF SchedulerEnqueue, WakeOK, UnparkedServed, ScheduledHasJob,
       SuspendedNotStranded, Committed, HoldsNode, SomeUnblocked, InService,
       Inv1, TypeOK, RunnerExclusion, DtorOK, Inside
  <1>5. ASSUME NEW r \in Runners, WorkerDequeue(r) PROVE WakeOK'
    BY <1>5 DEF WorkerDequeue, actorVars, frameVars, ownerVars, WakeOK,
       UnparkedServed, ScheduledHasJob, SuspendedNotStranded, Committed,
       HoldsNode, SomeUnblocked, InService, Inv1, TypeOK, RunnerExclusion,
       DtorOK, Inside
  <1>6. ASSUME NEW r \in Runners, DriverCall(r) PROVE WakeOK'
    BY <1>6 DEF DriverCall, actorVars, frameVars, ownerVars, WakeOK,
       UnparkedServed, ScheduledHasJob, SuspendedNotStranded, Committed,
       HoldsNode, SomeUnblocked, InService, Inv1, TypeOK, RunnerExclusion,
       DtorOK, Inside
  <1>7. ASSUME NEW r \in Runners, TryAcquireRunning(r) PROVE state'.running
    BY <1>7 DEF TryAcquireRunning, FreeToRun, Inv1, TypeOK, RunnerExclusion,
       Inside
  <1>8. ASSUME NEW r \in Runners, ResumeEntry(r) PROVE state'.running
    BY <1>8 DEF ResumeEntry, actorVars, frameVars, ownerVars, Goto, Finalize,
       Inv1, TypeOK, RunnerExclusion, Inside
  <1>9. ASSUME NEW r \in Runners, TryUnblock(r) PROVE state'.running
    BY <1>9 DEF TryUnblock, Unblocked, Goto, Inv1, TypeOK, RunnerExclusion,
       Inside
  <1>10. ASSUME NEW r \in Runners, DrainBehavior(r) PROVE state'.running
    BY <1>10 DEF DrainBehavior, DrainDone, DrainBusy, Goto, Finalize, Inv1,
       TypeOK, RunnerExclusion, Inside
  <1>11. ASSUME NEW r \in Runners, CheckMailbox(r) PROVE state'.running
    BY <1>11 DEF CheckMailbox, FetchMore, Goto, Finalize, Inv1, TypeOK,
       RunnerExclusion, Inside
  <1>12. ASSUME NEW r \in Runners, LoopHead(r) PROVE state'.running
    BY <1>12 DEF LoopHead, actorVars, frameVars, ownerVars, Goto, Finalize,
       Inv1, TypeOK, RunnerExclusion, Inside
  <1>13. ASSUME NEW r \in Runners, PopFront(r) PROVE state'.running
    BY <1>13 DEF PopFront, Goto, Finalize, Inv1, TypeOK, RunnerExclusion,
       Inside
  <1>14. ASSUME NEW r \in Runners, Dispatch(r) PROVE state'.running
    BY <1>14 DEF Dispatch, NextIteration, StillBusy, actorVars, frameVars,
       ownerVars, Goto, Finalize, Inv1, TypeOK, RunnerExclusion, Inside
  <1>15. ASSUME NEW r \in Runners, BehaviorReturns(r) PROVE state'.running
    BY <1>15 DEF BehaviorReturns, NextIteration, StillBusy, Goto, Finalize,
       Inv1, TypeOK, RunnerExclusion, Inside
  <1>16. ASSUME NEW r \in Runners, Park(r) PROVE state'.running
    BY <1>16 DEF Park, NothingLeft, Goto, Finalize, Inv1, TypeOK, RunnerExclusion, Inside
  <1>17. ASSUME NEW r \in Runners, CheckRaceWindow(r) PROVE state'.running
    BY <1>17 DEF CheckRaceWindow, FetchMore, WindowVerdict, Goto, Finalize,
       Inv1, TypeOK, RunnerExclusion, Inside
  <1>18. ASSUME NEW r \in Runners, ResumeGuardRelease(r) PROVE WakeOK'
    <2>1. ~state'.running /\ (state'.scheduled <=> state.scheduled \/ keep[r])
      BY <1>18 DEF ResumeGuardRelease, Inv1, TypeOK
    <2>2. Committed' <=> Committed \/ verdict'[r] = "resume"
      BY <1>18 DEF ResumeGuardRelease, Committed, HoldsNode, Inv1, TypeOK
    <2>3. VerdictOK(r) /\ (behavior # NoMessage => verdict[r] # "awaiting")
      BY <1>18 DEF ResumeGuardRelease, ParkOK, MaySuspend, Inside
    <2>4. CASE verdict[r] = "resume" \/ (verdict[r] = "awaiting" /\ state.scheduled)
      <3>1. verdict'[r] = "resume"
        BY <1>18, <2>4 DEF ResumeGuardRelease, ReportedVerdict, Inv1, TypeOK
      <3> QED
        BY <3>1, <2>2 DEF WakeOK, UnparkedServed, ScheduledHasJob,
           SuspendedNotStranded
    <2>5. CASE verdict[r] = "done"
      <3>1. ~InService'
        BY <1>18, <2>3, <2>5 DEF ResumeGuardRelease, VerdictOK, InService
      <3> QED
        BY <3>1 DEF WakeOK, UnparkedServed, ScheduledHasJob, SuspendedNotStranded
    <2>6. CASE verdict[r] = "awaiting" /\ ~state.scheduled
      <3>1. ~keep[r] /\ behavior = NoMessage
        BY <1>18, <2>3, <2>6 DEF ResumeGuardRelease, VerdictOK
      <3>2. InService' => inbox.tag = "blocked" \/ SomeUnblocked
        BY <1>18, <2>3, <2>6 DEF ResumeGuardRelease, VerdictOK, InService,
           AwaitingOK
      <3> QED
        BY <1>18, <2>1, <2>6, <3>1, <3>2 DEF ResumeGuardRelease, WakeOK,
           UnparkedServed,
           ScheduledHasJob, SuspendedNotStranded, SomeUnblocked
    <2> QED
      BY <1>18, <2>3, <2>4, <2>5, <2>6 DEF ResumeGuardRelease, VerdictOK
  <1>19. ASSUME NEW r \in Runners, ReturnVerdict(r) PROVE WakeOK'
    BY <1>19 DEF ReturnVerdict, WakeOK, UnparkedServed, ScheduledHasJob,
       SuspendedNotStranded, Committed, HoldsNode, SomeUnblocked, InService,
       Inv1, TypeOK, RunnerExclusion, DtorOK, Inside
  <1>20. ASSUME SettleAwaited PROVE WakeOK'
    BY <1>20 DEF SettleAwaited, actorVars, frameVars, ownerVars, WakeOK,
       UnparkedServed, ScheduledHasJob, SuspendedNotStranded, Committed,
       HoldsNode, SomeUnblocked, InService, Inv1, TypeOK, RunnerExclusion,
       DtorOK, Inside
  <1>21. ASSUME StopScheduler PROVE WakeOK'
    BY <1>21 DEF StopScheduler, actorVars, frameVars, ownerVars, WakeOK,
       UnparkedServed, ScheduledHasJob, SuspendedNotStranded, Committed,
       HoldsNode, SomeUnblocked, InService, Inv1, TypeOK, RunnerExclusion,
       DtorOK, Inside
  <1>22. ASSUME DtorPublish PROVE WakeOK'
    BY <1>22 DEF DtorPublish, actorVars, frameVars, ownerVars, WakeOK,
       UnparkedServed, ScheduledHasJob, SuspendedNotStranded, Committed,
       HoldsNode, SomeUnblocked, InService, Inv1, TypeOK, RunnerExclusion,
       DtorOK, Inside
  <1>23. ASSUME DtorDrained PROVE WakeOK'
    BY <1>23 DEF DtorDrained, Busy, actorVars, frameVars, ownerVars, WakeOK,
       UnparkedServed, ScheduledHasJob, SuspendedNotStranded, Committed,
       HoldsNode, SomeUnblocked, InService, Inv1, TypeOK, RunnerExclusion,
       DtorOK, Inside
  <1>24. ASSUME DtorTerminal PROVE WakeOK'
    BY <1>24 DEF DtorTerminal, actorVars, frameVars, ownerVars, WakeOK,
       UnparkedServed, ScheduledHasJob, SuspendedNotStranded, Committed,
       HoldsNode, SomeUnblocked, InService, Inv1, TypeOK, RunnerExclusion,
       DtorOK, Inside
  <1>25. ASSUME DtorMembers PROVE WakeOK'
    BY <1>25 DEF DtorMembers, ClosedMessages, actorVars, frameVars, ownerVars,
       WakeOK, UnparkedServed, ScheduledHasJob, SuspendedNotStranded,
       Committed, HoldsNode, SomeUnblocked, InService, Inv1, TypeOK,
       RunnerExclusion, DtorOK, Inside
  <1>26. CASE UNCHANGED vars
    BY <1>26 DEF vars, WakeOK, UnparkedServed, ScheduledHasJob,
       SuspendedNotStranded, Committed, HoldsNode, SomeUnblocked, InService
  <1>27. state'.running => WakeOK'
    BY DEF WakeOK, UnparkedServed, ScheduledHasJob, SuspendedNotStranded
  <1> QED
    BY <1>1, <1>2, <1>3, <1>4, <1>5, <1>6, <1>7, <1>8, <1>9, <1>10, <1>11,
       <1>12, <1>13, <1>14, <1>15, <1>16, <1>17, <1>18, <1>19, <1>20, <1>21,
       <1>22, <1>23, <1>24, <1>25, <1>26, <1>27
    DEF Next, Call, Resume, Destructor

\* The second invariant holds throughout: whoever parks has been seen to by
\* whoever must wake it.
LEMMA Spec_Inv2 == Spec => []Inv2
  <1>1. Inv1 /\ Inv1' /\ Inv2 /\ [Next]_vars => Inv2'
    BY NextPark, NextWake DEF Inv2
  <1> QED
    BY <1>1, InitInv2, Spec_Inv1, PTL DEF Spec

-----------------------------------------------------------------------------
(* The third invariant: where a message is tells its fate.                 *)

Dispatching(r, m) == pc[r] = "dispatch" /\ current[r] = m
Behaving(r, m)    == pc[r] = "behave" /\ current[r] = m

Inv3 ==
    /\ \A m \in Messages : fate[m] = "unsent" <=> call[m] \in {"new", "registered"}
    /\ \A m \in Pending : fate[m] = "accepted"
    /\ \A m \in Messages : fate[m] = "accepted" =>
         m \in Pending \/ \E r \in Runners : Dispatching(r, m)
    /\ \A m \in Messages : fate[m] = "active" =>
         m = behavior \/ \E r \in Runners : Behaving(r, m)
    /\ \A r \in Runners : \A m \in Messages :
         /\ Dispatching(r, m) => fate[m] = "accepted" /\ m \notin Pending
         /\ Behaving(r, m) => fate[m] = "active"
    /\ behavior # NoMessage => fate[behavior] = "active"
    /\ inbox.stack \cap cache = {}
    /\ dtor = "gone" => Pending = {} /\ behavior = NoMessage

\* Nothing has been sent to a new actor.
LEMMA InitInv3 == Init => Inv3
  BY DEF Init, Inv3, Pending, Dispatching, Behaving

\* A message is moved, never copied: from its sender to the stack, the cache, a
\* runner's hands, the suspended behavior, and its fate moves along with it.
LEMMA NextFates == Inv1 /\ Inv2 /\ Inv3 /\ [Next]_vars => Inv3'
  <1> SUFFICES ASSUME Inv1, Inv2, Inv3, [Next]_vars PROVE Inv3'
    OBVIOUS
  <1> NoMessage \notin Messages
    BY ConstantsAssumption DEF ConstantsAssumption
  <1> USE DEF Inv3, Pending, Dispatching, Behaving, Inv1, TypeOK, FrameOK,
     RunnerExclusion, DtorOK, QuietAfterDrain, Quiet, Inside
  <1>1. ASSUME NEW m \in Messages, EnqueueGate(m) PROVE Inv3'
    BY <1>1 DEF EnqueueGate
  <1>2. ASSUME NEW m \in Messages, PushBack(m) PROVE Inv3'
    BY <1>2 DEF PushBack, InFlight
  <1>3. ASSUME NEW m \in Messages, LeaveAndMaybeSchedule(m) PROVE Inv3'
    BY <1>3 DEF LeaveAndMaybeSchedule
  <1>4. ASSUME NEW m \in Messages, SchedulerEnqueue(m) PROVE Inv3'
    BY <1>4 DEF SchedulerEnqueue
  <1>5. ASSUME NEW r \in Runners, WorkerDequeue(r) PROVE Inv3'
    BY <1>5 DEF WorkerDequeue, actorVars, frameVars, ownerVars
  <1>6. ASSUME NEW r \in Runners, DriverCall(r) PROVE Inv3'
    BY <1>6 DEF DriverCall, actorVars, frameVars, ownerVars
  <1>7. ASSUME NEW r \in Runners, TryAcquireRunning(r) PROVE Inv3'
    BY <1>7 DEF TryAcquireRunning
  <1>8. ASSUME NEW r \in Runners, ResumeEntry(r) PROVE Inv3'
    BY <1>8 DEF ResumeEntry, actorVars, frameVars, ownerVars, Goto, Finalize
  <1>9. ASSUME NEW r \in Runners, TryUnblock(r) PROVE Inv3'
    BY <1>9 DEF TryUnblock, Goto
  <1>10. ASSUME NEW r \in Runners, DrainBehavior(r) PROVE Inv3'
    BY <1>10 DEF DrainBehavior, DrainDone, DrainBusy, Goto, Finalize
  <1>11. ASSUME NEW r \in Runners, CheckMailbox(r) PROVE Inv3'
    BY <1>11 DEF CheckMailbox, FetchMore, Goto, Finalize
  <1>12. ASSUME NEW r \in Runners, LoopHead(r) PROVE Inv3'
    BY <1>12 DEF LoopHead, actorVars, frameVars, ownerVars, Goto, Finalize
  <1>13. ASSUME NEW r \in Runners, PopFront(r) PROVE Inv3'
    BY <1>13 DEF PopFront, Goto, Finalize
  <1>14. ASSUME NEW r \in Runners, Dispatch(r) PROVE Inv3'
    BY <1>14 DEF Dispatch, NextIteration, StillBusy, actorVars, frameVars,
       ownerVars, Goto, Finalize
  <1>15. ASSUME NEW r \in Runners, BehaviorReturns(r) PROVE Inv3'
    BY <1>15, SMTT(30) DEF BehaviorReturns, NextIteration, StillBusy, Goto, Finalize,
       Inv2, ParkOK, MaySuspend
  <1>16. ASSUME NEW r \in Runners, Park(r) PROVE Inv3'
    BY <1>16 DEF Park, NothingLeft, Goto, Finalize
  <1>17. ASSUME NEW r \in Runners, CheckRaceWindow(r) PROVE Inv3'
    BY <1>17 DEF CheckRaceWindow, FetchMore, WindowVerdict, Goto, Finalize
  <1>18. ASSUME NEW r \in Runners, ResumeGuardRelease(r) PROVE Inv3'
    BY <1>18 DEF ResumeGuardRelease
  <1>19. ASSUME NEW r \in Runners, ReturnVerdict(r) PROVE Inv3'
    BY <1>19 DEF ReturnVerdict
  <1>20. ASSUME SettleAwaited PROVE Inv3'
    BY <1>20 DEF SettleAwaited, actorVars, frameVars, ownerVars
  <1>21. ASSUME StopScheduler PROVE Inv3'
    BY <1>21 DEF StopScheduler, actorVars, frameVars, ownerVars
  <1>22. ASSUME DtorPublish PROVE Inv3'
    BY <1>22 DEF DtorPublish, actorVars, frameVars, ownerVars
  <1>23. ASSUME DtorDrained PROVE Inv3'
    BY <1>23 DEF DtorDrained, actorVars, frameVars, ownerVars
  <1>24. ASSUME DtorTerminal PROVE Inv3'
    BY <1>24 DEF DtorTerminal, actorVars, frameVars, ownerVars
  <1>25. ASSUME DtorMembers PROVE Inv3'
    BY <1>25 DEF DtorMembers, ClosedMessages, actorVars, frameVars, ownerVars
  <1>26. CASE UNCHANGED vars
    BY <1>26 DEF vars
  <1> QED
    BY <1>1, <1>2, <1>3, <1>4, <1>5, <1>6, <1>7, <1>8, <1>9, <1>10, <1>11,
       <1>12, <1>13, <1>14, <1>15, <1>16, <1>17, <1>18, <1>19, <1>20, <1>21,
       <1>22, <1>23, <1>24, <1>25, <1>26
    DEF Next, Call, Resume, Destructor

\* The third invariant holds throughout: where a message is tells its fate.
LEMMA Spec_Inv3 == Spec => []Inv3
  BY InitInv3, NextFates, Spec_Inv1, Spec_Inv2, PTL DEF Spec

-----------------------------------------------------------------------------
(* Simulation: every step is a step of ActorContract or leaves it alone.   *)

\* The initial states are initial states of the contract.
LEMMA InitContract == Init => Contract!Init
  BY DEF Init, Contract!Init

\* Every step of the code is one step of the contract or invisible to it: a
\* push accepts, a gate refuses, a dispatch runs or drops, a behavior that ends
\* finishes, and the destruction of the members cancels what is left.

\* Every step of the actor is a step of its contract, or none.
LEMMA NextContract ==
  Inv1 /\ Inv2 /\ Inv3 /\ [Next]_vars => [Contract!Next]_(Contract!vars)
  <1> SUFFICES ASSUME Inv1, Inv2, Inv3, [Next]_vars
               PROVE  Contract!Next \/ UNCHANGED Contract!vars
    OBVIOUS
  <1> USE DEF Contract!Next, Contract!vars, Contract!Become
  <1>1. ASSUME NEW m \in Messages, EnqueueGate(m)
        PROVE  Contract!Refuse(m) \/ UNCHANGED Contract!vars
    BY <1>1 DEF EnqueueGate, Contract!Refuse, Inv1, TypeOK, DtorOK, Inv3
  <1>2. ASSUME NEW m \in Messages, PushBack(m)
        PROVE  Contract!Accept(m)
    BY <1>2 DEF PushBack, Contract!Accept, Inv1, TypeOK, DtorOK,
       QuietAfterDrain, Quiet, InFlight, Inv3
  <1>3. ASSUME NEW m \in Messages, LeaveAndMaybeSchedule(m) \/ SchedulerEnqueue(m)
        PROVE  UNCHANGED Contract!vars
    BY <1>3 DEF LeaveAndMaybeSchedule, SchedulerEnqueue
  <1>4. ASSUME NEW r \in Runners, DrainBehavior(r)
        PROVE  (\E m \in Messages : Contract!Finish(m)) \/ UNCHANGED Contract!vars
    <2>0. dtor # "gone" /\ dtor' = dtor
      BY <1>4 DEF DrainBehavior, Inv1, DtorOK, QuietAfterDrain, Quiet, Inside
    <2>1. CASE behavior = NoMessage
      <3>1. fate' = fate
        BY <1>4, <2>1, ConstantsAssumption DEF ConstantsAssumption,
           DrainBehavior, DrainDone, DrainBusy, Inv1, TypeOK
      <3> QED
        BY <3>1, <2>0
    <2>2. CASE behavior # NoMessage
      <3>1. behavior \in Messages /\ fate[behavior] = "active"
        BY <2>2 DEF Inv3, Inv1, TypeOK
      <3>2. fate' = fate \/ fate' = [fate EXCEPT ![behavior] = "handled"]
        BY <1>4 DEF DrainBehavior, DrainDone, DrainBusy, Inv1, TypeOK
      <3> QED
        BY <2>0, <3>1, <3>2 DEF Contract!Finish
    <2> QED
      BY <2>1, <2>2
  <1>5. ASSUME NEW r \in Runners, Dispatch(r)
        PROVE  \E m \in Messages : Contract!Run(m) \/ Contract!Drop(m)
    <2>0. /\ dtor # "gone" /\ dtor' = dtor /\ (state.destroying <=> dtor # "alive")
          /\ current[r] \in Messages /\ fate[current[r]] = "accepted"
      BY <1>5 DEF Dispatch, ownerVars, Inv1, FrameOK, DtorOK, QuietAfterDrain,
         Quiet, Inside, Inv3, Dispatching
    <2>1. \A n \in Messages : fate[n] # "active"
      <3>1. behavior \notin Messages
        BY <1>5, ConstantsAssumption DEF ConstantsAssumption, Dispatch, Inv1,
           TypeOK,
           Inv2, ParkOK, MaySuspend, Inside
      <3>2. \A q \in Runners : pc[q] # "behave"
        BY <1>5 DEF Dispatch, Inv1, RunnerExclusion, Inside
      <3> QED
        BY <3>1, <3>2 DEF Inv3, Behaving
    <2> QED
      BY <1>5, <2>0, <2>1 DEF Dispatch, Contract!Run, Contract!Drop
  <1>6. ASSUME NEW r \in Runners, BehaviorReturns(r)
        PROVE  (\E m \in Messages : Contract!Finish(m)) \/ UNCHANGED Contract!vars
    <2>0. /\ dtor # "gone" /\ dtor' = dtor
          /\ current[r] \in Messages /\ fate[current[r]] = "active"
      BY <1>6 DEF BehaviorReturns, Inv1, FrameOK, DtorOK, QuietAfterDrain,
         Quiet, Inside, Inv3, Behaving
    <2> QED
      BY <1>6, <2>0 DEF BehaviorReturns, Contract!Finish
  <1>7. ASSUME NEW r \in Runners,
               \/ WorkerDequeue(r) \/ DriverCall(r) \/ TryAcquireRunning(r)
               \/ ResumeEntry(r) \/ TryUnblock(r) \/ CheckMailbox(r) \/ LoopHead(r)
               \/ PopFront(r) \/ Park(r) \/ CheckRaceWindow(r)
               \/ ResumeGuardRelease(r) \/ ReturnVerdict(r)
        PROVE  UNCHANGED Contract!vars
    BY <1>7 DEF WorkerDequeue, DriverCall, TryAcquireRunning, ResumeEntry,
       TryUnblock,
       CheckMailbox, LoopHead, PopFront, Park, NothingLeft, CheckRaceWindow, ResumeGuardRelease,
       ReturnVerdict, ownerVars
  <1>8. ASSUME SettleAwaited \/ StopScheduler \/ DtorDrained \/ DtorTerminal
        PROVE  UNCHANGED Contract!vars
    BY <1>8 DEF SettleAwaited, StopScheduler, DtorDrained, DtorTerminal, ownerVars
  <1>9. ASSUME DtorPublish PROVE Contract!BeginClose
    BY <1>9 DEF DtorPublish, Contract!BeginClose
  <1>10. ASSUME DtorMembers PROVE Contract!EndClose
    <2>1. \A m \in Messages : /\ fate[m] = "accepted" <=> m \in ClosedMessages
                              /\ fate[m] = "active" <=> m = behavior
      BY <1>10, ConstantsAssumption DEF ConstantsAssumption, DtorMembers,
         ClosedMessages, Inv3,
         Pending, Dispatching, Behaving, Inv1, TypeOK, DtorOK, QuietAfterDrain, Quiet, Inside
    <2> QED
      BY <1>10, <2>1 DEF DtorMembers, Contract!EndClose
  <1>11. CASE UNCHANGED vars
    BY <1>11 DEF vars
  <1> QED
    BY <1>1, <1>2, <1>3, <1>4, <1>5, <1>6, <1>7, <1>8, <1>9, <1>10, <1>11
       DEF Next, Call, Resume, Destructor

-----------------------------------------------------------------------------
(* The theorems.                                                           *)

\* TypeOK for any number of senders: sub_sender() never takes the count below
\* zero, which in the packed word would borrow from the flags.
THEOREM TypeCorrect == Spec => []TypeOK
  BY Spec_Inv1, PTL DEF Inv1

\* RunnerExclusion for any number of runners: try_acquire_running() and
\* ~resume_guard let one thread at a time into resume_impl().
THEOREM Exclusion == Spec => []RunnerExclusion
  BY Spec_Inv1, PTL DEF Inv1

\* QuietAfterDrain: once wait_for_activity_to_drain() has returned, the mailbox
\* and the frame that the destructor frees are used by nobody.
THEOREM Quiescence == Spec => []QuietAfterDrain
  BY Spec_Inv1, PTL DEF Inv1, DtorOK

\* NoLostWakeup for any number of senders and runners: park(), the race-window
\* check and leave_and_maybe_schedule() strand no message.
THEOREM Wakeup == Spec => []NoLostWakeup
  <1>1. Inv2 => NoLostWakeup
    BY DEF Inv2, ParkOK, WakeOK, UnparkedServed, NoLostWakeup, Pending,
       SomeUnblocked
  <1> QED
    BY <1>1, Spec_Inv2, PTL

\* ScheduledHasJob for any number of senders and runners: whoever raises the
\* scheduled bit leaves a job, a runner or a sender that owes one behind it.
THEOREM Scheduling == Spec => []ScheduledHasJob
  <1>1. Inv2 => ScheduledHasJob
    BY DEF Inv2, WakeOK
  <1> QED
    BY <1>1, Spec_Inv2, PTL

\* SuspendedNotStranded: resume_impl() never parks over a suspended behavior,
\* whose completion nobody announces.
THEOREM Suspension == Spec => []SuspendedNotStranded
  <1>1. Inv2 => SuspendedNotStranded
    BY DEF Inv2, ParkOK, WakeOK
  <1> QED
    BY <1>1, Spec_Inv2, PTL

\* HolderUnparked: the queues are only fetched from an inbox whose blocked tag
\* is down, as fetch_more() takes for granted.
THEOREM Unparked == Spec => []HolderUnparked
  <1>1. Inv2 => HolderUnparked
    BY DEF Inv2, ParkOK
  <1> QED
    BY <1>1, Spec_Inv2, PTL

\* SettledAtDeath: the destructor leaves no message behind, neither on the stack
\* nor in the fetched queues nor in a runner's hands.
THEOREM Death == Spec => []SettledAtDeath
  <1>1. Inv1 /\ Inv3 => SettledAtDeath
    <2> SUFFICES ASSUME Inv1, Inv3, dtor = "gone", NEW m \in Messages, call[m] # "new"
                 PROVE  fate[m] \in Settled
      BY DEF SettledAtDeath
    <2>1. fate[m] # "unsent"
      BY DEF Inv1, DtorOK, QuietAfterDrain, Quiet, InFlight, Inv3
    <2>2. fate[m] # "accepted" /\ fate[m] # "active"
      BY ConstantsAssumption DEF ConstantsAssumption, Inv1, DtorOK,
         QuietAfterDrain, Quiet,
         Inside, Inv3, Dispatching, Behaving
    <2> QED
      BY <2>1, <2>2 DEF Inv1, TypeOK
  <1> QED
    BY <1>1, Spec_Inv1, Spec_Inv3, PTL

\* The code implements ActorContract: messages run one at a time, each once, and
\* none is refused or dropped before the destructor publishes `destroying`.
THEOREM Refinement == Spec => ImplementsContract
  BY InitContract, NextContract, Spec_Inv1, Spec_Inv2, Spec_Inv3, PTL
     DEF Spec, ImplementsContract, Contract!Spec

\* FateFinal: a message that was handled or cancelled is never handled or
\* cancelled again, since no step of the contract does so.
THEOREM Finality == Spec => FateFinal
  <1>1. Inv1 /\ [Contract!Next]_(Contract!vars) =>
          \A m \in Messages : fate[m] \in Settled => fate'[m] = fate[m]
    BY DEF Inv1, TypeOK, Settled, Contract!Next, Contract!vars, Contract!Accept,
       Contract!Refuse, Contract!Run, Contract!Finish, Contract!Drop,
       Contract!BeginClose, Contract!EndClose, Contract!Become
  <1> QED
    BY <1>1, NextContract, Spec_Inv1, Spec_Inv2, Spec_Inv3, PTL DEF Spec,
       FateFinal

-----------------------------------------------------------------------------
(* Without drivers there is one job node at a time.                        *)

\* The word tells whether a node exists: none while somebody runs, none while
\* the word is idle; otherwise one, which has one holder.
NodesOK ==
    /\ state.running => ~Committed
    /\ dtor = "alive" /\ ~state.running /\ ~state.scheduled => ~Committed
    /\ \A r \in Runners : pc[r] = "release" /\ verdict[r] = "resume" => keep[r]
    /\ jobs <= 1
    /\ jobs = 1 => /\ \A m \in Messages : call[m] # "owes"
                   /\ \A r \in Runners : ~HoldsNode(r)
    /\ \A m, n \in Messages : call[m] = "owes" /\ call[n] = "owes" => m = n
    /\ \A m \in Messages : call[m] = "owes" => \A r \in Runners : ~HoldsNode(r)
    /\ \A q, r \in Runners : HoldsNode(q) /\ HoldsNode(r) => q = r

\* A new actor has no job node.
LEMMA InitNodes == Init => NodesOK
  BY DEF Init, NodesOK, Committed, HoldsNode

\* The sender that claims an idle word owes the only node; any other sender
\* leaves the nodes alone.
LEMMA LeaveNodes ==
  ASSUME Drivers = {}, Inv1, NodesOK, NEW m \in Messages, LeaveAndMaybeSchedule(m)
  PROVE  NodesOK'
  <1>1. CASE OwesEnqueue(m)
    <2>1. /\ ~state.running /\ ~state'.running /\ state'.scheduled
          /\ dtor = "alive" /\ ~Committed
      BY <1>1 DEF OwesEnqueue, Claims, LeaveAndMaybeSchedule, ScheduledAfterLeave,
         NodesOK, Inv1, TypeOK, DtorOK
    <2>2. /\ jobs' = jobs /\ pc' = pc /\ verdict' = verdict /\ keep' = keep
          /\ \A n \in Messages : call'[n] = "owes" <=> n = m
      BY <1>1, <2>1 DEF LeaveAndMaybeSchedule, Committed, Inv1, TypeOK
    <2>3. jobs = 0 /\ \A r \in Runners : ~HoldsNode(r)
      BY <2>1 DEF Committed, Inv1, TypeOK
    <2> QED
      BY <2>1, <2>2, <2>3 DEF NodesOK, HoldsNode
  <1>2. CASE ~OwesEnqueue(m)
    <2>1. /\ jobs' = jobs /\ pc' = pc /\ verdict' = verdict /\ keep' = keep /\ dtor' = dtor
          /\ \A n \in Messages : call'[n] = "owes" <=> call[n] = "owes"
          /\ state'.running = state.running /\ (state.scheduled => state'.scheduled)
      BY <1>2 DEF LeaveAndMaybeSchedule, ScheduledAfterLeave, Inv1, TypeOK
    <2>2. Committed' <=> Committed
      BY <2>1 DEF Committed, HoldsNode
    <2> QED
      BY <2>1, <2>2 DEF NodesOK, HoldsNode
  <1> QED
    BY <1>1, <1>2

\* A node is made only by the one sender that finds the word neither running nor
\* scheduled, and put back only by the worker that took it.
LEMMA NextNodes ==
  ASSUME Drivers = {}
  PROVE  Inv1 /\ NodesOK /\ [Next]_vars => NodesOK'
  <1> SUFFICES ASSUME Inv1, NodesOK, [Next]_vars PROVE NodesOK'
    OBVIOUS
  <1> USE DEF NodesOK, Committed, HoldsNode, Inv1, TypeOK, DtorOK,
     RunnerExclusion, Inside
  <1>1. ASSUME NEW m \in Messages, EnqueueGate(m) PROVE NodesOK'
    BY <1>1 DEF EnqueueGate
  <1>2. ASSUME NEW m \in Messages, PushBack(m) PROVE NodesOK'
    BY <1>2 DEF PushBack
  <1>3. ASSUME NEW m \in Messages, LeaveAndMaybeSchedule(m) PROVE NodesOK'
    BY <1>3, LeaveNodes
  <1>4. ASSUME NEW m \in Messages, SchedulerEnqueue(m) PROVE NodesOK'
    BY <1>4 DEF SchedulerEnqueue
  <1>5. ASSUME NEW r \in Runners, WorkerDequeue(r) PROVE NodesOK'
    BY <1>5 DEF WorkerDequeue, actorVars, frameVars, ownerVars
  <1>6. ASSUME NEW r \in Runners, DriverCall(r) PROVE NodesOK'
    BY <1>6 DEF DriverCall, actorVars, frameVars, ownerVars
  <1>7. ASSUME NEW r \in Runners, TryAcquireRunning(r) PROVE NodesOK'
    BY <1>7 DEF TryAcquireRunning, FreeToRun
  <1>8. ASSUME NEW r \in Runners, ResumeEntry(r) PROVE NodesOK'
    BY <1>8 DEF ResumeEntry, actorVars, frameVars, ownerVars, Goto, Finalize
  <1>9. ASSUME NEW r \in Runners, TryUnblock(r) PROVE NodesOK'
    BY <1>9 DEF TryUnblock, Goto
  <1>10. ASSUME NEW r \in Runners, DrainBehavior(r) PROVE NodesOK'
    BY <1>10 DEF DrainBehavior, DrainDone, DrainBusy, Goto, Finalize
  <1>11. ASSUME NEW r \in Runners, CheckMailbox(r) PROVE NodesOK'
    BY <1>11 DEF CheckMailbox, FetchMore, Goto, Finalize
  <1>12. ASSUME NEW r \in Runners, LoopHead(r) PROVE NodesOK'
    BY <1>12 DEF LoopHead, actorVars, frameVars, ownerVars, Goto, Finalize
  <1>13. ASSUME NEW r \in Runners, PopFront(r) PROVE NodesOK'
    BY <1>13 DEF PopFront, Goto, Finalize
  <1>14. ASSUME NEW r \in Runners, Dispatch(r) PROVE NodesOK'
    BY <1>14 DEF Dispatch, NextIteration, StillBusy, actorVars, frameVars,
       ownerVars, Goto, Finalize
  <1>15. ASSUME NEW r \in Runners, BehaviorReturns(r) PROVE NodesOK'
    BY <1>15 DEF BehaviorReturns, NextIteration, StillBusy, Goto, Finalize
  <1>16. ASSUME NEW r \in Runners, Park(r) PROVE NodesOK'
    BY <1>16 DEF Park, NothingLeft, Goto, Finalize
  <1>17. ASSUME NEW r \in Runners, CheckRaceWindow(r) PROVE NodesOK'
    BY <1>17 DEF CheckRaceWindow, FetchMore, WindowVerdict, Goto, Finalize
  <1>18. ASSUME NEW r \in Runners, ResumeGuardRelease(r) PROVE NodesOK'
    BY <1>18 DEF ResumeGuardRelease, ReportedVerdict
  <1>19. ASSUME NEW r \in Runners, ReturnVerdict(r) PROVE NodesOK'
    BY <1>19 DEF ReturnVerdict
  <1>20. ASSUME SettleAwaited PROVE NodesOK'
    BY <1>20 DEF SettleAwaited, actorVars, frameVars, ownerVars
  <1>21. ASSUME StopScheduler PROVE NodesOK'
    BY <1>21 DEF StopScheduler, actorVars, frameVars, ownerVars
  <1>22. ASSUME DtorPublish PROVE NodesOK'
    BY <1>22 DEF DtorPublish, actorVars, frameVars, ownerVars
  <1>23. ASSUME DtorDrained PROVE NodesOK'
    BY <1>23 DEF DtorDrained, actorVars, frameVars, ownerVars
  <1>24. ASSUME DtorTerminal PROVE NodesOK'
    BY <1>24 DEF DtorTerminal, actorVars, frameVars, ownerVars
  <1>25. ASSUME DtorMembers PROVE NodesOK'
    BY <1>25 DEF DtorMembers, ClosedMessages, actorVars, frameVars, ownerVars
  <1>26. CASE UNCHANGED vars
    BY <1>26 DEF vars
  <1> QED
    BY <1>1, <1>2, <1>3, <1>4, <1>5, <1>6, <1>7, <1>8, <1>9, <1>10, <1>11,
       <1>12, <1>13, <1>14, <1>15, <1>16, <1>17, <1>18, <1>19, <1>20, <1>21,
       <1>22, <1>23, <1>24, <1>25, <1>26
    DEF Next, Call, Resume, Destructor

\* The cardinality of a set with at most one element.
LEMMA AtMostOne ==
  ASSUME NEW S, S = {} \/ \E x : S = {x}
  PROVE  Cardinality(S) \in {0, 1} /\ (Cardinality(S) = 1 => S # {})
  <1>1. CASE S = {}
    BY <1>1, FS_EmptySet
  <1>2. CASE \E x : S = {x}
    <2> PICK x : S = {x}
      BY <1>2
    <2>1. Cardinality({x}) = 1
      BY FS_Singleton
    <2> QED
      BY <2>1
  <1> QED
    BY <1>1, <1>2

\* SingleJobNode, when only workers call resume(): senders and workers never put
\* two nodes of one actor into the scheduler's queue, nor one while it runs.
THEOREM OneNode ==
  ASSUME Drivers = {}
  PROVE  Spec => []SingleJobNode
  <1>1. Inv1 /\ NodesOK => SingleJobNode
    <2> SUFFICES ASSUME Inv1, NodesOK PROVE SingleJobNode
      OBVIOUS
    <2> DEFINE Owing == {m \in Messages : call[m] = "owes"}
               Holding == {r \in Runners : HoldsNode(r)}
    <2>1. Owing = {} \/ \E m \in Messages : Owing = {m}
      BY DEF NodesOK
    <2>2. Holding = {} \/ \E r \in Runners : Holding = {r}
      BY DEF NodesOK
    <2>4. jobs \in Nat /\ jobs <= 1
      BY DEF Inv1, TypeOK, NodesOK
    <2>5. /\ jobs = 1 => Owing = {} /\ Holding = {}
          /\ Owing = {} \/ Holding = {}
      BY DEF NodesOK
    <2> HIDE DEF Owing, Holding
    <2>3. Cardinality(Owing) \in {0, 1} /\ (Cardinality(Owing) = 1 => Owing # {})
      BY <2>1, AtMostOne
    <2>6. Cardinality(Holding) \in {0, 1} /\ (Cardinality(Holding) = 1 => Holding # {})
      BY <2>2, AtMostOne
    <2>7. jobs + Cardinality(Owing) + Cardinality(Holding) <= 1
      BY <2>3, <2>4, <2>5, <2>6
    <2> QED
      BY <2>7 DEF NodesOK, SingleJobNode, Owing, Holding
  <1> QED
    BY <1>1, InitNodes, NextNodes, Spec_Inv1, PTL DEF Spec

\* ScheduledSticky: nobody lowers `scheduled` while `running` is up, so the bits
\* ~resume_guard gathers over its failed attempts are the last value it saw.
THEOREM Sticky == Spec => ScheduledSticky
  <1>1. Inv1 /\ [Next]_vars =>
          (state.running /\ state'.running /\ state.scheduled => state'.scheduled)
    <2> SUFFICES ASSUME Inv1, [Next]_vars, state.running, state'.running, state.scheduled
                 PROVE  state'.scheduled
      OBVIOUS
    <2> USE DEF Inv1, TypeOK
    <2>1. ASSUME NEW m \in Messages, EnqueueGate(m) \/ Call(m) PROVE state'.scheduled
      BY <2>1 DEF Call, EnqueueGate, PushBack, LeaveAndMaybeSchedule,
         ScheduledAfterLeave,
         SchedulerEnqueue
    <2>2. ASSUME NEW r \in Runners, TryAcquireRunning(r) \/ ResumeGuardRelease(r)
          PROVE  state'.scheduled
      BY <2>2 DEF TryAcquireRunning, FreeToRun, ResumeGuardRelease
    <2>3. ASSUME NEW r \in Runners,
                 \/ WorkerDequeue(r) \/ DriverCall(r) \/ ResumeEntry(r) \/ TryUnblock(r)
                 \/ DrainBehavior(r) \/ CheckMailbox(r) \/ LoopHead(r) \/ PopFront(r)
                 \/ Dispatch(r) \/ BehaviorReturns(r) \/ Park(r) \/ CheckRaceWindow(r)
                 \/ ReturnVerdict(r)
          PROVE  state' = state
      BY <2>3 DEF WorkerDequeue, DriverCall, ResumeEntry, TryUnblock,
         DrainBehavior,
         CheckMailbox, LoopHead, PopFront, Dispatch, BehaviorReturns, Park, NothingLeft,
         CheckRaceWindow, ReturnVerdict, actorVars
    <2>4. ASSUME SettleAwaited \/ StopScheduler \/ DtorDrained \/ DtorMembers
          PROVE  state' = state
      BY <2>4 DEF SettleAwaited, StopScheduler, DtorDrained, DtorMembers,
         actorVars
    <2>5. ASSUME DtorPublish \/ DtorTerminal PROVE state'.scheduled
      BY <2>5 DEF DtorPublish, DtorTerminal
    <2> QED
      BY <2>1, <2>2, <2>3, <2>4, <2>5 DEF Next, Resume, Destructor, vars
  <1> QED
    BY <1>1, Spec_Inv1, PTL DEF Spec, ScheduledSticky

=============================================================================
