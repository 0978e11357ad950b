-------------------------- MODULE CooperativeActor --------------------------
(***************************************************************************)
(* cooperative_actor: the state word, enqueue_impl(), resume() and the     *)
(* destructor, interleaved access by access.                               *)
(*                                                                         *)
(* One message is sent by one call of enqueue_impl(), so a call is named   *)
(* by its message.  A runner is a thread that calls resume(): a scheduler  *)
(* worker, which takes a job node from the queue first, or a driver, which *)
(* calls resume() on its own account.  The owner stops the scheduler and   *)
(* then destroys the actor, while senders and drivers may still be busy.   *)
(*                                                                         *)
(* Every compare-exchange loop on the state word is one atomic step on the *)
(* value it finally replaces.  The loops carry nothing from a failed       *)
(* attempt except ~resume_guard, which ORs the scheduled bit of every      *)
(* value it saw; ScheduledSticky makes that OR equal to the last value.    *)
(*                                                                         *)
(* The order of messages is left to Mailbox: inbox and cache are sets.     *)
(***************************************************************************)
EXTENDS Naturals, FiniteSets

CONSTANTS
    Messages,       \* the messages, each sent by one enqueue_impl() call
    Runners,        \* the threads that call resume()
    Drivers,        \* the runners that call resume() without a job node
    MaxThroughput,  \* the max_throughput each of them passes to resume()
    MaxAwaits,      \* bound: how often behaviors suspend on a co_await
    NoMessage       \* a null message pointer

ASSUME ConstantsAssumption ==
    /\ IsFiniteSet(Messages)
    /\ Drivers \subseteq Runners
    /\ MaxThroughput \in [Runners -> Nat \ {0}]
    /\ MaxAwaits \in Nat
    /\ NoMessage \notin Messages

VARIABLES
    state,      \* the word: three flags and the number of senders in flight
    inbox,      \* lifo_inbox: its tag and the messages on the stack
    cache,      \* urgent_queue_ and normal_queue_: the fetched messages
    call,       \* where the enqueue_impl() call of a message is
    fate,       \* what has become of a message
    pc,         \* where a runner is in resume()
    handled,    \* resume_impl()'s count of handled messages, per runner
    verdict,    \* the resume_result about to be returned, per runner
    keep,       \* resume_guard::keep_scheduled_, per runner
    current,    \* current_message_: the message a runner has popped
    behavior,   \* current_behavior_: the message it is suspended on, if any
    awaited,    \* whether the future it is suspended on is settled
    awaits,     \* suspensions so far, at most MaxAwaits
    jobs,       \* job nodes of this actor in the scheduler's queue
    stopped,    \* scheduler_t::stop() has returned
    dtor        \* where the destructor is

actorVars == <<state, inbox, cache, behavior, awaited, awaits>>
frameVars == <<handled, verdict, keep, current>>
ownerVars == <<stopped, dtor>>
vars == <<state, inbox, cache, call, fate, pc, handled, verdict, keep,
          current, behavior, awaited, awaits, jobs, stopped, dtor>>

-----------------------------------------------------------------------------
(* The states a call, a runner and the destructor go through.              *)

(* Definitions marked "Wrong:" are not part of the model: each is a slip    *)
(* the code could have made, and stands in for the definition below it to  *)
(* show that a property would notice.                                      *)

InFlight == {"registered", "pushed", "unblocked"}

Inside == {"entry", "unpark", "drain", "check", "loop", "redrain", "pop",
           "dispatch", "behave", "park", "window", "release"}

Quiet == {"drained", "terminal", "gone"}

Settled == {"handled", "cancelled", "orphaned"}

TypeOK ==
    /\ state \in [scheduled : BOOLEAN, running : BOOLEAN,
                  destroying : BOOLEAN, senders : Nat]
    /\ inbox \in [tag : {"empty", "blocked", "closed"},
                  stack : SUBSET Messages]
    /\ cache \in SUBSET Messages
    /\ call \in [Messages -> {"new", "registered", "pushed", "unblocked",
                              "owes", "returned"}]
    /\ fate \in [Messages -> {"unsent", "accepted", "active"} \cup Settled]
    /\ pc \in [Runners -> Inside \cup {"idle", "start", "return", "again"}]
    /\ handled \in [Runners -> Nat]
    /\ \A r \in Runners : handled[r] <= MaxThroughput[r]
    /\ verdict \in [Runners -> {"none", "resume", "awaiting", "done"}]
    /\ keep \in [Runners -> BOOLEAN]
    /\ current \in [Runners -> Messages \cup {NoMessage}]
    /\ behavior \in Messages \cup {NoMessage}
    /\ awaited \in BOOLEAN
    /\ awaits \in 0 .. MaxAwaits
    /\ jobs \in Nat
    /\ stopped \in BOOLEAN
    /\ dtor \in {"alive", "draining"} \cup Quiet

\* The constructor ends in try_block(): an actor is born parked, its word idle.
Init ==
    /\ state = [scheduled |-> FALSE, running |-> FALSE,
                destroying |-> FALSE, senders |-> 0]
    /\ inbox = [tag |-> "blocked", stack |-> {}]
    /\ cache = {}
    /\ call = [m \in Messages |-> "new"]
    /\ fate = [m \in Messages |-> "unsent"]
    /\ pc = [r \in Runners |-> "idle"]
    /\ handled = [r \in Runners |-> 0]
    /\ verdict = [r \in Runners |-> "none"]
    /\ keep = [r \in Runners |-> FALSE]
    /\ current = [r \in Runners |-> NoMessage]
    /\ behavior = NoMessage
    /\ awaited = FALSE
    /\ awaits = 0
    /\ jobs = 0
    /\ stopped = FALSE
    /\ dtor = "alive"

-----------------------------------------------------------------------------
(* enqueue_impl(), and its caller's duty to enqueue the actor.             *)

\* The gate.  The caller holds a valid actor, so the call begins before the
\* members are destroyed; a refused message is destroyed, which settles its
\* future with operation_canceled.
EnqueueGate(m) ==
    /\ call[m] = "new"
    /\ dtor # "gone"
    /\ \/ /\ state.destroying
          /\ call' = [call EXCEPT ![m] = "returned"]
          /\ fate' = [fate EXCEPT ![m] = "cancelled"]
          /\ UNCHANGED state
       \/ /\ ~state.destroying
          /\ state' = [state EXCEPT !.senders = @ + 1]
          /\ call' = [call EXCEPT ![m] = "registered"]
          /\ UNCHANGED fate
    /\ UNCHANGED <<inbox, cache, pc, handled, verdict, keep, current,
                   behavior, awaited, awaits, jobs, stopped, dtor>>

\* mailbox().push_back(): unblocked_reader when the push replaces the tag.
PushBack(m) ==
    /\ call[m] = "registered"
    /\ call' = [call EXCEPT ![m] =
                  IF inbox.tag = "blocked" THEN "unblocked" ELSE "pushed"]
    /\ inbox' = [tag |-> "empty", stack |-> inbox.stack \cup {m}]
    /\ fate' = [fate EXCEPT ![m] = "accepted"]
    /\ UNCHANGED <<state, cache, pc, handled, verdict, keep, current,
                   behavior, awaited, awaits, jobs, stopped, dtor>>

\* Wrong: a running actor is left to notice the message by itself.
ClaimsOnlyWhenIdle(m) ==
    call[m] = "unblocked" /\ ~state.destroying /\ ~state.scheduled /\ ~state.running

\* Never schedule a dying actor or claim a held bit.
Claims(m) ==
    call[m] = "unblocked" /\ ~state.destroying /\ ~state.scheduled

\* Wrong: whoever claims the bit enqueues.
OwesEvenIfRunning(m) == Claims(m)

\* The holder of `running` discharges the obligation itself.
OwesEnqueue(m) == Claims(m) /\ ~state.running

\* Wrong: the flag is stored rather than set.
ScheduledOverwritten(m) == Claims(m)

ScheduledAfterLeave(m) == state.scheduled \/ Claims(m)

\* Wrong: two senders leave at once.
SubTwoSenders(n) == n - 2

\* Wrong: an early return forgets to deregister.
SubNoSender(n) == n

SubSender(n) == n - 1

\* Deregister and, in the same step, claim `scheduled`.
LeaveAndMaybeSchedule(m) ==
    /\ call[m] \in {"pushed", "unblocked"}
    /\ state' = [state EXCEPT !.senders = SubSender(@),
                              !.scheduled = ScheduledAfterLeave(m)]
    /\ call' = [call EXCEPT ![m] = IF OwesEnqueue(m) THEN "owes" ELSE "returned"]
    /\ UNCHANGED <<inbox, cache, fate, pc, handled, verdict, keep, current,
                   behavior, awaited, awaits, jobs, stopped, dtor>>

\* send() answered needs_sched: its caller enqueues a job node.
SchedulerEnqueue(m) ==
    /\ call[m] = "owes"
    /\ call' = [call EXCEPT ![m] = "returned"]
    /\ jobs' = jobs + 1
    /\ UNCHANGED <<state, inbox, cache, fate, pc, handled, verdict, keep,
                   current, behavior, awaited, awaits, stopped, dtor>>

-----------------------------------------------------------------------------
(* resume().                                                               *)

\* A worker dequeues a node; a driver calls at will, and again when it must.
WorkerDequeue(r) ==
    /\ r \notin Drivers
    /\ pc[r] = "idle"
    /\ jobs > 0
    /\ ~stopped
    /\ jobs' = jobs - 1
    /\ pc' = [pc EXCEPT ![r] = "start"]
    /\ UNCHANGED <<call, fate, actorVars, frameVars, ownerVars>>

DriverCall(r) ==
    /\ r \in Drivers
    /\ pc[r] \in {"idle", "again"}
    /\ dtor = "alive"
    /\ pc' = [pc EXCEPT ![r] = "start"]
    /\ UNCHANGED <<call, fate, jobs, actorVars, frameVars, ownerVars>>

\* Wrong: `running` is not looked at.
FreeAlways == TRUE

FreeToRun == ~state.running

\* A contended call marks the word for the holder and answers `awaiting`.
TryAcquireRunning(r) ==
    /\ pc[r] = "start"
    /\ \/ /\ ~FreeToRun
          /\ state' = [state EXCEPT !.scheduled = TRUE]
          /\ pc' = [pc EXCEPT ![r] = "return"]
          /\ verdict' = [verdict EXCEPT ![r] = "awaiting"]
       \/ /\ FreeToRun
          /\ state' = [state EXCEPT !.running = TRUE, !.scheduled = FALSE]
          /\ pc' = [pc EXCEPT ![r] = "entry"]
          /\ UNCHANGED verdict
    /\ UNCHANGED <<inbox, cache, call, fate, handled, keep, current,
                   behavior, awaited, awaits, jobs, stopped, dtor>>

Goto(r, label) ==
    /\ pc' = [pc EXCEPT ![r] = label]
    /\ UNCHANGED <<verdict, keep>>

Finalize(r, result, keepSched) ==
    /\ pc' = [pc EXCEPT ![r] = "release"]
    /\ verdict' = [verdict EXCEPT ![r] = result]
    /\ keep' = [keep EXCEPT ![r] = keepSched]

\* The entry checks: `destroying`, then a closed mailbox.
ResumeEntry(r) ==
    /\ pc[r] = "entry"
    /\ IF state.destroying \/ inbox.tag = "closed"
         THEN Finalize(r, "done", FALSE)
         ELSE Goto(r, "unpark")
    /\ UNCHANGED <<call, fate, jobs, handled, current, actorVars, ownerVars>>

\* Wrong: a runner other than a woken worker leaves the tag up.
TagKept(tag) == tag

Unblocked(tag) == IF tag = "blocked" THEN "empty" ELSE tag

TryUnblock(r) ==
    /\ pc[r] = "unpark"
    /\ inbox' = [inbox EXCEPT !.tag = Unblocked(@)]
    /\ Goto(r, "drain")
    /\ UNCHANGED <<state, cache, call, fate, handled, current, behavior,
                   awaited, awaits, jobs, stopped, dtor>>

\* The behavior is not suspended, or its continuation ran to the end.
DrainDone(r, next) ==
    /\ behavior = NoMessage \/ awaited
    /\ fate' = [m \in Messages |-> IF m = behavior THEN "handled" ELSE fate[m]]
    /\ behavior' = NoMessage
    /\ awaited' = FALSE
    /\ Goto(r, next)
    /\ UNCHANGED awaits

\* Not ready, or suspended again inside cont.resume(): stay scheduled.
DrainBusy(r) ==
    /\ behavior # NoMessage
    /\ \/ /\ ~awaited
          /\ UNCHANGED <<awaited, awaits>>
       \/ /\ awaited
          /\ awaits < MaxAwaits
          /\ awaits' = awaits + 1
          /\ awaited' = FALSE
    /\ Finalize(r, "resume", TRUE)
    /\ UNCHANGED <<fate, behavior>>

\* The same drain on the way in and at the top of every iteration.
DrainBehavior(r) ==
    /\ \/ /\ pc[r] = "drain"
          /\ DrainDone(r, "check") \/ DrainBusy(r)
       \/ /\ pc[r] = "redrain"
          /\ DrainDone(r, "pop") \/ DrainBusy(r)
    /\ UNCHANGED <<state, inbox, cache, call, handled, current, jobs,
                   stopped, dtor>>

\* Wrong: the stack is copied, not taken.
FetchCopy ==
    /\ cache' = cache \cup inbox.stack
    /\ UNCHANGED inbox

\* mailbox().empty() is size() == 0, and size() fetches the stack.
FetchMore ==
    /\ cache' = cache \cup inbox.stack
    /\ inbox' = [inbox EXCEPT !.stack = {}]

CheckMailbox(r) ==
    /\ pc[r] = "check"
    /\ IF inbox.tag = "blocked"
         THEN Finalize(r, "awaiting", FALSE) /\ UNCHANGED <<inbox, cache>>
         ELSE /\ FetchMore
              /\ Goto(r, IF cache' = {} THEN "park" ELSE "loop")
    /\ UNCHANGED <<state, call, fate, handled, current, behavior, awaited,
                   awaits, jobs, stopped, dtor>>

LoopHead(r) ==
    /\ pc[r] = "loop"
    /\ IF state.destroying \/ inbox.tag = "closed"
         THEN Finalize(r, "done", FALSE)
         ELSE IF inbox.tag = "blocked"
                THEN Finalize(r, "awaiting", FALSE)
                ELSE Goto(r, "redrain")
    /\ UNCHANGED <<call, fate, jobs, handled, current, actorVars, ownerVars>>

\* pop_front() looks at the cache and fetches only when it is empty.
PopFront(r) ==
    /\ pc[r] = "pop"
    /\ \/ /\ cache # {}
          /\ UNCHANGED inbox
          /\ \E m \in cache : /\ cache' = cache \ {m}
                              /\ current' = [current EXCEPT ![r] = m]
          /\ Goto(r, "dispatch")
       \/ /\ cache = {}
          /\ inbox' = [inbox EXCEPT !.stack = {}]
          /\ \E m \in inbox.stack : /\ cache' = inbox.stack \ {m}
                                    /\ current' = [current EXCEPT ![r] = m]
          /\ Goto(r, "dispatch")
       \/ /\ cache = {}
          /\ inbox.stack = {}
          /\ UNCHANGED <<inbox, cache, current>>
          /\ IF inbox.tag = "closed"
               THEN Finalize(r, "done", FALSE)
               ELSE Goto(r, "park")
    /\ UNCHANGED <<state, call, fate, handled, behavior, awaited, awaits,
                   jobs, stopped, dtor>>

\* Wrong: after the last message a suspended behavior is forgotten.
NeverBusy(busy) == FALSE

StillBusy(busy) == busy

\* ++handled, the loop condition and what follows the loop.
NextIteration(r, busy) ==
    /\ handled' = [handled EXCEPT ![r] = @ + 1]
    /\ current' = [current EXCEPT ![r] = NoMessage]
    /\ IF handled[r] + 1 < MaxThroughput[r]
         THEN Goto(r, "loop")
         ELSE IF StillBusy(busy)
                THEN Finalize(r, "resume", TRUE)
                ELSE Goto(r, "park")

\* A message popped once the actor is dying is dropped, hence cancelled.
Dispatch(r) ==
    /\ pc[r] = "dispatch"
    /\ \/ /\ state.destroying
          /\ fate' = [fate EXCEPT ![current[r]] = "cancelled"]
          /\ NextIteration(r, FALSE)
       \/ /\ ~state.destroying
          /\ fate' = [fate EXCEPT ![current[r]] = "active"]
          /\ Goto(r, "behave")
          /\ UNCHANGED <<handled, current>>
    /\ UNCHANGED <<call, jobs, actorVars, ownerVars>>

\* behavior(msg) returns: finished, or suspended on its first co_await.
BehaviorReturns(r) ==
    /\ pc[r] = "behave"
    /\ \/ /\ fate' = [fate EXCEPT ![current[r]] = "handled"]
          /\ NextIteration(r, FALSE)
          /\ UNCHANGED <<behavior, awaited, awaits>>
       \/ /\ awaits < MaxAwaits
          /\ awaits' = awaits + 1
          /\ behavior' = current[r]
          /\ awaited' = FALSE
          /\ NextIteration(r, TRUE)
          /\ UNCHANGED fate
    /\ UNCHANGED <<state, inbox, cache, call, jobs, stopped, dtor>>

\* Wrong: what was fetched and not handled is forgotten.
NothingOnStack == inbox = [tag |-> "empty", stack |-> {}]

\* try_block() fails on a cached message or a non-empty stack.
NothingLeft == cache = {} /\ inbox = [tag |-> "empty", stack |-> {}]

\* park(), reached with messages left when the throughput is used up.
Park(r) ==
    /\ pc[r] = "park"
    /\ IF NothingLeft
         THEN /\ inbox' = [inbox EXCEPT !.tag = "blocked"]
              /\ Goto(r, "window")
         ELSE /\ UNCHANGED inbox
              /\ Finalize(r, "resume", TRUE)
    /\ UNCHANGED <<state, cache, call, fate, handled, current, behavior,
                   awaited, awaits, jobs, stopped, dtor>>

\* Wrong: `awaiting` with keep_scheduled, the combination park() must avoid.
WindowAwaiting == "awaiting"

WindowVerdict == "resume"

\* check_race_window(): !blocked() && !empty().  Only pushes can come between
\* the two reads, since nobody else takes messages, so they are one step.
CheckRaceWindow(r) ==
    /\ pc[r] = "window"
    /\ \/ /\ inbox.tag = "blocked"
          /\ Finalize(r, "awaiting", FALSE)
          /\ UNCHANGED <<inbox, cache>>
       \/ /\ inbox.tag # "blocked"
          /\ FetchMore
          /\ IF cache' = {} THEN Finalize(r, "awaiting", FALSE)
                            ELSE Finalize(r, WindowVerdict, TRUE)
    /\ UNCHANGED <<state, call, fate, handled, current, behavior, awaited,
                   awaits, jobs, stopped, dtor>>

\* An `awaiting` that was scheduled meanwhile becomes `resume`.
ReportedVerdict(r) ==
    IF verdict[r] = "awaiting" /\ state.scheduled THEN "resume" ELSE verdict[r]

\* ~resume_guard: drop `running`, keep or set `scheduled`.
ResumeGuardRelease(r) ==
    /\ pc[r] = "release"
    /\ state' = [state EXCEPT !.running = FALSE,
                              !.scheduled = @ \/ keep[r]]
    /\ verdict' = [verdict EXCEPT ![r] = ReportedVerdict(r)]
    /\ pc' = [pc EXCEPT ![r] = "return"]
    /\ UNCHANGED <<inbox, cache, call, fate, handled, keep, current,
                   behavior, awaited, awaits, jobs, stopped, dtor>>

\* The caller acts on the verdict: worker::run() re-enqueues on `resume` and
\* drops the node otherwise; a driver owes another call on `resume`.
ReturnVerdict(r) ==
    /\ pc[r] = "return"
    /\ pc' = [pc EXCEPT ![r] = IF verdict[r] = "resume" /\ r \in Drivers
                                 THEN "again" ELSE "idle"]
    /\ jobs' = IF verdict[r] = "resume" /\ r \notin Drivers
                 THEN jobs + 1 ELSE jobs
    /\ handled' = [handled EXCEPT ![r] = 0]
    /\ verdict' = [verdict EXCEPT ![r] = "none"]
    /\ keep' = [keep EXCEPT ![r] = FALSE]
    /\ UNCHANGED <<state, inbox, cache, call, fate, current, behavior,
                   awaited, awaits, stopped, dtor>>

-----------------------------------------------------------------------------
(* Elsewhere: the future a behavior awaits is settled; the owner.          *)

SettleAwaited ==
    /\ behavior # NoMessage
    /\ ~awaited
    /\ awaited' = TRUE
    /\ UNCHANGED <<state, inbox, cache, call, fate, pc, behavior, awaits,
                   jobs, frameVars, ownerVars>>

\* scheduler_t::stop() has joined every worker and cleared the queue.
StopScheduler ==
    /\ ~stopped
    /\ \A r \in Runners \ Drivers : pc[r] = "idle"
    /\ stopped' = TRUE
    /\ jobs' = 0
    /\ UNCHANGED <<call, fate, pc, dtor, actorVars, frameVars>>

\* The owner destroys the actor after stop(), and while no driver is about to
\* call resume(): a call that has not acquired `running` is not waited for.
DtorPublish ==
    /\ dtor = "alive"
    /\ stopped
    /\ \A r \in Runners : pc[r] # "start"
    /\ state' = [state EXCEPT !.destroying = TRUE]
    /\ dtor' = "draining"
    /\ UNCHANGED <<inbox, cache, call, fate, pc, behavior, awaited, awaits,
                   jobs, stopped, frameVars>>

\* Wrong: only the runner is waited for.
BusyRunning == state.running

Busy == state.running \/ state.senders # 0

\* wait_for_activity_to_drain() returns.
DtorDrained ==
    /\ dtor = "draining"
    /\ ~Busy
    /\ dtor' = "drained"
    /\ UNCHANGED <<call, fate, pc, jobs, stopped, actorVars, frameVars>>

\* make_state(false, false, true) rebuilds the word, sender count included.
DtorTerminal ==
    /\ dtor = "drained"
    /\ state' = [scheduled |-> FALSE, running |-> FALSE,
                 destroying |-> TRUE, senders |-> 0]
    /\ dtor' = "terminal"
    /\ UNCHANGED <<inbox, cache, call, fate, pc, behavior, awaited, awaits,
                   jobs, stopped, frameVars>>

\* Wrong: close() walks the stack and leaves the fetched queues alone.
ClosedStackOnly == inbox.stack

ClosedMessages == cache \cup inbox.stack

\* The members go: the suspended behavior's frame, then the mailbox, whose
\* close() destroys, hence cancels, whatever is cached or on the stack.
DtorMembers ==
    /\ dtor = "terminal"
    /\ fate' = [m \in Messages |->
                  CASE m \in ClosedMessages -> "cancelled"
                    [] m = behavior         -> "orphaned"
                    [] OTHER                -> fate[m]]
    /\ behavior' = NoMessage
    /\ awaited' = FALSE
    /\ cache' = {}
    /\ inbox' = [tag |-> "closed", stack |-> {}]
    /\ dtor' = "gone"
    /\ UNCHANGED <<state, call, pc, awaits, jobs, stopped, frameVars>>

-----------------------------------------------------------------------------
Call(m) ==
    \/ PushBack(m)
    \/ LeaveAndMaybeSchedule(m)
    \/ SchedulerEnqueue(m)

Resume(r) ==
    \/ TryAcquireRunning(r)
    \/ ResumeEntry(r)
    \/ TryUnblock(r)
    \/ DrainBehavior(r)
    \/ CheckMailbox(r)
    \/ LoopHead(r)
    \/ PopFront(r)
    \/ Dispatch(r)
    \/ BehaviorReturns(r)
    \/ Park(r)
    \/ CheckRaceWindow(r)
    \/ ResumeGuardRelease(r)
    \/ ReturnVerdict(r)

Destructor == DtorDrained \/ DtorTerminal \/ DtorMembers

Next ==
    \/ \E m \in Messages : EnqueueGate(m) \/ Call(m)
    \/ \E r \in Runners : WorkerDequeue(r) \/ DriverCall(r) \/ Resume(r)
    \/ SettleAwaited
    \/ StopScheduler
    \/ DtorPublish
    \/ Destructor

\* What the operating system owes a running thread: a call or a resume() that
\* has begun takes its next step, an idle worker takes a queued node, a driver
\* honours `resume`, a destructor that has begun goes on, and the futures that
\* behaviors wait on are settled by their producers.  Nobody is obliged to
\* send, to drive, to stop the scheduler or to destroy the actor.
Fairness ==
    /\ \A m \in Messages : WF_vars(Call(m))
    /\ \A r \in Runners : /\ WF_vars(Resume(r))
                          /\ WF_vars(WorkerDequeue(r))
                          /\ WF_vars(pc[r] = "again" /\ DriverCall(r))
    /\ WF_vars(SettleAwaited)
    /\ WF_vars(Destructor)

Spec == Init /\ [][Next]_vars

LiveSpec == Spec /\ Fairness

-----------------------------------------------------------------------------
(* Properties.                                                             *)

\* The messages nobody has begun to handle.
Pending == inbox.stack \cup cache

\* Somebody is bound to call resume(): a queued node, a node a sender or a
\* worker is about to enqueue, or a call that is about to acquire `running`.
HoldsNode(r) ==
    \/ pc[r] \in {"start", "again"}
    \/ pc[r] = "return" /\ verdict[r] = "resume"

Committed ==
    \/ jobs > 0
    \/ \E m \in Messages : call[m] = "owes"
    \/ \E r \in Runners : HoldsNode(r)

\* While the scheduler works and the owner has not begun to destroy.
InService == dtor = "alive" /\ ~stopped

\* `running` excludes: at most one thread is inside resume_impl(), where the
\* mailbox's queues and current_behavior_ are used without any lock, and the
\* flag is up exactly when one is (try_acquire_running, ~resume_guard).
RunnerExclusion ==
    /\ \A r1, r2 \in Runners :
         pc[r1] \in Inside /\ pc[r2] \in Inside => r1 = r2
    /\ state.running <=> \E r \in Runners : pc[r] \in Inside

\* No lost wakeup: a message in the mailbox has a runner inside resume(), a
\* job that will bring one, or the sender that unblocked the reader and has
\* not yet left (park() against leave_and_maybe_schedule()).
NoLostWakeup ==
    InService /\ Pending # {} =>
        \/ state.running
        \/ Committed
        \/ \E m \in Messages : call[m] = "unblocked"

\* A behavior suspended on a co_await is never parked: completion is
\* flag-only, so only a runner or a job can bring the actor back to it.
SuspendedNotStranded ==
    InService /\ behavior # NoMessage => state.running \/ Committed

\* park()'s promise: `scheduled` is never left set with no job anywhere, as
\* nobody would ever claim the bit again.
ScheduledHasJob ==
    InService /\ state.scheduled /\ ~state.running => Committed

\* Without drivers an actor has at most one job node, and none while a worker
\* runs it: two workers never contend for one actor.
SingleJobNode ==
    /\ jobs + Cardinality({m \in Messages : call[m] = "owes"})
            + Cardinality({r \in Runners : HoldsNode(r)}) <= 1
    /\ state.running => ~Committed

\* The queues are fetched from an inbox that carries no blocked tag, as
\* take_head() and lifo_inbox::empty() assert.
HolderUnparked ==
    \A r \in Runners :
        pc[r] \in Inside \ {"entry", "unpark", "window", "release"} =>
            inbox.tag = "empty"

\* Once wait_for_activity_to_drain() has returned nobody is in the mailbox,
\* neither a sender past the gate nor a runner, and nobody can come back.
QuietAfterDrain ==
    dtor \in Quiet =>
        /\ \A m \in Messages : call[m] \notin InFlight
        /\ \A r \in Runners : pc[r] \notin Inside \cup {"start"}

\* What has been handled or cancelled stays so: no message is run twice, and
\* none is cancelled after it was handled.
FateFinal ==
    [][\A m \in Messages : fate[m] \in Settled => fate'[m] = fate[m]]_vars

\* When the actor is gone every message sent to it has been handled or
\* cancelled, except the one whose behavior was suspended.
SettledAtDeath ==
    dtor = "gone" =>
        \A m \in Messages : call[m] # "new" => fate[m] \in Settled

\* The scheduled bit, once up, stays up for as long as `running` does; what
\* ~resume_guard collects over its failed attempts is the last value it saw.
ScheduledSticky ==
    [][state.running /\ state'.running /\ state.scheduled
         => state'.scheduled]_vars

\* Every accepted message is handled or cancelled, unless the scheduler has
\* been stopped under it.
AcceptedSettles ==
    \A m \in Messages :
        fate[m] = "accepted" ~> fate[m] \in Settled \/ stopped

\* The destructor never waits forever: senders and the runner drain.
DestructorEnds == dtor = "draining" ~> dtor = "gone"

\* What the actor promises its senders, whatever threads do (ActorContract).
Contract == INSTANCE ActorContract WITH
    phase <- IF dtor = "alive" THEN "open"
             ELSE IF dtor = "gone" THEN "closed" ELSE "closing"

\* Messages are run one at a time, each at most once, none after the actor is
\* gone, and none is refused or dropped before its destruction begins.
ImplementsContract == Contract!Spec

=============================================================================
