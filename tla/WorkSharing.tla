---------------------------- MODULE WorkSharing -----------------------------
(***************************************************************************)
(* scheduler_t<work_sharing>: one queue of job nodes under a mutex and a   *)
(* condition variable, the workers' loop, and stop().                      *)
(*                                                                         *)
(* What happens under the mutex is one step.  notify_one() comes after the *)
(* unlock and is a step of its own; it wakes any one sleeper, or nobody,   *)
(* and a sleeper may also wake for no reason.                              *)
(***************************************************************************)
EXTENDS Naturals, FiniteSets, Sequences

CONSTANTS
    Workers,    \* worker threads
    Callers,    \* other threads, which enqueue actors
    Jobs,       \* actors
    Helper,     \* stop()'s shutdown_helper
    NoJob       \* no node

ASSUME SchedulerAssumption ==
    /\ IsFiniteSet(Workers) /\ Workers # {}
    /\ IsFiniteSet(Callers) /\ Callers \cap Workers = {}
    /\ Helper \notin Jobs
    /\ NoJob \notin Jobs \cup {Helper}

VARIABLES
    queue,      \* coordinator_data::queue
    worker,     \* where a worker is
    node,       \* the node it has dequeued
    caller,     \* where a call of enqueue() is
    stop,       \* where stop() is
    alive,      \* how many of alive_workers stop() has still to see off
    completed   \* shutdown_helper::completed_count

vars == <<queue, worker, node, caller, stop, alive, completed>>
stopVars == <<stop, alive, completed>>

TypeOK ==
    /\ queue \in Seq(Jobs \cup {Helper})
    /\ worker \in [Workers -> {"dequeue", "asleep", "run", "notify", "leaving",
                               "exited"}]
    /\ node \in [Workers -> Jobs \cup {Helper, NoJob}]
    /\ caller \in [Callers -> {"idle", "notify"}]
    /\ stop \in {"no", "push", "notify", "wait", "join", "clear", "stopped"}
    /\ alive \in 0 .. Cardinality(Workers)
    /\ completed \in 0 .. 1

\* start() has launched the workers.
Init ==
    /\ queue = <<>>
    /\ worker = [w \in Workers |-> "dequeue"]
    /\ node = [w \in Workers |-> NoJob]
    /\ caller = [c \in Callers |-> "idle"]
    /\ stop = "no"
    /\ alive = 0
    /\ completed = 0

-----------------------------------------------------------------------------
\* What notify_one() can make of the workers.
Notified(ws) ==
    LET sleepers == {w \in Workers : ws[w] = "asleep"}
    IN  IF sleepers = {} THEN {ws}
                         ELSE {[ws EXCEPT ![w] = "dequeue"] : w \in sleepers}

\* Wrong: whoever enqueues leaves without notify_one().
ReturnsAtOnce(back) == back

\* enqueue() has unlocked; the notification is still to come.
StillToNotify(back) == "notify"

\* An actor has at most one node (SingleJobNode of CooperativeActor).
HasNode(j) ==
    \/ \E i \in DOMAIN queue : queue[i] = j
    \/ \E w \in Workers : node[w] = j

\* enqueue() of a thread that owes one: under the mutex, then the rest.
Enqueue(c) ==
    /\ caller[c] = "idle"
    /\ \E j \in Jobs : ~HasNode(j) /\ queue' = Append(queue, j)
    /\ caller' = [caller EXCEPT ![c] = StillToNotify("idle")]
    /\ UNCHANGED <<worker, node, stopVars>>

EnqueueNotify(c) ==
    /\ caller[c] = "notify"
    /\ caller' = [caller EXCEPT ![c] = "idle"]
    /\ worker' \in Notified(worker)
    /\ UNCHANGED <<queue, node, stopVars>>

-----------------------------------------------------------------------------
(* worker::run().                                                          *)

\* dequeue(): the predicate of wait() holds, or the worker goes to sleep.
Dequeue(w) ==
    /\ worker[w] = "dequeue"
    /\ \/ /\ queue # <<>>
          /\ node' = [node EXCEPT ![w] = Head(queue)]
          /\ queue' = Tail(queue)
          /\ worker' = [worker EXCEPT ![w] = "run"]
       \/ /\ queue = <<>>
          /\ worker' = [worker EXCEPT ![w] = "asleep"]
          /\ UNCHANGED <<queue, node>>
    /\ UNCHANGED <<caller, stopVars>>

SpuriousWakeup(w) ==
    /\ worker[w] = "asleep"
    /\ worker' = [worker EXCEPT ![w] = "dequeue"]
    /\ UNCHANGED <<queue, node, caller, stopVars>>

\* Wrong: the actor goes to the front of the queue.
AtFront(j) == <<j>> \o queue

AtBack(j) == Append(queue, j)

\* The actor's resume() answered `resume`: resume_job_later().
ResumeJobLater(w) ==
    /\ worker[w] = "run"
    /\ node[w] \in Jobs
    /\ queue' = AtBack(node[w])
    /\ node' = [node EXCEPT ![w] = NoJob]
    /\ worker' = [worker EXCEPT ![w] = StillToNotify("dequeue")]
    /\ UNCHANGED <<caller, stopVars>>

ResumeNotify(w) ==
    /\ worker[w] = "notify"
    /\ worker' \in Notified([worker EXCEPT ![w] = "dequeue"])
    /\ UNCHANGED <<queue, node, caller, stopVars>>

\* It answered `awaiting` or `done`: the node is deleted.
DropNode(w) ==
    /\ worker[w] = "run"
    /\ node[w] \in Jobs
    /\ node' = [node EXCEPT ![w] = NoJob]
    /\ worker' = [worker EXCEPT ![w] = "dequeue"]
    /\ UNCHANGED <<queue, caller, stopVars>>

\* Wrong: the worker goes on after the helper's `shutdown`.
KeepsRunning == "dequeue"

LeavesLoop == "leaving"

\* shutdown_helper::resume(), under its own mutex.
RunHelper(w) ==
    /\ worker[w] = "run"
    /\ node[w] = Helper
    /\ completed' = completed + 1
    /\ worker' = [worker EXCEPT ![w] = LeavesLoop]
    /\ node' = [node EXCEPT ![w] = NoJob]
    /\ UNCHANGED <<queue, caller, stop, alive>>

\* The helper is let go of, and run() returns.
LeaveRun(w) ==
    /\ worker[w] = "leaving"
    /\ worker' = [worker EXCEPT ![w] = "exited"]
    /\ UNCHANGED <<queue, node, caller, stopVars>>

-----------------------------------------------------------------------------
(* scheduler_t::stop(), called once.                                       *)

StopBegin ==
    /\ stop = "no"
    /\ stop' = "push"
    /\ alive' = Cardinality(Workers)
    /\ UNCHANGED <<queue, worker, node, caller, completed>>

\* external_enqueue(&sh).
StopPush ==
    /\ stop = "push"
    /\ queue' = AtBack(Helper)
    /\ stop' = StillToNotify("wait")
    /\ UNCHANGED <<worker, node, caller, alive, completed>>

StopNotify ==
    /\ stop = "notify"
    /\ worker' \in Notified(worker)
    /\ stop' = "wait"
    /\ UNCHANGED <<queue, node, caller, alive, completed>>

CountTaken == completed - 1

\* wait_for_completion(), and the next of alive_workers.
StopWait ==
    /\ stop = "wait"
    /\ completed > 0
    /\ completed' = CountTaken
    /\ alive' = alive - 1
    /\ stop' = IF alive = 1 THEN "join" ELSE "push"
    /\ UNCHANGED <<queue, worker, node, caller>>

\* Wrong: every worker has answered, so nobody is joined.
AllAnswered == TRUE

AllExited == \A w \in Workers : worker[w] = "exited"

StopJoin ==
    /\ stop = "join"
    /\ AllExited
    /\ stop' = "clear"
    /\ UNCHANGED <<queue, worker, node, caller, alive, completed>>

\* foreach_central_resumable(): the nodes that are left are deleted.
StopClear ==
    /\ stop = "clear"
    /\ queue' = <<>>
    /\ stop' = "stopped"
    /\ UNCHANGED <<worker, node, caller, alive, completed>>

-----------------------------------------------------------------------------
Run(w) ==
    \/ Dequeue(w)
    \/ ResumeJobLater(w)
    \/ ResumeNotify(w)
    \/ DropNode(w)
    \/ RunHelper(w)
    \/ LeaveRun(w)

Stopping == StopPush \/ StopNotify \/ StopWait \/ StopJoin \/ StopClear

Next ==
    \/ \E c \in Callers : Enqueue(c) \/ EnqueueNotify(c)
    \/ \E w \in Workers : Run(w) \/ SpuriousWakeup(w)
    \/ StopBegin
    \/ Stopping

Spec == Init /\ [][Next]_vars

\* Threads run: a worker that is awake, a call that has pushed, and a stop()
\* that has begun take their next steps.  Nobody is obliged to enqueue or to
\* stop, and no sleeper to wake without a notification.
Fairness ==
    /\ \A w \in Workers : WF_vars(Run(w))
    /\ \A c \in Callers : WF_vars(EnqueueNotify(c))
    /\ WF_vars(Stopping)

LiveSpec == Spec /\ Fairness

-----------------------------------------------------------------------------
(* Properties.                                                             *)

Awake == {w \in Workers : worker[w] = "dequeue"}

Notifiers == {w \in Workers : worker[w] = "notify"}
             \cup {c \in Callers : caller[c] = "notify"}

\* No worker sleeps over work: while one is asleep, every queued node has a
\* worker on its way to dequeue() or a notification still to come.  So a
\* notification that hits nobody, or wakes a worker whose node was taken by
\* another, loses nothing.
WorkConserving ==
    (\E w \in Workers : worker[w] = "asleep") =>
        Len(queue) <= Cardinality(Awake) + Cardinality(Notifiers)
                        + (IF stop = "notify" THEN 1 ELSE 0)

\* When stop() returns, no worker is left in its loop, in an actor or in the
\* helper, which lives on stop()'s stack; and it has seen off each exactly once.
StoppedQuiet ==
    stop = "stopped" =>
        /\ \A w \in Workers : worker[w] = "exited"
        /\ completed = 0
        /\ \A i \in DOMAIN queue : queue[i] # Helper

\* stop() returns, whatever jobs keep answering `resume`.
StopReturns == stop = "push" ~> stop = "stopped"

\* A queued actor is run, even if all others answer `resume` for ever, unless
\* the scheduler is stopped.
JobsRun ==
    \A j \in Jobs :
        (\E i \in DOMAIN queue : queue[i] = j)
            ~> (\E w \in Workers : node[w] = j) \/ stop # "no"

=============================================================================
