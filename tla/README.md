# A TLA+ model of actor-zeta

actor-zeta is a C++20 library of cooperative actors. `send()` turns a method call
into a message and a future; a lock-free mailbox carries the message; a
scheduler's worker, or a thread of the user's own, calls `resume()`; the actor's
`behavior()` coroutine dispatches the message to a method coroutine, which may
await other actors; and the answer comes back through a block shared by a promise
and a future. Nothing in the core takes a lock except the scheduler's queue.
Everything else is flags in atomic words, and the order in which they are read
and written.

This project models that core, and the programs the examples build on it, in TLA+,
checks it with TLC on small instances, and
proves the central results with TLAPS for instances of any size. Source paths
below are relative to `src/header/actor-zeta/`.

## 1. Inventory

| Component | State | Operations | Talks to |
|---|---|---|---|
| `actor/cooperative_actor.hpp` | the word `state_` (scheduled, running, destroying, number of senders), the mailbox, `current_behavior_` | constructor, `enqueue_impl()`, `resume()` with `resume_impl()`, `park()` and the resume guard, destructor with its drain | senders, workers, drivers, the mailbox, the suspended behavior |
| state word (same file) | one `uint32_t` | bit helpers, six compare-exchange loops with an attempt bound | every thread that touches the actor |
| `detail/queue/lifo_inbox.hpp`, `impl/mailbox/default_mailbox.ipp` | stack head or tag (empty, blocked, closed), two priority queues | push, fetch, pop, block, unblock, close | senders (push), the runner (all else) |
| `detail/queue/linked_list.hpp` | `next` pointers, two sentinels, a size | push, pop, insert after, drain | mailbox, scheduler |
| `scheduler/` | queue of job nodes, mutex, condition variable, workers | `enqueue()`, the worker loop, `stop()` with `shutdown_helper` | actors through `resume()` |
| `detail/shared_state.hpp`, `detail/future.hpp` | flags, value, continuation | set, settle, release, poll, take, await, finalize, deallocate | producer and consumer, on different threads |
| `detail/future_awaiters.hpp`, `detail/behavior_t.hpp`, `actor/dispatch.hpp` | coroutine frames, pointers to the deepest awaited state | call, `co_await`, final suspend, drain, destroy | the runner; leaves settled by other threads |
| `mailbox/message.hpp`, `detail/rtt.hpp`, `mailbox/make_message.hpp` | argument buffer, result slot, ownership flag | make, move, assign, swap, hand over, destroy | `send()`, the mailbox, `dispatch()` |
| `detail/future.hpp`, `detail/result_storage.hpp` as handles | a pointer to the block; the value's place | make, move, assign, settle, take, destroy | user code, messages |
| `actor/dispatch_traits.hpp`, `actor/implements.hpp`, `actor/address.hpp`, `mailbox/id.hpp` | tables of methods, message numbers, untyped addresses | registration and its static assertions, search, copy, swap, restamp | `send()`, `behavior()` |
| `src/examples/` | routers on the caller's thread, a pool of actors, a scheduler | create, route, ask, answer, poll, stop, destroy | all of the above |
| `detail/ref_counted.hpp`, `detail/intrusive_ptr.hpp` | a count | ref, deref, moves | nobody (not modelled) |

The behaviours that are hard, and what is right about each:

* **Wakeups.** A sender that pushes on a blocked inbox owes the actor a job; the
  runner that parks races it. No message may be left with nobody to handle it, no
  `scheduled` bit with no job behind it, no suspended behavior unattended.
* **Exclusion.** The mailbox's queues and the behavior are used without a lock by
  whoever set `running`. Never two.
* **Destruction.** Senders and a runner may be in the actor when its destructor
  starts. It waits for them, nobody comes back, and every message is settled.
* **Last one out.** Promise and future leave the shared block at the same time, on
  two threads; one of them frees it, neither touches it afterwards.
* **Awaiting.** Completion is a flag that nobody announces. The root of a chain of
  coroutines must point at the leaf the chain waits for, at any depth, whenever
  the runner looks.
* **Ownership.** The duty to settle the caller passes from the message to
  `dispatch()`, and moves with the message. Discharged once, never twice.
* **Order.** A LIFO stack, reversed in batches into two queues, is a FIFO line per
  priority, although addresses are reused under a sender's feet.
* **Sleeping workers.** Notifications follow the unlock and may hit nobody.
* **The right method.** A method is turned into a number on one side and back into
  a method on the other, through tables written by hand in two classes.
* **Whole programs.** Actors that ask each other share workers with the actors they
  wait for; `stop()` comes at any moment. Everyone who asked gets an answer, or a
  failure when the actors go.

`PROJECT.json` lists the components with their status, and every hazard at its
line with the properties that would catch it.

## 2. Modules

| Module | Models | Abstract specification |
|---|---|---|
| `CooperativeActor` | the actor against senders, workers, drivers and its owner | `ActorContract` |
| `StateWord` | the word as an integer, the loops attempt by attempt | the record of `CooperativeActor` (`AtomicOnRecord`) |
| `Mailbox` | inbox, tags, address reuse, priority queues | `PriorityFifo` |
| `LinkedList` | the intrusive list on its pointers, as operators `Mailbox` uses | |
| `WorkSharing` | scheduler, workers, condition variable, `stop()` | |
| `SharedState` | promise and future on the shared block | |
| `AwaitChain` | `behavior()`, `dispatch()`, methods, awaits, the drain | |
| `Rtt`, `Message` | argument layout; messages, promises and futures through moves | |
| `Dispatch` | method tables, contracts, numbers, addresses | |
| `ActorSystem` | the programs of the examples: clients, routers, actors, workers, shutdown | |
| `...Proofs` | theorems about the module of that name (section 5) | |
| `AtomicWordsProofs` | theorems about `StateWord` and `SharedState`, which share no name | |
| `MC...` | instances for TLC | |

The components meet at the properties they rely on. `Mailbox` has one reader at a
time, which is `RunnerExclusion` of `CooperativeActor`, and fetches without the
blocked tag, which is `HolderUnparked`. `CooperativeActor` changes the word in one
step per loop, which `AtomicWordsProofs` justifies (`Atomicity`), and has the mailbox as sets, its order
being `Mailbox`'s. `SharedState` and `AwaitChain` assume that a suspended behavior
keeps being resumed, which is `SuspendedNotStranded` of `CooperativeActor`.
`ActorSystem` composes what the others establish: its actors have the one job node
that `OneNode` of `CooperativeActorProofs` promises, their mail comes in
`PriorityFifo`'s order, an awaited answer is seen by the drain as `AwaitChain` has
it, the queue and `stop()` behave as in `WorkSharing`, and what a destroyed actor
does to its messages is `ActorContract`'s `cancelled` and `orphaned`.

### CooperativeActor

A call of `enqueue_impl()` is named by its message and goes through
`EnqueueGate` (register, or refuse when `destroying`), `PushBack`,
`LeaveAndMaybeSchedule` (deregister and perhaps claim `scheduled`) and
`SchedulerEnqueue` (the caller does what `needs_sched` told it). A runner is a
worker or a driver; its `pc` walks through `resume()`: `TryAcquireRunning`,
`ResumeEntry`, `TryUnblock`, `DrainBehavior`, `CheckMailbox`, the loop
(`LoopHead`, `PopFront`, `Dispatch`, `BehaviorReturns`, `NextIteration`), `Park`,
`CheckRaceWindow`, `ResumeGuardRelease` and `ReturnVerdict`. The owner takes
`StopScheduler`, `DtorPublish`, `DtorDrained`, `DtorTerminal`, `DtorMembers`.
Each is one access to shared state with what follows it up to the next one. The
external driver is the pattern of `examples/external-drive`: it calls `resume()`
when it likes, and again when it is told `resume`.

The timeout of the destructor's drain, which terminates the process, is left out:
`DestructorEnds` shows that the wait ends when threads run.

### StateWord

The word is a number below `WordSize`; every loop loads, computes and exchanges in
separate steps, and aborts after `kMaxCasAttempts` failures.

### Mailbox, LinkedList

A node is an address: a handled message's address is free and may be pushed again
while a sender still holds it as the head it expects, the ABA case. A push links
the node to the head and exchanges it; the reader's operations are single
accesses. Nothing is counted, so sends never end. The two queues are intrusive
lists: the `next` fields with both sentinels, over which `LinkedList` defines the
operations, and `Fetched` is `fetch_more()`'s repeated `insert_after()` behind one
position. One `next` field per node serves the stack and the lists, as in the
code. `PriorityFifo` knows nothing of this: it has two sequences, and the refinement
mapping takes a priority's line to be what is cached for it (`Cached`) followed by
what is on the stack for it, oldest first (`Waiting`). `Walk`, `Fetched` and
`Waiting` are recursive functions over numbers, so that they can be proved about.

`push_front_impl()` is an action although no code calls it; what would,
`mailbox_t::push_front(message*)`, does not compile when instantiated. `peek_impl()`
is declared and has no body.

### WorkSharing

What happens under the mutex is one step; `notify_one()` is another, later one,
and wakes any sleeper or none. Sleepers may also wake spuriously. An actor answers
`resume`, `awaiting` or `done` at will. `stop()` sends one helper per worker, each
after the one before has answered, joins, and clears the queue.

### SharedState

Every access to `flags_` is a step: `fetch_or` of `promise_finalizing`, the load
and the `fetch_or` in `release_promise()`, the load, the exchange and the
`fetch_and` in `try_complete_finalize()`, against taking, polling, awaiting and
`release_future()`. Producers leave through `settle()`, or through a message's
`cleanup_fn_`, which does not set `promise_finalizing`.

### AwaitChain

All coroutines of one message run on the thread that holds `running`; `stack` is
that thread's, innermost last. Bodies are the user's and do anything in any order:
call methods, send, await, drop futures, end with a value or an exception. Leaves
are settled by other threads at any time, in two steps, `SetLeaf` and
`ReleaseLeaf`. A `co_await` is five steps: `Await` (`await_transform()`, which
propagates the deepest awaited state), `AwaitReady`, `Register`, `Recheck`,
`AwaitResume`. Who resumes a continuation has first taken it from where it was
registered (`Unregistered`): the second look, `final_awaiter`, or the drain. A method
may end with an `std::error_code` (`"error"` in `Outcomes`), which is settled as a
failure and handed on as one by `dispatch()`; awaiting it is refused (`Refuses`),
which aborts the process, and nothing follows. A leaf that fails without a value is
left out, since all that comes of awaiting it is that same refusal. A method runs at
most once.

### Rtt, Message

`Rtt` places arguments by `getSize()` and `push_back_no_realloc()`, with sizes,
alignments and decay as constants. `Message` follows a buffer, a shared state and
its value through all that the handles of one exchange can go through: a message
is constructed (which an argument's constructor may end by throwing), moved,
assigned, swapped, handed over and destroyed; a promise is made, asked for its
future, moved, assigned over, settled and destroyed; a future is made ready, moved,
assigned over, taken and destroyed. Assignment goes on where an assert would stop a
debug build. `aborted` is set where the code aborts: in `force_align()`, and in a
`take_ready()` that finds no value.

### Dispatch

A contract and the tables of the actors that implement it are chosen in `Init`
among all that pass the static assertions of `dispatch_traits` and `implements<>`;
those assertions are thus guards of what can be compiled, and the mutants drop
one. Two methods have one signature (`SameSignature`) when they take the same
arguments in the same way and have the same result. `find_method_index()` is the search at compile time (a router's `msg_id`),
`SearchedIndex` the one `send()` makes at run time. `Behave` is the switch in
`behavior()`; what becomes of message and method while it is suspended is
`AwaitChain`'s.
An `address_t` is three pointers and knows no type: that the actor behind it
implements the contract is the sender's obligation, and all actors of the model do.

### ActorSystem

`program` chooses an example. A router is an `actor_mixin`: its `enqueue_impl()`
runs `behavior()` inside `send()`, on the client's thread, so routing is a client's
action (`Delegate`, `Balance`, `AssignTask`, `CheckStatus`), followed by the
`PushMessage` and `ScheduleActor` it leads to. `balance` then spins in
`await_child()` until `AnswerCaller`. `direct` sends to actors themselves, whose
handlers may send to any actor, their own included, and await it
(`HandleByAsking`, as the tests' `dispatcher_actor` and the consumer of
`external-drive` do), after which the asked actor is scheduled if `send()` said so
(`ScheduleAsked`: the obligation that the assertion in `await_transform()` states). `Abort` is a client that has used up its polls. A worker takes a
node, handles up to `MaxThroughput` messages, drains, and queues the node again or
parks the actor (`EndResume`). `BeginStop`, `StopWorker`, `Joined` and
`DestroyActor` are the end of `main()`.

Only delegation's router is written for several clients; the others keep a plain
cursor and are used by `Main`.

## 3. Runs

States are distinct ones. All runs check safety of every interleaving; those over
`LiveSpec` check liveness as well.

| Run | Instance | States | Shows |
|---|---|---|---|
| `Actor` | two senders, two workers of throughput 1, a driver of throughput 2, one await | 88,807 | exclusion, wakeups, quiescence, `ActorContract`; accepted messages settle; the destructor ends |
| `StateWord` | two senders, two runners, owner, 32 values, 3 attempts | 2,777,222 | the count never carries; loops are atomic on the record; the guard's verdict is current |
| `Mailbox` | two senders, four addresses | 6,432 up to symmetry | FIFO per priority; lists well linked, every address accounted for |
| `WorkSharing` | three workers, two callers, three actors | 91,317 | nobody sleeps over work; `stop()` returns; no starvation |
| `SharedState` | one producer, one consumer | 302 | no use after free, faithful outcomes, one leak only, awaiters leave |
| `SharedStateLeak` | the same | violation | finding 1 |
| `AwaitChain` | two methods, `dispatch()`, root, two leaves | 170,213 | the drain finds its leaf; a coroutine is resumed by one, with what it awaits there; frames end well; the caller is settled once; chains unwind |
| `AwaitOrphan` | the same | violation | finding 2 |
| `Message` | three messages' places, two promises, two futures, two exchanges, two arenas, five argument lists | 30,024 up to symmetry | one settler; buffers and states go back whole and once; sound layout |
| `RttDecay` | the same | violation | finding 3 |
| `Dispatch` | tables of up to three of eight methods, two actors, two address variables | 258,246 | the method sent is the method run, or the one at its place in the contract |
| `ActorSystem` | four programs, two clients, two workers, two actors, four messages, throughput 2 | 215,903 | one node per actor with work; faithful relays; nothing pending at the end; calls return, except on a circle |

Why the bounds are enough. The races of the actor are between one sender and one
runner, with a third party that changes the word in between: two senders, two
workers and a driver give each race its third party. `max_throughput` is an argument
of `resume()`, so each caller has its own: a worker that handles one message leaves
the other behind at its limit, in the queues or on the stack, and answers `resume`
for it; the driver, which handles two, goes round the loop and comes to its limit
with nothing left. What the bounds cut off is covered
by the theorems, which have none. In `StateWord` two senders need more than one bit
of the count, and 32 values leave no room above it. In `Mailbox` four addresses
allow a batch of two behind a cached message while a sender holds a reused address.
In `WorkSharing` three workers let a notification wake a worker whose node another
has taken, with a third asleep. In `AwaitChain` four nested coroutines are two
levels more than the root and `dispatch()`, and two leaves let a chain suspend again
in the middle of unwinding. In `Message` two exchanges and three places are what a
swap through a third needs, and two promises and futures what an assignment over an
end that is in use needs. In `Dispatch` a contract of three methods can list two of
one signature in either order, with a third between them, such as one that differs in
nothing but its result. In `ActorSystem` two
actors can ask each other or themselves, four messages let one wait behind a
suspended behavior or exceed a throughput of two, and a cursor of three values wraps
at a number that is no multiple of the pool.

`CHECK_DEADLOCK FALSE` is set where the system stops by itself: after the actor is
gone, after `stop()`, when both sides have left, when all messages are made and
gone, after an abort. `Mailbox` never stops, and deadlock is checked.

Fairness is weak fairness of threads that run: a call of `enqueue_impl()` or
`resume()` that has begun goes on, a worker takes the node that is queued, a
driver told `resume` calls again, a destructor goes on, a notification that is due
is given. Nobody is obliged to send, to stop, to destroy, and no driver to call
for the first time. What is awaited is settled in the end: a promise's destructor
settles it if nobody else does. In `ActorSystem` the threads with work take their
next step (each client inside `send()` or polling, each worker, the thread in
`stop()`); nobody is obliged to send, to give up polling, or to stop. Compare-exchange loops need no strong fairness in
`CooperativeActor`, where a loop is a step; that a loop ends is not claimed, and
the code does not claim it either: it aborts.

Every property of a passing run has a mutant in `PROJECT.json`, a plausible error
in one definition (marked `Wrong:` in the modules) under which the property fails.
Each module states its `TypeOK`; it is checked where it takes an argument
(`CooperativeActor`, whose sender count must not go below zero), is part of the
inductive invariant wherever something is proved, and elsewhere only documents the
state.

## 4. Findings

1. **A lost block** (`SharedStateLeak`, `detail/shared_state.hpp:171`). If the
   consumer takes the value between `try_complete_finalize()`'s load and its
   exchange, the exchange fails on the consumed bit; if it also releases before
   the `fetch_and`, each side leaves the block to the other. `LeakOnlyByOvertaking`
   shows, and `AtomicWordsProofs` proves (`Leak`), that this is the only way.
2. **A future that never reads as failed** (`AwaitOrphan`, `detail/future.hpp:242`).
   An actor destroyed while its behavior is suspended in `dispatch()` leaves
   `dispatch()`'s frame, and with it the caller's promise, suspended for ever. The
   guide says that a future may outlive its actor and reads as `failed()`.
3. **Arrays are measured as passed and stored as pointers** (`RttDecay`,
   `detail/rtt.hpp:160`). A short string literal leaves no room for the pointer it
   decays to, and `force_align()`, which "cannot fail", aborts.

Remarks that no run states as a property. A sender that unblocked the inbox and
leaves late may schedule an actor that a driver has handled and parked since, so a
blocked inbox does not mean that no job exists, as the comment at
`actor/cooperative_actor.hpp:330` has it; the extra job finds nothing and parks. A
loop may use up its attempts by contention alone, since senders move the count up
and down, whereas `cas_attempt()` takes that for a broken state machine
(`actor/cooperative_actor.hpp:127`); `Abort` is reached in the run `StateWord`. An
argument is stored with the type it was passed as and read with the type of the
method's parameter, while `send()` accepts every convertible argument
(`mailbox/make_message.hpp:43`).

From `Dispatch`. `implements<>` compares signatures place by place, never names, so
a contract's number reaches whatever method the actor lists there; where an actor
lists two methods of one signature in the other order, the two numbers that
`actor/implements.hpp:71-72` gives as equal are not. A table that lists one method
twice leaves a number of the contract without a case. A `T&&` of a copyable type
passes the assertions (`actor/dispatch_traits.hpp:148-151`), and
`actor/dispatch.hpp:80-81` even recommends it, yet it refers into the message as
`const&` does and dangles after the first `co_await`; the assertions are all that the
code does about it, so no property is stated. `send()` of a method that is
not registered compiles if a registered one has its signature, and aborts when it
runs.

From `Message` and `ActorSystem`. A promise whose `get_future()` is never called
leaves its block behind, since the future's side is never released. A router's
cursor that overflows does not spread its requests evenly at that moment, unless
the number of actors divides the range. Actors that await each other in a circle
stay busy for ever, and hold their job nodes; `stop()` still ends, and their
requests fail or are orphaned when they are destroyed.

## 5. Theorems

`CooperativeActorProofs` proves, for any finite set of messages, any runners and
drivers, any throughput of each runner and any number of awaits (`ConstantsAssumption` is all it
assumes):

* `TypeCorrect`, `Exclusion` (`RunnerExclusion`), `Quiescence`
  (`QuietAfterDrain`), from **Inv1**. Type correctness is not inductive by itself:
  that a sender leaving does not take the count below zero needs `SendersCounted`,
  the count being the number of calls past the gate, and quiescence needs the same
  fact from the other side, with `DtorOK`, which ties `destroying` to where the
  destructor is.
* `Wakeup` (`NoLostWakeup`), `Scheduling` (`ScheduledHasJob`), `Suspension`
  (`SuspendedNotStranded`) and `Unparked` (`HolderUnparked`: nobody fetches under
  the blocked tag), from **Inv2**. The heart of it is
  `UnparkedServed`, an inbox without its blocked tag has a runner, a job, or the
  sender that unblocked it, together with `VerdictOK`: a runner that is about to
  answer `awaiting` has left the inbox blocked, or its unblocker in flight, or the
  mark of that sender in the word, where `ResumeGuardRelease` reads it.
* `Death` (`SettledAtDeath`), `Finality` (`FateFinal`) and `Refinement` (the actor
  implements `ActorContract`), from **Inv3**, which says where a message of each
  fate is: in the mailbox, in a runner's hands, suspended, or nowhere.
* `OneNode` (`SingleJobNode`): with no drivers an actor never has two job nodes,
  nor one while it runs, from **NodesOK**. Drivers make it false, by design.
* `Sticky` (`ScheduledSticky`), which lets the model take the resume guard's loop
  as one step.

`AtomicWordsProofs` proves of `StateWord`, for a word of any width, any number of senders that the
count has room for and any bound on attempts (`WordAssumption`), `Fields`, `Drain`
(`DrainSound`), `Atomicity` (`AtomicOnRecord`) and `GuardClaim` (`GuardSeesClaim`).
Its lemmas say what each bit helper does to each field, by linear arithmetic over
the word as `flags + kSenderStep * count`: `SetScheduled`, `SetRunning`,
`SetDestroying`, `AddSender`, `SubSender`. The invariant ties every field to where
the threads are (`CountOK`, `RunningOK`, `OwnerOK`). `PlacesOK` keeps each thread to
its own part of the code, and `SawOK` says that what the resume guard has seen is the
scheduled bit of the word it loaded, which stays up while the guard retries. That the
count is exact is what keeps an increment from carrying out of the word, and a
decrement from borrowing from the flags.

The same module, which extends both, proves of `SharedState`, whose word of flags is
the other one that threads coordinate on, `Memory` (`NeverUsedAfterFree`), `Poll`
(`PollerNeverRefused`), `Faithful` (`OutcomeFaithful`), `Leak`
(`LeakOnlyByOvertaking`) and `Monotonic` (`FlagsMonotonic`), from one inductive
invariant, `SharedInv`: what the flags say about where the producer is
(`ProducerOK`), what it gave (`OutcomeOK`), where the consumer is (`ConsumerOK`),
how old `seen` may be (`SeenOK`), and who has freed (`FreeOK`).

`WorkSharingProofs` proves, for any finite sets of workers and callers and any jobs
(`SchedulerAssumption`), `Conserving` (`WorkConserving`), `Quiet` (`StoppedQuiet`)
and `JoinsEnd`, from one invariant. `HelperOK` says where the one helper is: in the
queue, in a worker's hands, or answered, by where `stop()` is; `LeaversOK` says that
`stop()` has counted exactly the workers that have left. `WorkConserving` counts
queued nodes against workers on their way and notifications to come, and is
inductive once these are there.

`DispatchProofs` proves, for any methods and tables (`MethodsAssumption`,
`IndexAssumption`: numbers stay below the priority bit), `DispatchInvariant` and
`RightMethodRuns` (`RightMethod`): sent to an actor, or through a router, it is the
very method that was named; through an interface, the one at that method's first
place in the contract, which has its signature. `FirstIndex` and `Searched` show that the search at compile time
and the recursive one of `send()` both find the first place a method is listed at;
the second rests on `Least`, that a non-empty set of numbers has a least element.
The invariant says that tables pass the assertions, that a message carries the
number its sender found (`NumberOK`), and that a call is of a method of the table.

`MessageProofs` proves, for any places, promises, futures, argument lists, sizes and
alignments (`MessageAssumption`, `TypesAssumption`), `SettledOnce` (`OneSettler`),
`StateGivenBack` (`StateReturned`), `BufferGivenBack` (`BufferReturned`) and
`ArgumentsLaidOut` (`LayoutSound`). The invariant takes ownership as a map from
holders to what they hold: messages and promises to unsettled states (`Settling`),
futures to states with an open side (`Holding`), messages to buffers (`Buffers`),
each injective and onto what is still to be given back. Moves, assignments and swaps
are then operations on such maps (`OwnsMove`, `OwnsSet`, `OwnsClear`, `OwnsSwap`).
`StatesOK` says which combinations of a state's members occur. The layout of a
buffer is a recursive function over its arguments; `StagesExist` and `Aligned` show
that every prefix of it is laid out within what `getSize()` counted for that prefix,
again by a least counterexample.

`ActorSystemProofs` proves, for any number of actors, clients (at least `main()`),
workers and requests, any throughput, and any cursor that the pool fits in
(`SystemAssumption`), `SystemTypes`, `OneNodePerActor` (`NodeForWork`), `Relays`
(`RelayFaithful`) and `AllSettled` (`SettledAtEnd`). None is inductive by itself.
`NodesOK` says where an actor's job node is: queued, run, or owed by a worker or a
client, at one of these places and there once. `PendingOK` says that a pending
request is in somebody's hands: a client's that is inside `send()` or spins, in an
actor's mailbox, or served by its suspended behavior; `MailOK`, `SuspendedOK`,
`SendingOK` and `RelayingOK` say that each of these holds it alone, that it is
pending there, and, of a suspended behavior, that its request's answer rests on the
one it awaits, from which `RelayFaithful` follows. `PhasesOK` says what `stop()` has
waited for, and that destroyed actors hold nothing.

`AwaitChainProofs` proves, for any finite set of method coroutines and any leaves
(`NamesAssumption`: the names are apart), `ChainTypes`, `FramesReclaimed`
(`EndedFrames`), `CallerSettledOnce` (`SettledOnce`), `ResumedByOne` (`ResumedOnce`)
and `DrainHasLeaf` (`DrainFindsLeaf`). That nobody resumes a frame
that has ended follows from `StackOK`, the thread is in live coroutines only, each
held by the one that called it, and `ContOK`, a registered continuation is live,
awaits the future that would resume it, holds that future, and is not on the stack
except between its registration and the second look. So a coroutine that ends with a
continuation is alone on the stack (`Below`), and `final_awaiter` enters nobody twice.
`BornOK` says that a frame at its end still has its future. `ResultOK` says who has to
settle the caller, and `MethodOK` that `dispatch()` has its method's outcome before it
does.

`ResumedByOne` and `DrainHasLeaf` rest on a second invariant, `Linked` (`ChainsLinked`), which holds
while the behavior is alive:

* `WaitsOK`, `OuterOK`: a suspended coroutine is the continuation of what it awaits,
  and the outer promise of a coroutine is its continuation, or is about to register;
* `SeesOK`: a suspended promise points at the leaf it awaits, or where the promise it
  awaits points, so that a pointer is never stale on one level and fresh on another;
* `NullOK`: a suspended promise that points nowhere has an outer one, so those that
  `clear_awaited_chain()` has cleared lead up to the root;
* `TopOK`: what the running coroutine has told its outer promises, between
  `await_ready()` and the second look;
* `RootUp`: the root is above the coroutine at the bottom of the stack, so whatever
  that one propagates or clears reaches the root.

`ResumedByOne` needs `ContOK`, `StackOK` and `MethodOK` for the coroutine that runs,
which is registered nowhere and whose awaited result is there, and `WaitsOK` for the
suspended ones, each registered with exactly what it awaits.

The two walks over pointers are bounded recursive functions. `AboveIs` says that `Up`
is the least set that holds a promise and is closed under `outer`, and that it has
one outermost member: a claim about a walk is refuted at the least number of steps at
which it would fail, and by the pigeonhole principle as many steps as there are
coroutines are enough (`NamesAssumption` has `Methods` finite). `Descent` follows
`target` from the root: a future has one continuation and nobody awaits the root, so
the walk meets nobody twice and ends, within its bound, at a leaf.

`MailboxProofs` proves, for any senders and any finite set of addresses
(`NodesAssumption`: messages, tags, sentinels and the null pointer are apart),
`MailboxTypeOK`, `MailboxAccounted` (`Accounted`, with the whole lists of
`WellLinked`) and `MailboxImplementsFifo` (`ImplementsFifo`). Both properties speak of
sequences read off pointers. The invariant (`MailboxInvariant`) turns this round: there
*are* sequences, `L[q]` for each queue and `c` for the stack, that the pointers lead
along (`Shape`):

* `Linked`: following `next` from `head_` goes through the places of `L[q]` to `tail_`,
  whose own link is back at the last of them; `Stacked`: from the head of the stack
  through `c` to the null pointer, or a tag and nothing;
* `Apart`: every address is free, in one sender's hands, in `c` or in one `L[q]`, and
  in one of them only; with `Once`, in one place only;
* `SendersOK`: a sender that has loaded a head has a message, and no two the same.

Each operation of `linked_list` is a lemma about `Linked` (`EmptiedIs`,
`InsertedIs`, `PushedFrontIs`, `PoppedIs`), and each action has one that names the
sequences it leaves behind (`MakeMessageStep` to `CloseStep`). The case that matters most is
`PushedStep`: an exchange succeeds when the head *is* the one that was loaded, and
that `next[node[s]]` was set to this very head is all that is needed, wherever the
head has been in the meantime; what a reused address cannot do is be on the stack and
in a sender's hands at once. `FetchStep` puts one message of the batch between what
was cached and what has been moved already.

The model's recursions are over numbers, and two lemmas replace induction over them:
`Steps`, that a set which has 0 and with each number up to `n` the next one has them
all, from the least number that is missing; and `Recursion`, that a function which
makes each step from the one before exists, so that the recursive definitions of
`Walk`, `Fetched` and `Waiting` are what they look like. `WalkIs` then says that a walk
along the links of a sequence is that sequence, `FetchedIs` that `fetch_more()` leaves
`L[q] \o Sorted(c, high, q)` in queue `q`, and `SortedPushed` that a push appends to
`Sorted`. A line of `PriorityFifo` is `L[q] \o Sorted(c, high, q)` in every state
(`LinesAre`), and every step does to it what `FifoStep` allows: a fetch, nothing.

Only model-checked: all liveness (`AcceptedSettles`, `DestructorEnds`,
`AwaiterLeaves`, `StopReturns`, `JobsRun`, `ChainUnwinds`, `CallsReturn`), which is out
of the prover's reach. Every other property of a passing run is stated by a theorem.

## 6. Not modelled

* Weak memory. Every access is sequentially consistent; the orders the code asks
  for are taken to be enough.
* Several actors in full detail. `ActorSystem` has several, each reduced to what
  `CooperativeActor` establishes about it.
* A restarted scheduler, and jobs of an actor destroyed before `stop()`: the guide
  forbids both. A derived actor's destructor that runs before the base class
  drains. A behavior that suspends before it calls `dispatch()`, which has then a
  pointer to a message that is gone: an obligation of the user's `behavior()`.
* Reference counting: `shutdown_helper` is the only object that has a count, it
  lives on the stack, and nothing holds it by an `intrusive_ptr`.
* The type-level code under the method tables (type lists, callable traits,
  concepts): it has no state, and what it decides is in `Dispatch`'s `Init`.
* Allocation of coroutine frames and of actors; `launch_thread`; the profiling
  hooks, which are empty.
* `linked_list`'s and `result_storage`'s moves, which nothing uses.
* Of the examples: asio's `io_context`, and route 2 of `external-drive`, which
  drives a `behavior_t` by hand without an actor.

## 7. Plan

The order was: the actor with its word and contract, since every other part relies
on what it promises; the shared block; the mailbox with its list; the scheduler;
the await chain; the message; then dispatch and the whole programs. The code that is
left has no protocol of its own, as section 6 says. Every invariant, action property and
refinement the runs check is proved as well; what is left to TLC alone is liveness.
