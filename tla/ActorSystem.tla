---------------------------- MODULE ActorSystem -----------------------------
(***************************************************************************)
(* A whole program: client threads, a pool of cooperative actors, the      *)
(* scheduler that runs them, and the routers of the examples, which are    *)
(* actor_mixins and run inside send() on the caller's thread:              *)
(*   "delegate"   the router forwards the caller's own message (delegation)*)
(*   "balance"    the router sends a message of its own, spins until it is *)
(*                answered and answers the caller (balancer)               *)
(*   "supervise"  the router sends and forgets (supervisor)                *)
(*   "direct"     a client sends to the actors themselves (broadcast,      *)
(*                mixed_example, asio), and a handler may ask another actor*)
(*                and co_await its answer (the tests' dispatcher_actor)    *)
(* Of an actor only what CooperativeActor establishes is left: it has one  *)
(* job node from the send() that claims it until it parks, and it handles  *)
(* its mail in order, one message at a time.                               *)
(***************************************************************************)
EXTENDS Naturals, FiniteSets, SequencesExt

CONSTANTS
    PoolSize,       \* actors the program creates at most
    Clients,        \* threads that call
    Workers,        \* threads of the scheduler
    MaxRequests,    \* messages sent in all
    MaxThroughput,  \* messages per resume()
    CursorSpan      \* values of the routers' unsigned cursor

Programs == {"delegate", "balance", "supervise", "direct"}

Actors == 1 .. PoolSize
Requests == 1 .. MaxRequests
None == 0

Helper == PoolSize + 1      \* stop()'s shutdown_helper, a job like an actor

ASSUME SystemAssumption ==
    /\ Clients # {}     \* main() at least
    /\ PoolSize \in Nat \ {0}
    /\ MaxRequests \in Nat
    /\ MaxThroughput \in Nat \ {0}
    /\ CursorSpan \in Nat /\ PoolSize <= CursorSpan     \* a vector's size fits its index

VARIABLES
    program,    \* which of the examples runs
    pool,       \* the number of actors created: workers_.size()
    cursor,     \* cursor_, rr_, next_worker_
    requests,   \* the messages sent: [to, via, outcome]
    client,     \* per client: [todo, owes, inline, futures]
    inbox,      \* the mail of an actor, in order
    scheduled,  \* whether an actor has been claimed
    behavior,   \* the request an actor's suspended behavior serves
    awaited,    \* and the one it awaits
    queue,      \* the scheduler's jobs
    worker,     \* per worker: [runs, handled, owes]
    alive,      \* workers that have not left their loop
    phase,      \* "up", "stopping", "stopped" or "aborted"
    destroyed   \* how many actors are gone

actorVars == <<inbox, scheduled, behavior, awaited>>
routerVars == <<program, pool, cursor>>
lifeVars == <<alive, phase, destroyed>>
vars == <<routerVars, requests, client, actorVars, queue, worker, lifeVars>>

Request == [to : 0 .. PoolSize, via : 0 .. MaxRequests,
            outcome : {"none", "value", "failed", "orphaned"}]

NoCall == [todo |-> <<>>, owes |-> None, inline |-> None, futures |-> <<>>]
Idle == [runs |-> None, handled |-> 0, owes |-> None]

TypeOK ==
    /\ program \in Programs
    /\ pool \in 0 .. PoolSize
    /\ cursor \in 0 .. CursorSpan - 1
    /\ requests \in Seq(Request) /\ Len(requests) <= MaxRequests
    /\ client \in [Clients -> [todo : Seq(Requests), owes : 0 .. PoolSize,
                               inline : 0 .. MaxRequests, futures : Seq(Requests)]]
    /\ inbox \in [Actors -> Seq(Requests)]
    /\ scheduled \in [Actors -> BOOLEAN]
    /\ behavior \in [Actors -> 0 .. MaxRequests]
    /\ awaited \in [Actors -> 0 .. MaxRequests]
    /\ queue \in Seq(1 .. Helper)
    /\ worker \in [Workers -> [runs : 0 .. PoolSize, handled : 0 .. MaxThroughput,
                               owes : 0 .. PoolSize]]
    /\ alive \in SUBSET Workers
    /\ phase \in {"up", "stopping", "stopped", "aborted"}
    /\ destroyed \in 0 .. PoolSize

\* The balancer and the supervisor create their actors one request at a time;
\* the others have theirs before the first request.
Init ==
    /\ program \in Programs
    /\ pool = IF program \in {"delegate", "direct"} THEN PoolSize ELSE 0
    /\ cursor = 0
    /\ requests = <<>>
    /\ client = [c \in Clients |-> NoCall]
    /\ inbox = [a \in Actors |-> <<>>]
    /\ scheduled = [a \in Actors |-> FALSE]
    /\ behavior = [a \in Actors |-> None]
    /\ awaited = [a \in Actors |-> None]
    /\ queue = <<>>
    /\ worker = [w \in Workers |-> Idle]
    /\ alive = Workers
    /\ phase = "up"
    /\ destroyed = 0

-----------------------------------------------------------------------------
(* What sending consists of.                                               *)

To(a) == [to |-> a, via |-> None, outcome |-> "none"]

Settle(r, outcome) == [requests EXCEPT ![r].outcome = outcome]

Outcome(r) == requests[r].outcome

\* The message is in the mailbox of its actor, which is claimed: whoever finds
\* it parked owes it a job.
Deliver(r) ==
    LET a == requests[r].to
    IN  /\ inbox' = [inbox EXCEPT ![a] = Append(@, r)]
        /\ scheduled' = [scheduled EXCEPT ![a] = TRUE]
        /\ UNCHANGED <<behavior, awaited>>

NeedsSched(r) == IF scheduled[requests[r].to] THEN None ELSE requests[r].to

\* A client that is not inside send().
Outside(c) ==
    /\ phase = "up"
    /\ client[c].todo = <<>> /\ client[c].owes = None /\ client[c].inline = None

CanSend(n) == Len(requests) + n <= MaxRequests

\* Routers but delegation's keep their cursor and their pool unguarded, and are
\* used by one client.
Main == CHOOSE c \in Clients : TRUE

-----------------------------------------------------------------------------
(* Routers, on the client's thread.                                        *)

\* create(), create_worker(): the request is answered before send() returns.
CreateActor(c) ==
    /\ c = Main /\ Outside(c)
    /\ pool < PoolSize
    /\ pool' = pool + 1
    /\ UNCHANGED <<program, cursor, requests, client, actorVars, queue,
                   worker, lifeVars>>

\* rr_.fetch_add(1) and ++cursor_, on an unsigned that wraps.
AdvanceCursor == cursor' = (cursor + 1) % CursorSpan

RoundRobin == (cursor % pool) + 1

\* router_t::enqueue_impl() takes the next worker and restamps the message.
Delegate(c) ==
    /\ program = "delegate" /\ Outside(c) /\ CanSend(1)
    /\ LET r == Len(requests) + 1
       IN  /\ requests' = Append(requests, To(RoundRobin))
           /\ client' = [client EXCEPT ![c].todo = <<r>>,
                                       ![c].futures = Append(@, r)]
    /\ AdvanceCursor
    /\ UNCHANGED <<program, pool, actorVars, queue, worker, lifeVars>>

\* collection_t::behavior(): the caller's request r is answered through one of
\* the router's own, or, with no child to send it to, dies with its message.
Balance(c) ==
    /\ program = "balance" /\ c = Main /\ Outside(c) /\ client[c].futures = <<>>
    /\ CanSend(2)
    /\ LET r == Len(requests) + 1
       IN  \/ /\ pool = 0
              /\ requests' = Append(requests, [To(None) EXCEPT !.outcome = "failed"])
              /\ client' = [client EXCEPT ![c].futures = <<r>>]
              /\ UNCHANGED cursor
           \/ /\ pool > 0
              /\ requests' = requests \o <<[To(None) EXCEPT !.via = r + 1], To(RoundRobin)>>
              /\ client' = [client EXCEPT ![c].todo = <<r + 1>>, ![c].inline = r,
                                          ![c].futures = <<r>>]
              /\ AdvanceCursor
    /\ UNCHANGED <<program, pool, actorVars, queue, worker, lifeVars>>

\* assign_task(): next_worker_ is an index, taken modulo the pool's size when
\* it is moved.  The supervisor's own request is answered before send()
\* returns, and the future of what it sends on is dropped.
AssignTask(c) ==
    /\ program = "supervise" /\ c = Main /\ Outside(c) /\ CanSend(1)
    /\ pool > 0
    /\ requests' = Append(requests, To(cursor + 1))
    /\ client' = [client EXCEPT ![c].todo = <<Len(requests) + 1>>]
    /\ cursor' = (cursor + 1) % pool
    /\ UNCHANGED <<program, pool, actorVars, queue, worker, lifeVars>>

\* check_status(): one message to every worker.
CheckStatus(c) ==
    /\ program = "supervise" /\ c = Main /\ Outside(c) /\ CanSend(pool)
    /\ pool > 0
    /\ requests' = requests \o [a \in 1 .. pool |-> To(a)]
    /\ client' = [client EXCEPT ![c].todo = [a \in 1 .. pool |-> Len(requests) + a]]
    /\ UNCHANGED <<routerVars, actorVars, queue, worker, lifeVars>>

\* A client sends to an actor itself, and keeps the future or drops it.
SendDirect(c) ==
    /\ program = "direct" /\ c = Main /\ Outside(c) /\ CanSend(1)
    /\ \E a \in 1 .. pool, keep \in BOOLEAN :
         LET r == Len(requests) + 1
         IN  /\ requests' = Append(requests, To(a))
             /\ client' = [client EXCEPT ![c].todo = <<r>>,
                             ![c].futures = IF keep THEN Append(@, r) ELSE @]
    /\ UNCHANGED <<routerVars, actorVars, queue, worker, lifeVars>>

\* enqueue_impl() of the actor, then, where it asked for it,
\* scheduler_->enqueue().
PushMessage(c) ==
    /\ phase = "up"
    /\ client[c].todo # <<>> /\ client[c].owes = None
    /\ LET r == Head(client[c].todo)
       IN  /\ Deliver(r)
           /\ client' = [client EXCEPT ![c].todo = Tail(@), ![c].owes = NeedsSched(r)]
    /\ UNCHANGED <<routerVars, requests, queue, worker, lifeVars>>

ScheduleActor(c) ==
    /\ phase = "up"
    /\ client[c].owes # None
    /\ queue' = Append(queue, client[c].owes)
    /\ client' = [client EXCEPT ![c].owes = None]
    /\ UNCHANGED <<routerVars, requests, actorVars, worker, lifeVars>>

\* Wrong: the router answers without having waited.
AnsweredUnseen(r) == TRUE

\* is_ready() with a value.
Answered(r) == Outcome(r) = "value"

\* await_child() has its value: transfer_ownership() and set_value().
AnswerCaller(c) ==
    /\ phase = "up"
    /\ client[c].inline # None /\ client[c].todo = <<>> /\ client[c].owes = None
    /\ Answered(requests[client[c].inline].via)
    /\ requests' = Settle(client[c].inline, "value")
    /\ client' = [client EXCEPT ![c].inline = None]
    /\ UNCHANGED <<routerVars, actorVars, queue, worker, lifeVars>>

\* A client takes the first of its futures.
TakeReady(c) ==
    /\ Outside(c)
    /\ client[c].futures # <<>>
    /\ Outcome(Head(client[c].futures)) = "value"
    /\ client' = [client EXCEPT ![c].futures = Tail(@)]
    /\ UNCHANGED <<routerVars, requests, actorVars, queue, worker, lifeVars>>

\* What a client polls inside a router or for itself.
Polled(c) ==
    IF client[c].inline # None THEN requests[client[c].inline].via
                               ELSE Head(client[c].futures)

\* The polls run out, or end at a failed future: std::abort().
Abort(c) ==
    /\ phase = "up"
    /\ client[c].todo = <<>> /\ client[c].owes = None
    /\ client[c].inline # None \/ client[c].futures # <<>>
    /\ Outcome(Polled(c)) # "value"
    /\ phase' = "aborted"
    /\ UNCHANGED <<routerVars, requests, client, actorVars, queue, worker, alive,
                   destroyed>>

-----------------------------------------------------------------------------
(* Workers.                                                                *)

\* dequeue(): an actor is resumed; a shutdown_helper ends the loop.
Dequeue(w) ==
    /\ phase # "aborted"
    /\ w \in alive /\ worker[w].runs = None
    /\ queue # <<>>
    /\ queue' = Tail(queue)
    /\ IF Head(queue) = Helper
         THEN alive' = alive \ {w} /\ UNCHANGED worker
         ELSE worker' = [worker EXCEPT ![w].runs = Head(queue)] /\ UNCHANGED alive
    /\ UNCHANGED <<routerVars, requests, client, actorVars, phase, destroyed>>

\* w is in resume_impl() of a.
Runs(w, a) == phase # "aborted" /\ worker[w].runs = a /\ worker[w].owes = None

\* A handler answers.
Handle(w) ==
    \E a \in Actors :
        /\ Runs(w, a) /\ behavior[a] = None
        /\ inbox[a] # <<>> /\ worker[w].handled < MaxThroughput
        /\ requests' = Settle(Head(inbox[a]), "value")
        /\ inbox' = [inbox EXCEPT ![a] = Tail(@)]
        /\ worker' = [worker EXCEPT ![w].handled = @ + 1]
        /\ UNCHANGED <<routerVars, client, scheduled, behavior, awaited, queue, lifeVars>>

\* A handler sends to b, an actor it knows the address of, and awaits it: its
\* behavior is suspended, whatever else comes.  What send() said of scheduling b
\* is w's to see to before it goes on.
HandleByAsking(w) ==
    \E a, b \in Actors :
        /\ program = "direct" /\ b <= pool /\ CanSend(1)
        /\ Runs(w, a) /\ behavior[a] = None
        /\ inbox[a] # <<>> /\ worker[w].handled < MaxThroughput
        /\ LET r == Head(inbox[a])
               s == Len(requests) + 1
           IN  /\ requests' = Append([requests EXCEPT ![r].via = s], To(b))
               /\ inbox' = [inbox EXCEPT ![a] = Tail(@), ![b] = Append(@, s)]
               /\ behavior' = [behavior EXCEPT ![a] = r]
               /\ awaited' = [awaited EXCEPT ![a] = s]
        /\ scheduled' = [scheduled EXCEPT ![b] = TRUE]
        /\ worker' = [worker EXCEPT ![w].handled = @ + 1,
                                    ![w].owes = IF scheduled[b] THEN None ELSE b]
        /\ UNCHANGED <<routerVars, client, queue, lifeVars>>

\* `if (needs_sched) scheduler->enqueue(target);`, between send() and co_await,
\* as await_transform() of send()'s pair tells every handler to write it.
ScheduleAsked(w) ==
    /\ phase # "aborted"
    /\ worker[w].owes # None
    /\ queue' = Append(queue, worker[w].owes)
    /\ worker' = [worker EXCEPT ![w].owes = None]
    /\ UNCHANGED <<routerVars, requests, client, actorVars, lifeVars>>

\* The drain: the awaited future is ready, the behavior runs to its end.
DrainBehavior(w) ==
    \E a \in Actors :
        /\ Runs(w, a) /\ worker[w].handled < MaxThroughput
        /\ behavior[a] # None /\ Answered(awaited[a])
        /\ requests' = Settle(behavior[a], "value")
        /\ behavior' = [behavior EXCEPT ![a] = None]
        /\ awaited' = [awaited EXCEPT ![a] = None]
        /\ UNCHANGED <<routerVars, client, inbox, scheduled, queue, worker, lifeVars>>

\* Wrong: an actor that has used up its throughput parks over its mail.
HasNoTurn(a) == behavior[a] # None

\* resume_impl() must report `resume`.
HasMore(a) == behavior[a] # None \/ inbox[a] # <<>>

\* Wrong: an actor with more to do goes to the front again.
QueuedFirst(a) == <<a>> \o queue

Requeued(a) == Append(queue, a)

\* The verdict: the node goes back to the queue, or the actor parks.
EndResume(w) ==
    \E a \in Actors :
        /\ Runs(w, a)
        /\ \/ behavior[a] # None /\ ~Answered(awaited[a])
           \/ behavior[a] = None /\ inbox[a] = <<>>
           \/ worker[w].handled = MaxThroughput
        /\ IF HasMore(a)
             THEN queue' = Requeued(a) /\ UNCHANGED scheduled
             ELSE scheduled' = [scheduled EXCEPT ![a] = FALSE] /\ UNCHANGED queue
        /\ worker' = [worker EXCEPT ![w] = Idle]
        /\ UNCHANGED <<routerVars, requests, client, inbox, behavior, awaited, lifeVars>>

-----------------------------------------------------------------------------
(* The end of main(): stop(), then the actors are destroyed.               *)

\* Main has joined the other clients and taken the futures it kept.
BeginStop ==
    /\ \A c \in Clients : Outside(c) /\ client[c].futures = <<>>
    /\ phase' = "stopping"
    /\ UNCHANGED <<routerVars, requests, client, actorVars, queue, worker, alive,
                   destroyed>>

\* One helper at a time, until every worker has run one.
StopWorker ==
    /\ phase = "stopping"
    /\ alive # {} /\ ~Contains(queue, Helper)
    /\ queue' = Append(queue, Helper)
    /\ UNCHANGED <<routerVars, requests, client, actorVars, worker, lifeVars>>

\* The threads are joined and the nodes that are left deleted.
Joined ==
    /\ phase = "stopping"
    /\ alive = {}
    /\ phase' = "stopped"
    /\ queue' = <<>>
    /\ UNCHANGED <<routerVars, requests, client, actorVars, worker, alive, destroyed>>

\* Wrong: the mail of a destroyed actor is forgotten.
NothingCancelled(a) == {}

\* What is in the mailbox of an actor when it is destroyed.
Cancelled(a) == Range(inbox[a])

\* The router's vector destroys its actors in order.
DestroyActor ==
    /\ phase = "stopped"
    /\ destroyed < pool
    /\ LET a == destroyed + 1
       IN  /\ requests' = [r \in DOMAIN requests |->
                             CASE r \in Cancelled(a) -> [requests[r] EXCEPT !.outcome = "failed"]
                               [] r = behavior[a]    -> [requests[r] EXCEPT !.outcome = "orphaned"]
                               [] OTHER              -> requests[r]]
           /\ inbox' = [inbox EXCEPT ![a] = <<>>]
           /\ behavior' = [behavior EXCEPT ![a] = None]
           /\ awaited' = [awaited EXCEPT ![a] = None]
    /\ destroyed' = destroyed + 1
    /\ UNCHANGED <<routerVars, client, scheduled, queue, worker, alive, phase>>

-----------------------------------------------------------------------------
Route(c) ==
    \/ CreateActor(c) \/ Delegate(c) \/ Balance(c)
    \/ AssignTask(c) \/ CheckStatus(c) \/ SendDirect(c)

CallStep(c) == PushMessage(c) \/ ScheduleActor(c) \/ AnswerCaller(c) \/ TakeReady(c)

WorkerStep(w) ==
    \/ Dequeue(w) \/ Handle(w) \/ HandleByAsking(w) \/ ScheduleAsked(w)
    \/ DrainBehavior(w) \/ EndResume(w)

Shutdown == StopWorker \/ Joined \/ DestroyActor

Next ==
    \/ \E c \in Clients : Route(c) \/ CallStep(c) \/ Abort(c)
    \/ \E w \in Workers : WorkerStep(w)
    \/ BeginStop
    \/ Shutdown

\* Threads that have work take their next step; nobody is obliged to send, to
\* give up, or to stop.
Fairness ==
    /\ \A c \in Clients : WF_vars(CallStep(c))
    /\ \A w \in Workers : WF_vars(WorkerStep(w))
    /\ WF_vars(Shutdown)

Spec == Init /\ [][Next]_vars /\ Fairness

-----------------------------------------------------------------------------
(* Properties.                                                             *)

\* The job nodes of an actor: queued, in a worker's hands, or owed to it.
Nodes(a) ==
    Cardinality({i \in DOMAIN queue : queue[i] = a})
    + Cardinality({w \in Workers : worker[w].runs = a})
    + Cardinality({w \in Workers : worker[w].owes = a})
    + Cardinality({c \in Clients : client[c].owes = a})

\* An actor with mail or a suspended behavior has exactly one node until stop()
\* has joined the workers, so that two never run it at once and none forgets
\* it.  The nodes stop() deletes are those of actors that stay claimed: none
\* of them would be scheduled again (scheduler_t::stop()).
NodeForWork ==
    \A a \in Actors :
        /\ inbox[a] # <<>> \/ behavior[a] # None => scheduled[a]
        /\ scheduled[a] /\ phase # "stopped" => Nodes(a) = 1
        /\ ~scheduled[a] \/ phase = "stopped" => Nodes(a) = 0

\* An answer that was got through another actor is given only once that one
\* has answered, and what failed or was orphaned is never reported as a value.
RelayFaithful ==
    \A r \in DOMAIN requests :
        Outcome(r) = "value" /\ requests[r].via # None => Outcome(requests[r].via) = "value"

\* When the last actor is gone no request is left pending, whoever sent it and
\* wherever stop() found it.
SettledAtEnd ==
    destroyed = pool /\ phase = "stopped" =>
        \A r \in DOMAIN requests : Outcome(r) # "none"

\* The actor whose answer the suspended behavior of `a` waits for, as far as
\* `n` such steps lead.
WaitsFor(a, n) ==
    LET next(b) == IF b # None /\ behavior[b] # None /\ Outcome(awaited[b]) = "none"
                     THEN requests[awaited[b]].to ELSE None
        at[k \in 0 .. n] == IF k = 0 THEN a ELSE next(at[k - 1])
    IN  at[n]

\* r is at an actor that waits, directly or through others, on a circle.
WaitsOnCircle(r) == WaitsFor(requests[r].to, PoolSize) # None

\* Every request that is sent is settled while the scheduler works, unless it
\* waits behind actors that wait for each other, or for themselves: that circle
\* is the only way to wait for ever.
CallsReturn ==
    \A r \in Requests :
        r \in DOMAIN requests /\ requests[r].to # None /\ Outcome(r) = "none"
            ~> \/ phase # "up"
               \/ r \in DOMAIN requests /\ (Outcome(r) # "none" \/ WaitsOnCircle(r))

=============================================================================
