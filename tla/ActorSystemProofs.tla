------------------------- MODULE ActorSystemProofs ---------------------------
(***************************************************************************)
(* Proofs about ActorSystem, for any number of actors, clients, workers    *)
(* and requests.                                                           *)
(***************************************************************************)
EXTENDS ActorSystem, FiniteSetTheorems, TLAPS

-----------------------------------------------------------------------------
(* The inductive invariant.                                                *)

\* What the phases of the program exclude.
PhasesOK ==
    /\ program \in {"delegate", "direct"} => pool = PoolSize
    /\ program = "supervise" => cursor = 0 \/ cursor < pool
    /\ phase \in {"stopping", "stopped"} =>
         \A c \in Clients : client[c].todo = <<>> /\ client[c].owes = None
                              /\ client[c].inline = None
    /\ \A w \in Workers : /\ worker[w].runs # None => w \in alive
                          /\ worker[w].owes # None => worker[w].runs # None
    /\ phase = "stopped" => alive = {}
    /\ destroyed <= pool
    /\ destroyed > 0 => phase = "stopped"
    /\ \A a \in Actors : a <= destroyed => inbox[a] = <<>> /\ behavior[a] = None

\* Nobody is sent to who is not there, and nothing relayed to what is not sent.
SentOK ==
    \A r \in DOMAIN requests :
        /\ requests[r].to <= pool
        /\ requests[r].via # None => requests[r].via \in DOMAIN requests

\* The mail of an actor is its own, pending, and not yet asked on, each once.
MailOK ==
    \A a \in Actors :
        /\ \A i \in DOMAIN inbox[a] :
             inbox[a][i] \in DOMAIN requests /\ requests[inbox[a][i]] = To(a)
        /\ \A i, j \in DOMAIN inbox[a] : inbox[a][i] = inbox[a][j] => i = j

\* A suspended behavior serves a pending request through the one it awaits.
SuspendedOK ==
    \A a \in Actors :
        behavior[a] # None =>
            /\ behavior[a] \in DOMAIN requests /\ awaited[a] \in DOMAIN requests
            /\ requests[behavior[a]] = [to |-> a, via |-> awaited[a], outcome |-> "none"]

\* What a client still has to push is pending, with nobody else, each once.
SendingOK ==
    \A c \in Clients :
        /\ \A i \in DOMAIN client[c].todo :
             LET r == client[c].todo[i]
             IN  /\ r \in DOMAIN requests /\ requests[r].to \in Actors
                 /\ requests[r] = To(requests[r].to)
                 /\ \A a \in Actors : \A j \in DOMAIN inbox[a] : inbox[a][j] # r
        /\ \A d \in Clients : \A i \in DOMAIN client[c].todo, j \in DOMAIN client[d].todo :
             client[c].todo[i] = client[d].todo[j] => c = d /\ i = j

\* A router that spins has sent what it waits for; its caller's request is with
\* no actor.
RelayingOK ==
    \A c \in Clients :
        client[c].inline # None =>
            /\ client[c].inline \in DOMAIN requests /\ requests[client[c].inline].to = None
            /\ requests[client[c].inline].via \in DOMAIN requests

\* r is in somebody's hands: a client's, inside send() or spinning, or an actor's.
Held(r) ==
    \/ \E c \in Clients : \E i \in DOMAIN client[c].todo : client[c].todo[i] = r
    \/ \E c \in Clients : client[c].inline = r
    \/ \E a \in Actors : \E i \in DOMAIN inbox[a] : inbox[a][i] = r
    \/ \E a \in Actors : behavior[a] = r

\* Nothing pending is lost.
PendingOK == \A r \in DOMAIN requests : Outcome(r) = "none" => Held(r)

\* Where the job node of a can be.
Queued(a) == \E i \in DOMAIN queue : queue[i] = a
Running(a) == \E w \in Workers : worker[w].runs = a
Asked(a) == \E w \in Workers : worker[w].owes = a
Owed(a) == \E c \in Clients : client[c].owes = a

\* It is at one place, and there once.
OnePlace ==
    /\ \A i, j \in DOMAIN queue : queue[i] = queue[j] /\ queue[i] \in Actors => i = j
    /\ \A v, w \in Workers : worker[v].runs = worker[w].runs /\ worker[w].runs # None => v = w
    /\ \A v, w \in Workers : worker[v].owes = worker[w].owes /\ worker[w].owes # None => v = w
    /\ \A c, d \in Clients : client[c].owes = client[d].owes /\ client[d].owes # None => c = d
    /\ \A a \in Actors : /\ Queued(a) => ~Running(a) /\ ~Asked(a) /\ ~Owed(a)
                         /\ Running(a) => ~Asked(a) /\ ~Owed(a)
                         /\ Asked(a) => ~Owed(a)

HasNode(a) == Queued(a) \/ Running(a) \/ Asked(a) \/ Owed(a)

NodesOK ==
    /\ OnePlace
    /\ \A a \in Actors : inbox[a] # <<>> \/ behavior[a] # None => scheduled[a]
    /\ \A a \in Actors : scheduled[a] /\ phase # "stopped" <=> HasNode(a)

IInv ==
    /\ TypeOK /\ PhasesOK /\ SentOK /\ MailOK /\ SuspendedOK /\ SendingOK /\ RelayingOK
    /\ PendingOK /\ RelayFaithful /\ NodesOK

-----------------------------------------------------------------------------
(* Steps that touch a part of the state only.                              *)

\* The members of a client's and of a worker's record.
Call == [todo : Seq(Requests), owes : 0 .. PoolSize, inline : 0 .. MaxRequests,
         futures : Seq(Requests)]
Work == [runs : 0 .. PoolSize, handled : 0 .. MaxThroughput, owes : 0 .. PoolSize]

\* A program starts with nothing sent and nothing scheduled.
LEMMA InitInv == Init => IInv
  <1> SUFFICES ASSUME Init PROVE IInv
    OBVIOUS
  <1>1. /\ NoCall \in Call /\ NoCall.todo = <<>> /\ NoCall.owes = None /\ NoCall.inline = None
    BY SystemAssumption DEF NoCall, Call, None, SystemAssumption
  <1>2. Idle \in Work /\ Idle.runs = None /\ Idle.owes = None
    BY SystemAssumption DEF Idle, Work, None, SystemAssumption
  <1>3. TypeOK
    BY <1>1, <1>2, SystemAssumption DEF Init, TypeOK, Call, Work, None, SystemAssumption
  <1>4. PhasesOK
    BY <1>1, <1>2, SystemAssumption DEF Init, PhasesOK, None, SystemAssumption, Actors
  <1>5. SentOK /\ MailOK /\ SuspendedOK /\ RelayingOK /\ PendingOK /\ RelayFaithful
    BY <1>1 DEF Init, SentOK, MailOK, SuspendedOK, RelayingOK, PendingOK, RelayFaithful
  <1>6. SendingOK
    BY <1>1 DEF Init, SendingOK
  <1>7. NodesOK
    BY <1>1, <1>2 DEF Init, NodesOK, OnePlace, HasNode, Queued, Running, Asked, Owed, Actors, None
  <1> QED
    BY <1>3, <1>4, <1>5, <1>6, <1>7 DEF IInv

\* All that is said of requests and mail.
Letters == SentOK /\ MailOK /\ SuspendedOK /\ SendingOK /\ RelayingOK /\ PendingOK /\ RelayFaithful

\* The members of a request, by their types.
LEMMA RequestParts ==
  ASSUME TypeOK
  PROVE  /\ DOMAIN requests = 1 .. Len(requests) /\ Len(requests) \in 0 .. MaxRequests
         /\ \A r \in DOMAIN requests :
              /\ r \in Requests /\ requests[r] \in Request
              /\ requests[r].to \in 0 .. PoolSize /\ requests[r].via \in 0 .. MaxRequests
              /\ requests[r].outcome \in {"none", "value", "failed", "orphaned"}
  <1>1. requests \in Seq(Request) /\ Len(requests) <= MaxRequests
    BY DEF TypeOK
  <1> USE SystemAssumption DEF SystemAssumption
  <1>2. /\ DOMAIN requests = 1 .. Len(requests) /\ Len(requests) \in 0 .. MaxRequests
        /\ \A r \in DOMAIN requests : r \in Requests /\ requests[r] \in Request
    BY <1>1 DEF Requests
  <1>3. \A q \in Request : /\ q.to \in 0 .. PoolSize /\ q.via \in 0 .. MaxRequests
                           /\ q.outcome \in {"none", "value", "failed", "orphaned"}
    BY DEF Request
  <1> QED
    BY <1>2, <1>3

\* Steps that move no mail.
LEMMA LettersSame ==
  ASSUME Letters, TypeOK, UNCHANGED <<requests, inbox, behavior, awaited>>, pool' \in Nat, pool' >= pool,
         \A c \in Clients : client'[c].todo = client[c].todo /\ client'[c].inline = client[c].inline
  PROVE  Letters'
  <1>1. SentOK'
    <2>1. pool \in 0 .. PoolSize /\ PoolSize \in Nat
      BY SystemAssumption DEF TypeOK, SystemAssumption
    <2>2. \A r \in DOMAIN requests : requests[r].to \in 0 .. PoolSize
      BY RequestParts
    <2> QED
      BY <2>1, <2>2 DEF Letters, SentOK
  <1>2. MailOK' /\ SuspendedOK' /\ RelayFaithful' /\ RelayingOK'
    BY DEF Letters, MailOK, SuspendedOK, RelayFaithful, RelayingOK, To, Outcome
  <1>3. SendingOK'
    BY DEF Letters, SendingOK, To
  <1>4. PendingOK'
    BY DEF Letters, PendingOK, Outcome, Held
  <1> QED
    BY <1>1, <1>2, <1>3, <1>4 DEF Letters

\* Steps that move no node and bring no work.
LEMMA NodesKept ==
  ASSUME NodesOK, UNCHANGED <<queue, scheduled>>,
         \A a \in Actors : inbox'[a] # <<>> \/ behavior'[a] # None => inbox[a] # <<>> \/ behavior[a] # None,
         (phase' = "stopped") <=> (phase = "stopped"),
         \A c \in Clients : client'[c].owes = client[c].owes,
         \A w \in Workers : worker'[w].owes = worker[w].owes /\ worker'[w].runs = worker[w].runs
  PROVE  NodesOK'
  <1>1. \A a : /\ Queued(a)' <=> Queued(a)
               /\ Running(a)' <=> Running(a)
               /\ Asked(a)' <=> Asked(a)
               /\ Owed(a)' <=> Owed(a)
    BY DEF Queued, Running, Asked, Owed
  <1>2. OnePlace'
    BY <1>1 DEF NodesOK, OnePlace
  <1> QED
    BY <1>1, <1>2 DEF NodesOK, HasNode

\* Steps that move neither nodes nor work.
LEMMA NodesSame ==
  ASSUME NodesOK, UNCHANGED <<queue, scheduled, inbox, behavior>>,
         (phase' = "stopped") <=> (phase = "stopped"),
         \A c \in Clients : client'[c].owes = client[c].owes,
         \A w \in Workers : worker'[w].owes = worker[w].owes /\ worker'[w].runs = worker[w].runs
  PROVE  NodesOK'
  BY NodesKept

\* A router, or a client, has new requests: each is answered, or among those the
\* client pushes next, or the one it spins for.
LEMMA NewRequests ==
  ASSUME Letters, TypeOK, NEW c \in Clients, Outside(c), UNCHANGED <<pool, inbox, behavior, awaited>>,
         \A d \in Clients : d # c => client'[d] = client[d],
         \A r \in DOMAIN requests : r \in DOMAIN requests' /\ requests'[r] = requests[r],
         \A r \in DOMAIN requests' \ DOMAIN requests :
            /\ requests'[r].to <= pool /\ requests'[r].outcome # "value"
            /\ requests'[r].via # None => requests'[r].via \in DOMAIN requests'
            /\ requests'[r].outcome = "none" =>
                 \/ \E i \in DOMAIN client'[c].todo : client'[c].todo[i] = r
                 \/ client'[c].inline = r,
         \A i \in DOMAIN client'[c].todo :
            /\ client'[c].todo[i] \in DOMAIN requests' \ DOMAIN requests
            /\ requests'[client'[c].todo[i]].to \in Actors
            /\ requests'[client'[c].todo[i]] = To(requests'[client'[c].todo[i]].to),
         \A i, j \in DOMAIN client'[c].todo : client'[c].todo[i] = client'[c].todo[j] => i = j,
         client'[c].inline # None =>
            /\ client'[c].inline \in DOMAIN requests' /\ requests'[client'[c].inline].to = None
            /\ requests'[client'[c].inline].via \in DOMAIN requests'
  PROVE  Letters'
  <1>0. client[c].todo = <<>> /\ client[c].inline = None /\ DOMAIN client[c].todo = {}
    BY DEF Outside
  <1>1. SentOK'
    BY DEF Letters, SentOK
  <1>2. MailOK' /\ SuspendedOK'
    BY DEF Letters, MailOK, SuspendedOK
  <1>3. RelayingOK'
    BY DEF Letters, RelayingOK
  <1>4. SendingOK'
    <2>1. ASSUME NEW d \in Clients, NEW i \in DOMAIN client'[d].todo
          PROVE  /\ client'[d].todo[i] \in DOMAIN requests'
                 /\ requests'[client'[d].todo[i]].to \in Actors
                 /\ requests'[client'[d].todo[i]] = To(requests'[client'[d].todo[i]].to)
                 /\ \A a \in Actors : \A j \in DOMAIN inbox[a] : inbox[a][j] # client'[d].todo[i]
                 /\ d # c => client'[d].todo[i] \in DOMAIN requests
      <3>1. CASE d = c
        BY <2>1, <3>1 DEF Letters, MailOK
      <3>2. CASE d # c
        BY <2>1, <3>2 DEF Letters, SendingOK
      <3> QED
        BY <3>1, <3>2
    <2>2. ASSUME NEW d \in Clients, NEW e \in Clients, NEW i \in DOMAIN client'[d].todo,
                 NEW j \in DOMAIN client'[e].todo, client'[d].todo[i] = client'[e].todo[j]
          PROVE  d = e /\ i = j
      <3>1. CASE d = c /\ e = c
        BY <2>2, <3>1
      <3>2. CASE d # c /\ e # c
        BY <2>2, <3>2 DEF Letters, SendingOK
      <3> QED
        BY <2>1, <2>2, <3>1, <3>2
    <2> QED
      BY <2>1, <2>2 DEF SendingOK
  <1>5. PendingOK'
    <2> SUFFICES ASSUME NEW r \in DOMAIN requests', requests'[r].outcome = "none" PROVE Held(r)'
      BY DEF PendingOK, Outcome
    <2>1. CASE r \in DOMAIN requests
      <3>1. Held(r)
        BY <2>1 DEF Letters, PendingOK, Outcome
      <3>2. client[c].inline # r
        BY <1>0, <2>1 DEF TypeOK, None
      <3> QED
        BY <1>0, <3>1, <3>2 DEF Held
    <2> QED
      BY <2>1 DEF Held
  <1>6. RelayFaithful'
    BY DEF Letters, RelayFaithful, Outcome, SentOK
  <1> QED
    BY <1>1, <1>2, <1>3, <1>4, <1>5, <1>6 DEF Letters

-----------------------------------------------------------------------------
(* Routers and clients.                                                    *)

\* What is left of a sequence without its head.
LEMMA TailParts ==
  ASSUME NEW S, NEW q \in Seq(S), q # <<>>
  PROVE  /\ Tail(q) \in Seq(S) /\ 1 \in DOMAIN q /\ Head(q) = q[1] /\ Head(q) \in S
         /\ DOMAIN q \subseteq Nat /\ DOMAIN Tail(q) \subseteq Nat
         /\ \A i \in DOMAIN Tail(q) : i + 1 \in DOMAIN q /\ i + 1 # 1 /\ Tail(q)[i] = q[i + 1]
         /\ \A i \in DOMAIN q : i # 1 => i - 1 \in DOMAIN Tail(q) /\ Tail(q)[i - 1] = q[i]
  OBVIOUS

\* The record of a client, by its members.
LEMMA CallParts ==
  ASSUME TypeOK
  PROVE  /\ client \in [Clients -> Call]
         /\ \A c \in Clients : /\ client[c] \in Call
                               /\ client[c].todo \in Seq(Requests) /\ client[c].owes \in 0 .. PoolSize
                               /\ client[c].inline \in 0 .. MaxRequests
                               /\ client[c].futures \in Seq(Requests)
  <1>1. client \in [Clients -> Call]
    BY DEF TypeOK, Call
  <1>2. \A x \in Call : /\ x.todo \in Seq(Requests) /\ x.owes \in 0 .. PoolSize
                        /\ x.inline \in 0 .. MaxRequests /\ x.futures \in Seq(Requests)
    BY DEF Call
  <1> QED
    BY <1>1, <1>2

\* create(): one actor more, which has no mail.
LEMMA CreateActorInv ==
  ASSUME IInv, NEW c \in Clients, CreateActor(c)
  PROVE  IInv'
  <1>1. pool \in Nat /\ pool' \in 0 .. PoolSize /\ pool' >= pool /\ pool < PoolSize
        /\ pool' = pool + 1
    BY SystemAssumption DEF IInv, TypeOK, CreateActor, SystemAssumption
  <1>2. TypeOK'
    BY <1>1 DEF IInv, TypeOK, CreateActor, actorVars, lifeVars
  <1>3. Letters'
    BY <1>1, LettersSame DEF IInv, Letters, CreateActor, actorVars
  <1>4. NodesOK'
    BY NodesSame DEF IInv, CreateActor, actorVars, lifeVars
  <1>5. PhasesOK'
    BY <1>1, SystemAssumption DEF IInv, PhasesOK, CreateActor, actorVars, lifeVars, TypeOK, SystemAssumption
  <1> QED
    BY <1>2, <1>3, <1>4, <1>5 DEF IInv, Letters

\* The state of the program when a client outside send() has new requests.
LEMMA RouteKeeps ==
  ASSUME IInv, NEW c \in Clients, Outside(c),
         UNCHANGED <<program, pool, actorVars, queue, worker, lifeVars>>,
         Letters', cursor' \in 0 .. CursorSpan - 1, program = "supervise" => cursor' = 0 \/ cursor' < pool,
         requests' \in Seq(Request), Len(requests') <= MaxRequests,
         client' \in [Clients -> Call],
         \A d \in Clients : client'[d].owes = client[d].owes
  PROVE  IInv'
  <1>1. TypeOK'
    BY DEF IInv, TypeOK, actorVars, lifeVars, Call
  <1>2. NodesOK'
    BY NodesSame DEF IInv, actorVars, lifeVars
  <1>3. PhasesOK'
    BY DEF IInv, PhasesOK, Outside, actorVars, lifeVars
  <1> QED
    BY <1>1, <1>2, <1>3 DEF IInv, Letters

\* One request more, which the client pushes next.
LEMMA OneRequest ==
  ASSUME IInv, NEW c \in Clients, Outside(c), CanSend(1),
         UNCHANGED <<program, pool, actorVars, queue, worker, lifeVars>>,
         cursor' \in 0 .. CursorSpan - 1, program = "supervise" => cursor' = 0 \/ cursor' < pool,
         NEW b \in 1 .. pool, requests' = Append(requests, To(b)),
         client' \in [Clients -> Call],
         \A d \in Clients : d # c => client'[d] = client[d],
         client'[c].todo = <<Len(requests) + 1>>, client'[c].owes = client[c].owes,
         client'[c].inline = client[c].inline
  PROVE  IInv'
  <1>0. PoolSize \in Nat /\ pool \in 0 .. PoolSize /\ MaxRequests \in Nat
    BY SystemAssumption DEF IInv, TypeOK, SystemAssumption
  <1>1. b \in Actors /\ To(b) \in Request /\ To(b).to = b /\ To(b).outcome # "value" /\ To(b).via = None
        /\ b <= pool
    BY <1>0 DEF Actors, To, Request, None
  <1>2. requests \in Seq(Request)
    BY DEF IInv, TypeOK
  <1>3. /\ requests' \in Seq(Request) /\ Len(requests') = Len(requests) + 1
        /\ DOMAIN requests' \ DOMAIN requests = {Len(requests) + 1}
        /\ requests'[Len(requests) + 1] = To(b)
        /\ \A r \in DOMAIN requests : r \in DOMAIN requests' /\ requests'[r] = requests[r]
    BY <1>1, <1>2
  <1>4. Len(requests') <= MaxRequests
    BY <1>2, <1>3 DEF CanSend
  <1>5. /\ DOMAIN client'[c].todo = {1} /\ client'[c].todo[1] = Len(requests) + 1
        /\ client'[c].inline = None
    BY DEF Outside
  <1>6. Letters'
    BY <1>1, <1>3, <1>5, NewRequests DEF IInv, Letters, actorVars
  <1> QED
    BY <1>3, <1>4, <1>6, RouteKeeps

\* The next worker in turn is one of the pool.
LEMMA InTurn ==
  ASSUME IInv
  PROVE  /\ pool > 0 => RoundRobin \in 1 .. pool
         /\ AdvanceCursor => cursor' \in 0 .. CursorSpan - 1
  <1>1. PoolSize \in Nat /\ pool \in 0 .. PoolSize /\ CursorSpan \in Nat \ {0} /\ cursor \in Nat
    BY SystemAssumption DEF IInv, TypeOK, SystemAssumption
  <1>2. \A n \in Nat, d \in Nat \ {0} : n % d \in 0 .. (d - 1)
    OBVIOUS
  <1> QED
    BY <1>1, <1>2 DEF RoundRobin, AdvanceCursor

\* delegation: the caller's own message goes on.
LEMMA DelegateInv ==
  ASSUME IInv, NEW c \in Clients, Delegate(c)
  PROVE  IInv'
  <1>0. PoolSize \in Nat \ {0} /\ MaxRequests \in Nat /\ pool = PoolSize /\ program # "supervise"
    BY SystemAssumption DEF IInv, PhasesOK, Delegate, SystemAssumption
  <1>1. client \in [Clients -> Call] /\ client[c].futures \in Seq(Requests)
    BY CallParts DEF IInv
  <1>2. Len(requests) + 1 \in Requests
    BY <1>0, RequestParts DEF IInv, Delegate, CanSend, Requests
  <1>3. <<Len(requests) + 1>> \in Seq(Requests) /\ Append(client[c].futures, Len(requests) + 1) \in Seq(Requests)
    BY <1>1, <1>2
  <1>4. client' = [client EXCEPT ![c].todo = <<Len(requests) + 1>>,
                                 ![c].futures = Append(@, Len(requests) + 1)]
    BY DEF Delegate
  <1>5. /\ client' \in [Clients -> Call] /\ \A d \in Clients : d # c => client'[d] = client[d]
        /\ client'[c].todo = <<Len(requests) + 1>> /\ client'[c].owes = client[c].owes
        /\ client'[c].inline = client[c].inline
    BY <1>1, <1>3, <1>4 DEF Call
  <1> QED
    BY <1>0, <1>5, OneRequest, InTurn DEF Delegate

\* supervisor: a task for the next worker.
LEMMA AssignTaskInv ==
  ASSUME IInv, NEW c \in Clients, AssignTask(c)
  PROVE  IInv'
  <1>0. /\ PoolSize \in Nat \ {0} /\ MaxRequests \in Nat /\ pool \in 0 .. PoolSize /\ pool > 0
        /\ cursor \in Nat /\ (cursor = 0 \/ cursor < pool) /\ cursor' = (cursor + 1) % pool
    BY SystemAssumption DEF IInv, TypeOK, PhasesOK, AssignTask, SystemAssumption
  <1>1. client \in [Clients -> Call]
    BY CallParts DEF IInv
  <1>2. Len(requests) + 1 \in Requests
    BY <1>0, RequestParts DEF IInv, AssignTask, CanSend, Requests
  <1>3. client' = [client EXCEPT ![c].todo = <<Len(requests) + 1>>]
    BY DEF AssignTask
  <1>4. /\ client' \in [Clients -> Call] /\ \A d \in Clients : d # c => client'[d] = client[d]
        /\ client'[c].todo = <<Len(requests) + 1>> /\ client'[c].owes = client[c].owes
        /\ client'[c].inline = client[c].inline
    <2>1. <<Len(requests) + 1>> \in Seq(Requests)
      BY <1>2
    <2> QED
      BY <1>1, <1>3, <2>1 DEF Call
  <1>5. cursor + 1 \in 1 .. pool
    BY <1>0
  <1>6. cursor' \in 0 .. CursorSpan - 1 /\ cursor' < pool
    <2>1. \A n \in Nat, d \in Nat \ {0} : n % d \in 0 .. (d - 1)
      OBVIOUS
    <2>2. CursorSpan \in Nat /\ PoolSize <= CursorSpan
      BY SystemAssumption DEF SystemAssumption
    <2> QED
      BY <1>0, <2>1, <2>2
  <1> QED
    BY <1>4, <1>5, <1>6, OneRequest DEF AssignTask

\* A client sends to an actor itself.
LEMMA SendDirectInv ==
  ASSUME IInv, NEW c \in Clients, SendDirect(c)
  PROVE  IInv'
  <1>0. MaxRequests \in Nat /\ program # "supervise" /\ cursor \in 0 .. CursorSpan - 1 /\ UNCHANGED <<program, cursor, pool>>
    BY SystemAssumption DEF IInv, TypeOK, SendDirect, SystemAssumption, routerVars
  <1>1. client \in [Clients -> Call] /\ client[c].futures \in Seq(Requests)
    BY CallParts DEF IInv
  <1>2. Len(requests) + 1 \in Requests
    BY <1>0, RequestParts DEF IInv, SendDirect, CanSend, Requests
  <1>3. PICK b \in 1 .. pool, keep \in BOOLEAN :
          /\ requests' = Append(requests, To(b))
          /\ client' = [client EXCEPT ![c].todo = <<Len(requests) + 1>>,
                          ![c].futures = IF keep THEN Append(@, Len(requests) + 1) ELSE @]
    BY DEF SendDirect
  <1> DEFINE kept == IF keep THEN Append(client[c].futures, Len(requests) + 1) ELSE client[c].futures
  <1>4. client' = [client EXCEPT ![c].todo = <<Len(requests) + 1>>, ![c].futures = kept]
    BY <1>3
  <1>5. <<Len(requests) + 1>> \in Seq(Requests) /\ kept \in Seq(Requests)
    BY <1>1, <1>2
  <1> HIDE DEF kept
  <1>6. /\ client' \in [Clients -> Call] /\ \A d \in Clients : d # c => client'[d] = client[d]
        /\ client'[c].todo = <<Len(requests) + 1>> /\ client'[c].owes = client[c].owes
        /\ client'[c].inline = client[c].inline
    BY <1>1, <1>4, <1>5 DEF Call
  <1> QED
    BY <1>0, <1>3, <1>6, OneRequest DEF SendDirect

\* check_status(): a message to every worker.
LEMMA CheckStatusInv ==
  ASSUME IInv, NEW c \in Clients, CheckStatus(c)
  PROVE  IInv'
  <1>0. /\ PoolSize \in Nat /\ MaxRequests \in Nat /\ pool \in 0 .. PoolSize
        /\ cursor \in 0 .. CursorSpan - 1 /\ (program = "supervise" => cursor = 0 \/ cursor < pool)
        /\ UNCHANGED <<program, cursor, pool>>
    BY SystemAssumption DEF IInv, TypeOK, PhasesOK, CheckStatus, SystemAssumption, routerVars
  <1> DEFINE n == Len(requests)
             new == [a \in 1 .. pool |-> To(a)]
             todo == [a \in 1 .. pool |-> n + a]
  <1>1. /\ client \in [Clients -> Call] /\ requests \in Seq(Request) /\ n \in Nat
        /\ DOMAIN requests = 1 .. n /\ n + pool <= MaxRequests
    <2>1. requests \in Seq(Request) /\ client \in [Clients -> Call]
      BY CallParts DEF IInv, TypeOK
    <2>2. n + pool <= MaxRequests
      BY DEF CheckStatus, CanSend
    <2> QED
      BY <2>1, <2>2
  <1>2. \A a \in 1 .. pool : /\ a \in Actors /\ To(a) \in Request /\ To(a).to = a
                             /\ To(a).via = None /\ To(a).outcome # "value"
    BY <1>0 DEF Actors, To, Request, None
  <1>3. new \in Seq(Request) /\ Len(new) = pool
    BY <1>0, <1>2
  <1>4. /\ requests' \in Seq(Request) /\ Len(requests') = n + pool /\ DOMAIN requests' = 1 .. n + pool
        /\ \A r \in 1 .. n : requests'[r] = requests[r]
        /\ \A a \in 1 .. pool : requests'[n + a] = To(a)
    <2>1. requests' = requests \o new
      BY DEF CheckStatus
    <2> HIDE DEF new
    <2>2. /\ requests' \in Seq(Request) /\ Len(requests') = n + pool /\ DOMAIN requests' = 1 .. n + pool
          /\ \A r \in 1 .. n : requests'[r] = requests[r]
          /\ \A a \in 1 .. pool : requests'[n + a] = new[a]
      <3>1. Len(requests) \in Nat /\ pool \in Nat /\ DOMAIN new = 1 .. pool
        BY <1>0, <1>1, <1>3
      <3> QED
        BY <1>1, <1>3, <2>1, <3>1
    <2> QED
      BY <2>2 DEF new
  <1>5. todo \in Seq(Requests) /\ DOMAIN todo = 1 .. pool /\ \A a \in 1 .. pool : todo[a] = n + a
    BY <1>0, <1>1 DEF Requests
  <1>6. client' = [client EXCEPT ![c].todo = todo]
    BY DEF CheckStatus
  <1> HIDE DEF todo, new
  <1>7. /\ client' \in [Clients -> Call] /\ \A d \in Clients : d # c => client'[d] = client[d]
        /\ client'[c].todo = todo /\ client'[c].owes = client[c].owes
        /\ client'[c].inline = client[c].inline
    BY <1>1, <1>5, <1>6 DEF Call
  <1> HIDE DEF n
  <1>8. \A r \in DOMAIN requests' \ DOMAIN requests : r - n \in 1 .. pool /\ r = n + (r - n)
    BY <1>0, <1>1, <1>4
  <1>9. \A a \in 1 .. pool : n + a \in DOMAIN requests' \ DOMAIN requests
    BY <1>0, <1>1, <1>4
  <1>10. Outside(c)
    BY DEF CheckStatus
  <1>11. \A r \in DOMAIN requests' \ DOMAIN requests :
           /\ requests'[r].to <= pool /\ requests'[r].outcome # "value" /\ requests'[r].via = None
           /\ \E i \in DOMAIN client'[c].todo : client'[c].todo[i] = r
    <2> TAKE r \in DOMAIN requests' \ DOMAIN requests
    <2> DEFINE a == r - n
    <2>1. a \in 1 .. pool /\ r = n + a
      BY <1>8
    <2> HIDE DEF a
    <2>2. requests'[r] = To(a) /\ client'[c].todo[a] = r /\ a \in DOMAIN client'[c].todo
      BY <2>1, <1>4, <1>5, <1>7
    <2> QED
      BY <1>0, <1>2, <2>1, <2>2
  <1>12. \A i \in DOMAIN client'[c].todo :
            /\ client'[c].todo[i] \in DOMAIN requests' \ DOMAIN requests
            /\ requests'[client'[c].todo[i]].to \in Actors
            /\ requests'[client'[c].todo[i]] = To(requests'[client'[c].todo[i]].to)
    BY <1>2, <1>4, <1>5, <1>7, <1>9
  <1>13. \A i, j \in DOMAIN client'[c].todo : client'[c].todo[i] = client'[c].todo[j] => i = j
    BY <1>0, <1>1, <1>5, <1>7
  <1>14. client'[c].inline = None
    BY <1>7, <1>10 DEF Outside
  <1>15. \A r \in DOMAIN requests : r \in DOMAIN requests' /\ requests'[r] = requests[r]
    BY <1>0, <1>1, <1>4
  <1>16. Letters'
    <2>1. Letters /\ TypeOK /\ UNCHANGED <<pool, inbox, behavior, awaited>>
      BY DEF IInv, Letters, CheckStatus, routerVars, actorVars
    <2> QED
      BY <2>1, <1>7, <1>10, <1>11, <1>12, <1>13, <1>14, <1>15, NewRequests
  <1>17. Len(requests') <= MaxRequests
    BY <1>1, <1>4
  <1> QED
    BY <1>0, <1>4, <1>7, <1>10, <1>16, <1>17, RouteKeeps DEF CheckStatus

\* balancer: the caller's request and the router's own.
LEMMA BalanceInv ==
  ASSUME IInv, NEW c \in Clients, Balance(c)
  PROVE  IInv'
  <1>0. /\ PoolSize \in Nat \ {0} /\ MaxRequests \in Nat /\ program # "supervise" /\ cursor \in 0 .. CursorSpan - 1
        /\ pool \in 0 .. PoolSize /\ Outside(c) /\ UNCHANGED <<program, pool>>
    BY SystemAssumption DEF IInv, TypeOK, Balance, SystemAssumption
  <1> DEFINE r == Len(requests) + 1
             lost == [To(None) EXCEPT !.outcome = "failed"]
             asks == [To(None) EXCEPT !.via = r + 1]
  <1>1. /\ client \in [Clients -> Call] /\ requests \in Seq(Request)
        /\ Len(requests) \in Nat /\ DOMAIN requests = 1 .. Len(requests) /\ Len(requests) + 2 <= MaxRequests
    <2>1. requests \in Seq(Request) /\ client \in [Clients -> Call]
      BY CallParts DEF IInv, TypeOK
    <2>2. Len(requests) + 2 <= MaxRequests
      BY DEF Balance, CanSend
    <2> QED
      BY <2>1, <2>2
  <1>2. r \in Requests /\ r + 1 \in Requests /\ r # None /\ r + 1 # None /\ r \in 0 .. MaxRequests
        /\ r \notin DOMAIN requests /\ r + 1 \notin DOMAIN requests
    BY <1>0, <1>1 DEF Requests, None
  <1>3. client[c].inline = None /\ client[c].todo = <<>>
    BY <1>0 DEF Outside
  <1>4. CASE /\ pool = 0
             /\ requests' = Append(requests, lost)
             /\ client' = [client EXCEPT ![c].futures = <<r>>]
             /\ UNCHANGED cursor
    <2>1. lost \in Request /\ lost.to = 0 /\ lost.outcome = "failed" /\ lost.via = None
      BY <1>0 DEF To, Request, None
    <2> HIDE DEF lost
    <2>2. /\ requests' \in Seq(Request) /\ Len(requests') = Len(requests) + 1
          /\ DOMAIN requests' \ DOMAIN requests = {r} /\ requests'[r] = lost
          /\ \A q \in DOMAIN requests : q \in DOMAIN requests' /\ requests'[q] = requests[q]
      BY <1>1, <1>4, <2>1
    <2>3. /\ client' \in [Clients -> Call] /\ \A d \in Clients : d # c => client'[d] = client[d]
          /\ client'[c].todo = client[c].todo /\ client'[c].owes = client[c].owes
          /\ client'[c].inline = client[c].inline
      <3>1. <<r>> \in Seq(Requests)
        BY <1>2
      <3> QED
        BY <1>1, <1>4, <3>1 DEF Call
    <2>4. Letters'
      <3>1. Letters /\ TypeOK /\ UNCHANGED <<pool, inbox, behavior, awaited>>
        BY DEF IInv, Letters, Balance, actorVars
      <3>2. lost.to <= pool /\ DOMAIN client'[c].todo = {} /\ client'[c].inline = None
        BY <1>0, <1>3, <2>1, <2>3
      <3> QED
        BY <1>0, <2>1, <2>2, <2>3, <3>1, <3>2, NewRequests
    <2>5. /\ cursor' \in 0 .. CursorSpan - 1 /\ Len(requests') <= MaxRequests
          /\ UNCHANGED <<program, pool, actorVars, queue, worker, lifeVars>>
      <3>1. cursor' = cursor /\ Len(requests') <= MaxRequests
        BY <1>0, <1>1, <1>4, <2>2
      <3> QED
        BY <1>0, <3>1 DEF Balance
    <2>6. \A d \in Clients : client'[d].owes = client[d].owes
      BY <2>3
    <2> QED
      BY <1>0, <2>2, <2>3, <2>4, <2>5, <2>6, RouteKeeps
  <1>5. CASE /\ pool > 0
             /\ requests' = requests \o <<asks, To(RoundRobin)>>
             /\ client' = [client EXCEPT ![c].todo = <<r + 1>>, ![c].inline = r, ![c].futures = <<r>>]
             /\ AdvanceCursor
    <2>0. RoundRobin \in 1 .. pool /\ cursor' \in 0 .. CursorSpan - 1
      BY <1>5, InTurn
    <2> DEFINE b == RoundRobin
    <2> HIDE DEF b
    <2>1. /\ asks \in Request /\ asks.to = None /\ asks.outcome = "none" /\ asks.via = r + 1
          /\ b \in Actors /\ To(b) \in Request /\ To(b).to = b /\ To(b).via = None /\ To(b).outcome = "none"
          /\ b <= pool
      BY <1>0, <1>2, <2>0 DEF To, Request, None, Requests, Actors, b
    <2> HIDE DEF asks
    <2>2. <<asks, To(b)>> \in Seq(Request) /\ Len(<<asks, To(b)>>) = 2
      BY <2>1
    <2>3. requests' = requests \o <<asks, To(b)>>
      BY <1>5 DEF b
    <2>4. /\ requests' \in Seq(Request) /\ Len(requests') = Len(requests) + 2
          /\ DOMAIN requests' \ DOMAIN requests = {r, r + 1} /\ requests'[r] = asks
          /\ requests'[r + 1] = To(b)
          /\ \A q \in DOMAIN requests : q \in DOMAIN requests' /\ requests'[q] = requests[q]
      BY <1>1, <2>2, <2>3
    <2>5. /\ client' \in [Clients -> Call] /\ \A d \in Clients : d # c => client'[d] = client[d]
          /\ client'[c].todo = <<r + 1>> /\ client'[c].owes = client[c].owes
          /\ client'[c].inline = r
      <3> DEFINE t == <<r + 1>>
                 f == <<r>>
      <3>1. t \in Seq(Requests) /\ f \in Seq(Requests)
        BY <1>2
      <3>2. client' = [client EXCEPT ![c].todo = t, ![c].inline = r, ![c].futures = f]
        BY <1>5
      <3> HIDE DEF t, f, r
      <3>3. /\ client' \in [Clients -> Call] /\ \A d \in Clients : d # c => client'[d] = client[d]
            /\ client'[c].todo = t /\ client'[c].owes = client[c].owes
            /\ client'[c].inline = r
        BY <1>1, <1>2, <3>1, <3>2 DEF Call
      <3> QED
        BY <3>3 DEF t
    <2>6. DOMAIN client'[c].todo = {1} /\ client'[c].todo[1] = r + 1
      BY <2>5
    <2>7. /\ r \in DOMAIN requests' /\ r + 1 \in DOMAIN requests' /\ asks.to <= pool
      BY <1>0, <2>1, <2>4 DEF None
    <2> HIDE DEF r
    <2>8. Letters'
      <3>1. Letters /\ TypeOK /\ UNCHANGED <<pool, inbox, behavior, awaited>>
        BY DEF IInv, Letters, Balance, actorVars
      <3> QED
        BY <1>0, <1>2, <2>1, <2>4, <2>5, <2>6, <2>7, <3>1, NewRequests
    <2> QED
      BY <1>0, <1>1, <2>0, <2>4, <2>5, <2>8, RouteKeeps DEF Balance
  <1> QED
    BY <1>4, <1>5 DEF Balance

-----------------------------------------------------------------------------
(* Inside send().                                                          *)

\* enqueue_impl() of the actor: the first of the client's requests is in the
\* mailbox, and a parked actor is claimed.
LEMMA PushLetters ==
  ASSUME IInv, NEW c \in Clients, PushMessage(c)
  PROVE  Letters'
  <1> DEFINE r == client[c].todo[1]
             b == requests[r].to
  <1>1. /\ client \in [Clients -> Call] /\ client[c].todo \in Seq(Requests) /\ client[c].todo # <<>>
        /\ inbox \in [Actors -> Seq(Requests)]
    BY CallParts DEF IInv, PushMessage, TypeOK
  <1>2. /\ 1 \in DOMAIN client[c].todo /\ Head(client[c].todo) = r
        /\ Tail(client[c].todo) \in Seq(Requests)
        /\ \A i \in DOMAIN Tail(client[c].todo) : /\ i + 1 \in DOMAIN client[c].todo /\ i + 1 # 1
                                                  /\ Tail(client[c].todo)[i] = client[c].todo[i + 1]
        /\ \A i \in DOMAIN client[c].todo : i # 1 =>
             i - 1 \in DOMAIN Tail(client[c].todo) /\ Tail(client[c].todo)[i - 1] = client[c].todo[i]
        /\ DOMAIN client[c].todo \subseteq Nat
    BY <1>1
  <1>3. /\ r \in DOMAIN requests /\ b \in Actors /\ requests[r] = To(b)
        /\ \A a \in Actors : \A j \in DOMAIN inbox[a] : inbox[a][j] # r
    BY <1>2 DEF IInv, SendingOK
  <1>4. r \in Requests
    BY <1>1, <1>2
  <1>5. /\ client' = [client EXCEPT ![c].todo = Tail(@), ![c].owes = NeedsSched(r)]
        /\ inbox' = [inbox EXCEPT ![b] = Append(@, r)]
        /\ UNCHANGED <<pool, requests, behavior, awaited>>
    BY <1>2 DEF PushMessage, Deliver, routerVars
  <1>6. /\ client'[c].todo = Tail(client[c].todo) /\ client'[c].inline = client[c].inline
        /\ \A d \in Clients : d # c => client'[d] = client[d]
    BY <1>1, <1>5 DEF Call
  <1> HIDE DEF r, b
  <1>7. /\ DOMAIN inbox'[b] = DOMAIN inbox[b] \cup {Len(inbox[b]) + 1}
        /\ inbox'[b][Len(inbox[b]) + 1] = r /\ Len(inbox[b]) + 1 \notin DOMAIN inbox[b]
        /\ \A i \in DOMAIN inbox[b] : inbox'[b][i] = inbox[b][i]
        /\ \A a \in Actors : a # b => inbox'[a] = inbox[a]
    BY <1>1, <1>3, <1>4, <1>5
  <1>8. SentOK' /\ SuspendedOK' /\ RelayFaithful'
    BY <1>5 DEF IInv, SentOK, SuspendedOK, RelayFaithful, Outcome
  <1>9. RelayingOK'
    BY <1>5, <1>6 DEF IInv, RelayingOK
  <1>10. MailOK'
    <2> SUFFICES ASSUME NEW a \in Actors
                 PROVE  /\ \A i \in DOMAIN inbox'[a] :
                             inbox'[a][i] \in DOMAIN requests /\ requests[inbox'[a][i]] = To(a)
                        /\ \A i, j \in DOMAIN inbox'[a] : inbox'[a][i] = inbox'[a][j] => i = j
      BY <1>5 DEF MailOK
    <2>1. CASE a # b
      BY <1>7, <2>1 DEF IInv, MailOK
    <2>2. CASE a = b
      BY <1>3, <1>7, <2>2 DEF IInv, MailOK
    <2> QED
      BY <2>1, <2>2
  <1>11. \A d \in Clients : \A i \in DOMAIN client'[d].todo :
            \E k \in DOMAIN client[d].todo :
               /\ client[d].todo[k] = client'[d].todo[i] /\ client'[d].todo[i] # r
    <2>1. ASSUME NEW i \in DOMAIN Tail(client[c].todo)
          PROVE  /\ i + 1 \in DOMAIN client[c].todo /\ Tail(client[c].todo)[i] = client[c].todo[i + 1]
                 /\ client[c].todo[i + 1] # r
      BY <1>2, <2>1 DEF IInv, SendingOK, r
    <2>2. ASSUME NEW d \in Clients, d # c, NEW i \in DOMAIN client[d].todo
          PROVE  client[d].todo[i] # r
      BY <1>2, <2>2 DEF IInv, SendingOK, r
    <2> QED
      BY <1>6, <2>1, <2>2, ZenonT(40)
  <1>12. SendingOK'
    <2>1. ASSUME NEW d \in Clients, NEW i \in DOMAIN client'[d].todo, NEW q, q = client'[d].todo[i]
          PROVE  /\ q \in DOMAIN requests /\ requests[q].to \in Actors
                 /\ requests[q] = To(requests[q].to)
                 /\ \A a \in Actors : \A j \in DOMAIN inbox'[a] : inbox'[a][j] # q
      <3>1. PICK k \in DOMAIN client[d].todo : client[d].todo[k] = q /\ q # r
        BY <1>11, <2>1
      <3>2. /\ q \in DOMAIN requests /\ requests[q].to \in Actors /\ requests[q] = To(requests[q].to)
            /\ \A a \in Actors : \A j \in DOMAIN inbox[a] : inbox[a][j] # q
        BY <3>1 DEF IInv, SendingOK
      <3> QED
        BY <1>3, <1>7, <3>1, <3>2
    <2>2. ASSUME NEW d \in Clients, NEW e \in Clients, NEW i \in DOMAIN client'[d].todo,
                 NEW j \in DOMAIN client'[e].todo, client'[d].todo[i] = client'[e].todo[j]
          PROVE  d = e /\ i = j
      <3> DEFINE k(x, n) == IF x = c THEN n + 1 ELSE n
      <3>1. ASSUME NEW x \in Clients, NEW n \in DOMAIN client'[x].todo
            PROVE  k(x, n) \in DOMAIN client[x].todo /\ client[x].todo[k(x, n)] = client'[x].todo[n]
        <4>1. CASE x = c
          BY <1>2, <1>6, <4>1
        <4>2. CASE x # c
          BY <1>6, <4>2
        <4> QED
          BY <4>1, <4>2
      <3>2. d = e /\ k(d, i) = k(e, j)
        BY <2>2, <3>1 DEF IInv, SendingOK
      <3>3. i \in Nat /\ j \in Nat
        <4>1. client[d].todo \in Seq(Requests) /\ client[e].todo \in Seq(Requests)
          BY CallParts DEF IInv
        <4>2. \A x \in Seq(Requests) : DOMAIN x \subseteq Nat
          OBVIOUS
        <4> QED
          BY <1>2, <1>6, <4>1, <4>2
      <3> QED
        BY <3>2, <3>3
    <2>3. \A d \in Clients : \A i \in DOMAIN client'[d].todo :
            /\ client'[d].todo[i] \in DOMAIN requests' /\ requests'[client'[d].todo[i]].to \in Actors
            /\ requests'[client'[d].todo[i]] = To(requests'[client'[d].todo[i]].to)
            /\ \A a \in Actors : \A j \in DOMAIN inbox'[a] : inbox'[a][j] # client'[d].todo[i]
      <3> TAKE d \in Clients
      <3> TAKE i \in DOMAIN client'[d].todo
      <3> DEFINE q == client'[d].todo[i]
      <3> HIDE DEF q
      <3>1. q = client'[d].todo[i]
        BY DEF q
      <3>2. /\ q \in DOMAIN requests /\ requests[q].to \in Actors
            /\ requests[q] = To(requests[q].to)
            /\ \A a \in Actors : \A j \in DOMAIN inbox'[a] : inbox'[a][j] # q
        BY <2>1, <3>1
      <3> QED
        BY <1>5, <3>2, Zenon DEF q
    <2> QED
      BY <2>2, <2>3 DEF SendingOK
  <1>13. PendingOK'
    <2> SUFFICES ASSUME NEW q \in DOMAIN requests, requests[q].outcome = "none" PROVE Held(q)'
      BY <1>5 DEF PendingOK, Outcome
    <2>1. Held(q)
      BY DEF IInv, PendingOK, Outcome
    <2>2. CASE q = r
      BY <1>3, <1>7, <2>2 DEF Held
    <2>3. CASE q # r
      <3>1. ASSUME NEW i \in DOMAIN client[c].todo, client[c].todo[i] = q
            PROVE  i - 1 \in DOMAIN Tail(client[c].todo) /\ Tail(client[c].todo)[i - 1] = q
        BY <1>2, <2>3, <3>1 DEF r
      <3>2. CASE \E d \in Clients : \E i \in DOMAIN client[d].todo : client[d].todo[i] = q
        BY <1>6, <3>1, <3>2 DEF Held
      <3>3. CASE \E d \in Clients : client[d].inline = q
        BY <1>6, <3>3 DEF Held
      <3>4. CASE \E a \in Actors : \E i \in DOMAIN inbox[a] : inbox[a][i] = q
        BY <1>7, <3>4 DEF Held
      <3>5. CASE \E a \in Actors : behavior[a] = q
        BY <1>5, <3>5 DEF Held
      <3> QED
        BY <2>1, <3>2, <3>3, <3>4, <3>5 DEF Held
    <2> QED
      BY <2>2, <2>3
  <1> QED
    BY <1>8, <1>9, <1>10, <1>12, <1>13 DEF Letters

\* A client takes an actor's node on itself, or gives it away.
LEMMA OwedMoves ==
  ASSUME TypeOK, OnePlace, NEW c \in Clients, NEW x, client'[c].owes = x,
         \A d \in Clients : d # c => client'[d].owes = client[d].owes,
         x # None => ~Owed(x)
  PROVE  /\ \A a \in Actors : Owed(a)' <=> (a = x \/ (Owed(a) /\ client[c].owes # a))
         /\ \A d, e \in Clients : client'[d].owes = client'[e].owes /\ client'[e].owes # None => d = e
  <1>1. \A a \in Actors : Owed(a) /\ client[c].owes # a <=>
                            \E d \in Clients : d # c /\ client[d].owes = a
    BY DEF OnePlace, Owed, Actors, None
  <1>2. \A a \in Actors : Owed(a)' <=> a = x \/ \E d \in Clients : d # c /\ client[d].owes = a
    BY DEF Owed
  <1>3. \A d, e \in Clients : client'[d].owes = client'[e].owes /\ client'[e].owes # None => d = e
    BY DEF OnePlace, Owed
  <1> QED
    BY <1>1, <1>2, <1>3

\* A node goes to the end of the queue.
LEMMA QueueGrows ==
  ASSUME TypeOK, OnePlace, NEW b \in 1 .. Helper, queue' = Append(queue, b),
         b \in Actors => ~Queued(b)
  PROVE  /\ queue' \in Seq(1 .. Helper)
         /\ \A a : Queued(a)' <=> Queued(a) \/ a = b
         /\ \A i, j \in DOMAIN queue' : queue'[i] = queue'[j] /\ queue'[i] \in Actors => i = j
  <1>1. queue \in Seq(1 .. Helper)
    BY DEF TypeOK
  <1>2. /\ queue' \in Seq(1 .. Helper) /\ DOMAIN queue' = DOMAIN queue \cup {Len(queue) + 1}
        /\ queue'[Len(queue) + 1] = b /\ Len(queue) + 1 \notin DOMAIN queue
        /\ \A i \in DOMAIN queue : queue'[i] = queue[i]
    BY <1>1
  <1>3. \A a : Queued(a)' <=> Queued(a) \/ a = b
    BY <1>2 DEF Queued
  <1>4. \A i \in DOMAIN queue : b \in Actors => queue[i] # b
    BY DEF Queued
  <1>5. \A i, j \in DOMAIN queue' : queue'[i] = queue'[j] /\ queue'[i] \in Actors => i = j
    BY <1>2, <1>4 DEF OnePlace
  <1> QED
    BY <1>2, <1>3, <1>5

\* push_back(), what it owes and to whom.
LEMMA PushNodes ==
  ASSUME IInv, NEW c \in Clients, PushMessage(c)
  PROVE  NodesOK'
  <1> DEFINE r == Head(client[c].todo)
             b == requests[r].to
             x == NeedsSched(r)
  <1>1. /\ client \in [Clients -> Call] /\ client[c].todo \in Seq(Requests) /\ client[c].todo # <<>>
        /\ client[c].owes = None
    BY CallParts DEF IInv, PushMessage
  <1>2. b \in Actors
    <2>1. 1 \in DOMAIN client[c].todo /\ client[c].todo[1] = r
      BY <1>1
    <2> QED
      BY <2>1 DEF IInv, SendingOK
  <1>3. /\ client' = [client EXCEPT ![c].todo = Tail(@), ![c].owes = x]
        /\ scheduled' = [scheduled EXCEPT ![b] = TRUE]
        /\ UNCHANGED <<queue, worker, phase, behavior>> /\ phase = "up"
        /\ \A a \in Actors : a # b => inbox'[a] = inbox[a]
    <2>1. inbox \in [Actors -> Seq(Requests)] /\ inbox' = [inbox EXCEPT ![b] = Append(@, r)]
      BY DEF IInv, TypeOK, PushMessage, Deliver
    <2> QED
      BY <1>2, <2>1 DEF PushMessage, Deliver, lifeVars
  <1>4. x = IF scheduled[b] THEN None ELSE b
    BY DEF NeedsSched
  <1> HIDE DEF x, b, r
  <1>5. client'[c].owes = x /\ \A d \in Clients : d # c => client'[d].owes = client[d].owes
    BY <1>1, <1>3 DEF Call
  <1>6. scheduled \in [Actors -> BOOLEAN] /\ scheduled'[b] /\ \A a \in Actors : a # b => scheduled'[a] = scheduled[a]
    BY <1>2, <1>3, Zenon DEF IInv, TypeOK
  <1>7. \A a : /\ Queued(a)' <=> Queued(a)
               /\ Running(a)' <=> Running(a)
               /\ Asked(a)' <=> Asked(a)
    BY <1>3 DEF Queued, Running, Asked
  <1>8. x # None => x = b /\ ~scheduled[b] /\ ~HasNode(b)
    BY <1>2, <1>4, <1>3 DEF IInv, NodesOK
  <1>9. /\ \A a \in Actors : Owed(a)' <=> (a = x \/ Owed(a))
        /\ \A d, e \in Clients : client'[d].owes = client'[e].owes /\ client'[e].owes # None => d = e
    <2>1. x # None => ~Owed(x)
      BY <1>8 DEF HasNode
    <2>2. \A a \in Actors : client[c].owes # a
      BY <1>1 DEF None, Actors
    <2> QED
      BY <1>5, <2>1, <2>2, OwedMoves DEF IInv, NodesOK
  <1>10. OnePlace'
    <2>1. \A a \in Actors : a = x => ~Queued(a) /\ ~Running(a) /\ ~Asked(a)
      BY <1>8 DEF HasNode, Actors, None
    <2>2. \A a \in Actors : /\ Queued(a)' => ~Running(a)' /\ ~Asked(a)' /\ ~Owed(a)'
                            /\ Running(a)' => ~Asked(a)' /\ ~Owed(a)'
                            /\ Asked(a)' => ~Owed(a)'
      BY <1>7, <1>9, <2>1 DEF IInv, NodesOK, OnePlace
    <2> QED
      BY <1>3, <1>9, <2>2 DEF IInv, NodesOK, OnePlace
  <1>11. \A a \in Actors : HasNode(a)' <=> HasNode(a) \/ a = x
    BY <1>7, <1>9 DEF HasNode
  <1>12. \A a \in Actors : scheduled'[a] /\ phase' # "stopped" <=> HasNode(a)'
    <2> TAKE a \in Actors
    <2>1. CASE a = b
      <3>1. scheduled[b] => HasNode(b)
        BY <1>2, <1>3 DEF IInv, NodesOK
      <3>2. ~scheduled[b] => x = b
        BY <1>4
      <3> QED
        BY <1>3, <1>6, <1>11, <2>1, <3>1, <3>2
    <2>2. CASE a # b
      <3>1. a # x
        BY <1>4, <2>2 DEF Actors, None
      <3> QED
        BY <1>3, <1>6, <1>11, <2>2, <3>1 DEF IInv, NodesOK
    <2> QED
      BY <2>1, <2>2
  <1>13. \A a \in Actors : inbox'[a] # <<>> \/ behavior'[a] # None => scheduled'[a]
    BY <1>3, <1>6 DEF IInv, NodesOK
  <1> QED
    BY <1>10, <1>12, <1>13 DEF NodesOK

\* enqueue_impl() keeps the invariant.
LEMMA PushMessageInv ==
  ASSUME IInv, NEW c \in Clients, PushMessage(c)
  PROVE  IInv'
  <1> DEFINE r == Head(client[c].todo)
             b == requests[r].to
             x == NeedsSched(r)
  <1>1. /\ client \in [Clients -> Call] /\ client[c].todo \in Seq(Requests) /\ client[c].todo # <<>>
    BY CallParts DEF IInv, PushMessage
  <1>2. b \in Actors /\ r \in Requests
    <2>1. 1 \in DOMAIN client[c].todo /\ client[c].todo[1] = r /\ r \in Requests
      BY <1>1
    <2> QED
      BY <2>1 DEF IInv, SendingOK
  <1>3. x \in 0 .. PoolSize
    BY <1>2, SystemAssumption DEF NeedsSched, Actors, None, SystemAssumption
  <1>4. /\ client' = [client EXCEPT ![c].todo = Tail(@), ![c].owes = x]
        /\ inbox' = [inbox EXCEPT ![b] = Append(@, r)]
        /\ scheduled' = [scheduled EXCEPT ![b] = TRUE]
        /\ UNCHANGED <<routerVars, behavior, awaited, requests, queue, worker, lifeVars>>
    BY DEF PushMessage, Deliver
  <1> HIDE DEF r, b, x
  <1>5. client' \in [Clients -> Call]
    <2>1. Tail(client[c].todo) \in Seq(Requests)
      BY <1>1
    <2> QED
      BY <1>1, <1>3, <1>4, <2>1 DEF Call
  <1>6. inbox' \in [Actors -> Seq(Requests)]
    BY <1>2, <1>4 DEF IInv, TypeOK
  <1>7. scheduled' \in [Actors -> BOOLEAN]
    BY <1>2, <1>4, Zenon DEF IInv, TypeOK
  <1>8. TypeOK'
    BY <1>4, <1>5, <1>6, <1>7 DEF IInv, TypeOK, Call, routerVars, lifeVars
  <1>9. PhasesOK'
    <2>1. phase = "up" /\ destroyed = 0 /\ UNCHANGED <<phase, destroyed>>
      BY <1>4 DEF IInv, TypeOK, PhasesOK, PushMessage, lifeVars
    <2> QED
      BY <1>4, <2>1 DEF IInv, PhasesOK, routerVars, lifeVars, Actors
  <1> QED
    BY <1>8, <1>9, PushLetters, PushNodes DEF IInv, Letters

\* scheduler_->enqueue(): the node is the queue's.
LEMMA ScheduleActorInv ==
  ASSUME IInv, NEW c \in Clients, ScheduleActor(c)
  PROVE  IInv'
  <1> DEFINE b == client[c].owes
  <1>1. /\ client \in [Clients -> Call] /\ b \in 0 .. PoolSize /\ b # None
        /\ client' = [client EXCEPT ![c].owes = None] /\ queue' = Append(queue, b)
        /\ UNCHANGED <<routerVars, requests, actorVars, worker, lifeVars>>
    BY CallParts DEF IInv, ScheduleActor
  <1>2. b \in Actors /\ b \in 1 .. Helper
    BY <1>1, SystemAssumption DEF Actors, None, Helper, SystemAssumption
  <1>3. None \in 0 .. PoolSize
    BY SystemAssumption DEF None, SystemAssumption
  <1>4. /\ client' \in [Clients -> Call] /\ client'[c].owes = None
        /\ \A d \in Clients : client'[d].todo = client[d].todo /\ client'[d].inline = client[d].inline
        /\ \A d \in Clients : d # c => client'[d].owes = client[d].owes
    BY <1>1, <1>3 DEF Call
  <1>5. Owed(b)
    BY DEF Owed
  <1> HIDE DEF b
  <1>6. ~Queued(b) /\ ~Running(b) /\ ~Asked(b)
    BY <1>2, <1>5 DEF IInv, NodesOK, OnePlace
  <1>7. /\ queue' \in Seq(1 .. Helper)
        /\ \A a : Queued(a)' <=> Queued(a) \/ a = b
        /\ \A i, j \in DOMAIN queue' : queue'[i] = queue'[j] /\ queue'[i] \in Actors => i = j
    BY <1>1, <1>2, <1>6, QueueGrows DEF IInv, NodesOK
  <1>8. /\ \A a \in Actors : Owed(a)' <=> Owed(a) /\ a # b
        /\ \A d, e \in Clients : client'[d].owes = client'[e].owes /\ client'[e].owes # None => d = e
    <2>1. /\ \A a \in Actors : Owed(a)' <=> (a = None \/ (Owed(a) /\ client[c].owes # a))
          /\ \A d, e \in Clients : client'[d].owes = client'[e].owes /\ client'[e].owes # None => d = e
      BY <1>4, OwedMoves DEF IInv, NodesOK
    <2> QED
      BY <2>1 DEF b, Actors, None
  <1>9. \A a : /\ Running(a)' <=> Running(a)
               /\ Asked(a)' <=> Asked(a)
    BY <1>1 DEF Running, Asked
  <1>10. OnePlace'
    <2>1. \A a \in Actors : /\ Queued(a)' => ~Running(a)' /\ ~Asked(a)' /\ ~Owed(a)'
                            /\ Running(a)' => ~Asked(a)' /\ ~Owed(a)'
                            /\ Asked(a)' => ~Owed(a)'
      BY <1>6, <1>7, <1>8, <1>9 DEF IInv, NodesOK, OnePlace
    <2> QED
      BY <1>1, <1>7, <1>8, <2>1 DEF IInv, NodesOK, OnePlace
  <1>11. \A a \in Actors : HasNode(a)' <=> HasNode(a)
    BY <1>5, <1>7, <1>8, <1>9 DEF HasNode
  <1>12. NodesOK'
    BY <1>1, <1>10, <1>11 DEF IInv, NodesOK, actorVars, lifeVars
  <1>13. Letters'
    <2>1. /\ UNCHANGED <<requests, inbox, behavior, awaited>> /\ pool' \in Nat /\ pool' >= pool
      BY <1>1, SystemAssumption DEF IInv, TypeOK, routerVars, actorVars, SystemAssumption
    <2> QED
      BY <1>4, <2>1, LettersSame DEF IInv, Letters
  <1>14. TypeOK'
    BY <1>1, <1>4, <1>7 DEF IInv, TypeOK, Call, routerVars, actorVars, lifeVars
  <1>15. PhasesOK'
    BY <1>1, <1>4 DEF IInv, PhasesOK, routerVars, actorVars, lifeVars, ScheduleActor
  <1> QED
    BY <1>12, <1>13, <1>14, <1>15 DEF IInv, Letters

\* set_value() on a request, by its members.
LEMMA SettleParts ==
  ASSUME TypeOK, NEW r \in DOMAIN requests, requests' = Settle(r, "value")
  PROVE  /\ requests' \in Seq(Request) /\ Len(requests') = Len(requests)
         /\ DOMAIN requests' = DOMAIN requests
         /\ requests'[r].to = requests[r].to /\ requests'[r].via = requests[r].via
         /\ requests'[r].outcome = "value"
         /\ \A q \in DOMAIN requests : q # r => requests'[q] = requests[q]
  <1> DEFINE y == [requests[r] EXCEPT !.outcome = "value"]
  <1>1. requests \in Seq(Request) /\ requests[r] \in Request
    BY RequestParts DEF TypeOK
  <1>2. y \in Request /\ y.to = requests[r].to /\ y.via = requests[r].via /\ y.outcome = "value"
    BY <1>1 DEF Request
  <1>3. requests' = [requests EXCEPT ![r] = y]
    BY DEF Settle
  <1> HIDE DEF y
  <1>4. /\ requests' \in Seq(Request) /\ Len(requests') = Len(requests)
        /\ DOMAIN requests' = DOMAIN requests /\ requests'[r] = y
        /\ \A q \in DOMAIN requests : q # r => requests'[q] = requests[q]
    BY <1>1, <1>2, <1>3
  <1> QED
    BY <1>2, <1>4

\* An answer is given for a request that was not relayed, or whose relay has
\* been answered.
LEMMA SettleFaithful ==
  ASSUME TypeOK, Letters, NEW r \in DOMAIN requests, requests' = Settle(r, "value"), pool' = pool,
         requests[r].via # None => Outcome(requests[r].via) = "value"
  PROVE  SentOK' /\ RelayFaithful'
  <1>1. /\ DOMAIN requests' = DOMAIN requests
        /\ requests'[r].to = requests[r].to /\ requests'[r].via = requests[r].via
        /\ requests'[r].outcome = "value"
        /\ \A q \in DOMAIN requests : q # r => requests'[q] = requests[q]
    BY SettleParts
  <1>2. \A q \in DOMAIN requests : /\ requests'[q].to = requests[q].to /\ requests'[q].via = requests[q].via
                                   /\ requests[q].outcome = "value" => requests'[q].outcome = "value"
    BY <1>1
  <1>3. SentOK'
    BY <1>1, <1>2 DEF Letters, SentOK
  <1>4. \A q \in DOMAIN requests : requests'[q].outcome = "value" /\ requests[q].via # None =>
             requests[q].via \in DOMAIN requests /\ requests[requests[q].via].outcome = "value"
    BY <1>1 DEF Letters, RelayFaithful, SentOK, Outcome
  <1> QED
    BY <1>1, <1>2, <1>3, <1>4 DEF RelayFaithful, Outcome

\* await_child() returns and the router answers its caller.
LEMMA AnswerCallerInv ==
  ASSUME IInv, NEW c \in Clients, AnswerCaller(c)
  PROVE  IInv'
  <1> DEFINE r == client[c].inline
  <1>1. /\ client \in [Clients -> Call] /\ r # None /\ r \in DOMAIN requests
        /\ requests' = Settle(r, "value") /\ client' = [client EXCEPT ![c].inline = None]
        /\ UNCHANGED <<routerVars, actorVars, queue, worker, lifeVars>>
        /\ Outcome(requests[r].via) = "value"
    BY CallParts DEF IInv, RelayingOK, AnswerCaller, Answered
  <1>2. None \in 0 .. MaxRequests
    BY SystemAssumption DEF None, SystemAssumption
  <1>3. /\ client' \in [Clients -> Call] /\ client'[c].inline = None
        /\ \A d \in Clients : client'[d].todo = client[d].todo /\ client'[d].owes = client[d].owes
        /\ \A d \in Clients : d # c => client'[d].inline = client[d].inline
    BY <1>1, <1>2 DEF Call
  <1> HIDE DEF r
  <1>4. requests' \in Seq(Request) /\ Len(requests') = Len(requests) /\ DOMAIN requests' = DOMAIN requests
        /\ requests'[r].to = requests[r].to /\ requests'[r].via = requests[r].via
        /\ requests'[r].outcome = "value"
        /\ \A q \in DOMAIN requests : q # r => requests'[q] = requests[q]
    BY <1>1, SettleParts DEF IInv
  <1>5. SentOK' /\ RelayFaithful'
    BY <1>1, SettleFaithful DEF IInv, Letters, routerVars
  <1>6. TypeOK'
    BY <1>1, <1>3, <1>4 DEF IInv, TypeOK, Call, routerVars, actorVars, lifeVars
  <1>7. NodesOK'
    BY <1>1, <1>3, NodesSame DEF IInv, actorVars, lifeVars
  <1>8. PhasesOK'
    BY <1>1, <1>3 DEF IInv, PhasesOK, routerVars, actorVars, lifeVars, AnswerCaller
  <1>9. \A q \in DOMAIN requests : requests[q].to \in Actors => q # r /\ requests'[q] = requests[q]
    BY <1>1, <1>4 DEF IInv, RelayingOK, Actors, None, r
  <1>10. MailOK' /\ SuspendedOK'
    <2>1. \A a \in Actors : To(a).to = a
      BY DEF To
    <2>2. ASSUME NEW a \in Actors, NEW q \in DOMAIN requests, requests[q] = To(a)
          PROVE  requests'[q] = To(a)
      BY <1>9, <2>1, <2>2
    <2>3. MailOK'
      BY <1>1, <1>4, <2>2 DEF IInv, MailOK, actorVars
    <2>4. ASSUME NEW a \in Actors, behavior[a] # None
          PROVE  requests'[behavior[a]] = [to |-> a, via |-> awaited[a], outcome |-> "none"]
      BY <1>9, <2>4 DEF IInv, SuspendedOK
    <2> QED
      BY <1>1, <1>4, <2>3, <2>4 DEF IInv, SuspendedOK, actorVars
  <1>11. RelayingOK'
    <2> SUFFICES ASSUME NEW d \in Clients, client'[d].inline # None
                 PROVE  /\ client'[d].inline \in DOMAIN requests'
                        /\ requests'[client'[d].inline].to = None
                        /\ requests'[client'[d].inline].via \in DOMAIN requests'
      BY Zenon DEF RelayingOK
    <2> DEFINE q == client[d].inline
    <2>1. client'[d].inline = q /\ q # None
      BY <1>3
    <2>2. q \in DOMAIN requests /\ requests[q].to = None /\ requests[q].via \in DOMAIN requests
      BY <2>1 DEF IInv, RelayingOK
    <2>3. requests'[q].to = requests[q].to /\ requests'[q].via = requests[q].via
      BY <1>4, <2>2
    <2> QED
      BY <1>4, <2>1, <2>2, <2>3
  <1>12. SendingOK'
    BY <1>1, <1>3, <1>4, <1>9 DEF IInv, SendingOK, actorVars
  <1>13. PendingOK'
    <2> SUFFICES ASSUME NEW q \in DOMAIN requests, requests'[q].outcome = "none" PROVE Held(q)'
      BY <1>4 DEF PendingOK, Outcome
    <2>1. q # r /\ requests[q].outcome = "none"
      BY <1>4
    <2>2. Held(q)
      BY <2>1 DEF IInv, PendingOK, Outcome
    <2> QED
      BY <1>1, <1>3, <2>1, <2>2 DEF Held, actorVars, r
  <1> QED
    BY <1>5, <1>6, <1>7, <1>8, <1>10, <1>11, <1>12, <1>13 DEF IInv

\* take_ready() on a future the client keeps.
LEMMA TakeReadyInv ==
  ASSUME IInv, NEW c \in Clients, TakeReady(c)
  PROVE  IInv'
  <1>1. /\ client \in [Clients -> Call] /\ client[c].futures \in Seq(Requests) /\ client[c].futures # <<>>
        /\ client' = [client EXCEPT ![c].futures = Tail(@)]
        /\ UNCHANGED <<routerVars, requests, actorVars, queue, worker, lifeVars>>
    BY CallParts DEF IInv, TakeReady
  <1>2. Tail(client[c].futures) \in Seq(Requests)
    BY <1>1
  <1>3. /\ client' \in [Clients -> Call]
        /\ \A d \in Clients : /\ client'[d].todo = client[d].todo /\ client'[d].owes = client[d].owes
                              /\ client'[d].inline = client[d].inline
    BY <1>1, <1>2 DEF Call
  <1>4. Letters'
    <2>1. /\ UNCHANGED <<requests, inbox, behavior, awaited>> /\ pool' \in Nat /\ pool' >= pool
      BY <1>1, SystemAssumption DEF IInv, TypeOK, routerVars, actorVars, SystemAssumption
    <2> QED
      BY <1>3, <2>1, LettersSame DEF IInv, Letters
  <1>5. NodesOK'
    BY <1>1, <1>3, NodesSame DEF IInv, actorVars, lifeVars
  <1>6. TypeOK'
    BY <1>1, <1>3 DEF IInv, TypeOK, Call, routerVars, actorVars, lifeVars
  <1>7. PhasesOK'
    BY <1>1, <1>3 DEF IInv, PhasesOK, routerVars, actorVars, lifeVars
  <1> QED
    BY <1>4, <1>5, <1>6, <1>7 DEF IInv, Letters

\* std::abort(): everything stays as it is.
LEMMA AbortInv ==
  ASSUME IInv, NEW c \in Clients, Abort(c)
  PROVE  IInv'
  <1>1. /\ phase = "up" /\ phase' = "aborted"
        /\ UNCHANGED <<routerVars, requests, client, actorVars, queue, worker, alive, destroyed>>
    BY DEF Abort
  <1>2. Letters'
    <2>1. /\ UNCHANGED <<requests, client, inbox, behavior, awaited>> /\ pool' \in Nat /\ pool' >= pool
      BY <1>1, SystemAssumption DEF IInv, TypeOK, routerVars, actorVars, SystemAssumption
    <2> QED
      BY <2>1, LettersSame DEF IInv, Letters
  <1>3. NodesOK'
    BY <1>1, NodesSame DEF IInv, actorVars
  <1>4. TypeOK'
    BY <1>1 DEF IInv, TypeOK, routerVars, actorVars
  <1>5. PhasesOK'
    BY <1>1, SystemAssumption DEF IInv, TypeOK, PhasesOK, routerVars, actorVars, SystemAssumption
  <1> QED
    BY <1>2, <1>3, <1>4, <1>5 DEF IInv, Letters

-----------------------------------------------------------------------------
(* Workers.                                                                *)

\* The record of a worker, by its members.
LEMMA WorkParts ==
  ASSUME TypeOK
  PROVE  /\ worker \in [Workers -> Work]
         /\ \A w \in Workers : /\ worker[w].runs \in 0 .. PoolSize /\ worker[w].owes \in 0 .. PoolSize
                               /\ worker[w].handled \in 0 .. MaxThroughput
  <1>1. worker \in [Workers -> Work]
    BY DEF TypeOK, Work
  <1>2. \A x \in Work : /\ x.runs \in 0 .. PoolSize /\ x.owes \in 0 .. PoolSize
                        /\ x.handled \in 0 .. MaxThroughput
    BY DEF Work
  <1> QED
    BY <1>1, <1>2

\* A worker takes an actor's node, or puts it down.
LEMMA RunningMoves ==
  ASSUME OnePlace, NEW w \in Workers, NEW x, worker'[w].runs = x,
         \A v \in Workers : v # w => worker'[v].runs = worker[v].runs,
         x # None => ~Running(x)
  PROVE  /\ \A a \in Actors : Running(a)' <=> (a = x \/ (Running(a) /\ worker[w].runs # a))
         /\ \A v, u \in Workers : worker'[v].runs = worker'[u].runs /\ worker'[u].runs # None => v = u
  <1>1. \A a \in Actors : Running(a) /\ worker[w].runs # a <=>
                            \E v \in Workers : v # w /\ worker[v].runs = a
    BY DEF OnePlace, Running, Actors, None
  <1>2. \A a \in Actors : Running(a)' <=> a = x \/ \E v \in Workers : v # w /\ worker[v].runs = a
    BY DEF Running
  <1>3. \A v, u \in Workers : worker'[v].runs = worker'[u].runs /\ worker'[u].runs # None => v = u
    BY DEF OnePlace, Running
  <1> QED
    BY <1>1, <1>2, <1>3

\* A worker takes the node of an actor its handler asked, or gives it away.
LEMMA AskedMoves ==
  ASSUME OnePlace, NEW w \in Workers, NEW x, worker'[w].owes = x,
         \A v \in Workers : v # w => worker'[v].owes = worker[v].owes,
         x # None => ~Asked(x)
  PROVE  /\ \A a \in Actors : Asked(a)' <=> (a = x \/ (Asked(a) /\ worker[w].owes # a))
         /\ \A v, u \in Workers : worker'[v].owes = worker'[u].owes /\ worker'[u].owes # None => v = u
  <1>1. \A a \in Actors : Asked(a) /\ worker[w].owes # a <=>
                            \E v \in Workers : v # w /\ worker[v].owes = a
    BY DEF OnePlace, Asked, Actors, None
  <1>2. \A a \in Actors : Asked(a)' <=> a = x \/ \E v \in Workers : v # w /\ worker[v].owes = a
    BY DEF Asked
  <1>3. \A v, u \in Workers : worker'[v].owes = worker'[u].owes /\ worker'[u].owes # None => v = u
    BY DEF OnePlace, Asked
  <1> QED
    BY <1>1, <1>2, <1>3

\* dequeue(): the first node is taken off the queue.
LEMMA QueueShrinks ==
  ASSUME TypeOK, OnePlace, queue # <<>>, queue' = Tail(queue)
  PROVE  /\ queue' \in Seq(1 .. Helper) /\ Head(queue) \in 1 .. Helper /\ Queued(Head(queue))
         /\ \A a \in Actors : Queued(a)' <=> Queued(a) /\ a # Head(queue)
         /\ \A i, j \in DOMAIN queue' : queue'[i] = queue'[j] /\ queue'[i] \in Actors => i = j
  <1>1. queue \in Seq(1 .. Helper)
    BY DEF TypeOK
  <1>2. /\ queue' \in Seq(1 .. Helper) /\ 1 \in DOMAIN queue /\ Head(queue) = queue[1]
        /\ Head(queue) \in 1 .. Helper
        /\ DOMAIN queue \subseteq Nat /\ DOMAIN queue' \subseteq Nat
        /\ \A i \in DOMAIN queue' : i + 1 \in DOMAIN queue /\ queue'[i] = queue[i + 1] /\ i + 1 # 1
        /\ \A i \in DOMAIN queue : i # 1 => i - 1 \in DOMAIN queue' /\ queue'[i - 1] = queue[i]
    BY <1>1, TailParts
  <1>3. \A i, j \in DOMAIN queue' : queue'[i] = queue'[j] /\ queue'[i] \in Actors => i = j
    <2> SUFFICES ASSUME NEW i \in DOMAIN queue', NEW j \in DOMAIN queue',
                        queue'[i] = queue'[j], queue'[i] \in Actors
                 PROVE  i = j
      OBVIOUS
    <2>1. i + 1 = j + 1
      BY <1>2 DEF OnePlace
    <2> QED
      BY <1>2, <2>1
  <1>4. ASSUME NEW a \in Actors PROVE Queued(a)' <=> Queued(a) /\ a # Head(queue)
    <2>1. ASSUME NEW i \in DOMAIN queue', queue'[i] = a PROVE Queued(a) /\ a # Head(queue)
      <3>1. queue[i + 1] = a /\ i + 1 \in DOMAIN queue /\ i + 1 # 1
        BY <1>2, <2>1
      <3> QED
        BY <1>2, <3>1 DEF Queued, OnePlace
    <2>2. ASSUME NEW i \in DOMAIN queue, queue[i] = a, a # Head(queue) PROVE Queued(a)'
      BY <1>2, <2>2 DEF Queued
    <2> QED
      BY <2>1, <2>2 DEF Queued
  <1> QED
    BY <1>2, <1>3, <1>4 DEF Queued

\* dequeue(): a worker has the node, or leaves at a helper.
LEMMA DequeueInv ==
  ASSUME IInv, NEW w \in Workers, Dequeue(w)
  PROVE  IInv'
  <1> DEFINE b == Head(queue)
  <1>1. /\ queue # <<>> /\ queue' = Tail(queue) /\ w \in alive /\ worker[w].runs = None /\ phase # "aborted"
        /\ UNCHANGED <<routerVars, requests, client, actorVars, phase, destroyed>>
    BY DEF Dequeue
  <1>2. /\ queue' \in Seq(1 .. Helper) /\ b \in 1 .. Helper /\ Queued(b)
        /\ \A a \in Actors : Queued(a)' <=> Queued(a) /\ a # b
        /\ \A i, j \in DOMAIN queue' : queue'[i] = queue'[j] /\ queue'[i] \in Actors => i = j
    BY <1>1, QueueShrinks DEF IInv, NodesOK
  <1>3. worker \in [Workers -> Work] /\ worker[w].owes = None
    BY <1>1, WorkParts DEF IInv, PhasesOK
  <1>4. IF b = Helper THEN alive' = alive \ {w} /\ worker' = worker
                      ELSE worker' = [worker EXCEPT ![w].runs = b] /\ alive' = alive
    BY DEF Dequeue
  <1> HIDE DEF b
  <1>5. b # Helper => b \in Actors /\ b \in 0 .. PoolSize /\ b # None
    BY <1>2, SystemAssumption DEF Helper, Actors, SystemAssumption, None
  <1>6. Letters'
    <2>1. /\ UNCHANGED <<requests, client, inbox, behavior, awaited>> /\ pool' \in Nat /\ pool' >= pool
      BY <1>1, SystemAssumption DEF IInv, TypeOK, routerVars, actorVars, SystemAssumption
    <2> QED
      BY <2>1, LettersSame DEF IInv, Letters
  <1>7. \A a : Owed(a)' <=> Owed(a)
    BY <1>1 DEF Owed
  <1>8. CASE b = Helper
    <2>1. worker' = worker /\ alive' = alive \ {w}
      BY <1>4, <1>8
    <2>2. TypeOK'
      BY <1>1, <1>2, <2>1 DEF IInv, TypeOK, routerVars, actorVars
    <2>3. PhasesOK'
      BY <1>1, <2>1 DEF IInv, PhasesOK, routerVars, actorVars
    <2>4. b \notin Actors
      BY <1>8, SystemAssumption DEF Helper, Actors, SystemAssumption
    <2>5. \A a \in Actors : Queued(a)' <=> Queued(a)
      BY <1>2, <2>4
    <2>6. \A a : (Running(a)' <=> Running(a)) /\ (Asked(a)' <=> Asked(a))
      BY <2>1 DEF Running, Asked
    <2>7. OnePlace'
      BY <1>1, <1>2, <1>7, <2>1, <2>5, <2>6 DEF IInv, NodesOK, OnePlace
    <2>8. NodesOK'
      BY <1>1, <1>7, <2>5, <2>6, <2>7 DEF IInv, NodesOK, HasNode, actorVars
    <2> QED
      BY <1>6, <2>2, <2>3, <2>8 DEF IInv, Letters
  <1>9. CASE b # Helper
    <2>1. worker' = [worker EXCEPT ![w].runs = b] /\ alive' = alive
      BY <1>4, <1>9
    <2>2. /\ worker' \in [Workers -> Work] /\ worker'[w].runs = b
          /\ \A v \in Workers : worker'[v].owes = worker[v].owes
          /\ \A v \in Workers : v # w => worker'[v].runs = worker[v].runs
      BY <1>3, <1>5, <1>9, <2>1 DEF Work
    <2>3. TypeOK'
      BY <1>1, <1>2, <2>1, <2>2 DEF IInv, TypeOK, routerVars, actorVars, Work
    <2>4. PhasesOK'
      BY <1>1, <1>3, <2>1, <2>2 DEF IInv, PhasesOK, routerVars, actorVars
    <2>5. ~Running(b) /\ ~Asked(b) /\ ~Owed(b)
      BY <1>2, <1>5, <1>9 DEF IInv, NodesOK, OnePlace
    <2>6. /\ \A a \in Actors : Running(a)' <=> (a = b \/ Running(a))
          /\ \A v, u \in Workers : worker'[v].runs = worker'[u].runs /\ worker'[u].runs # None => v = u
      <3>1. \A a \in Actors : worker[w].runs # a
        BY <1>1 DEF None, Actors
      <3> QED
        BY <2>2, <2>5, <3>1, RunningMoves DEF IInv, NodesOK
    <2>7. \A a : Asked(a)' <=> Asked(a)
      BY <2>2 DEF Asked
    <2>8. OnePlace'
      <3>1. \A a \in Actors : /\ Queued(a)' => ~Running(a)' /\ ~Asked(a)' /\ ~Owed(a)'
                              /\ Running(a)' => ~Asked(a)' /\ ~Owed(a)'
                              /\ Asked(a)' => ~Owed(a)'
        BY <1>2, <1>7, <2>5, <2>6, <2>7 DEF IInv, NodesOK, OnePlace
      <3> QED
        BY <1>1, <1>2, <2>2, <2>6, <3>1 DEF IInv, NodesOK, OnePlace
    <2>9. \A a \in Actors : HasNode(a)' <=> HasNode(a)
      BY <1>2, <1>7, <2>6, <2>7 DEF HasNode
    <2>10. NodesOK'
      BY <1>1, <2>8, <2>9 DEF IInv, NodesOK, actorVars
    <2> QED
      BY <1>6, <2>3, <2>4, <2>10 DEF IInv, Letters
  <1> QED
    BY <1>8, <1>9

\* What a worker in resume_impl() has.
LEMMA RunsParts ==
  ASSUME IInv, NEW w \in Workers, NEW a \in Actors, Runs(w, a)
  PROVE  /\ worker \in [Workers -> Work] /\ worker[w].runs = a /\ worker[w].owes = None
         /\ w \in alive /\ phase # "aborted" /\ phase # "stopped" /\ destroyed = 0
         /\ Running(a) /\ ~Queued(a) /\ ~Asked(a) /\ ~Owed(a) /\ scheduled[a]
  <1>1. /\ worker \in [Workers -> Work] /\ worker[w].runs = a /\ worker[w].owes = None
        /\ phase # "aborted"
    BY WorkParts DEF IInv, Runs
  <1>2. a # None
    BY DEF Actors, None
  <1>3. w \in alive /\ phase # "stopped"
    BY <1>1, <1>2 DEF IInv, PhasesOK
  <1>4. Running(a)
    BY <1>1 DEF Running
  <1>5. destroyed = 0
    BY <1>3, SystemAssumption DEF IInv, TypeOK, PhasesOK, SystemAssumption
  <1> QED
    BY <1>1, <1>3, <1>4, <1>5 DEF IInv, NodesOK, OnePlace, HasNode

\* The end of resume(): the node goes back to the queue, or the actor parks.
LEMMA EndResumeInv ==
  ASSUME IInv, NEW w \in Workers, EndResume(w)
  PROVE  IInv'
  <1>1. PICK b \in Actors :
          /\ Runs(w, b)
          /\ IF HasMore(b) THEN queue' = Requeued(b) /\ UNCHANGED scheduled
                           ELSE scheduled' = [scheduled EXCEPT ![b] = FALSE] /\ UNCHANGED queue
          /\ worker' = [worker EXCEPT ![w] = Idle]
          /\ UNCHANGED <<routerVars, requests, client, inbox, behavior, awaited, lifeVars>>
    BY DEF EndResume
  <1>2. /\ worker \in [Workers -> Work] /\ worker[w].runs = b /\ worker[w].owes = None
        /\ w \in alive /\ phase # "stopped"
        /\ Running(b) /\ ~Queued(b) /\ ~Asked(b) /\ ~Owed(b) /\ scheduled[b]
    BY <1>1, RunsParts
  <1>3. Idle \in Work /\ Idle.runs = None /\ Idle.owes = None
    BY SystemAssumption DEF Idle, Work, None, SystemAssumption
  <1>4. /\ worker' \in [Workers -> Work] /\ worker'[w].runs = None
        /\ \A v \in Workers : worker'[v].owes = worker[v].owes
        /\ \A v \in Workers : v # w => worker'[v] = worker[v]
    BY <1>1, <1>2, <1>3
  <1>5. Letters'
    <2>1. /\ UNCHANGED <<requests, client, inbox, behavior, awaited>> /\ pool' \in Nat /\ pool' >= pool
      BY <1>1, SystemAssumption DEF IInv, TypeOK, routerVars, SystemAssumption
    <2> QED
      BY <2>1, LettersSame DEF IInv, Letters
  <1>6. PhasesOK'
    BY <1>1, <1>2, <1>4 DEF IInv, PhasesOK, routerVars, lifeVars
  <1>7. /\ \A a \in Actors : Running(a)' <=> (Running(a) /\ a # b)
        /\ \A v, u \in Workers : worker'[v].runs = worker'[u].runs /\ worker'[u].runs # None => v = u
    <2>1. /\ \A a \in Actors : Running(a)' <=> (a = None \/ (Running(a) /\ worker[w].runs # a))
          /\ \A v, u \in Workers : worker'[v].runs = worker'[u].runs /\ worker'[u].runs # None => v = u
      BY <1>4, RunningMoves DEF IInv, NodesOK
    <2> QED
      BY <1>2, <2>1 DEF Actors, None
  <1>8. \A a : (Asked(a)' <=> Asked(a)) /\ (Owed(a)' <=> Owed(a))
    BY <1>1, <1>4 DEF Asked, Owed
  <1>9. CASE HasMore(b)
    <2>1. queue' = Append(queue, b) /\ scheduled' = scheduled
      BY <1>1, <1>9 DEF Requeued
    <2>2. b \in 1 .. Helper
      BY SystemAssumption DEF Actors, Helper, SystemAssumption
    <2>3. /\ queue' \in Seq(1 .. Helper)
          /\ \A a : Queued(a)' <=> Queued(a) \/ a = b
          /\ \A i, j \in DOMAIN queue' : queue'[i] = queue'[j] /\ queue'[i] \in Actors => i = j
      BY <1>2, <2>1, <2>2, QueueGrows DEF IInv, NodesOK
    <2>4. TypeOK'
      BY <1>1, <1>4, <2>1, <2>3 DEF IInv, TypeOK, Work, routerVars, lifeVars
    <2>5. OnePlace'
      <3>1. \A a \in Actors : /\ Queued(a)' => ~Running(a)' /\ ~Asked(a)' /\ ~Owed(a)'
                              /\ Running(a)' => ~Asked(a)' /\ ~Owed(a)'
                              /\ Asked(a)' => ~Owed(a)'
        BY <1>2, <1>7, <1>8, <2>3 DEF IInv, NodesOK, OnePlace
      <3> QED
        BY <1>1, <1>4, <1>7, <2>3, <3>1 DEF IInv, NodesOK, OnePlace
    <2>6. \A a \in Actors : HasNode(a)' <=> HasNode(a)
      BY <1>2, <1>7, <1>8, <2>3 DEF HasNode
    <2>7. NodesOK'
      BY <1>1, <2>1, <2>5, <2>6 DEF IInv, NodesOK, lifeVars
    <2> QED
      BY <1>5, <1>6, <2>4, <2>7 DEF IInv, Letters
  <1>10. CASE ~HasMore(b)
    <2>1. queue' = queue /\ scheduled' = [scheduled EXCEPT ![b] = FALSE]
      BY <1>1, <1>10
    <2>2. /\ scheduled' \in [Actors -> BOOLEAN] /\ ~scheduled'[b]
          /\ \A a \in Actors : a # b => scheduled'[a] = scheduled[a]
      BY <2>1, Zenon DEF IInv, TypeOK
    <2>3. TypeOK'
      BY <1>1, <1>4, <2>1, <2>2 DEF IInv, TypeOK, Work, routerVars, lifeVars
    <2>4. \A a : Queued(a)' <=> Queued(a)
      BY <2>1 DEF Queued
    <2>5. OnePlace'
      <3>1. \A a \in Actors : /\ Queued(a)' => ~Running(a)' /\ ~Asked(a)' /\ ~Owed(a)'
                              /\ Running(a)' => ~Asked(a)' /\ ~Owed(a)'
                              /\ Asked(a)' => ~Owed(a)'
        BY <1>7, <1>8, <2>4 DEF IInv, NodesOK, OnePlace
      <3> QED
        BY <1>1, <1>4, <1>7, <2>1, <3>1 DEF IInv, NodesOK, OnePlace
    <2>6. \A a \in Actors : HasNode(a)' <=> HasNode(a) /\ a # b
      BY <1>2, <1>7, <1>8, <2>4 DEF HasNode
    <2>7. inbox[b] = <<>> /\ behavior[b] = None
      BY <1>10 DEF HasMore
    <2>8. NodesOK'
      <3>1. phase' = phase /\ inbox' = inbox /\ behavior' = behavior
        BY <1>1 DEF lifeVars
      <3>2. \A a \in Actors : a # b => (scheduled'[a] /\ phase' # "stopped" <=> HasNode(a)')
        BY <2>2, <2>6, <3>1 DEF IInv, NodesOK
      <3>3. \A a \in Actors : scheduled'[a] /\ phase' # "stopped" <=> HasNode(a)'
        BY <2>2, <2>6, <3>2
      <3> QED
        BY <2>2, <2>5, <2>7, <3>1, <3>3 DEF IInv, NodesOK
    <2> QED
      BY <1>5, <1>6, <2>3, <2>8 DEF IInv, Letters
  <1> QED
    BY <1>9, <1>10

\* The handler schedules the actor it asked.
LEMMA ScheduleAskedInv ==
  ASSUME IInv, NEW w \in Workers, ScheduleAsked(w)
  PROVE  IInv'
  <1> DEFINE b == worker[w].owes
  <1>1. /\ worker \in [Workers -> Work] /\ b \in 0 .. PoolSize /\ b # None
        /\ worker' = [worker EXCEPT ![w].owes = None] /\ queue' = Append(queue, b)
        /\ UNCHANGED <<routerVars, requests, client, actorVars, lifeVars>>
    BY WorkParts DEF IInv, ScheduleAsked
  <1>2. b \in Actors /\ b \in 1 .. Helper
    BY <1>1, SystemAssumption DEF Actors, None, Helper, SystemAssumption
  <1>3. None \in 0 .. PoolSize
    BY SystemAssumption DEF None, SystemAssumption
  <1>4. /\ worker' \in [Workers -> Work] /\ worker'[w].owes = None
        /\ \A v \in Workers : worker'[v].runs = worker[v].runs
        /\ \A v \in Workers : v # w => worker'[v].owes = worker[v].owes
    BY <1>1, <1>3 DEF Work
  <1>5. Asked(b)
    BY DEF Asked
  <1> HIDE DEF b
  <1>6. ~Queued(b) /\ ~Running(b) /\ ~Owed(b)
    BY <1>2, <1>5 DEF IInv, NodesOK, OnePlace
  <1>7. /\ queue' \in Seq(1 .. Helper)
        /\ \A a : Queued(a)' <=> Queued(a) \/ a = b
        /\ \A i, j \in DOMAIN queue' : queue'[i] = queue'[j] /\ queue'[i] \in Actors => i = j
    BY <1>1, <1>2, <1>6, QueueGrows DEF IInv, NodesOK
  <1>8. /\ \A a \in Actors : Asked(a)' <=> Asked(a) /\ a # b
        /\ \A v, u \in Workers : worker'[v].owes = worker'[u].owes /\ worker'[u].owes # None => v = u
    <2>1. /\ \A a \in Actors : Asked(a)' <=> (a = None \/ (Asked(a) /\ worker[w].owes # a))
          /\ \A v, u \in Workers : worker'[v].owes = worker'[u].owes /\ worker'[u].owes # None => v = u
      BY <1>4, AskedMoves DEF IInv, NodesOK
    <2> QED
      BY <2>1 DEF b, Actors, None
  <1>9. \A a : (Running(a)' <=> Running(a)) /\ (Owed(a)' <=> Owed(a))
    BY <1>1, <1>4 DEF Running, Owed
  <1>10. OnePlace'
    <2>1. \A a \in Actors : /\ Queued(a)' => ~Running(a)' /\ ~Asked(a)' /\ ~Owed(a)'
                            /\ Running(a)' => ~Asked(a)' /\ ~Owed(a)'
                            /\ Asked(a)' => ~Owed(a)'
      BY <1>5, <1>6, <1>7, <1>8, <1>9 DEF IInv, NodesOK, OnePlace
    <2> QED
      BY <1>1, <1>4, <1>7, <1>8, <2>1 DEF IInv, NodesOK, OnePlace
  <1>11. \A a \in Actors : HasNode(a)' <=> HasNode(a)
    BY <1>5, <1>7, <1>8, <1>9 DEF HasNode
  <1>12. NodesOK'
    BY <1>1, <1>10, <1>11 DEF IInv, NodesOK, actorVars, lifeVars
  <1>13. Letters'
    <2>1. /\ UNCHANGED <<requests, client, inbox, behavior, awaited>> /\ pool' \in Nat /\ pool' >= pool
      BY <1>1, SystemAssumption DEF IInv, TypeOK, routerVars, actorVars, SystemAssumption
    <2> QED
      BY <2>1, LettersSame DEF IInv, Letters
  <1>14. TypeOK'
    BY <1>1, <1>4, <1>7 DEF IInv, TypeOK, Work, routerVars, actorVars, lifeVars
  <1>15. PhasesOK'
    BY <1>1, <1>4 DEF IInv, PhasesOK, routerVars, actorVars, lifeVars
  <1> QED
    BY <1>12, <1>13, <1>14, <1>15 DEF IInv, Letters

\* Where a request is, by its members.
LEMMA LetterParts ==
  ASSUME Letters
  PROVE  /\ \A a \in Actors : \A i \in DOMAIN inbox[a] :
              /\ inbox[a][i] \in DOMAIN requests /\ requests[inbox[a][i]].to = a
              /\ requests[inbox[a][i]].via = None /\ requests[inbox[a][i]].outcome = "none"
         /\ \A a \in Actors : behavior[a] # None =>
              /\ behavior[a] \in DOMAIN requests /\ awaited[a] \in DOMAIN requests
              /\ requests[behavior[a]].to = a /\ requests[behavior[a]].via = awaited[a]
              /\ requests[behavior[a]].outcome = "none"
         /\ \A c \in Clients : \A i \in DOMAIN client[c].todo :
              /\ client[c].todo[i] \in DOMAIN requests /\ requests[client[c].todo[i]].to \in Actors
              /\ requests[client[c].todo[i]].via = None
              /\ \A a \in Actors : \A j \in DOMAIN inbox[a] : inbox[a][j] # client[c].todo[i]
  <1>1. \A a : To(a).to = a /\ To(a).via = None /\ To(a).outcome = "none"
    BY DEF To
  <1>2. ASSUME NEW a \in Actors, NEW i \in DOMAIN inbox[a]
        PROVE  /\ inbox[a][i] \in DOMAIN requests /\ requests[inbox[a][i]].to = a
               /\ requests[inbox[a][i]].via = None /\ requests[inbox[a][i]].outcome = "none"
    BY <1>1, <1>2 DEF Letters, MailOK
  <1>3. ASSUME NEW a \in Actors, behavior[a] # None
        PROVE  /\ behavior[a] \in DOMAIN requests /\ awaited[a] \in DOMAIN requests
               /\ requests[behavior[a]].to = a /\ requests[behavior[a]].via = awaited[a]
               /\ requests[behavior[a]].outcome = "none"
    <2> DEFINE y == [to |-> a, via |-> awaited[a], outcome |-> "none"]
    <2>1. y.to = a /\ y.via = awaited[a] /\ y.outcome = "none"
      OBVIOUS
    <2> HIDE DEF y
    <2>2. /\ behavior[a] \in DOMAIN requests /\ awaited[a] \in DOMAIN requests
          /\ requests[behavior[a]] = y
      BY <1>3, Zenon DEF Letters, SuspendedOK, y
    <2> QED
      BY <2>1, <2>2
  <1>4. ASSUME NEW c \in Clients, NEW i \in DOMAIN client[c].todo
        PROVE  /\ client[c].todo[i] \in DOMAIN requests /\ requests[client[c].todo[i]].to \in Actors
               /\ requests[client[c].todo[i]].via = None
               /\ \A a \in Actors : \A j \in DOMAIN inbox[a] : inbox[a][j] # client[c].todo[i]
    BY <1>1, <1>4 DEF Letters, SendingOK
  <1> QED
    BY <1>2, <1>3, <1>4

\* An actor answers a request of its own, which leaves its hands.
LEMMA AnswerLetters ==
  ASSUME TypeOK, Letters, NEW b \in Actors, NEW r \in DOMAIN requests, requests[r].to = b,
         requests[r].via # None => Outcome(requests[r].via) = "value",
         requests' = Settle(r, "value"), UNCHANGED <<pool, client>>,
         \A c \in Clients : \A i \in DOMAIN client[c].todo : client[c].todo[i] # r,
         \A a \in Actors : \A i \in DOMAIN inbox'[a] : inbox'[a][i] # r
            /\ \E k \in DOMAIN inbox[a] : inbox[a][k] = inbox'[a][i],
         \A a \in Actors : \A i, j \in DOMAIN inbox'[a] : inbox'[a][i] = inbox'[a][j] => i = j,
         \A a \in Actors : \A k \in DOMAIN inbox[a] : inbox[a][k] # r =>
            \E i \in DOMAIN inbox'[a] : inbox'[a][i] = inbox[a][k],
         \A a \in Actors : behavior'[a] # None => /\ behavior'[a] = behavior[a] /\ behavior[a] # r
                                                  /\ awaited'[a] = awaited[a],
         \A a \in Actors : behavior[a] \in DOMAIN requests /\ behavior[a] # r => behavior'[a] = behavior[a]
  PROVE  Letters'
  <1>1. /\ DOMAIN requests' = DOMAIN requests
        /\ requests'[r].to = requests[r].to /\ requests'[r].via = requests[r].via
        /\ requests'[r].outcome = "value"
        /\ \A q \in DOMAIN requests : q # r => requests'[q] = requests[q]
    BY SettleParts
  <1>2. SentOK' /\ RelayFaithful'
    BY SettleFaithful
  <1>3. \A c \in Clients : client[c].inline # r \/ client[c].inline = None
    BY DEF Letters, RelayingOK, Actors, None
  <1>4. MailOK'
    <2> SUFFICES ASSUME NEW a \in Actors
                 PROVE  /\ \A i \in DOMAIN inbox'[a] :
                             inbox'[a][i] \in DOMAIN requests' /\ requests'[inbox'[a][i]] = To(a)
                        /\ \A i, j \in DOMAIN inbox'[a] : inbox'[a][i] = inbox'[a][j] => i = j
      BY DEF MailOK
    <2>1. ASSUME NEW i \in DOMAIN inbox'[a]
          PROVE  inbox'[a][i] \in DOMAIN requests' /\ requests'[inbox'[a][i]] = To(a)
      <3>1. PICK k \in DOMAIN inbox[a] : inbox[a][k] = inbox'[a][i]
        BY <2>1
      <3>2. inbox[a][k] \in DOMAIN requests /\ requests[inbox[a][k]] = To(a) /\ inbox[a][k] # r
        BY <2>1, <3>1 DEF Letters, MailOK
      <3> QED
        BY <1>1, <3>1, <3>2
    <2> QED
      BY <2>1
  <1>5. SuspendedOK'
    BY <1>1 DEF Letters, SuspendedOK
  <1>6. RelayingOK'
    BY <1>1, <1>3 DEF Letters, RelayingOK
  <1>7. SendingOK'
    <2>1. ASSUME NEW c \in Clients, NEW i \in DOMAIN client[c].todo
          PROVE  /\ client[c].todo[i] \in DOMAIN requests' /\ requests'[client[c].todo[i]].to \in Actors
                 /\ requests'[client[c].todo[i]] = To(requests'[client[c].todo[i]].to)
                 /\ \A a \in Actors : \A j \in DOMAIN inbox'[a] : inbox'[a][j] # client[c].todo[i]
      <3> DEFINE q == client[c].todo[i]
      <3>1. /\ q \in DOMAIN requests /\ requests[q].to \in Actors /\ requests[q] = To(requests[q].to)
            /\ \A a \in Actors : \A j \in DOMAIN inbox[a] : inbox[a][j] # q
            /\ q # r
        BY <2>1 DEF Letters, SendingOK
      <3> HIDE DEF q
      <3>2. requests'[q] = requests[q]
        BY <1>1, <3>1
      <3>3. \A a \in Actors : \A j \in DOMAIN inbox'[a] : inbox'[a][j] # q
        BY <3>1
      <3> QED
        BY <1>1, <3>1, <3>2, <3>3 DEF q
    <2>2. \A c, d \in Clients : \A i \in DOMAIN client[c].todo, j \in DOMAIN client[d].todo :
             client[c].todo[i] = client[d].todo[j] => c = d /\ i = j
      BY DEF Letters, SendingOK
    <2> QED
      BY <2>1, <2>2 DEF SendingOK
  <1>8. PendingOK'
    <2> SUFFICES ASSUME NEW q \in DOMAIN requests, requests'[q].outcome = "none" PROVE Held(q)'
      BY <1>1 DEF PendingOK, Outcome
    <2>1. q # r /\ requests[q].outcome = "none"
      BY <1>1
    <2>2. Held(q)
      BY <2>1 DEF Letters, PendingOK, Outcome
    <2>3. CASE \E c \in Clients : \/ \E i \in DOMAIN client[c].todo : client[c].todo[i] = q
                                  \/ client[c].inline = q
      BY <2>3 DEF Held
    <2>4. CASE \E a \in Actors : \E i \in DOMAIN inbox[a] : inbox[a][i] = q
      BY <2>1, <2>4 DEF Held
    <2>5. CASE \E a \in Actors : behavior[a] = q
      BY <2>1, <2>5 DEF Held
    <2> QED
      BY <2>2, <2>3, <2>4, <2>5 DEF Held
  <1> QED
    BY <1>2, <1>4, <1>5, <1>6, <1>7, <1>8 DEF Letters

\* The rest of the state, when a handler has answered.
LEMMA AnswerKeeps ==
  ASSUME IInv, NEW w \in Workers, NEW b \in Actors, Runs(w, b), Letters',
         UNCHANGED <<routerVars, client, scheduled, queue, lifeVars>>,
         requests' \in Seq(Request), Len(requests') <= MaxRequests,
         worker' \in [Workers -> Work],
         \A v \in Workers : worker'[v].owes = worker[v].owes /\ worker'[v].runs = worker[v].runs,
         inbox' \in [Actors -> Seq(Requests)], behavior' \in [Actors -> 0 .. MaxRequests],
         awaited' \in [Actors -> 0 .. MaxRequests],
         \A a \in Actors : inbox'[a] # <<>> \/ behavior'[a] # None => inbox[a] # <<>> \/ behavior[a] # None
  PROVE  IInv'
  <1>1. phase # "stopped" /\ destroyed = 0
    BY RunsParts
  <1>2. TypeOK'
    BY DEF IInv, TypeOK, routerVars, lifeVars, Work
  <1>3. NodesOK'
    BY NodesKept DEF IInv, lifeVars
  <1>4. PhasesOK'
    BY <1>1 DEF IInv, PhasesOK, routerVars, lifeVars, Actors
  <1> QED
    BY <1>2, <1>3, <1>4 DEF IInv, Letters

\* A handler that answers at once.
LEMMA HandleInv ==
  ASSUME IInv, NEW w \in Workers, Handle(w)
  PROVE  IInv'
  <1>1. PICK b \in Actors :
          /\ Runs(w, b) /\ behavior[b] = None
          /\ inbox[b] # <<>> /\ worker[w].handled < MaxThroughput
          /\ requests' = Settle(Head(inbox[b]), "value")
          /\ inbox' = [inbox EXCEPT ![b] = Tail(@)]
          /\ worker' = [worker EXCEPT ![w].handled = @ + 1]
          /\ UNCHANGED <<routerVars, client, scheduled, behavior, awaited, queue, lifeVars>>
    BY DEF Handle
  <1> DEFINE r == Head(inbox[b])
             t == Tail(inbox[b])
             s == inbox[b]
  <1>2. inbox \in [Actors -> Seq(Requests)] /\ s \in Seq(Requests) /\ s # <<>>
    BY <1>1 DEF IInv, TypeOK
  <1>3. /\ t \in Seq(Requests) /\ 1 \in DOMAIN s /\ r = s[1]
        /\ DOMAIN s \subseteq Nat /\ DOMAIN t \subseteq Nat
        /\ \A i \in DOMAIN t : i + 1 \in DOMAIN s /\ i + 1 # 1 /\ t[i] = s[i + 1]
        /\ \A i \in DOMAIN s : i # 1 => i - 1 \in DOMAIN t /\ t[i - 1] = s[i]
    BY <1>2, TailParts
  <1>4. /\ inbox' \in [Actors -> Seq(Requests)] /\ inbox'[b] = t
        /\ \A a \in Actors : a # b => inbox'[a] = inbox[a]
    BY <1>1, <1>2, <1>3
  <1>5. /\ r \in DOMAIN requests /\ requests[r] = To(b) /\ requests[r].to = b /\ requests[r].via = None
        /\ \A i, j \in DOMAIN s : s[i] = s[j] => i = j
    BY <1>3 DEF IInv, MailOK, To
  <1> HIDE DEF r, t
  <1>6. \A i \in DOMAIN t : t[i] # r
    BY <1>3, <1>5
  <1>7. \A i, j \in DOMAIN t : t[i] = t[j] => i = j
    <2> SUFFICES ASSUME NEW i \in DOMAIN t, NEW j \in DOMAIN t, t[i] = t[j] PROVE i = j
      OBVIOUS
    <2>1. i + 1 = j + 1 /\ i \in Nat /\ j \in Nat
      BY <1>3, <1>5
    <2> QED
      BY <2>1
  <1>8. \A k \in DOMAIN s : s[k] # r => \E i \in DOMAIN t : t[i] = s[k]
    BY <1>3
  <1>9. \A a \in Actors : a # b => \A i \in DOMAIN inbox[a] : inbox[a][i] # r
    <2>1. Letters
      BY DEF IInv, Letters
    <2> QED
      BY <1>5, <2>1, LetterParts
  <1>10. \A c \in Clients : \A i \in DOMAIN client[c].todo : client[c].todo[i] # r
    BY <1>3 DEF IInv, SendingOK
  <1>11. \A a \in Actors : behavior[a] # None => behavior[a] # r
    <2>1. Letters
      BY DEF IInv, Letters
    <2> QED
      BY <1>1, <1>5, <2>1, LetterParts
  <1>12. Letters'
    <2>1. TypeOK /\ Letters /\ requests' = Settle(r, "value") /\ UNCHANGED <<pool, client, behavior, awaited>>
      BY <1>1 DEF IInv, Letters, routerVars, r
    <2>2. \A a \in Actors : \A i \in DOMAIN inbox'[a] : inbox'[a][i] # r
            /\ \E k \in DOMAIN inbox[a] : inbox[a][k] = inbox'[a][i]
      BY <1>3, <1>4, <1>6, <1>9
    <2>3. \A a \in Actors : \A i, j \in DOMAIN inbox'[a] : inbox'[a][i] = inbox'[a][j] => i = j
      BY <1>4, <1>7 DEF IInv, MailOK
    <2>4. \A a \in Actors : \A k \in DOMAIN inbox[a] : inbox[a][k] # r =>
            \E i \in DOMAIN inbox'[a] : inbox'[a][i] = inbox[a][k]
      BY <1>4, <1>8
    <2> QED
      BY <1>5, <1>10, <1>11, <2>1, <2>2, <2>3, <2>4, AnswerLetters
  <1>13. /\ worker' \in [Workers -> Work]
         /\ \A v \in Workers : worker'[v].owes = worker[v].owes /\ worker'[v].runs = worker[v].runs
    <2>1. worker[w].handled + 1 \in 0 .. MaxThroughput /\ worker \in [Workers -> Work]
      BY <1>1, WorkParts, SystemAssumption DEF IInv, SystemAssumption
    <2> QED
      BY <1>1, <2>1 DEF Work
  <1>14. requests' \in Seq(Request) /\ Len(requests') <= MaxRequests
    BY <1>1, <1>5, SettleParts DEF IInv, TypeOK, r
  <1>15. \A a \in Actors : inbox'[a] # <<>> \/ behavior'[a] # None => inbox[a] # <<>> \/ behavior[a] # None
    BY <1>1, <1>4
  <1>16. behavior' \in [Actors -> 0 .. MaxRequests] /\ awaited' \in [Actors -> 0 .. MaxRequests]
    BY <1>1 DEF IInv, TypeOK
  <1> QED
    BY <1>1, <1>4, <1>12, <1>13, <1>14, <1>15, <1>16, AnswerKeeps

\* The drain runs a suspended behavior to its end.
LEMMA DrainBehaviorInv ==
  ASSUME IInv, NEW w \in Workers, DrainBehavior(w)
  PROVE  IInv'
  <1>1. PICK b \in Actors :
          /\ Runs(w, b) /\ behavior[b] # None /\ Answered(awaited[b])
          /\ requests' = Settle(behavior[b], "value")
          /\ behavior' = [behavior EXCEPT ![b] = None]
          /\ awaited' = [awaited EXCEPT ![b] = None]
          /\ UNCHANGED <<routerVars, client, inbox, scheduled, queue, worker, lifeVars>>
    BY DEF DrainBehavior
  <1> DEFINE r == behavior[b]
  <1>2. /\ r \in DOMAIN requests /\ awaited[b] \in DOMAIN requests
        /\ requests[r].to = b /\ requests[r].via = awaited[b] /\ awaited[b] # None
    <2>1. awaited[b] \in DOMAIN requests => awaited[b] # None
      BY RequestParts DEF IInv, Requests, None
    <2> QED
      BY <1>1, <2>1, LetterParts DEF IInv, Letters
  <1>3. /\ behavior' \in [Actors -> 0 .. MaxRequests] /\ awaited' \in [Actors -> 0 .. MaxRequests]
        /\ behavior'[b] = None
        /\ \A a \in Actors : a # b => behavior'[a] = behavior[a] /\ awaited'[a] = awaited[a]
    BY <1>1, SystemAssumption DEF IInv, TypeOK, None, SystemAssumption
  <1> HIDE DEF r
  <1>4. \A a \in Actors : \A i \in DOMAIN inbox[a] : inbox[a][i] # r
    BY <1>2, LetterParts DEF IInv, Letters
  <1>5. \A c \in Clients : \A i \in DOMAIN client[c].todo : client[c].todo[i] # r
    BY <1>2, LetterParts DEF IInv, Letters
  <1>6. \A a \in Actors : a # b /\ behavior[a] # None => behavior[a] # r
    BY <1>2, LetterParts DEF IInv, Letters
  <1>7. Letters'
    <2>1. TypeOK /\ Letters /\ requests' = Settle(r, "value") /\ UNCHANGED <<pool, client, inbox>>
      BY <1>1 DEF IInv, Letters, routerVars, r
    <2>2. \A a \in Actors : \A i, j \in DOMAIN inbox[a] : inbox[a][i] = inbox[a][j] => i = j
      BY DEF IInv, MailOK
    <2>3. Outcome(requests[r].via) = "value"
      BY <1>1, <1>2 DEF Answered
    <2>4. \A a \in Actors : behavior'[a] # None => /\ behavior'[a] = behavior[a] /\ behavior[a] # r
                                                  /\ awaited'[a] = awaited[a]
      BY <1>3, <1>6
    <2>5. \A a \in Actors : behavior[a] \in DOMAIN requests /\ behavior[a] # r => behavior'[a] = behavior[a]
      BY <1>3 DEF r
    <2> QED
      BY <1>2, <1>4, <1>5, <2>1, <2>2, <2>3, <2>4, <2>5, AnswerLetters
  <1>8. requests' \in Seq(Request) /\ Len(requests') <= MaxRequests
    BY <1>1, <1>2, SettleParts DEF IInv, TypeOK, r
  <1>9. worker' \in [Workers -> Work] /\ inbox' \in [Actors -> Seq(Requests)]
    BY <1>1, WorkParts DEF IInv, TypeOK
  <1>10. \A a \in Actors : inbox'[a] # <<>> \/ behavior'[a] # None => inbox[a] # <<>> \/ behavior[a] # None
    BY <1>1, <1>3
  <1> QED
    BY <1>1, <1>3, <1>7, <1>8, <1>9, <1>10, AnswerKeeps

\* A handler of a, for its request r, sends s to b.
Asks(a, b, r, s) ==
    /\ b <= pool /\ CanSend(1)
    /\ behavior[a] = None /\ inbox[a] # <<>>
    /\ r = Head(inbox[a]) /\ s = Len(requests) + 1
    /\ requests' = Append([requests EXCEPT ![r].via = s], To(b))
    /\ inbox' = [inbox EXCEPT ![a] = Tail(@), ![b] = Append(@, s)]
    /\ behavior' = [behavior EXCEPT ![a] = r]
    /\ awaited' = [awaited EXCEPT ![a] = s]
    /\ UNCHANGED <<pool, client>>

\* A handler asks another actor, or its own.
LEMMA AskLetters ==
  ASSUME IInv, NEW a \in Actors, NEW b \in Actors, NEW r, NEW s, Asks(a, b, r, s)
  PROVE  /\ Letters'
         /\ requests' \in Seq(Request) /\ Len(requests') <= MaxRequests
         /\ inbox' \in [Actors -> Seq(Requests)]
         /\ behavior' \in [Actors -> 0 .. MaxRequests] /\ awaited' \in [Actors -> 0 .. MaxRequests]
         /\ \A x \in Actors : x # a /\ x # b => inbox'[x] = inbox[x]
         /\ \A x \in Actors : x # a => behavior'[x] = behavior[x]
  <1>0. /\ inbox \in [Actors -> Seq(Requests)] /\ requests \in Seq(Request) /\ Len(requests) \in Nat
        /\ behavior \in [Actors -> 0 .. MaxRequests] /\ awaited \in [Actors -> 0 .. MaxRequests]
        /\ Letters /\ TypeOK /\ MaxRequests \in Nat /\ PoolSize \in Nat /\ Len(requests) + 1 <= MaxRequests
        /\ DOMAIN requests = 1 .. Len(requests)
        /\ b <= pool /\ pool' = pool /\ client' = client /\ behavior[a] = None
    <2>1. /\ inbox \in [Actors -> Seq(Requests)] /\ requests \in Seq(Request)
          /\ behavior \in [Actors -> 0 .. MaxRequests] /\ awaited \in [Actors -> 0 .. MaxRequests]
          /\ Letters /\ TypeOK
      BY DEF IInv, TypeOK, Letters
    <2>2. MaxRequests \in Nat /\ PoolSize \in Nat
      BY SystemAssumption DEF SystemAssumption
    <2>3. /\ Len(requests) + 1 <= MaxRequests /\ b <= pool /\ behavior[a] = None
          /\ UNCHANGED <<pool, client>>
      BY DEF Asks, CanSend
    <2> QED
      BY <2>1, <2>2, <2>3
  <1>1. s \in Requests /\ s \in 0 .. MaxRequests /\ s \notin DOMAIN requests /\ s # None
        /\ s = Len(requests) + 1
    BY <1>0 DEF Requests, None, Asks
  <1> DEFINE m == inbox[a]
             t == Tail(m)
  <1>2. m \in Seq(Requests) /\ m # <<>> /\ r = Head(m)
    BY <1>0 DEF Asks
  <1>3. /\ t \in Seq(Requests) /\ 1 \in DOMAIN m /\ r = m[1] /\ r \in Requests
        /\ DOMAIN m \subseteq Nat /\ DOMAIN t \subseteq Nat
        /\ \A i \in DOMAIN t : i + 1 \in DOMAIN m /\ i + 1 # 1 /\ t[i] = m[i + 1]
        /\ \A i \in DOMAIN m : i # 1 => i - 1 \in DOMAIN t /\ t[i - 1] = m[i]
    BY <1>2, TailParts
  <1>4. /\ r \in DOMAIN requests /\ requests[r] = To(a) /\ requests[r].to = a /\ requests[r].via = None
        /\ requests[r].outcome = "none" /\ \A i, j \in DOMAIN m : m[i] = m[j] => i = j
        /\ r \in 0 .. MaxRequests /\ r # None
    <2>1. /\ r \in DOMAIN requests /\ requests[r] = To(a) /\ \A i, j \in DOMAIN m : m[i] = m[j] => i = j
      BY <1>3 DEF IInv, MailOK
    <2> QED
      BY <1>0, <1>3, <2>1 DEF To, Requests, None
  <1> DEFINE y == [requests[r] EXCEPT !.via = s]
             kept == [requests EXCEPT ![r] = y]
  <1>5. y = [to |-> a, via |-> s, outcome |-> "none"] /\ y \in Request
    <2>1. a \in 0 .. PoolSize
      BY <1>0 DEF Actors
    <2> QED
      BY <1>1, <1>4, <2>1 DEF To, Request
  <1>6. y.to = a /\ y.via = s /\ y.outcome = "none"
    BY <1>5
  <1>7. /\ To(b) \in Request /\ To(b).to = b /\ To(b).via = None /\ To(b).outcome = "none"
    BY <1>0 DEF To, Request, None, Actors
  <1> HIDE DEF y
  <1>8. kept \in Seq(Request) /\ Len(kept) = Len(requests) /\ kept[r] = y
        /\ \A q \in DOMAIN requests : q # r => kept[q] = requests[q]
    BY <1>0, <1>4, <1>5
  <1>9. requests' = Append(kept, To(b))
    BY DEF y, Asks
  <1> HIDE DEF kept
  <1>10. /\ requests' \in Seq(Request) /\ Len(requests') <= MaxRequests
         /\ DOMAIN requests' = DOMAIN requests \cup {s} /\ requests'[s] = To(b) /\ requests'[r] = y
         /\ \A q \in DOMAIN requests : q # r => requests'[q] = requests[q]
    <2>1. /\ requests' \in Seq(Request) /\ Len(requests') = Len(requests) + 1
          /\ DOMAIN requests' = DOMAIN requests \cup {s} /\ requests'[s] = To(b)
          /\ \A q \in DOMAIN requests : requests'[q] = kept[q]
      BY <1>0, <1>1, <1>7, <1>8, <1>9
    <2> QED
      BY <1>0, <1>4, <1>8, <2>1
  <1> DEFINE mid == [inbox EXCEPT ![a] = t]
  <1>11. mid \in [Actors -> Seq(Requests)] /\ mid[a] = t /\ \A x \in Actors : x # a => mid[x] = inbox[x]
    BY <1>0, <1>3
  <1>12. inbox' = [inbox EXCEPT ![a] = Tail(@), ![b] = Append(@, s)]
    BY DEF Asks
  <1> HIDE DEF mid
  <1>13. /\ inbox' \in [Actors -> Seq(Requests)] /\ inbox'[b] = Append(mid[b], s)
         /\ \A x \in Actors : x # b => inbox'[x] = mid[x]
    <2>1. mid[b] \in Seq(Requests) /\ Append(mid[b], s) \in Seq(Requests)
      BY <1>1, <1>11
    <2>2. CASE a = b
      <3>1. Append(Tail(inbox[a]), s) \in Seq(Requests)
        BY <1>11, <2>1, <2>2
      <3> QED
        BY <1>0, <1>11, <1>12, <2>2, <3>1
    <2>3. CASE a # b
      BY <1>0, <1>3, <1>11, <1>12, <2>1, <2>3
    <2> QED
      BY <2>2, <2>3
  <1> HIDE DEF t
  <1>14. /\ DOMAIN inbox'[b] = DOMAIN mid[b] \cup {Len(mid[b]) + 1}
         /\ inbox'[b][Len(mid[b]) + 1] = s /\ Len(mid[b]) + 1 \notin DOMAIN mid[b]
         /\ \A i \in DOMAIN mid[b] : inbox'[b][i] = mid[b][i]
    BY <1>1, <1>11, <1>13
  <1>15. \A x \in Actors : /\ \A i \in DOMAIN mid[x] : mid[x][i] # r /\ mid[x][i] # s
                              /\ \E k \in DOMAIN inbox[x] : inbox[x][k] = mid[x][i]
                           /\ \A i, j \in DOMAIN mid[x] : mid[x][i] = mid[x][j] => i = j
                           /\ \A k \in DOMAIN inbox[x] : inbox[x][k] # r =>
                                \E i \in DOMAIN mid[x] : mid[x][i] = inbox[x][k]
    <2> TAKE x \in Actors
    <2>0. \A k \in DOMAIN inbox[x] : inbox[x][k] # s
      BY <1>0, <1>1, LetterParts
    <2>1. CASE x = a
      <3>1. \A i, j \in DOMAIN t : t[i] = t[j] => i = j
        <4> SUFFICES ASSUME NEW i \in DOMAIN t, NEW j \in DOMAIN t, t[i] = t[j] PROVE i = j
          OBVIOUS
        <4>1. i + 1 = j + 1 /\ i \in Nat /\ j \in Nat
          BY <1>3, <1>4
        <4> QED
          BY <4>1
      <3>2. \A i \in DOMAIN t : t[i] # r /\ \E k \in DOMAIN m : m[k] = t[i]
        BY <1>3, <1>4
      <3>3. \A k \in DOMAIN m : m[k] # r => \E i \in DOMAIN t : t[i] = m[k]
        BY <1>3
      <3> QED
        BY <1>11, <2>0, <2>1, <3>1, <3>2, <3>3
    <2>2. CASE x # a
      <3>1. \A k \in DOMAIN inbox[x] : inbox[x][k] # r
        BY <1>0, <1>4, <2>2, LetterParts
      <3>2. \A i, j \in DOMAIN inbox[x] : inbox[x][i] = inbox[x][j] => i = j
        BY <1>0 DEF Letters, MailOK
      <3> QED
        BY <1>11, <2>0, <2>2, <3>1, <3>2
    <2> QED
      BY <2>1, <2>2
  <1>16. \A x \in Actors : \A i \in DOMAIN inbox'[x] :
            \/ x = b /\ inbox'[x][i] = s
            \/ inbox'[x][i] # r /\ \E k \in DOMAIN inbox[x] : inbox[x][k] = inbox'[x][i]
    <2> SUFFICES ASSUME NEW x \in Actors, NEW i \in DOMAIN inbox'[x]
                 PROVE  \/ x = b /\ inbox'[x][i] = s
                        \/ inbox'[x][i] # r /\ \E k \in DOMAIN inbox[x] : inbox[x][k] = inbox'[x][i]
      OBVIOUS
    <2>1. \/ x = b /\ inbox'[x][i] = s
          \/ i \in DOMAIN mid[x] /\ inbox'[x][i] = mid[x][i]
      <3>1. CASE x = b
        BY <1>14, <3>1
      <3>2. CASE x # b
        BY <1>13, <3>2
      <3> QED
        BY <3>1, <3>2
    <2> QED
      BY <1>15, <2>1
  <1>17. \A x \in Actors : \A i, j \in DOMAIN inbox'[x] : inbox'[x][i] = inbox'[x][j] => i = j
    <2> TAKE x \in Actors
    <2>1. CASE x = b
      BY <1>14, <1>15, <2>1
    <2>2. CASE x # b
      BY <1>13, <1>15, <2>2
    <2> QED
      BY <2>1, <2>2
  <1>18. \A x \in Actors : \A k \in DOMAIN inbox[x] : inbox[x][k] # r =>
            \E i \in DOMAIN inbox'[x] : inbox'[x][i] = inbox[x][k]
    <2> SUFFICES ASSUME NEW x \in Actors, NEW k \in DOMAIN inbox[x], inbox[x][k] # r
                 PROVE  \E i \in DOMAIN inbox'[x] : inbox'[x][i] = inbox[x][k]
      OBVIOUS
    <2>1. PICK i \in DOMAIN mid[x] : mid[x][i] = inbox[x][k]
      BY <1>15
    <2>2. i \in DOMAIN inbox'[x] /\ inbox'[x][i] = mid[x][i]
      BY <1>13, <1>14
    <2> QED
      BY <2>1, <2>2
  <1>19. /\ behavior' \in [Actors -> 0 .. MaxRequests] /\ awaited' \in [Actors -> 0 .. MaxRequests]
         /\ behavior'[a] = r /\ awaited'[a] = s
         /\ \A x \in Actors : x # a => behavior'[x] = behavior[x] /\ awaited'[x] = awaited[x]
    BY <1>0, <1>1, <1>4 DEF Asks
  <1> HIDE DEF m
  <1>20. SentOK'
    <2>1. \A q \in DOMAIN requests : requests[q].to <= pool /\ (requests[q].via # None => requests[q].via \in DOMAIN requests)
      BY <1>0 DEF Letters, SentOK
    <2> QED
      BY <1>0, <1>4, <1>6, <1>7, <1>10, <2>1 DEF SentOK
  <1>21. RelayFaithful'
    <2> SUFFICES ASSUME NEW q \in DOMAIN requests', requests'[q].outcome = "value", requests'[q].via # None
                 PROVE  requests'[requests'[q].via].outcome = "value"
      BY DEF RelayFaithful, Outcome
    <2>1. q \in DOMAIN requests /\ q # r /\ requests'[q] = requests[q]
      BY <1>6, <1>7, <1>10
    <2> DEFINE v == requests[q].via
    <2>2. v \in DOMAIN requests /\ requests[v].outcome = "value"
      BY <1>0, <2>1 DEF Letters, RelayFaithful, SentOK, Outcome
    <2> HIDE DEF v
    <2>3. v # r
      BY <1>4, <2>2
    <2>4. requests'[v].outcome = "value"
      BY <1>10, <2>2, <2>3
    <2> QED
      BY <2>1, <2>4 DEF v
  <1>22. MailOK'
    <2> SUFFICES ASSUME NEW x \in Actors, NEW i \in DOMAIN inbox'[x]
                 PROVE  inbox'[x][i] \in DOMAIN requests' /\ requests'[inbox'[x][i]] = To(x)
      BY <1>17 DEF MailOK
    <2>1. CASE x = b /\ inbox'[x][i] = s
      BY <1>10, <2>1
    <2>2. CASE inbox'[x][i] # r /\ \E k \in DOMAIN inbox[x] : inbox[x][k] = inbox'[x][i]
      <3>1. PICK k \in DOMAIN inbox[x] : inbox[x][k] = inbox'[x][i]
        BY <2>2
      <3>2. inbox[x][k] \in DOMAIN requests /\ requests[inbox[x][k]] = To(x) /\ inbox[x][k] # r
        BY <1>0, <2>2, <3>1 DEF Letters, MailOK
      <3> QED
        BY <1>10, <3>1, <3>2
    <2> QED
      BY <1>16, <2>1, <2>2
  <1>23. SuspendedOK'
    <2> SUFFICES ASSUME NEW x \in Actors, behavior'[x] # None
                 PROVE  /\ behavior'[x] \in DOMAIN requests' /\ awaited'[x] \in DOMAIN requests'
                        /\ requests'[behavior'[x]] = [to |-> x, via |-> awaited'[x], outcome |-> "none"]
      BY DEF SuspendedOK
    <2>1. CASE x = a
      BY <1>4, <1>5, <1>10, <1>19, <2>1
    <2>2. CASE x # a
      <3>1. behavior[x] # r /\ behavior[x] \in DOMAIN requests /\ awaited[x] \in DOMAIN requests
        BY <1>0, <1>4, <1>19, <2>2, LetterParts
      <3>2. requests[behavior[x]] = [to |-> x, via |-> awaited[x], outcome |-> "none"]
        BY <1>0, <1>19, <2>2 DEF Letters, SuspendedOK
      <3>3. requests'[behavior[x]] = requests[behavior[x]]
        BY <1>10, <3>1
      <3> QED
        BY <1>10, <1>19, <2>2, <3>1, <3>2, <3>3
    <2> QED
      BY <2>1, <2>2
  <1>24. RelayingOK'
    <2>1. a # None
      BY DEF Actors, None
    <2> SUFFICES ASSUME NEW c \in Clients, client[c].inline # None
                 PROVE  /\ client[c].inline \in DOMAIN requests' /\ requests'[client[c].inline].to = None
                        /\ requests'[client[c].inline].via \in DOMAIN requests'
      BY <1>0 DEF RelayingOK
    <2> DEFINE q == client[c].inline
    <2>2. q \in DOMAIN requests /\ requests[q].to = None /\ requests[q].via \in DOMAIN requests
      BY <1>0 DEF Letters, RelayingOK
    <2> HIDE DEF q
    <2>3. q # r
      BY <1>4, <2>1, <2>2
    <2>4. requests'[q] = requests[q]
      BY <1>10, <2>2, <2>3
    <2> QED
      BY <1>10, <2>2, <2>4 DEF q
  <1>25. SendingOK'
    <2>1. ASSUME NEW c \in Clients, NEW i \in DOMAIN client[c].todo
          PROVE  /\ client[c].todo[i] \in DOMAIN requests' /\ requests'[client[c].todo[i]].to \in Actors
                 /\ requests'[client[c].todo[i]] = To(requests'[client[c].todo[i]].to)
                 /\ \A x \in Actors : \A j \in DOMAIN inbox'[x] : inbox'[x][j] # client[c].todo[i]
      <3> DEFINE q == client[c].todo[i]
      <3>1. /\ q \in DOMAIN requests /\ requests[q].to \in Actors /\ requests[q] = To(requests[q].to)
            /\ \A x \in Actors : \A j \in DOMAIN inbox[x] : inbox[x][j] # q
        BY <1>0, <2>1 DEF Letters, SendingOK
      <3>2. q # r
        BY <1>3, <3>1 DEF m
      <3> HIDE DEF q
      <3>3. requests'[q] = requests[q]
        BY <1>10, <3>1, <3>2
      <3>4. \A x \in Actors : \A j \in DOMAIN inbox'[x] : inbox'[x][j] # q
        BY <1>1, <1>16, <3>1
      <3> QED
        BY <1>10, <3>1, <3>3, <3>4 DEF q
    <2>2. \A c, d \in Clients : \A i \in DOMAIN client[c].todo, j \in DOMAIN client[d].todo :
             client[c].todo[i] = client[d].todo[j] => c = d /\ i = j
      BY <1>0 DEF Letters, SendingOK
    <2> QED
      BY <1>0, <2>1, <2>2, SMTT(30) DEF SendingOK
  <1>26. PendingOK'
    <2> SUFFICES ASSUME NEW q \in DOMAIN requests', requests'[q].outcome = "none" PROVE Held(q)'
      BY DEF PendingOK, Outcome
    <2>1. CASE q = s
      BY <1>14, <2>1 DEF Held
    <2>2. CASE q = r
      BY <1>19, <2>2 DEF Held
    <2>3. CASE q # s /\ q # r
      <3>1. q \in DOMAIN requests /\ requests[q].outcome = "none" /\ q # None
        BY <1>0, <1>10, <2>3 DEF None
      <3>2. Held(q)
        BY <1>0, <3>1 DEF Letters, PendingOK, Outcome
      <3>3. CASE \E c \in Clients : \/ \E i \in DOMAIN client[c].todo : client[c].todo[i] = q
                                    \/ client[c].inline = q
        BY <1>0, <3>3 DEF Held
      <3>4. CASE \E x \in Actors : \E i \in DOMAIN inbox[x] : inbox[x][i] = q
        <4>1. PICK x \in Actors : \E i \in DOMAIN inbox[x] : inbox[x][i] = q
          BY <3>4
        <4>2. \E i \in DOMAIN inbox'[x] : inbox'[x][i] = q
          BY <1>18, <2>3, <4>1
        <4> QED
          BY <4>2, Zenon DEF Held
      <3>5. CASE \E x \in Actors : behavior[x] = q
        <4>1. PICK x \in Actors : behavior[x] = q
          BY <3>5
        <4>2. behavior'[x] = q
          BY <1>0, <1>19, <3>1, <4>1
        <4> QED
          BY <4>2, Zenon DEF Held
      <3> QED
        BY <3>2, <3>3, <3>4, <3>5 DEF Held
    <2> QED
      BY <2>1, <2>2, <2>3
  <1>27. \A x \in Actors : x # a /\ x # b => inbox'[x] = inbox[x]
    BY <1>11, <1>13
  <1> QED
    BY <1>10, <1>13, <1>19, <1>20, <1>21, <1>22, <1>23, <1>24, <1>25, <1>26, <1>27 DEF Letters

\* A handler that sends and co_awaits keeps the invariant.
LEMMA HandleByAskingInv ==
  ASSUME IInv, NEW w \in Workers, HandleByAsking(w)
  PROVE  IInv'
  <1>1. PICK a, b \in Actors :
          /\ Runs(w, a) /\ Asks(a, b, Head(inbox[a]), Len(requests) + 1)
          /\ worker[w].handled < MaxThroughput
          /\ scheduled' = [scheduled EXCEPT ![b] = TRUE]
          /\ worker' = [worker EXCEPT ![w].handled = @ + 1,
                                      ![w].owes = IF scheduled[b] THEN None ELSE b]
          /\ UNCHANGED <<routerVars, client, queue, lifeVars>>
    BY DEF HandleByAsking, Asks, routerVars
  <1>2. /\ worker \in [Workers -> Work] /\ worker[w].runs = a /\ worker[w].owes = None
        /\ w \in alive /\ phase # "stopped" /\ destroyed = 0
        /\ Running(a) /\ scheduled[a] /\ a # None
    BY <1>1, RunsParts DEF Actors, None
  <1>3. /\ Letters'
        /\ requests' \in Seq(Request) /\ Len(requests') <= MaxRequests
        /\ inbox' \in [Actors -> Seq(Requests)]
        /\ behavior' \in [Actors -> 0 .. MaxRequests] /\ awaited' \in [Actors -> 0 .. MaxRequests]
        /\ \A x \in Actors : x # a /\ x # b => inbox'[x] = inbox[x]
        /\ \A x \in Actors : x # a => behavior'[x] = behavior[x]
    BY <1>1, AskLetters
  <1> DEFINE x == IF scheduled[b] THEN None ELSE b
  <1>4. x \in 0 .. PoolSize
    BY SystemAssumption DEF Actors, None, SystemAssumption
  <1>5. worker' = [worker EXCEPT ![w].handled = @ + 1, ![w].owes = x]
    BY <1>1
  <1>6. (scheduled[b] => x = None) /\ (~scheduled[b] => x = b)
    OBVIOUS
  <1> HIDE DEF x
  <1>7. /\ worker' \in [Workers -> Work] /\ worker'[w].owes = x
        /\ \A v \in Workers : worker'[v].runs = worker[v].runs
        /\ \A v \in Workers : v # w => worker'[v].owes = worker[v].owes
    <2>1. worker[w].handled + 1 \in 0 .. MaxThroughput
      BY <1>1, WorkParts, SystemAssumption DEF IInv, SystemAssumption
    <2> QED
      BY <1>2, <1>4, <1>5, <2>1 DEF Work
  <1>8. /\ scheduled' \in [Actors -> BOOLEAN] /\ scheduled'[b]
        /\ \A y \in Actors : y # b => scheduled'[y] = scheduled[y]
    BY <1>1, Zenon DEF IInv, TypeOK
  <1>9. /\ UNCHANGED <<routerVars, client, queue, lifeVars>>
        /\ UNCHANGED <<program, pool, cursor, alive, phase, destroyed>>
    BY <1>1 DEF routerVars, lifeVars
  <1>10. TypeOK'
    BY <1>3, <1>7, <1>8, <1>9 DEF IInv, TypeOK, Work
  <1>11. PhasesOK'
    <2>1. \A v \in Workers : /\ worker'[v].runs # None => v \in alive
                             /\ worker'[v].owes # None => worker'[v].runs # None
      BY <1>2, <1>7 DEF IInv, PhasesOK
    <2>2. \A y \in Actors : ~(y <= destroyed)
      BY <1>2 DEF Actors
    <2> QED
      BY <1>2, <1>9, <2>1, <2>2 DEF IInv, PhasesOK
  <1>12. \A y : /\ Queued(y)' <=> Queued(y)
                /\ Running(y)' <=> Running(y)
                /\ Owed(y)' <=> Owed(y)
    BY <1>7, <1>9 DEF Queued, Running, Owed
  <1>13. x # None => x = b /\ ~scheduled[b] /\ ~HasNode(b)
    BY <1>2, <1>6 DEF IInv, NodesOK
  <1>14. /\ \A y \in Actors : Asked(y)' <=> (y = x \/ Asked(y))
         /\ \A v, u \in Workers : worker'[v].owes = worker'[u].owes /\ worker'[u].owes # None => v = u
    <2>1. x # None => ~Asked(x)
      BY <1>13 DEF HasNode
    <2>2. \A y \in Actors : worker[w].owes # y
      BY <1>2 DEF None, Actors
    <2> QED
      BY <1>7, <2>1, <2>2, AskedMoves DEF IInv, NodesOK
  <1>15. OnePlace'
    <2>1. \A y \in Actors : y = x => ~Queued(y) /\ ~Running(y) /\ ~Owed(y)
      BY <1>13 DEF HasNode, Actors, None
    <2>2. \A y \in Actors : /\ Queued(y)' => ~Running(y)' /\ ~Asked(y)' /\ ~Owed(y)'
                            /\ Running(y)' => ~Asked(y)' /\ ~Owed(y)'
                            /\ Asked(y)' => ~Owed(y)'
      BY <1>12, <1>14, <2>1 DEF IInv, NodesOK, OnePlace
    <2> QED
      BY <1>7, <1>9, <1>14, <2>2 DEF IInv, NodesOK, OnePlace
  <1>16. \A y \in Actors : HasNode(y)' <=> HasNode(y) \/ y = x
    BY <1>12, <1>14 DEF HasNode
  <1>17. \A y \in Actors : scheduled'[y] /\ phase' # "stopped" <=> HasNode(y)'
    <2> TAKE y \in Actors
    <2>1. CASE y = b
      <3>1. scheduled[b] => HasNode(b)
        BY <1>2 DEF IInv, NodesOK
      <3> QED
        BY <1>2, <1>6, <1>8, <1>9, <1>16, <2>1, <3>1
    <2>2. CASE y # b
      <3>1. y # x
        BY <1>6, <2>2 DEF Actors, None
      <3> QED
        BY <1>8, <1>9, <1>16, <2>2, <3>1 DEF IInv, NodesOK
    <2> QED
      BY <2>1, <2>2
  <1>18. \A y \in Actors : inbox'[y] # <<>> \/ behavior'[y] # None => scheduled'[y]
    <2> TAKE y \in Actors
    <2>1. CASE y = b
      BY <1>8, <2>1
    <2>2. CASE y = a /\ y # b
      BY <1>2, <1>8, <2>2
    <2>3. CASE y # a /\ y # b
      BY <1>3, <1>8, <2>3 DEF IInv, NodesOK
    <2> QED
      BY <2>1, <2>2, <2>3
  <1>19. NodesOK'
    BY <1>15, <1>17, <1>18 DEF NodesOK
  <1> QED
    BY <1>3, <1>10, <1>11, <1>19 DEF IInv, Letters

-----------------------------------------------------------------------------
(* The end.                                                                *)

\* main() has what it waited for: no client is inside send().
LEMMA BeginStopInv ==
  ASSUME IInv, BeginStop
  PROVE  IInv'
  <1>1. /\ UNCHANGED <<routerVars, requests, client, actorVars, queue, worker, alive, destroyed>>
        /\ phase' = "stopping"
        /\ \A c \in Clients : /\ phase = "up" /\ client[c].todo = <<>> /\ client[c].owes = None
                              /\ client[c].inline = None
    BY DEF BeginStop, Outside
  <1>2. Letters'
    <2>1. /\ UNCHANGED <<requests, client, inbox, behavior, awaited>> /\ pool' \in Nat /\ pool' >= pool
      BY <1>1, SystemAssumption DEF IInv, TypeOK, routerVars, actorVars, SystemAssumption
    <2> QED
      BY <2>1, LettersSame DEF IInv, Letters
  <1>3. phase = "up"
    BY <1>1, SystemAssumption DEF SystemAssumption
  <1>4. TypeOK'
    BY <1>1 DEF IInv, TypeOK, routerVars, actorVars
  <1>5. PhasesOK'
    BY <1>1, <1>3 DEF IInv, PhasesOK, routerVars, actorVars
  <1>6. NodesOK'
    <2>1. /\ UNCHANGED <<queue, scheduled, inbox, behavior, client, worker>>
          /\ (phase' = "stopped") <=> (phase = "stopped")
      BY <1>1, <1>3 DEF actorVars
    <2> QED
      BY <2>1, NodesSame DEF IInv
  <1> QED
    BY <1>2, <1>4, <1>5, <1>6 DEF IInv, Letters

\* stop() queues a helper, which is no actor's node.
LEMMA StopWorkerInv ==
  ASSUME IInv, StopWorker
  PROVE  IInv'
  <1>1. /\ UNCHANGED <<routerVars, requests, client, actorVars, worker, lifeVars>>
        /\ queue' = Append(queue, Helper)
    BY DEF StopWorker
  <1>2. Helper \in 1 .. Helper /\ Helper \notin Actors
    BY SystemAssumption DEF Helper, Actors, SystemAssumption
  <1>3. /\ queue' \in Seq(1 .. Helper)
        /\ \A a : Queued(a)' <=> Queued(a) \/ a = Helper
        /\ \A i, j \in DOMAIN queue' : queue'[i] = queue'[j] /\ queue'[i] \in Actors => i = j
    BY <1>1, <1>2, QueueGrows DEF IInv, NodesOK
  <1>4. Letters'
    <2>1. /\ UNCHANGED <<requests, client, inbox, behavior, awaited>> /\ pool' \in Nat /\ pool' >= pool
      BY <1>1, SystemAssumption DEF IInv, TypeOK, routerVars, actorVars, SystemAssumption
    <2> QED
      BY <2>1, LettersSame DEF IInv, Letters
  <1>5. TypeOK'
    BY <1>1, <1>3 DEF IInv, TypeOK, routerVars, actorVars, lifeVars
  <1>6. PhasesOK'
    BY <1>1 DEF IInv, PhasesOK, routerVars, actorVars, lifeVars
  <1>7. \A a \in Actors : /\ Queued(a)' <=> Queued(a)
                          /\ Running(a)' <=> Running(a)
                          /\ Asked(a)' <=> Asked(a)
                          /\ Owed(a)' <=> Owed(a)
    <2>1. \A a \in Actors : Queued(a)' <=> Queued(a)
      BY <1>2, <1>3
    <2> QED
      BY <1>1, <2>1 DEF Running, Asked, Owed
  <1>8. OnePlace'
    BY <1>1, <1>3, <1>7 DEF IInv, NodesOK, OnePlace
  <1>9. NodesOK'
    BY <1>1, <1>7, <1>8 DEF IInv, NodesOK, HasNode, actorVars, lifeVars
  <1> QED
    BY <1>4, <1>5, <1>6, <1>9 DEF IInv, Letters

\* The workers are joined: none runs or owes a node, and the queue's are deleted.
LEMMA JoinedInv ==
  ASSUME IInv, Joined
  PROVE  IInv'
  <1>1. /\ UNCHANGED <<routerVars, requests, client, actorVars, worker, alive, destroyed>>
        /\ phase = "stopping" /\ alive = {} /\ phase' = "stopped" /\ queue' = <<>>
    BY DEF Joined
  <1>2. Letters'
    <2>1. /\ UNCHANGED <<requests, client, inbox, behavior, awaited>> /\ pool' \in Nat /\ pool' >= pool
      BY <1>1, SystemAssumption DEF IInv, TypeOK, routerVars, actorVars, SystemAssumption
    <2> QED
      BY <2>1, LettersSame DEF IInv, Letters
  <1>3. TypeOK'
    BY <1>1 DEF IInv, TypeOK, routerVars, actorVars
  <1>4. PhasesOK'
    BY <1>1 DEF IInv, PhasesOK, routerVars, actorVars
  <1>5. /\ \A w \in Workers : worker[w].runs = None /\ worker[w].owes = None
        /\ \A c \in Clients : client[c].owes = None
    BY <1>1 DEF IInv, PhasesOK
  <1>6. DOMAIN queue' = {}
    BY <1>1
  <1>7. \A a \in Actors : ~Queued(a)' /\ ~Running(a)' /\ ~Asked(a)' /\ ~Owed(a)'
    <2>1. \A a \in Actors : a # None
      BY DEF Actors, None
    <2> QED
      BY <1>1, <1>5, <1>6, <2>1 DEF Queued, Running, Asked, Owed
  <1>8. OnePlace'
    BY <1>1, <1>6, <1>7 DEF IInv, NodesOK, OnePlace
  <1>9. NodesOK'
    BY <1>1, <1>7, <1>8 DEF IInv, NodesOK, HasNode, actorVars
  <1> QED
    BY <1>2, <1>3, <1>4, <1>9 DEF IInv, Letters

\* What an actor holds when it is destroyed: its mail, and what its suspended
\* behavior serves.
Kept(a) == {r \in DOMAIN requests : r = behavior[a] \/ \E i \in DOMAIN inbox[a] : inbox[a][i] = r}

\* An actor is destroyed: what it holds was pending and its own, and is settled.
LEMMA DestroyParts ==
  ASSUME IInv, DestroyActor, NEW a, a = destroyed + 1
  PROVE  /\ a \in Actors
         /\ \A r \in Kept(a) : requests[r].to = a /\ requests[r].outcome = "none"
         /\ requests' \in Seq(Request) /\ Len(requests') <= MaxRequests
         /\ DOMAIN requests' = DOMAIN requests
         /\ \A r \in DOMAIN requests :
              /\ requests'[r].to = requests[r].to /\ requests'[r].via = requests[r].via
              /\ r \in Kept(a) => requests'[r].outcome \in {"failed", "orphaned"}
              /\ r \notin Kept(a) => requests'[r] = requests[r]
  <1>1. destroyed < pool /\ destroyed \in 0 .. PoolSize /\ pool \in 0 .. PoolSize /\ PoolSize \in Nat
    BY SystemAssumption DEF IInv, TypeOK, DestroyActor, SystemAssumption
  <1>2. a \in Actors
    BY <1>1 DEF Actors
  <1>3. ASSUME NEW r \in Kept(a) PROVE requests[r].to = a /\ requests[r].outcome = "none"
    <2>1. r = behavior[a] => behavior[a] # None
      BY <1>3, RequestParts DEF IInv, Kept, Requests, None
    <2> QED
      BY <1>2, <1>3, <2>1, LetterParts DEF IInv, Letters, Kept
  <1> DEFINE q(r) == CASE r \in Cancelled(a) -> [requests[r] EXCEPT !.outcome = "failed"]
                       [] r = behavior[a]    -> [requests[r] EXCEPT !.outcome = "orphaned"]
                       [] OTHER              -> requests[r]
  <1>4. requests' = [r \in DOMAIN requests |-> q(r)]
    BY DEF DestroyActor
  <1>5. ASSUME NEW r \in DOMAIN requests
        PROVE  /\ q(r) \in Request
               /\ q(r).to = requests[r].to /\ q(r).via = requests[r].via
               /\ r \in Kept(a) => q(r).outcome \in {"failed", "orphaned"}
               /\ r \notin Kept(a) => q(r) = requests[r]
    <2>1. requests[r] \in Request
      BY RequestParts DEF IInv
    <2>2. r \in Kept(a) <=> r \in Cancelled(a) \/ r = behavior[a]
      BY DEF Kept, Cancelled, Range
    <2>3. CASE r \in Cancelled(a)
      <3>0. r # behavior[a]
        <4>1. requests[r].via = None
          BY <1>2, <2>3, LetterParts DEF IInv, Letters, Cancelled, Range
        <4>2. r = behavior[a] => requests[r].via \in DOMAIN requests /\ behavior[a] # None
          BY <1>2, LetterParts, RequestParts DEF IInv, Letters, Requests, None
        <4>3. None \notin DOMAIN requests
          BY RequestParts DEF IInv, Requests, None
        <4> QED
          BY <4>1, <4>2, <4>3
      <3>1. q(r) = [requests[r] EXCEPT !.outcome = "failed"]
        BY <2>3, <3>0
      <3> QED
        BY <2>1, <2>2, <2>3, <3>1 DEF Request
    <2>4. CASE r \notin Cancelled(a) /\ r = behavior[a]
      <3>1. q(r) = [requests[r] EXCEPT !.outcome = "orphaned"]
        BY <2>4
      <3> QED
        BY <2>1, <2>2, <2>4, <3>1 DEF Request
    <2>5. CASE r \notin Cancelled(a) /\ r # behavior[a]
      <3>1. q(r) = requests[r]
        BY <2>5
      <3> QED
        BY <2>1, <2>2, <2>5, <3>1
    <2> QED
      BY <2>3, <2>4, <2>5
  <1> HIDE DEF q
  <1>6. DOMAIN requests = 1 .. Len(requests) /\ Len(requests) \in 0 .. MaxRequests
    BY RequestParts DEF IInv
  <1>7. requests' \in [1 .. Len(requests) -> Request]
    BY <1>4, <1>5, <1>6
  <1>8. requests' \in Seq(Request) /\ Len(requests') = Len(requests)
    BY <1>6, <1>7
  <1> QED
    BY <1>2, <1>3, <1>4, <1>5, <1>6, <1>8

\* The router's vector destroys an actor.
LEMMA DestroyActorInv ==
  ASSUME IInv, DestroyActor
  PROVE  IInv'
  <1> DEFINE a == destroyed + 1
  <1>1. /\ a \in Actors
        /\ \A r \in Kept(a) : requests[r].to = a /\ requests[r].outcome = "none"
        /\ requests' \in Seq(Request) /\ Len(requests') <= MaxRequests
        /\ DOMAIN requests' = DOMAIN requests
        /\ \A r \in DOMAIN requests :
             /\ requests'[r].to = requests[r].to /\ requests'[r].via = requests[r].via
             /\ r \in Kept(a) => requests'[r].outcome \in {"failed", "orphaned"}
             /\ r \notin Kept(a) => requests'[r] = requests[r]
    BY DestroyParts
  <1>2. /\ phase = "stopped" /\ destroyed < pool /\ destroyed' = a
        /\ inbox' = [inbox EXCEPT ![a] = <<>>] /\ behavior' = [behavior EXCEPT ![a] = None]
        /\ awaited' = [awaited EXCEPT ![a] = None]
        /\ UNCHANGED <<program, pool, cursor, client, scheduled, queue, worker, alive, phase>>
    BY DEF DestroyActor, routerVars
  <1>3. /\ destroyed \in Nat /\ pool \in 0 .. PoolSize /\ PoolSize \in Nat /\ MaxRequests \in Nat
    BY SystemAssumption DEF IInv, TypeOK, SystemAssumption
  <1>4. a \in 0 .. PoolSize /\ a <= pool /\ a > 0 /\ \A x \in Actors : x <= a => x <= destroyed \/ x = a
    BY <1>2, <1>3 DEF Actors
  <1> HIDE DEF a
  <1>5. /\ inbox' \in [Actors -> Seq(Requests)] /\ behavior' \in [Actors -> 0 .. MaxRequests]
        /\ awaited' \in [Actors -> 0 .. MaxRequests]
        /\ inbox'[a] = <<>> /\ behavior'[a] = None
        /\ \A x \in Actors : x # a => /\ inbox'[x] = inbox[x] /\ behavior'[x] = behavior[x]
                                      /\ awaited'[x] = awaited[x]
    <2>1. <<>> \in Seq(Requests) /\ None \in 0 .. MaxRequests
      BY <1>3 DEF None
    <2> QED
      BY <1>1, <1>2, <2>1 DEF IInv, TypeOK
  <1>6. TypeOK'
    BY <1>1, <1>2, <1>4, <1>5 DEF IInv, TypeOK
  <1>7. \A c \in Clients : client[c].todo = <<>> /\ client[c].owes = None /\ client[c].inline = None
    BY <1>2 DEF IInv, PhasesOK
  <1>8. PhasesOK'
    BY <1>2, <1>4, <1>5, <1>7 DEF IInv, PhasesOK
  <1>9. NodesOK'
    <2>1. \A x \in Actors : inbox'[x] # <<>> \/ behavior'[x] # None => inbox[x] # <<>> \/ behavior[x] # None
      BY <1>5
    <2> QED
      BY <1>2, <2>1, NodesKept DEF IInv
  <1>10. Letters /\ TypeOK
    BY DEF IInv, Letters
  <1>11. SentOK'
    BY <1>1, <1>2, <1>10 DEF Letters, SentOK
  <1>12. RelayFaithful'
    <2> SUFFICES ASSUME NEW q \in DOMAIN requests, requests'[q].outcome = "value", requests'[q].via # None
                 PROVE  requests'[requests'[q].via].outcome = "value"
      BY <1>1 DEF RelayFaithful, Outcome
    <2>1. q \notin Kept(a) /\ requests'[q] = requests[q]
      BY <1>1
    <2> DEFINE v == requests[q].via
    <2>2. v \in DOMAIN requests /\ requests[v].outcome = "value"
      BY <1>10, <2>1 DEF Letters, RelayFaithful, SentOK, Outcome
    <2> HIDE DEF v
    <2>3. requests'[v] = requests[v]
      BY <1>1, <2>2
    <2> QED
      BY <2>1, <2>2, <2>3 DEF v
  <1>13. MailOK'
    <2> SUFFICES ASSUME NEW x \in Actors
                 PROVE  /\ \A i \in DOMAIN inbox'[x] :
                             inbox'[x][i] \in DOMAIN requests' /\ requests'[inbox'[x][i]] = To(x)
                        /\ \A i, j \in DOMAIN inbox'[x] : inbox'[x][i] = inbox'[x][j] => i = j
      BY DEF MailOK
    <2>1. CASE x = a
      <3>1. DOMAIN inbox'[x] = {}
        BY <1>5, <2>1
      <3> QED
        BY <3>1
    <2>2. CASE x # a
      <3>1. inbox'[x] = inbox[x]
        BY <1>5, <2>2
      <3>2. \A i \in DOMAIN inbox[x] :
              inbox[x][i] \in DOMAIN requests /\ requests'[inbox[x][i]] = requests[inbox[x][i]]
        BY <1>1, <1>10, <2>2, LetterParts
      <3> QED
        BY <1>1, <1>10, <3>1, <3>2 DEF Letters, MailOK
    <2> QED
      BY <2>1, <2>2
  <1>14. SuspendedOK'
    <2> SUFFICES ASSUME NEW x \in Actors, behavior'[x] # None
                 PROVE  /\ behavior'[x] \in DOMAIN requests' /\ awaited'[x] \in DOMAIN requests'
                        /\ requests'[behavior'[x]] = [to |-> x, via |-> awaited'[x], outcome |-> "none"]
      BY DEF SuspendedOK
    <2>1. x # a /\ behavior'[x] = behavior[x] /\ awaited'[x] = awaited[x]
      BY <1>5
    <2>2. /\ behavior[x] \in DOMAIN requests /\ awaited[x] \in DOMAIN requests
          /\ requests'[behavior[x]] = requests[behavior[x]]
      BY <1>1, <1>10, <2>1, LetterParts
    <2>3. requests[behavior[x]] = [to |-> x, via |-> awaited[x], outcome |-> "none"]
      BY <1>10, <2>1 DEF Letters, SuspendedOK
    <2> QED
      BY <1>1, <2>1, <2>2, <2>3
  <1>15. SendingOK' /\ RelayingOK'
    <2>1. \A c \in Clients : DOMAIN client'[c].todo = {} /\ client'[c].inline = None
      BY <1>2, <1>7
    <2> QED
      BY <2>1 DEF SendingOK, RelayingOK
  <1>16. PendingOK'
    <2> SUFFICES ASSUME NEW q \in DOMAIN requests, requests'[q].outcome = "none" PROVE Held(q)'
      BY <1>1 DEF PendingOK, Outcome
    <2>1. q \notin Kept(a) /\ requests[q].outcome = "none"
      BY <1>1
    <2>2. q # None /\ Held(q)
      BY <1>10, <2>1, RequestParts DEF Letters, PendingOK, Outcome, Requests, None
    <2>3. \/ \E x \in Actors : \E i \in DOMAIN inbox[x] : inbox[x][i] = q
          \/ \E x \in Actors : behavior[x] = q
      BY <1>7, <2>2 DEF Held
    <2>4. CASE \E x \in Actors : \E i \in DOMAIN inbox[x] : inbox[x][i] = q
      <3>1. PICK x \in Actors : \E i \in DOMAIN inbox[x] : inbox[x][i] = q
        BY <2>4
      <3>2. x # a
        BY <2>1, <3>1 DEF Kept
      <3>3. \E i \in DOMAIN inbox'[x] : inbox'[x][i] = q
        BY <1>5, <3>1, <3>2
      <3> QED
        BY <3>3, Zenon DEF Held
    <2>5. CASE \E x \in Actors : behavior[x] = q
      <3>1. PICK x \in Actors : behavior[x] = q
        BY <2>5
      <3>2. behavior'[x] = q
        BY <1>5, <2>1, <3>1 DEF Kept
      <3> QED
        BY <3>2, Zenon DEF Held
    <2> QED
      BY <2>3, <2>4, <2>5
  <1> QED
    BY <1>6, <1>8, <1>9, <1>11, <1>12, <1>13, <1>14, <1>15, <1>16 DEF IInv

-----------------------------------------------------------------------------
(* The theorems.                                                           *)

\* Every step of the program keeps the invariant.
LEMMA NextInv == IInv /\ [Next]_vars => IInv'
  <1> SUFFICES ASSUME IInv, [Next]_vars PROVE IInv'
    OBVIOUS
  <1>1. ASSUME NEW c \in Clients, Route(c) PROVE IInv'
    BY <1>1, CreateActorInv, DelegateInv, BalanceInv, AssignTaskInv, CheckStatusInv, SendDirectInv DEF Route
  <1>2. ASSUME NEW c \in Clients, CallStep(c) PROVE IInv'
    BY <1>2, PushMessageInv, ScheduleActorInv, AnswerCallerInv, TakeReadyInv DEF CallStep
  <1>3. ASSUME NEW c \in Clients, Abort(c) PROVE IInv'
    BY <1>3, AbortInv
  <1>4. ASSUME NEW w \in Workers, WorkerStep(w) PROVE IInv'
    BY <1>4, DequeueInv, HandleInv, HandleByAskingInv, ScheduleAskedInv, DrainBehaviorInv, EndResumeInv
    DEF WorkerStep
  <1>5. CASE BeginStop
    BY <1>5, BeginStopInv
  <1>6. CASE Shutdown
    BY <1>6, StopWorkerInv, JoinedInv, DestroyActorInv DEF Shutdown
  <1>7. CASE UNCHANGED vars
    <2>1. /\ UNCHANGED <<program, pool, cursor, requests, client, inbox, scheduled, behavior, awaited>>
          /\ UNCHANGED <<queue, worker, alive, phase, destroyed>>
      BY <1>7 DEF vars, routerVars, actorVars, lifeVars
    <2>2. Letters'
      <3>1. pool' \in Nat /\ pool' >= pool
        BY <2>1, SystemAssumption DEF IInv, TypeOK, SystemAssumption
      <3> QED
        BY <2>1, <3>1, LettersSame DEF IInv, Letters
    <2>3. TypeOK' /\ PhasesOK'
      BY <2>1 DEF IInv, TypeOK, PhasesOK
    <2>4. NodesOK'
      BY <2>1, NodesSame DEF IInv
    <2> QED
      BY <2>2, <2>3, <2>4 DEF IInv, Letters
  <1> QED
    BY <1>1, <1>2, <1>3, <1>4, <1>5, <1>6, <1>7 DEF Next

\* The invariant holds of the whole program, whatever its routers, its threads
\* and its handlers do, and wherever stop() finds them.
THEOREM SystemInvariant == Spec => []IInv
  BY InitInv, NextInv, PTL DEF Spec

\* Every variable of the program keeps its type: no cursor, however it wraps,
\* selects an actor that is not there, and no request is sent to one.
THEOREM SystemTypes == Spec => []TypeOK
  <1>1. IInv => TypeOK
    BY DEF IInv
  <1> QED
    BY <1>1, SystemInvariant, PTL

\* A router, or a handler that asked another actor, answers only what it was
\* itself answered: an answer is a value only if the one it rests on is.
THEOREM Relays == Spec => []RelayFaithful
  <1>1. IInv => RelayFaithful
    BY DEF IInv
  <1> QED
    BY <1>1, SystemInvariant, PTL

\* When the last actor is destroyed no request is pending: those that stop()
\* found in a mailbox failed, those of a suspended behavior are orphaned.
THEOREM AllSettled == Spec => []SettledAtEnd
  <1>1. ASSUME IInv PROVE SettledAtEnd
    <2> SUFFICES ASSUME destroyed = pool, phase = "stopped", NEW r \in DOMAIN requests,
                        Outcome(r) = "none"
                 PROVE  FALSE
      BY DEF SettledAtEnd
    <2>1. Held(r)
      BY <1>1 DEF IInv, PendingOK
    <2>2. r # None
      BY <1>1, RequestParts DEF IInv, Requests, None
    <2>3. \A c \in Clients : DOMAIN client[c].todo = {} /\ client[c].inline # r
      BY <1>1, <2>2 DEF IInv, PhasesOK
    <2>4. requests[r].to <= pool
      BY <1>1 DEF IInv, SentOK
    <2>5. PICK a \in Actors : behavior[a] = r \/ \E i \in DOMAIN inbox[a] : inbox[a][i] = r
      BY <2>1, <2>3 DEF Held
    <2>6. requests[r].to = a
      BY <1>1, <2>2, <2>5, LetterParts DEF IInv, Letters
    <2>7. inbox[a] = <<>> /\ behavior[a] = None
      BY <1>1, <2>4, <2>6 DEF IInv, PhasesOK
    <2>8. DOMAIN inbox[a] = {}
      BY <2>7
    <2> QED
      BY <2>2, <2>5, <2>7, <2>8
  <1> QED
    BY <1>1, SystemInvariant, PTL

\* A set with at most one member, by whether it has one.
LEMMA OneOrNone ==
  ASSUME NEW S, \A x, y \in S : x = y
  PROVE  /\ S # {} => Cardinality(S) = 1
         /\ S = {} => Cardinality(S) = 0
  <1>1. CASE S = {}
    BY <1>1, FS_EmptySet
  <1>2. CASE S # {}
    <2>1. PICK x \in S : TRUE
      BY <1>2
    <2>2. S = {x}
      BY <2>1
    <2> QED
      BY <1>2, <2>2, FS_Singleton
  <1> QED
    BY <1>1, <1>2

\* An actor with work has one node, queued, in a worker's hands or owed, until
\* the workers are joined; a parked one has none: it is never run twice at once
\* and never forgotten.
THEOREM OneNodePerActor == Spec => []NodeForWork
  <1>1. ASSUME IInv PROVE NodeForWork
    <2> SUFFICES ASSUME NEW a \in Actors
                 PROVE  /\ inbox[a] # <<>> \/ behavior[a] # None => scheduled[a]
                        /\ scheduled[a] /\ phase # "stopped" => Nodes(a) = 1
                        /\ ~scheduled[a] \/ phase = "stopped" => Nodes(a) = 0
      BY DEF NodeForWork
    <2> DEFINE Q == {i \in DOMAIN queue : queue[i] = a}
               R == {w \in Workers : worker[w].runs = a}
               A == {w \in Workers : worker[w].owes = a}
               O == {c \in Clients : client[c].owes = a}
    <2>0. a # None
      BY DEF Actors, None
    <2>1. /\ \A x, y \in Q : x = y
          /\ \A x, y \in R : x = y
          /\ \A x, y \in A : x = y
          /\ \A x, y \in O : x = y
      BY <1>1, <2>0 DEF IInv, NodesOK, OnePlace
    <2>2. /\ Q # {} <=> Queued(a)
          /\ R # {} <=> Running(a)
          /\ A # {} <=> Asked(a)
          /\ O # {} <=> Owed(a)
      BY DEF Queued, Running, Asked, Owed
    <2>3. Nodes(a) = Cardinality(Q) + Cardinality(R) + Cardinality(A) + Cardinality(O)
      BY DEF Nodes
    <2>4. /\ Cardinality(Q) = 1 \/ Cardinality(Q) = 0
          /\ Cardinality(Q) = 1 <=> Queued(a)
      BY <2>1, <2>2, OneOrNone
    <2>5. /\ Cardinality(R) = 1 \/ Cardinality(R) = 0
          /\ Cardinality(R) = 1 <=> Running(a)
      BY <2>1, <2>2, OneOrNone
    <2>6. /\ Cardinality(A) = 1 \/ Cardinality(A) = 0
          /\ Cardinality(A) = 1 <=> Asked(a)
      BY <2>1, <2>2, OneOrNone
    <2>7. /\ Cardinality(O) = 1 \/ Cardinality(O) = 0
          /\ Cardinality(O) = 1 <=> Owed(a)
      BY <2>1, <2>2, OneOrNone
    <2> HIDE DEF Q, R, A, O
    <2>8. /\ Queued(a) => ~Running(a) /\ ~Asked(a) /\ ~Owed(a)
          /\ Running(a) => ~Asked(a) /\ ~Owed(a)
          /\ Asked(a) => ~Owed(a)
      BY <1>1 DEF IInv, NodesOK, OnePlace
    <2>9. (HasNode(a) => Nodes(a) = 1) /\ (~HasNode(a) => Nodes(a) = 0)
      BY <2>3, <2>4, <2>5, <2>6, <2>7, <2>8 DEF HasNode
    <2>10. (inbox[a] # <<>> \/ behavior[a] # None => scheduled[a])
           /\ (scheduled[a] /\ phase # "stopped" <=> HasNode(a))
      BY <1>1 DEF IInv, NodesOK
    <2> QED
      BY <2>9, <2>10
  <1> QED
    BY <1>1, SystemInvariant, PTL

=============================================================================
