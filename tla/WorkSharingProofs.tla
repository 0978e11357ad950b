------------------------- MODULE WorkSharingProofs --------------------------
(***************************************************************************)
(* Proofs about WorkSharing, for every number of workers, callers and      *)
(* actors.                                                                 *)
(***************************************************************************)
EXTENDS WorkSharing, FiniteSetTheorems, SequenceTheorems, TLAPS

-----------------------------------------------------------------------------
(* The invariant.                                                          *)

\* A worker has a node exactly while it runs it.
NodeOK == \A w \in Workers : node[w] # NoJob <=> worker[w] = "run"

QueuedAt(i) == i \in DOMAIN queue /\ queue[i] = Helper

NotQueued == \A i \in DOMAIN queue : queue[i] # Helper
NotRun == \A w \in Workers : node[w] # Helper

\* stop() has at most one helper out, and it is in one place: queued, in a
\* worker's hands, or answered and not yet counted.
HelperOK ==
    \/ /\ stop \in {"notify", "wait"}
       /\ \/ /\ \E i \in DOMAIN queue : QueuedAt(i)
             /\ \A i, j \in DOMAIN queue : QueuedAt(i) /\ QueuedAt(j) => i = j
             /\ NotRun /\ completed = 0
          \/ /\ NotQueued /\ completed = 0
             /\ \E w \in Workers : node[w] = Helper
             /\ \A v, w \in Workers : node[v] = Helper /\ node[w] = Helper => v = w
          \/ NotQueued /\ NotRun /\ completed = 1
    \/ /\ stop \notin {"notify", "wait"}
       /\ NotQueued /\ NotRun /\ completed = 0

Leavers == {w \in Workers : worker[w] \in {"leaving", "exited"}}

\* stop() counts the workers that have left: one for each helper answered.
LeaversOK ==
    /\ stop = "no" => Leavers = {} /\ alive = 0
    /\ stop # "no" => Cardinality(Leavers) + alive = Cardinality(Workers) + completed
    /\ stop \in {"push", "notify", "wait"} => alive > 0
    /\ stop \in {"join", "clear", "stopped"} => alive = 0
    /\ stop \in {"clear", "stopped"} => AllExited

Inv == TypeOK /\ NodeOK /\ HelperOK /\ LeaversOK /\ WorkConserving

-----------------------------------------------------------------------------
(* Lemmas about the operators.                                             *)

Places == {"dequeue", "asleep", "run", "notify", "leaving", "exited"}

\* notify_one() wakes one sleeper, or finds none.
LEMMA NotifiedOne ==
  ASSUME NEW ws \in [Workers -> Places], NEW next \in Notified(ws)
  PROVE  \/ next = ws /\ \A w \in Workers : ws[w] # "asleep"
         \/ \E w \in Workers : ws[w] = "asleep" /\ next = [ws EXCEPT ![w] = "dequeue"]
  BY DEF Notified

\* Appending keeps what is queued and adds one.
LEMMA AppendedQueue ==
  ASSUME NEW S, NEW q \in Seq(S), NEW x \in S
  PROVE  /\ Append(q, x) \in Seq(S)
         /\ Len(Append(q, x)) = Len(q) + 1
         /\ DOMAIN Append(q, x) = 1 .. Len(q) + 1
         /\ DOMAIN q = 1 .. Len(q) /\ Len(q) \in Nat
         /\ \A i \in 1 .. Len(q) : Append(q, x)[i] = q[i]
         /\ Append(q, x)[Len(q) + 1] = x
  BY AppendProperties, LenProperties

\* Taking the first keeps the rest.
LEMMA DequeuedQueue ==
  ASSUME NEW S, NEW q \in Seq(S), q # <<>>
  PROVE  /\ Head(q) \in S /\ Tail(q) \in Seq(S)
         /\ Head(q) = q[1] /\ 1 \in DOMAIN q
         /\ Len(Tail(q)) = Len(q) - 1
         /\ DOMAIN Tail(q) = 1 .. Len(q) - 1
         /\ DOMAIN q = 1 .. Len(q) /\ Len(q) \in Nat \ {0}
         /\ \A i \in 1 .. Len(q) - 1 : Tail(q)[i] = q[i + 1]
  BY HeadTailProperties, LenProperties, EmptySeq

\* Threads are finite in number, so they can be counted.
LEMMA ThreadsFinite ==
  /\ IsFiniteSet(Awake) /\ Cardinality(Awake) \in Nat
  /\ IsFiniteSet(Notifiers) /\ Cardinality(Notifiers) \in Nat
  /\ IsFiniteSet(Leavers) /\ Cardinality(Leavers) \in Nat
  /\ Cardinality(Leavers) <= Cardinality(Workers)
  /\ Cardinality(Leavers) = Cardinality(Workers) => Leavers = Workers
  /\ Cardinality(Workers) \in Nat \ {0}
  <1>1. IsFiniteSet(Workers) /\ IsFiniteSet(Callers) /\ Workers # {}
    BY SchedulerAssumption DEF SchedulerAssumption
  <1>2. IsFiniteSet(Workers \cup Callers)
    BY <1>1, FS_Union
  <1>3. /\ Awake \in SUBSET Workers /\ Leavers \in SUBSET Workers
        /\ Notifiers \in SUBSET (Workers \cup Callers)
    BY DEF Awake, Leavers, Notifiers
  <1>4. IsFiniteSet(Awake) /\ IsFiniteSet(Leavers) /\ IsFiniteSet(Notifiers)
    BY <1>1, <1>2, <1>3, FS_Subset
  <1>5. /\ Cardinality(Leavers) <= Cardinality(Workers)
        /\ Cardinality(Leavers) = Cardinality(Workers) => Leavers = Workers
    BY <1>1, <1>3, FS_Subset
  <1>6. Cardinality(Workers) \in Nat \ {0}
    BY <1>1, FS_CardinalityType, FS_EmptySet
  <1> QED
    BY <1>4, <1>5, <1>6, FS_CardinalityType

\* How a counted set changes when a member comes.
LEMMA CountAdd ==
  ASSUME NEW S, NEW x, IsFiniteSet(S), x \notin S
  PROVE  Cardinality(S \cup {x}) = Cardinality(S) + 1
  BY FS_AddElement

\* And when one member goes.
LEMMA CountRemove ==
  ASSUME NEW S, NEW x, IsFiniteSet(S), x \in S
  PROVE  Cardinality(S \ {x}) = Cardinality(S) - 1
  BY FS_RemoveElement

\* A started scheduler: an empty queue and workers on their way to it.
LEMMA InitInv == Init => Inv
  <1> SUFFICES ASSUME Init PROVE Inv
    OBVIOUS
  <1>1. TypeOK
    BY ThreadsFinite DEF Init, TypeOK
  <1>2. NodeOK /\ HelperOK
    BY SchedulerAssumption DEF Init, NodeOK, HelperOK, NotQueued, NotRun,
       SchedulerAssumption
  <1>3. LeaversOK
    BY DEF Init, LeaversOK, Leavers
  <1>4. WorkConserving
    BY DEF Init, WorkConserving
  <1> QED
    BY <1>1, <1>2, <1>3, <1>4 DEF Inv

-----------------------------------------------------------------------------
(* One lemma per part of the invariant.                                    *)

\* The queue is left alone, grows at its back, loses its head or is cleared.
LEMMA NextTypes == Inv /\ [Next]_vars => (TypeOK /\ NodeOK)'
  <1> SUFFICES ASSUME Inv, [Next]_vars PROVE (TypeOK /\ NodeOK)'
    OBVIOUS
  <1> USE DEF Inv
  <1>a. NoJob \notin Jobs \cup {Helper}
    BY SchedulerAssumption DEF SchedulerAssumption
  <1>b. queue \in Seq(Jobs \cup {Helper}) /\ worker \in [Workers -> Places]
    BY DEF TypeOK, Places
  <1>c. ASSUME NEW ws \in [Workers -> Places], worker' \in Notified(ws), node' = node,
               \A w \in Workers : node[w] # NoJob <=> ws[w] = "run"
        PROVE  worker' \in [Workers -> Places] /\ NodeOK'
    <2>1. CASE worker' = ws
      BY <1>c, <2>1 DEF NodeOK
    <2>2. ASSUME NEW w \in Workers, ws[w] = "asleep", worker' = [ws EXCEPT ![w] = "dequeue"]
          PROVE  worker' \in [Workers -> Places] /\ NodeOK'
      BY <1>c, <2>2 DEF NodeOK, Places
    <2> QED
      BY <1>c, <2>1, <2>2, NotifiedOne
  <1>1. ASSUME NEW c \in Callers, Enqueue(c) PROVE (TypeOK /\ NodeOK)'
    <2>1. queue' \in Seq(Jobs \cup {Helper})
      BY <1>1, <1>b, AppendedQueue DEF Enqueue
    <2> QED
      BY <1>1, <2>1 DEF Enqueue, stopVars, TypeOK, NodeOK, StillToNotify
  <1>2. ASSUME NEW c \in Callers, EnqueueNotify(c) PROVE (TypeOK /\ NodeOK)'
    BY <1>2, <1>b, <1>c DEF EnqueueNotify, stopVars, TypeOK, NodeOK, Places
  <1>3. ASSUME NEW w \in Workers, Dequeue(w) PROVE (TypeOK /\ NodeOK)'
    <2>1. CASE queue = <<>>
      BY <1>3, <2>1 DEF Dequeue, stopVars, TypeOK, NodeOK
    <2>2. CASE queue # <<>>
      <3>1. Head(queue) \in Jobs \cup {Helper} /\ Tail(queue) \in Seq(Jobs \cup {Helper})
        BY <1>b, <2>2, DequeuedQueue
      <3> QED
        BY <1>3, <1>a, <2>2, <3>1 DEF Dequeue, stopVars, TypeOK, NodeOK
    <2> QED
      BY <2>1, <2>2
  <1>4. ASSUME NEW w \in Workers, SpuriousWakeup(w) PROVE (TypeOK /\ NodeOK)'
    BY <1>4 DEF SpuriousWakeup, stopVars, TypeOK, NodeOK
  <1>5. ASSUME NEW w \in Workers, ResumeJobLater(w) PROVE (TypeOK /\ NodeOK)'
    <2>1. queue' \in Seq(Jobs \cup {Helper})
      BY <1>5, <1>b, AppendedQueue DEF ResumeJobLater, AtBack
    <2> QED
      BY <1>5, <2>1 DEF ResumeJobLater, stopVars, TypeOK, NodeOK, StillToNotify
  <1>6. ASSUME NEW w \in Workers, ResumeNotify(w) PROVE (TypeOK /\ NodeOK)'
    <2>1. [worker EXCEPT ![w] = "dequeue"] \in [Workers -> Places]
      BY <1>b DEF Places
    <2>2. \A v \in Workers : node[v] # NoJob <=> [worker EXCEPT ![w] = "dequeue"][v] = "run"
      BY <1>6, <1>b DEF ResumeNotify, NodeOK
    <2>3. worker' \in [Workers -> Places] /\ NodeOK'
      BY <1>6, <1>c, <2>1, <2>2 DEF ResumeNotify
    <2> QED
      BY <1>6, <2>3 DEF ResumeNotify, stopVars, TypeOK, Places
  <1>7. ASSUME NEW w \in Workers, DropNode(w) PROVE (TypeOK /\ NodeOK)'
    BY <1>7 DEF DropNode, stopVars, TypeOK, NodeOK
  <1>8. ASSUME NEW w \in Workers, RunHelper(w) PROVE (TypeOK /\ NodeOK)'
    <2>1. completed = 0
      BY <1>8 DEF RunHelper, HelperOK, NotRun
    <2> QED
      BY <1>8, <2>1 DEF RunHelper, TypeOK, NodeOK, LeavesLoop
  <1>9. ASSUME NEW w \in Workers, LeaveRun(w) PROVE (TypeOK /\ NodeOK)'
    BY <1>9 DEF LeaveRun, stopVars, TypeOK, NodeOK
  <1>10. CASE StopBegin
    BY <1>10, ThreadsFinite DEF StopBegin, TypeOK, NodeOK
  <1>11. CASE StopPush
    <2>1. queue' \in Seq(Jobs \cup {Helper})
      BY <1>11, <1>b, AppendedQueue DEF StopPush, AtBack
    <2> QED
      BY <1>11, <2>1 DEF StopPush, TypeOK, NodeOK, StillToNotify
  <1>12. CASE StopNotify
    BY <1>12, <1>b, <1>c DEF StopNotify, TypeOK, NodeOK, Places
  <1>13. CASE StopWait
    <2>1. alive - 1 \in 0 .. Cardinality(Workers)
      BY <1>13, ThreadsFinite DEF StopWait, TypeOK, LeaversOK
    <2>2. completed - 1 \in 0 .. 1
      BY <1>13 DEF StopWait, TypeOK
    <2> QED
      BY <1>13, <2>1, <2>2 DEF StopWait, CountTaken, TypeOK, NodeOK
  <1>14. CASE StopJoin
    BY <1>14 DEF StopJoin, TypeOK, NodeOK
  <1>15. CASE StopClear
    <2>1. <<>> \in Seq(Jobs \cup {Helper})
      BY EmptySeq
    <2> QED
      BY <1>15, <2>1 DEF StopClear, TypeOK, NodeOK
  <1>16. CASE UNCHANGED vars
    BY <1>16 DEF vars, TypeOK, NodeOK
  <1> QED
    BY <1>1, <1>2, <1>3, <1>4, <1>5, <1>6, <1>7, <1>8, <1>9, <1>10, <1>11, <1>12, <1>13,
       <1>14, <1>15, <1>16 DEF Next, Run, Stopping

\* The helper stays in one place at a time: only stop() queues one, when none is
\* out, and a worker that dequeues or answers it moves it on.
LEMMA NextHelper == Inv /\ [Next]_vars => HelperOK'
  <1> SUFFICES ASSUME Inv, [Next]_vars PROVE HelperOK'
    OBVIOUS
  <1> USE DEF Inv, QueuedAt, NotQueued, NotRun
  <1>a. NoJob \notin Jobs \cup {Helper} /\ Helper \notin Jobs
    BY SchedulerAssumption DEF SchedulerAssumption
  <1>b. queue \in Seq(Jobs \cup {Helper}) /\ node \in [Workers -> Jobs \cup {Helper, NoJob}]
    BY DEF TypeOK
  <1>c. ASSUME NEW j \in Jobs, queue' = Append(queue, j), node' = node \/
                 (\E w \in Workers : node[w] \in Jobs /\ node' = [node EXCEPT ![w] = NoJob]),
               UNCHANGED <<stop, completed>>
        PROVE  HelperOK'
    <2>1. /\ DOMAIN queue' = 1 .. Len(queue) + 1 /\ DOMAIN queue = 1 .. Len(queue)
          /\ Len(queue) \in Nat
          /\ \A i \in 1 .. Len(queue) : queue'[i] = queue[i]
          /\ queue'[Len(queue) + 1] # Helper
      BY <1>a, <1>b, <1>c, AppendedQueue
    <2>2. \A i \in DOMAIN queue' : queue'[i] = Helper => i \in DOMAIN queue /\ queue[i] = Helper
      BY <2>1
    <2>3. \A i \in DOMAIN queue : queue[i] = Helper => i \in DOMAIN queue' /\ queue'[i] = Helper
      BY <2>1
    <2>4. \A w \in Workers : node'[w] = Helper <=> node[w] = Helper
      BY <1>a, <1>b, <1>c
    <2> HIDE DEF Inv
    <2>5. HelperOK
      BY DEF Inv
    <2> QED
      BY <1>c, <2>2, <2>3, <2>4, <2>5 DEF HelperOK
  <1>d. ASSUME UNCHANGED <<queue, stop, completed>>,
               node' = node \/
                 (\E w \in Workers : node[w] \in Jobs /\ node' = [node EXCEPT ![w] = NoJob])
        PROVE  HelperOK'
    <2>1. \A w \in Workers : node'[w] = Helper <=> node[w] = Helper
      BY <1>a, <1>b, <1>d
    <2> QED
      BY <1>d, <2>1 DEF HelperOK
  <1>1. ASSUME NEW c \in Callers, Enqueue(c) PROVE HelperOK'
    BY <1>1, <1>c DEF Enqueue, stopVars
  <1>2. ASSUME NEW c \in Callers, EnqueueNotify(c) PROVE HelperOK'
    BY <1>2, <1>d DEF EnqueueNotify, stopVars
  <1>3. ASSUME NEW w \in Workers, Dequeue(w) PROVE HelperOK'
    <2>1. CASE queue = <<>>
      BY <1>3, <1>d, <2>1 DEF Dequeue, stopVars
    <2>2. CASE queue # <<>>
      <3>1. /\ Head(queue) = queue[1] /\ 1 \in DOMAIN queue
            /\ DOMAIN Tail(queue) = 1 .. Len(queue) - 1 /\ DOMAIN queue = 1 .. Len(queue)
            /\ Len(queue) \in Nat \ {0}
            /\ \A i \in 1 .. Len(queue) - 1 : Tail(queue)[i] = queue[i + 1]
        BY <1>b, <2>2, DequeuedQueue
      <3>2. /\ queue' = Tail(queue) /\ node' = [node EXCEPT ![w] = Head(queue)]
            /\ UNCHANGED <<stop, completed>>
        BY <1>3, <2>2 DEF Dequeue, stopVars
      <3>3. node[w] = NoJob
        BY <1>3 DEF Dequeue, NodeOK
      <3>4. CASE queue[1] = Helper
        <4>1. /\ stop \in {"notify", "wait"} /\ NotRun /\ completed = 0
              /\ \A i, j \in DOMAIN queue : QueuedAt(i) /\ QueuedAt(j) => i = j
          BY <3>1, <3>4 DEF HelperOK
        <4>2. \A i \in DOMAIN queue' : queue'[i] # Helper
          BY <3>1, <3>2, <3>4, <4>1
        <4>3. \A v \in Workers : node'[v] = Helper <=> v = w
          BY <1>b, <3>1, <3>2, <3>4, <4>1
        <4> QED
          BY <3>2, <4>1, <4>2, <4>3 DEF HelperOK
      <3>5. CASE queue[1] # Helper
        <4>1. \A v \in Workers : node'[v] = Helper <=> node[v] = Helper
          BY <1>a, <1>b, <3>1, <3>2, <3>3, <3>5
        <4>2. \A i \in DOMAIN queue' : i + 1 \in DOMAIN queue /\ queue'[i] = queue[i + 1] /\ i \in Nat
          BY <3>1, <3>2
        <4>3. \A i \in DOMAIN queue : queue[i] = Helper =>
                i - 1 \in DOMAIN queue' /\ queue'[i - 1] = Helper
          BY <3>1, <3>2, <3>5
        <4>4. CASE NotQueued
          <5>1. NotQueued'
            BY <4>2, <4>4
          <5> QED
            BY <3>2, <4>1, <4>4, <5>1 DEF HelperOK
        <4>5. CASE ~NotQueued
          <5>1. /\ stop \in {"notify", "wait"} /\ NotRun /\ completed = 0
                /\ \A i, j \in DOMAIN queue : QueuedAt(i) /\ QueuedAt(j) => i = j
                /\ \E i \in DOMAIN queue : QueuedAt(i)
            BY <4>5 DEF HelperOK
          <5>2. \E i \in DOMAIN queue' : queue'[i] = Helper
            BY <4>3, <5>1
          <5>3. ASSUME NEW i \in DOMAIN queue', NEW j \in DOMAIN queue',
                       queue'[i] = Helper, queue'[j] = Helper
                PROVE  i = j
            <6>1. i + 1 = j + 1 /\ i \in Nat /\ j \in Nat
              BY <4>2, <5>1, <5>3
            <6> QED
              BY <6>1
          <5>4. NotRun'
            BY <4>1, <5>1
          <5> QED
            BY <3>2, <5>1, <5>2, <5>3, <5>4 DEF HelperOK
        <4> QED
          BY <4>4, <4>5
      <3> QED
        BY <3>4, <3>5
    <2> QED
      BY <2>1, <2>2
  <1>4. ASSUME NEW w \in Workers, SpuriousWakeup(w) \/ ResumeNotify(w) \/ LeaveRun(w)
        PROVE  HelperOK'
    BY <1>4, <1>d DEF SpuriousWakeup, ResumeNotify, LeaveRun, stopVars
  <1>5. ASSUME NEW w \in Workers, ResumeJobLater(w) PROVE HelperOK'
    BY <1>5, <1>c DEF ResumeJobLater, AtBack, stopVars
  <1>6. ASSUME NEW w \in Workers, DropNode(w) PROVE HelperOK'
    BY <1>6, <1>d DEF DropNode, stopVars
  <1>7. ASSUME NEW w \in Workers, RunHelper(w) PROVE HelperOK'
    <2>1. /\ stop \in {"notify", "wait"} /\ NotQueued /\ completed = 0
          /\ \A v, u \in Workers : node[v] = Helper /\ node[u] = Helper => v = u
      BY <1>7 DEF RunHelper, HelperOK
    <2>2. NotRun' /\ NotQueued' /\ completed' = 1 /\ stop' = stop
      BY <1>7, <1>a, <1>b, <2>1 DEF RunHelper
    <2> QED
      BY <2>1, <2>2 DEF HelperOK
  <1>8. CASE StopBegin
    BY <1>8 DEF StopBegin, HelperOK
  <1>9. CASE StopPush
    <2>1. NotQueued /\ NotRun /\ completed = 0
      BY <1>9 DEF StopPush, HelperOK
    <2>2. /\ DOMAIN queue' = 1 .. Len(queue) + 1 /\ DOMAIN queue = 1 .. Len(queue)
          /\ Len(queue) \in Nat
          /\ \A i \in 1 .. Len(queue) : queue'[i] = queue[i]
          /\ queue'[Len(queue) + 1] = Helper
      BY <1>9, <1>b, AppendedQueue DEF StopPush, AtBack
    <2>3. \A i \in DOMAIN queue' : queue'[i] = Helper <=> i = Len(queue) + 1
      BY <2>1, <2>2
    <2>4. Len(queue) + 1 \in DOMAIN queue'
      BY <2>2
    <2>5. stop' = "notify" /\ NotRun' /\ completed' = 0
      BY <1>9, <2>1 DEF StopPush, StillToNotify
    <2> QED
      BY <2>3, <2>4, <2>5 DEF HelperOK
  <1>10. CASE StopNotify
    BY <1>10 DEF StopNotify, HelperOK
  <1>11. CASE StopWait
    BY <1>11 DEF StopWait, CountTaken, HelperOK, TypeOK
  <1>12. CASE StopJoin
    BY <1>12 DEF StopJoin, HelperOK
  <1>13. CASE StopClear
    BY <1>13 DEF StopClear, HelperOK
  <1>14. CASE UNCHANGED vars
    BY <1>14, <1>d DEF vars
  <1> QED
    BY <1>1, <1>2, <1>3, <1>4, <1>5, <1>6, <1>7, <1>8, <1>9, <1>10, <1>11, <1>12, <1>13,
       <1>14 DEF Next, Run, Stopping

\* A worker leaves its loop by answering a helper and in no other way, and a
\* notification never calls it back.
LEMMA NextLeavers == Inv /\ [Next]_vars => LeaversOK'
  <1> SUFFICES ASSUME Inv, [Next]_vars PROVE LeaversOK'
    OBVIOUS
  <1>t. TypeOK /\ NodeOK /\ HelperOK /\ LeaversOK
    BY DEF Inv
  <1>b. worker \in [Workers -> Places]
    BY <1>t DEF TypeOK, Places
  <1>n. /\ Cardinality(Leavers) \in Nat /\ Cardinality(Workers) \in Nat \ {0}
        /\ alive \in Nat /\ completed \in {0, 1}
    BY <1>t, ThreadsFinite DEF TypeOK
  <1>c. ASSUME Leavers' = Leavers, AllExited => AllExited', UNCHANGED stopVars
        PROVE  LeaversOK'
    BY <1>c, <1>t DEF LeaversOK, stopVars
  <1>d. ASSUME NEW ws \in [Workers -> Places], worker' \in Notified(ws)
        PROVE  /\ Leavers' = {w \in Workers : ws[w] \in {"leaving", "exited"}}
               /\ (\A w \in Workers : ws[w] = "exited") => AllExited'
    <2>1. CASE worker' = ws
      BY <2>1 DEF Leavers, AllExited
    <2>2. ASSUME NEW w \in Workers, ws[w] = "asleep", worker' = [ws EXCEPT ![w] = "dequeue"]
          PROVE  /\ Leavers' = {v \in Workers : ws[v] \in {"leaving", "exited"}}
                 /\ (\A v \in Workers : ws[v] = "exited") => AllExited'
      BY <2>2 DEF Leavers, AllExited
    <2> QED
      BY <1>d, <2>1, <2>2, NotifiedOne
  <1>1. ASSUME NEW c \in Callers, Enqueue(c) PROVE LeaversOK'
    BY <1>1, <1>c DEF Enqueue, Leavers, AllExited
  <1>2. ASSUME NEW c \in Callers, EnqueueNotify(c) PROVE LeaversOK'
    <2>1. Leavers' = Leavers /\ (AllExited => AllExited')
      BY <1>2, <1>b, <1>d DEF EnqueueNotify, Leavers, AllExited
    <2> QED
      BY <1>2, <1>c, <2>1 DEF EnqueueNotify
  <1>3. ASSUME NEW w \in Workers,
               Dequeue(w) \/ SpuriousWakeup(w) \/ ResumeJobLater(w) \/ DropNode(w)
        PROVE  LeaversOK'
    <2>1. /\ worker[w] \in {"dequeue", "asleep", "run"} /\ UNCHANGED stopVars
          /\ \E p \in {"dequeue", "asleep", "run", "notify"} :
               worker' = [worker EXCEPT ![w] = p]
      BY <1>3 DEF Dequeue, SpuriousWakeup, ResumeJobLater, DropNode, StillToNotify
    <2>2. Leavers' = Leavers /\ (AllExited => AllExited')
      BY <1>b, <2>1 DEF Leavers, AllExited
    <2> QED
      BY <1>c, <2>1, <2>2
  <1>4. ASSUME NEW w \in Workers, ResumeNotify(w) PROVE LeaversOK'
    <2> DEFINE ws == [worker EXCEPT ![w] = "dequeue"]
    <2>1. ws \in [Workers -> Places] /\ worker' \in Notified(ws)
      BY <1>4, <1>b DEF ResumeNotify, Places
    <2>2. Leavers' = {v \in Workers : ws[v] \in {"leaving", "exited"}}
      BY <1>d, <2>1
    <2>3. Leavers' = Leavers /\ ~AllExited
      BY <1>4, <1>b, <2>2 DEF ResumeNotify, Leavers, AllExited
    <2> QED
      BY <1>4, <1>c, <2>3 DEF ResumeNotify
  <1>5. ASSUME NEW w \in Workers, RunHelper(w) PROVE LeaversOK'
    <2>1. w \notin Leavers /\ Leavers' = Leavers \cup {w}
      BY <1>5, <1>b DEF RunHelper, Leavers, LeavesLoop
    <2>2. Cardinality(Leavers') = Cardinality(Leavers) + 1
      BY <2>1, CountAdd, ThreadsFinite
    <2>3. /\ completed = 0 /\ completed' = 1 /\ stop' = stop /\ alive' = alive
          /\ stop \in {"notify", "wait"}
      BY <1>5, <1>t DEF RunHelper, HelperOK, NotRun
    <2> QED
      BY <1>n, <1>t, <2>2, <2>3 DEF LeaversOK
  <1>6. ASSUME NEW w \in Workers, LeaveRun(w) PROVE LeaversOK'
    <2>1. Leavers' = Leavers /\ (AllExited => AllExited')
      BY <1>6, <1>b DEF LeaveRun, Leavers, AllExited
    <2> QED
      BY <1>6, <1>c, <2>1 DEF LeaveRun
  <1>7. CASE StopBegin
    <2>1. /\ Leavers' = {} /\ completed' = 0 /\ stop' = "push"
          /\ alive' = Cardinality(Workers)
      BY <1>7, <1>t DEF StopBegin, LeaversOK, HelperOK, Leavers
    <2> QED
      BY <1>n, <2>1, FS_EmptySet DEF LeaversOK
  <1>8. CASE StopPush
    BY <1>8, <1>t DEF StopPush, LeaversOK, StillToNotify, Leavers
  <1>9. CASE StopNotify
    <2>1. Leavers' = Leavers
      BY <1>9, <1>b, <1>d DEF StopNotify, Leavers
    <2> QED
      BY <1>9, <1>t, <2>1 DEF StopNotify, LeaversOK
  <1>10. CASE StopWait
    <2>1. /\ completed = 1 /\ completed' = 0 /\ alive' = alive - 1 /\ Leavers' = Leavers
          /\ stop = "wait" /\ stop' = IF alive = 1 THEN "join" ELSE "push"
      BY <1>10, <1>n DEF StopWait, CountTaken, Leavers
    <2> QED
      BY <1>n, <1>t, <2>1 DEF LeaversOK
  <1>11. CASE StopJoin
    BY <1>11, <1>t DEF StopJoin, LeaversOK, Leavers, AllExited
  <1>12. CASE StopClear
    BY <1>12, <1>t DEF StopClear, LeaversOK, Leavers, AllExited
  <1>13. CASE UNCHANGED vars
    BY <1>13, <1>c DEF vars, stopVars, Leavers, AllExited
  <1> QED
    BY <1>1, <1>2, <1>3, <1>4, <1>5, <1>6, <1>7, <1>8, <1>9, <1>10, <1>11, <1>12, <1>13
       DEF Next, Run, Stopping

Asleep == {w \in Workers : worker[w] = "asleep"}

\* The notification that stop() has still to give.
StopOwes == IF stop = "notify" THEN 1 ELSE 0

\* Whoever queues a node owes a notification, a notification pays with a worker
\* that is awake, and a worker goes to sleep over an empty queue only.
LEMMA NextConserving == Inv /\ [Next]_vars => WorkConserving'
  <1> SUFFICES ASSUME Inv, [Next]_vars, Asleep' # {}
               PROVE  Len(queue') <= Cardinality(Awake') + Cardinality(Notifiers') + StopOwes'
    BY DEF WorkConserving, Asleep, StopOwes
  <1> DEFINE Goal == Len(queue') <= Cardinality(Awake') + Cardinality(Notifiers') + StopOwes'
  <1>t. /\ queue \in Seq(Jobs \cup {Helper}) /\ worker \in [Workers -> Places]
        /\ caller \in [Callers -> {"idle", "notify"}]
    BY DEF Inv, TypeOK, Places
  <1>t1. queue' \in Seq(Jobs \cup {Helper})
    BY NextTypes DEF TypeOK
  <1>d. Callers \cap Workers = {}
    BY SchedulerAssumption DEF SchedulerAssumption
  <1>n. /\ Cardinality(Awake) \in Nat /\ IsFiniteSet(Awake)
        /\ Cardinality(Notifiers) \in Nat /\ IsFiniteSet(Notifiers)
        /\ StopOwes \in {0, 1} /\ Len(queue) \in Nat
    BY <1>t, ThreadsFinite, LenProperties DEF StopOwes
  <1>n1. /\ Cardinality(Awake') \in Nat /\ Cardinality(Notifiers') \in Nat
         /\ StopOwes' \in {0, 1} /\ Len(queue') \in Nat
    <2>1. (Cardinality(Awake) \in Nat /\ Cardinality(Notifiers) \in Nat)'
      BY ThreadsFinite, PTL
    <2> QED
      BY <2>1, <1>t1, LenProperties DEF StopOwes
  <1>w. Asleep # {} => Len(queue) <= Cardinality(Awake) + Cardinality(Notifiers) + StopOwes
    BY DEF Inv, WorkConserving, Asleep, StopOwes
  <1>a. ASSUME NEW ws \in [Workers -> Places], worker' \in Notified(ws)
        PROVE  /\ \E w \in Workers : ws[w] = "asleep"
               /\ {w \in Workers : worker'[w] = "notify"} = {w \in Workers : ws[w] = "notify"}
               /\ \E w \in Workers : /\ ws[w] = "asleep"
                                     /\ Awake' = {v \in Workers : ws[v] = "dequeue"} \cup {w}
    <2>1. CASE worker' = ws /\ \A w \in Workers : ws[w] # "asleep"
      BY <2>1 DEF Asleep
    <2>2. ASSUME NEW w \in Workers, ws[w] = "asleep", worker' = [ws EXCEPT ![w] = "dequeue"]
          PROVE  /\ {v \in Workers : worker'[v] = "notify"} = {v \in Workers : ws[v] = "notify"}
                 /\ Awake' = {v \in Workers : ws[v] = "dequeue"} \cup {w}
      BY <2>2 DEF Awake
    <2> QED
      BY <1>a, <2>1, <2>2, NotifiedOne
  <1>1. ASSUME NEW c \in Callers, Enqueue(c) PROVE Goal
    <2>1. Len(queue') = Len(queue) + 1 /\ StopOwes' = StopOwes
      BY <1>1, <1>t, AppendedQueue DEF Enqueue, stopVars, StopOwes
    <2>2. c \notin Notifiers /\ Notifiers' = Notifiers \cup {c}
      BY <1>1, <1>d, <1>t DEF Enqueue, Notifiers, StillToNotify
    <2>3. Asleep # {} /\ Awake' = Awake
      BY <1>1 DEF Enqueue, Asleep, Awake
    <2> QED
      BY <1>n, <1>n1, <1>w, <2>1, <2>2, <2>3, CountAdd, SMTT(30)
  <1>2. ASSUME NEW c \in Callers, EnqueueNotify(c) PROVE Goal
    <2>1. Len(queue') = Len(queue) /\ StopOwes' = StopOwes
      BY <1>2 DEF EnqueueNotify, stopVars, StopOwes
    <2>2. /\ {w \in Workers : worker'[w] = "notify"} = {w \in Workers : worker[w] = "notify"}
          /\ \E w \in Workers : worker[w] = "asleep" /\ Awake' = Awake \cup {w}
      BY <1>2, <1>a, <1>t DEF EnqueueNotify, Awake
    <2>3. c \in Notifiers /\ Notifiers' = Notifiers \ {c}
      BY <1>2, <1>d, <1>t, <2>2 DEF EnqueueNotify, Notifiers
    <2>4. PICK w \in Workers : worker[w] = "asleep" /\ Awake' = Awake \cup {w}
      BY <2>2
    <2>5. w \notin Awake /\ Asleep # {}
      BY <2>4 DEF Awake, Asleep
    <2> QED
      BY <1>n, <1>n1, <1>w, <2>1, <2>3, <2>4, <2>5, CountAdd, CountRemove, SMTT(30)
  <1>3. ASSUME NEW w \in Workers, Dequeue(w) PROVE Goal
    <2>1. CASE queue = <<>>
      <3>1. Len(queue') = 0
        BY <1>3, <2>1 DEF Dequeue
      <3> QED
        BY <1>n1, <3>1
    <2>2. CASE queue # <<>>
      <3>1. Len(queue') = Len(queue) - 1 /\ StopOwes' = StopOwes
        BY <1>3, <1>t, <2>2, DequeuedQueue DEF Dequeue, stopVars, StopOwes
      <3>2. w \in Awake /\ Awake' = Awake \ {w} /\ Notifiers' = Notifiers /\ Asleep # {}
        BY <1>3, <1>t, <2>2 DEF Dequeue, Awake, Notifiers, Asleep
      <3> QED
        BY <1>n, <1>n1, <1>w, <3>1, <3>2, CountRemove
    <2> QED
      BY <2>1, <2>2
  <1>4. ASSUME NEW w \in Workers, SpuriousWakeup(w) \/ DropNode(w) PROVE Goal
    <2>1. Len(queue') = Len(queue) /\ StopOwes' = StopOwes
      BY <1>4 DEF SpuriousWakeup, DropNode, stopVars, StopOwes
    <2>2. worker[w] \in {"asleep", "run"} /\ worker' = [worker EXCEPT ![w] = "dequeue"]
          /\ caller' = caller
      BY <1>4 DEF SpuriousWakeup, DropNode
    <2>3. w \notin Awake /\ Awake' = Awake \cup {w} /\ Notifiers' = Notifiers /\ Asleep # {}
      BY <1>t, <2>2 DEF Awake, Notifiers, Asleep
    <2> QED
      BY <1>n, <1>n1, <1>w, <2>1, <2>3, CountAdd
  <1>5. ASSUME NEW w \in Workers, ResumeJobLater(w) PROVE Goal
    <2>1. Len(queue') = Len(queue) + 1 /\ StopOwes' = StopOwes
      BY <1>5, <1>t, AppendedQueue DEF ResumeJobLater, AtBack, stopVars, StopOwes
    <2>2. w \notin Notifiers /\ Notifiers' = Notifiers \cup {w} /\ Awake' = Awake
          /\ Asleep # {}
      BY <1>5, <1>d, <1>t DEF ResumeJobLater, StillToNotify, Notifiers, Awake, Asleep
    <2> QED
      BY <1>n, <1>n1, <1>w, <2>1, <2>2, CountAdd
  <1>6. ASSUME NEW w \in Workers, ResumeNotify(w) PROVE Goal
    <2> DEFINE ws == [worker EXCEPT ![w] = "dequeue"]
    <2> DEFINE up == {v \in Workers : ws[v] = "dequeue"}
    <2>1. Len(queue') = Len(queue) /\ StopOwes' = StopOwes /\ caller' = caller
      BY <1>6 DEF ResumeNotify, stopVars, StopOwes
    <2>2. ws \in [Workers -> Places] /\ worker' \in Notified(ws) /\ worker[w] = "notify"
      BY <1>6, <1>t DEF ResumeNotify, Places
    <2>3. w \notin Awake /\ up = Awake \cup {w}
      BY <1>t, <2>2 DEF Awake
    <2>4. Cardinality(up) = Cardinality(Awake) + 1 /\ IsFiniteSet(up)
      BY <1>n, <2>3, CountAdd, FS_AddElement
    <2>5. {v \in Workers : worker'[v] = "notify"} = {v \in Workers : ws[v] = "notify"}
      BY <1>a, <2>2
    <2>6. PICK v \in Workers : ws[v] = "asleep" /\ Awake' = up \cup {v}
      BY <1>a, <2>2
    <2>7. v \notin up
      BY <2>6
    <2>8. Cardinality(Awake') = Cardinality(Awake) + 2
      BY <1>n, <2>4, <2>6, <2>7, CountAdd
    <2>9. w \in Notifiers /\ Notifiers' = Notifiers \ {w}
      BY <1>d, <1>t, <2>1, <2>2, <2>5 DEF Notifiers
    <2>10. Asleep # {}
      BY <1>t, <2>6 DEF Asleep
    <2> HIDE DEF ws, up
    <2> QED
      BY <1>n, <1>n1, <1>w, <2>1, <2>8, <2>9, <2>10, CountRemove, SMTT(30)
  <1>7. ASSUME NEW w \in Workers, RunHelper(w) \/ LeaveRun(w) PROVE Goal
    <2>1. Len(queue') = Len(queue) /\ StopOwes' = StopOwes
      BY <1>7 DEF RunHelper, LeaveRun, stopVars, StopOwes
    <2>2. Awake' = Awake /\ Notifiers' = Notifiers /\ Asleep # {}
      BY <1>7, <1>t DEF RunHelper, LeaveRun, LeavesLoop, Awake, Notifiers, Asleep
    <2> QED
      BY <1>w, <2>1, <2>2
  <1>8. CASE StopPush
    <2>1. Len(queue') = Len(queue) + 1 /\ StopOwes = 0 /\ StopOwes' = 1
      BY <1>8, <1>t, AppendedQueue DEF StopPush, AtBack, StillToNotify, StopOwes
    <2>2. Awake' = Awake /\ Notifiers' = Notifiers /\ Asleep # {}
      BY <1>8 DEF StopPush, Awake, Notifiers, Asleep
    <2> QED
      BY <1>n, <1>w, <2>1, <2>2
  <1>9. CASE StopNotify
    <2>1. Len(queue') = Len(queue) /\ StopOwes = 1 /\ StopOwes' = 0 /\ caller' = caller
      BY <1>9 DEF StopNotify, StopOwes
    <2>2. PICK w \in Workers : worker[w] = "asleep" /\ Awake' = Awake \cup {w}
      BY <1>9, <1>a, <1>t DEF StopNotify, Awake
    <2>3. w \notin Awake /\ Asleep # {}
      BY <2>2 DEF Awake, Asleep
    <2>4. {v \in Workers : worker'[v] = "notify"} = {v \in Workers : worker[v] = "notify"}
      BY <1>9, <1>a, <1>t DEF StopNotify
    <2>5. Notifiers' = Notifiers
      BY <2>1, <2>4 DEF Notifiers
    <2> QED
      BY <1>n, <1>w, <2>1, <2>2, <2>3, <2>5, CountAdd
  <1>10. CASE StopBegin \/ StopWait \/ StopJoin \/ UNCHANGED vars
    <2>1. Len(queue') = Len(queue) /\ StopOwes' = StopOwes
      BY <1>10 DEF StopBegin, StopWait, StopJoin, vars, StopOwes
    <2>2. Awake' = Awake /\ Notifiers' = Notifiers /\ Asleep # {}
      BY <1>10 DEF StopBegin, StopWait, StopJoin, vars, Awake, Notifiers, Asleep
    <2> QED
      BY <1>w, <2>1, <2>2
  <1>11. CASE StopClear
    <2>1. Len(queue') = 0
      BY <1>11 DEF StopClear
    <2> QED
      BY <1>n1, <2>1
  <1> QED
    BY <1>1, <1>2, <1>3, <1>4, <1>5, <1>6, <1>7, <1>8, <1>9, <1>10, <1>11
       DEF Next, Run, Stopping

-----------------------------------------------------------------------------
(* The theorems.                                                           *)

\* The parts of the invariant hold together in every reachable state.
THEOREM SchedulerInvariant == Spec => []Inv
  <1>1. Inv /\ [Next]_vars => Inv'
    BY NextTypes, NextHelper, NextLeavers, NextConserving DEF Inv
  <1> QED
    BY <1>1, InitInv, PTL DEF Spec

\* dequeue() and notify_one(): however many workers and callers there are, a
\* worker sleeps only while every queued node has another worker on its way to
\* dequeue() or a notification still to come, though spurious wakeups and
\* notifications that hit nobody are allowed.
THEOREM Conserving == Spec => []WorkConserving
  <1>1. Inv => WorkConserving
    BY DEF Inv
  <1> QED
    BY <1>1, SchedulerInvariant, PTL

\* stop(): it returns with every worker out of run(), its helper out of the
\* queue and no answer of the helper uncounted.
THEOREM Quiet == Spec => []StoppedQuiet
  <1>1. Inv => StoppedQuiet
    BY DEF Inv, StoppedQuiet, HelperOK, LeaversOK, NotQueued, AllExited
  <1> QED
    BY <1>1, SchedulerInvariant, PTL

\* Where the workers are when stop() has counted its last helper.
EveryoneLeaving ==
    stop = "join" => \A w \in Workers : worker[w] \in {"leaving", "exited"}

\* stop(), before the joins: as many helpers have been answered as there are
\* workers, and by as many different workers, so that no join waits for a worker
\* that will sleep in dequeue() for ever.
THEOREM JoinsEnd == Spec => []EveryoneLeaving
  <1>1. Inv => EveryoneLeaving
    <2> SUFFICES ASSUME Inv, stop = "join" PROVE Leavers = Workers
      BY DEF EveryoneLeaving, Leavers
    <2>1. alive = 0 /\ completed = 0 /\
          Cardinality(Leavers) + alive = Cardinality(Workers) + completed
      BY DEF Inv, LeaversOK, HelperOK
    <2> QED
      BY <2>1, ThreadsFinite
  <1> QED
    BY <1>1, SchedulerInvariant, PTL

=============================================================================
