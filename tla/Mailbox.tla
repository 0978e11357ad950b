------------------------------ MODULE Mailbox -------------------------------
(***************************************************************************)
(* default_mailbox: the lock-free lifo_inbox that senders push to, and the *)
(* two linked lists its single reader moves the stack into, oldest first.  *)
(* A message is on one of the three through the same next field.           *)
(*                                                                         *)
(* A node is the address of a message: once a message has been handled its *)
(* address may come back as another one, while a sender still holds the    *)
(* old head of the stack.  Nothing here is counted, so sends never end.    *)
(* The reader is one thread at a time (RunnerExclusion of CooperativeActor)*)
(* and fetches from an inbox without the blocked tag (HolderUnparked).     *)
(***************************************************************************)
EXTENDS LinkedList, SequencesExt

CONSTANTS
    Nodes,      \* addresses messages are allocated at
    Senders,    \* threads that send
    Null        \* a null pointer

Tags == {"empty", "blocked", "closed"}

Queues == {"urgent", "normal"}

Sentinels == {Head_(q) : q \in Queues} \cup {Tail_(q) : q \in Queues}

ASSUME NodesAssumption ==
    /\ IsFiniteSet(Nodes)
    /\ Nodes \cap Tags = {} /\ Nodes \cap Sentinels = {}
    /\ Null \notin Nodes /\ Null \notin Tags /\ Null \notin Sentinels

VARIABLES
    stack,      \* lifo_inbox::stack_: the last node pushed, or a tag
    next,       \* the next field of a message, and of a queue's sentinels
    size,       \* size_ of urgent_queue_ and of normal_queue_
    high,       \* the messages with is_high_priority()
    free,       \* the addresses that hold no message
    node,       \* new_element: what a sender is pushing
    last        \* last_element: the head a sender has seen

vars == <<stack, next, size, high, free, node, last>>

TypeOK ==
    /\ stack \in Nodes \cup Tags
    /\ next \in [Nodes \cup Sentinels -> Nodes \cup Sentinels \cup {Null}]
    /\ size \in [Queues -> 0 .. Cardinality(Nodes)]
    /\ high \in SUBSET Nodes
    /\ free \in SUBSET Nodes
    /\ node \in [Senders -> Nodes \cup {Null}]
    /\ last \in [Senders -> Nodes \cup Tags \cup {Null}]

\* An actor's constructor blocks the inbox at once.
Init ==
    /\ stack = "blocked"
    /\ next = LET none == [n \in Nodes \cup Sentinels |-> Null]
              IN  Emptied(Emptied(none, "urgent"), "normal")
    /\ size = [q \in Queues |-> 0]
    /\ high = {}
    /\ free = Nodes
    /\ node = [s \in Senders |-> Null]
    /\ last = [s \in Senders |-> Null]

\* Messages are deleted; what was in them is forgotten.
Deleted(links, gone) ==
    /\ free' = free \cup gone
    /\ high' = high \ gone
    /\ next' = [n \in DOMAIN links |-> IF n \in gone THEN Null ELSE links[n]]

-----------------------------------------------------------------------------
(* push_back(), which is lifo_inbox::push_front().                         *)

\* A message is allocated.
MakeMessage(s) ==
    /\ node[s] = Null
    /\ \E n \in free, h \in BOOLEAN :
         /\ node' = [node EXCEPT ![s] = n]
         /\ high' = IF h THEN high \cup {n} ELSE high
         /\ free' = free \ {n}
    /\ UNCHANGED <<stack, next, size, last>>

\* stack_.load().
LoadHead(s) ==
    /\ node[s] # Null
    /\ last[s] = Null
    /\ last' = [last EXCEPT ![s] = stack]
    /\ UNCHANGED <<stack, next, size, high, free, node>>

\* Wrong: the head is stored, not compared and exchanged.
HeadIgnored(s) == TRUE

HeadUnchanged(s) == stack = last[s]

\* The empty tag is the null pointer; the blocked tag is replaced by it.
LinkedTo(s) == IF last[s] \in Nodes THEN last[s] ELSE Null

\* new_element->next = last_element, and the compare-exchange; a failed one
\* has loaded the head again.
TryPush(s) ==
    /\ last[s] \in Nodes \cup {"empty", "blocked"}
    /\ next' = [next EXCEPT ![node[s]] = LinkedTo(s)]
    /\ \/ /\ HeadUnchanged(s)
          /\ stack' = node[s]
          /\ node' = [node EXCEPT ![s] = Null]
          /\ last' = [last EXCEPT ![s] = Null]
       \/ /\ ~HeadUnchanged(s)
          /\ last' = [last EXCEPT ![s] = stack]
          /\ UNCHANGED <<stack, node>>
    /\ UNCHANGED <<size, high, free>>

\* queue_closed: the message is deleted.
PushClosed(s) ==
    /\ last[s] = "closed"
    /\ Deleted(next, {node[s]})
    /\ node' = [node EXCEPT ![s] = Null]
    /\ last' = [last EXCEPT ![s] = Null]
    /\ UNCHANGED <<stack, size>>

-----------------------------------------------------------------------------
(* The reader.                                                             *)

Queue(n) == IF n \in high THEN "urgent" ELSE "normal"

\* The list that starts at the head of the stack, newest first.
Chain == Walk(next, stack, Nodes, Cardinality(Nodes))

\* The messages of a queue from head_ to tail_.
Cached(q) == Walk(next, next[Head_(q)], Nodes, Cardinality(Nodes))

\* Wrong: every message goes in behind the one before it, newest first.
FetchedUnreversed ==
    LET moved[k \in 0 .. Len(Chain)] ==
            IF k = 0 THEN next
            ELSE LET q == Queue(Chain[k])
                 IN  InsertedAfter(moved[k - 1], q, before_end(moved[k - 1], q), Chain[k])
    IN  moved[Len(Chain)]

\* fetch_more(): every node of the stack goes in right behind what was the
\* last node of its queue, so that the batch comes out reversed.
Fetched ==
    LET moved[k \in 0 .. Len(Chain)] ==
            IF k = 0 THEN next
            ELSE LET q == Queue(Chain[k])
                 IN  InsertedAfter(moved[k - 1], q, before_end(next, q), Chain[k])
    IN  moved[Len(Chain)]

SizeFetched ==
    [q \in Queues |-> size[q] + Cardinality({n \in Range(Chain) : Queue(n) = q})]

\* take_head(): the whole list at once.
TakeHead == stack' = IF stack \in Nodes THEN "empty" ELSE stack

\* The reader runs, with the blocked tag down, until close().
Reading == stack \notin {"blocked", "closed"}

\* size(), and empty() with it, fetches whatever is cached already.
Size ==
    /\ Reading
    /\ TakeHead
    /\ next' = Fetched
    /\ size' = SizeFetched
    /\ UNCHANGED <<high, free, node, last>>

cached == size["urgent"] + size["normal"]

\* The first urgent message leaves its queue, or the first normal one, is
\* handled and its address freed.
PopFrom(links, sizes) ==
    LET q == IF sizes["urgent"] # 0 THEN "urgent" ELSE "normal"
    IN  /\ size' = [sizes EXCEPT ![q] = @ - 1]
        /\ Deleted(Popped(links, q, sizes[q] - 1), {links[Head_(q)]})

\* pop_front() when something is cached, and when it has to fetch first.
PopFront ==
    /\ Reading
    /\ \/ cached # 0 /\ PopFrom(next, size) /\ UNCHANGED stack
       \/ cached = 0 /\ stack \in Nodes /\ TakeHead /\ PopFrom(Fetched, SizeFetched)
    /\ UNCHANGED <<node, last>>

\* push_front_impl(): the reader puts a message in front of its queue.  An
\* operation of default_mailbox_impl that no other part of the library calls.
PushFront ==
    /\ Reading
    /\ \E n \in free, q \in Queues :
         /\ next' = PushedFront(next, q, n)
         /\ size' = [size EXCEPT ![q] = @ + 1]
         /\ high' = IF q = "urgent" THEN high \cup {n} ELSE high
         /\ free' = free \ {n}
    /\ UNCHANGED <<stack, node, last>>

\* try_block() and try_unblock().
TryBlock ==
    /\ cached = 0
    /\ stack = "empty"
    /\ stack' = "blocked"
    /\ UNCHANGED <<next, size, high, free, node, last>>

TryUnblock ==
    /\ stack = "blocked"
    /\ stack' = "empty"
    /\ UNCHANGED <<next, size, high, free, node, last>>

\* close(): both queues are drained, then the stack is closed and walked.
Close ==
    /\ stack # "closed"
    /\ stack' = "closed"
    /\ Deleted(Emptied(Emptied(next, "urgent"), "normal"),
               Range(Cached("urgent")) \cup Range(Cached("normal")) \cup Range(Chain))
    /\ size' = [q \in Queues |-> 0]
    /\ UNCHANGED <<node, last>>

-----------------------------------------------------------------------------
Push(s) == MakeMessage(s) \/ LoadHead(s) \/ TryPush(s) \/ PushClosed(s)

Reader == Size \/ PopFront \/ PushFront \/ TryBlock \/ TryUnblock \/ Close

Next == (\E s \in Senders : Push(s)) \/ Reader

Spec == Init /\ [][Next]_vars

-----------------------------------------------------------------------------
(* Properties.                                                             *)

\* Following next from head_ ends in tail_ after size_ elements and tail_.next
\* is the last of them: what before_end(), empty() and pop_front()'s assertion
\* rely on, after any sequence of pushes, batches, pops and drains.
WellLinked ==
    \A q \in Queues :
        /\ Len(Cached(q)) = size[q]
        /\ next[Tail_(q)] = IF size[q] = 0 THEN Head_(q) ELSE Last(Cached(q))
        /\ next[next[Tail_(q)]] = Tail_(q)

\* Every address is in exactly one place: free, in a sender's hands, in one
\* of the queues or on the stack, and there once.  Nothing is lost, deleted
\* twice or linked twice, whatever stale head a sender's exchange succeeds on,
\* and the lists that say so are whole.
Accounted ==
    LET held == {node[s] : s \in Senders} \ {Null}
        in == Cached("urgent") \o Cached("normal") \o Chain
    IN  /\ WellLinked
        /\ IsInjective(in)
        /\ \A s1, s2 \in Senders : node[s1] = node[s2] /\ node[s1] # Null => s1 = s2
        /\ free \cup held \cup Range(in) = Nodes
        /\ free \cap held = {}
        /\ free \cap Range(in) = {}
        /\ held \cap Range(in) = {}

\* The messages on the stack that wait for a queue, oldest first.
Waiting(q) ==
    LET older[k \in 0 .. Len(Chain)] ==
            IF k = 0 THEN <<>>
            ELSE IF Queue(Chain[k]) = q THEN <<Chain[k]>> \o older[k - 1]
            ELSE older[k - 1]
    IN  older[Len(Chain)]

\* What the mailbox promises: first in, first out, for each priority.
Fifo == INSTANCE PriorityFifo WITH
    Priorities <- Queues,
    line <- [q \in Queues |-> Cached(q) \o Waiting(q)],
    open <- stack # "closed"

\* A push appends to its priority's line, a pop takes the oldest of one line,
\* a fetch is invisible: the stack's reversal and the two queues never
\* reorder, duplicate or drop messages of one priority.
ImplementsFifo == Fifo!Spec

=============================================================================
