---------------------------- MODULE PriorityFifo ----------------------------
(***************************************************************************)
(* What a mailbox promises: messages of one priority leave in the order in *)
(* which they came, each once, unless the reader gives one back in front,  *)
(* and close() discards the rest.  Between the priorities nothing is       *)
(* promised.                                                               *)
(***************************************************************************)
EXTENDS Sequences

CONSTANTS
    Nodes,      \* the messages
    Priorities  \* the lines they stand in

VARIABLES
    line,       \* for every priority, the waiting messages, oldest first
    open        \* whether messages are still taken

vars == <<line, open>>

Init ==
    /\ line = [p \in Priorities |-> <<>>]
    /\ open = TRUE

Push(n, p) ==
    /\ open
    /\ line' = [line EXCEPT ![p] = Append(@, n)]
    /\ UNCHANGED open

\* The reader gives a message back: it is the next to leave.
PushFront(n, p) ==
    /\ open
    /\ line' = [line EXCEPT ![p] = <<n>> \o @]
    /\ UNCHANGED open

Pop(p) ==
    /\ line[p] # <<>>
    /\ line' = [line EXCEPT ![p] = Tail(@)]
    /\ UNCHANGED open

Close ==
    /\ open
    /\ line' = [p \in Priorities |-> <<>>]
    /\ open' = FALSE

Next ==
    \/ \E n \in Nodes, p \in Priorities : Push(n, p) \/ PushFront(n, p)
    \/ \E p \in Priorities : Pop(p)
    \/ Close

Spec == Init /\ [][Next]_vars

=============================================================================
