--------------------------- MODULE ActorContract ---------------------------
(***************************************************************************)
(* What an actor promises those who send to it, with no threads, mailbox   *)
(* or state word: messages are run one at a time and each at most once; as *)
(* long as the actor is open every message is accepted and none is lost;   *)
(* from the moment its destruction begins messages may be refused or       *)
(* dropped, which cancels them; and when it is gone nothing is pending.    *)
(***************************************************************************)

CONSTANT Messages

VARIABLES
    fate,   \* what has become of each message
    phase   \* of the actor: open, closing, closed

vars == <<fate, phase>>

Init ==
    /\ fate = [m \in Messages |-> "unsent"]
    /\ phase = "open"

Become(m, from, to) ==
    /\ fate[m] = from
    /\ fate' = [fate EXCEPT ![m] = to]
    /\ UNCHANGED phase

Accept(m) == phase # "closed" /\ Become(m, "unsent", "accepted")

Refuse(m) == phase = "closing" /\ Become(m, "unsent", "cancelled")

\* A suspended message is still active: its behavior holds the actor.
Run(m) ==
    /\ phase # "closed"
    /\ \A n \in Messages : fate[n] # "active"
    /\ Become(m, "accepted", "active")

Finish(m) == phase # "closed" /\ Become(m, "active", "handled")

Drop(m) == phase = "closing" /\ Become(m, "accepted", "cancelled")

BeginClose ==
    /\ phase = "open"
    /\ phase' = "closing"
    /\ UNCHANGED fate

EndClose ==
    /\ phase = "closing"
    /\ phase' = "closed"
    /\ fate' = [m \in Messages |->
                  CASE fate[m] = "accepted" -> "cancelled"
                    [] fate[m] = "active"   -> "orphaned"
                    [] OTHER                -> fate[m]]

Next ==
    \/ \E m \in Messages :
         Accept(m) \/ Refuse(m) \/ Run(m) \/ Finish(m) \/ Drop(m)
    \/ BeginClose
    \/ EndClose

Spec == Init /\ [][Next]_vars

=============================================================================
