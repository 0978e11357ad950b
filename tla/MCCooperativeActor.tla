------------------------- MODULE MCCooperativeActor -------------------------
(***************************************************************************)
(* The TLC instance of CooperativeActor.  Messages and runners are model   *)
(* values.                                                                 *)
(***************************************************************************)
EXTENDS CooperativeActor

\* A worker comes to its limit with a message left behind, a driver goes round
\* the loop, and comes to its limit with nothing left.
Throughput == [r \in Runners |-> IF r \in Drivers THEN 2 ELSE 1]

=============================================================================
