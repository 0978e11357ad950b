---------------------------- MODULE MCAwaitChain ----------------------------
(* Chains of up to four coroutines, two of them under one caller, and two  *)
(* leaves: an inner coroutine that suspends before and while it is awaited.*)
EXTENDS AwaitChain, TLC

CONSTANTS m1, m2, l1, l2

TwoMethods == {m1, m2}
TwoLeaves == {l1, l2}

=============================================================================
