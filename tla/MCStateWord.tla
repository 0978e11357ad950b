---------------------------- MODULE MCStateWord -----------------------------
(* Two senders fill more than one bit of the count; two runners contend.   *)
EXTENDS StateWord, TLC

CONSTANTS s1, s2, r1, r2

TwoSenders == {s1, s2}
TwoRunners == {r1, r2}
Symmetry == Permutations(Senders) \cup Permutations(Runners)

=============================================================================
