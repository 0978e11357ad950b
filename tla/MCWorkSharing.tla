--------------------------- MODULE MCWorkSharing ----------------------------
(* Workers that contend for nodes and sleepers that lose them to others.   *)
EXTENDS WorkSharing

CONSTANTS w1, w2, w3, c1, c2, j1, j2, j3

ThreeWorkers == {w1, w2, w3}
TwoCallers == {c1, c2}
ThreeJobs == {j1, j2, j3}

=============================================================================
