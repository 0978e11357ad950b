----------------------------- MODULE MCMailbox ------------------------------
(* Four addresses and two senders: a batch of two behind a cached message, *)
(* and an address that comes back while the other sender holds it as head. *)
EXTENDS Mailbox

CONSTANTS n1, n2, n3, n4, s1, s2

Addresses == {n1, n2, n3, n4}
Threads == {s1, s2}
Symmetry == Permutations(Addresses) \cup Permutations(Threads)

=============================================================================
