----------------------------- MODULE LinkedList -----------------------------
(***************************************************************************)
(* linked_list<T>: the intrusive list behind the mailbox's two queues and  *)
(* the scheduler's, as operations on the next fields of all nodes.  The    *)
(* sentinels head_ and tail_ of a list q are nodes; tail_.next points back *)
(* at the last element, or at head_ when there is none.                    *)
(***************************************************************************)
EXTENDS Naturals, Sequences, FiniteSets

Head_(q) == <<q, "head">>
Tail_(q) == <<q, "tail">>

\* init(): an empty list.
Emptied(next, q) == [next EXCEPT ![Head_(q)] = Tail_(q), ![Tail_(q)] = Head_(q)]

before_end(next, q) == next[Tail_(q)]

PushedBack(next, q, n) ==
    [next EXCEPT ![before_end(next, q)] = n, ![Tail_(q)] = n, ![n] = Tail_(q)]

\* push_front() of an empty list is push_back().
PushedFront(next, q, n) ==
    IF next[Head_(q)] = Tail_(q)
      THEN PushedBack(next, q, n)
      ELSE [next EXCEPT ![n] = next[Head_(q)], ![Head_(q)] = n]

InsertedAfter(next, q, pos, n) ==
    [next EXCEPT ![n] = next[pos], ![pos] = n,
                 ![Tail_(q)] = IF next[pos] = Tail_(q) THEN n ELSE @]

\* pop_front() of a list that has `left` elements afterwards.
Popped(next, q, left) ==
    [next EXCEPT ![Head_(q)] = next[next[Head_(q)]],
                 ![Tail_(q)] = IF left = 0 THEN Head_(q) ELSE @]

\* The nodes of `within` on the way from `first` along next, at most `length`:
\* how drain(), and the walk over the inbox, see a list.
Walk(next, first, within, length) ==
    LET at[k \in 1 .. length] ==
            IF k = 1 THEN first
            ELSE IF at[k - 1] \in within THEN next[at[k - 1]] ELSE at[k - 1]
    IN  SubSeq(at, 1, Cardinality({k \in 1 .. length : at[k] \in within}))

=============================================================================
