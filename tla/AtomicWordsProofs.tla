------------------------- MODULE AtomicWordsProofs --------------------------
(***************************************************************************)
(* Proofs about the two words of flags that threads coordinate on with     *)
(* compare-and-exchange loops: an actor's state_ (StateWord), for every    *)
(* number of senders the word has room for, every number of runners and    *)
(* every bound on the attempts; and flags_ of a shared state (SharedState):*)
(* who may free the block, what a consumer can see, and the one            *)
(* interleaving in which nobody frees it.                                  *)
(***************************************************************************)
EXTENDS StateWord, SharedState, FiniteSetTheorems, TLAPS

-----------------------------------------------------------------------------
(* The arithmetic of the word: each helper moves one field and leaves the  *)
(* others alone.                                                           *)

\* Two words have the same fields but perhaps the scheduled bit, the running
\* bit, the destroying bit.
SameButScheduled(s, t) ==
    /\ is_running(s) <=> is_running(t)
    /\ is_destroying(s) <=> is_destroying(t)
    /\ sender_count(s) = sender_count(t)

SameButRunning(s, t) ==
    /\ is_scheduled(s) <=> is_scheduled(t)
    /\ is_destroying(s) <=> is_destroying(t)
    /\ sender_count(s) = sender_count(t)

SameButDestroying(s, t) ==
    /\ is_scheduled(s) <=> is_scheduled(t)
    /\ is_running(s) <=> is_running(t)
    /\ sender_count(s) = sender_count(t)

SameFlags(s, t) ==
    /\ is_scheduled(s) <=> is_scheduled(t)
    /\ is_running(s) <=> is_running(t)
    /\ is_destroying(s) <=> is_destroying(t)

\* A number is a word exactly when its count has room in one.
LEMMA WordByCount ==
  ASSUME NEW s \in Nat
  PROVE  s \in Word <=> sender_count(s) < WordSize \div kSenderStep
  BY WordAssumption, SMT DEF WordAssumption, Word, sender_count, kSenderStep

\* set_scheduled() sets its bit and no other.
LEMMA SetScheduled ==
  ASSUME NEW s \in Word, NEW value \in BOOLEAN
  PROVE  /\ set_scheduled(s, value) \in Word
         /\ is_scheduled(set_scheduled(s, value)) <=> value
         /\ SameButScheduled(set_scheduled(s, value), s)
  <1>1. CASE value = is_scheduled(s)
    BY <1>1 DEF set_scheduled, SameButScheduled
  <1>2. CASE value /\ ~is_scheduled(s)
    <2>0. value # is_scheduled(s)
      BY <1>2 DEF is_scheduled
    <2>1. set_scheduled(s, value) = s + 1 /\ s \in Nat
      <3>1. set_scheduled(s, value) = s + 1
        BY <1>2, <2>0, Zenon DEF set_scheduled
      <3> QED
        BY <3>1 DEF Word
    <2>2. is_scheduled(s + 1) /\ SameButScheduled(s + 1, s)
      BY <1>2, <2>1, SMT DEF SameButScheduled, is_scheduled, is_running, is_destroying,
         sender_count, kSenderStep
    <2>3. s + 1 \in Word
      BY <2>1, <2>2, WordByCount DEF SameButScheduled
    <2> QED
      BY <1>2, <2>1, <2>2, <2>3, Zenon
  <1>3. CASE ~value /\ is_scheduled(s)
    <2>1. set_scheduled(s, value) = s - 1 /\ s \in Nat
      BY <1>3 DEF set_scheduled, is_scheduled, Word
    <2>2. s - 1 \in Nat /\ ~is_scheduled(s - 1) /\ SameButScheduled(s - 1, s)
      BY <1>3, <2>1, SMT DEF SameButScheduled, is_scheduled, is_running, is_destroying,
         sender_count, kSenderStep
    <2>3. s - 1 \in Word
      BY <2>1, <2>2, WordByCount DEF SameButScheduled
    <2> QED
      BY <1>3, <2>1, <2>2, <2>3, Zenon
  <1> QED
    BY <1>1, <1>2, <1>3 DEF is_scheduled

\* set_running() sets its bit and no other.
LEMMA SetRunning ==
  ASSUME NEW s \in Word, NEW value \in BOOLEAN
  PROVE  /\ set_running(s, value) \in Word
         /\ is_running(set_running(s, value)) <=> value
         /\ SameButRunning(set_running(s, value), s)
  <1>1. CASE value = is_running(s)
    BY <1>1 DEF set_running, SameButRunning
  <1>2. CASE value /\ ~is_running(s)
    <2>0. value # is_running(s)
      BY <1>2 DEF is_running
    <2>1. set_running(s, value) = s + 2 /\ s \in Nat
      <3>1. set_running(s, value) = s + 2
        BY <1>2, <2>0, Zenon DEF set_running
      <3> QED
        BY <3>1 DEF Word
    <2>2. is_running(s + 2) /\ SameButRunning(s + 2, s)
      BY <1>2, <2>1, SMT DEF SameButRunning, is_scheduled, is_running, is_destroying,
         sender_count, kSenderStep
    <2>3. s + 2 \in Word
      BY <2>1, <2>2, WordByCount DEF SameButRunning
    <2> QED
      BY <1>2, <2>1, <2>2, <2>3, Zenon
  <1>3. CASE ~value /\ is_running(s)
    <2>1. set_running(s, value) = s - 2 /\ s \in Nat
      BY <1>3 DEF set_running, is_running, Word
    <2>2. s - 2 \in Nat /\ ~is_running(s - 2) /\ SameButRunning(s - 2, s)
      BY <1>3, <2>1, SMT DEF SameButRunning, is_scheduled, is_running, is_destroying,
         sender_count, kSenderStep
    <2>3. s - 2 \in Word
      BY <2>1, <2>2, WordByCount DEF SameButRunning
    <2> QED
      BY <1>3, <2>1, <2>2, <2>3, Zenon
  <1> QED
    BY <1>1, <1>2, <1>3 DEF is_running

\* set_destroying() sets its bit and no other.
LEMMA SetDestroying ==
  ASSUME NEW s \in Word
  PROVE  /\ set_destroying(s) \in Word
         /\ is_destroying(set_destroying(s))
         /\ SameButDestroying(set_destroying(s), s)
  <1>1. CASE is_destroying(s)
    BY <1>1 DEF set_destroying, SameButDestroying
  <1>2. CASE ~is_destroying(s)
    <2>1. set_destroying(s) = s + 4 /\ s \in Nat
      BY <1>2 DEF set_destroying, Word
    <2>2. is_destroying(s + 4) /\ SameButDestroying(s + 4, s)
      BY <1>2, <2>1, SMT DEF SameButDestroying, is_scheduled, is_running, is_destroying,
         sender_count, kSenderStep
    <2> QED
      BY <2>1, <2>2, WordByCount DEF SameButDestroying
  <1> QED
    BY <1>1, <1>2

\* add_sender() counts one more and neither carries out of the word nor touches
\* a flag, if the count has room.
LEMMA AddSender ==
  ASSUME NEW s \in Word, sender_count(s) + 1 < WordSize \div kSenderStep
  PROVE  /\ add_sender(s) \in Word
         /\ sender_count(add_sender(s)) = sender_count(s) + 1
         /\ SameFlags(add_sender(s), s)
  <1>1. s \in Nat
    BY DEF Word
  <1>2. add_sender(s) = s + 8
    BY WordAssumption, SMT DEF WordAssumption, Word, add_sender, Wrap, sender_count,
       kSenderStep
  <1>3. sender_count(s + 8) = sender_count(s) + 1 /\ SameFlags(s + 8, s)
    BY <1>1, SMT DEF SameFlags, is_scheduled, is_running, is_destroying, sender_count,
       kSenderStep
  <1> QED
    BY <1>1, <1>2, <1>3, WordByCount

\* sub_sender() counts one less and neither borrows nor touches a flag, if there
\* is one to take away.
LEMMA SubSender ==
  ASSUME NEW s \in Word, sender_count(s) > 0
  PROVE  /\ sub_sender(s) \in Word
         /\ sender_count(sub_sender(s)) = sender_count(s) - 1
         /\ SameFlags(sub_sender(s), s)
  <1>1. s \in Nat
    BY DEF Word
  <1>2. sub_sender(s) = s - 8 /\ s - 8 \in Nat
    BY WordAssumption, SMT DEF WordAssumption, Word, sub_sender, Wrap, sender_count,
       kSenderStep
  <1>3. sender_count(s - 8) = sender_count(s) - 1 /\ SameFlags(s - 8, s)
    BY <1>1, <1>2, SMT DEF SameFlags, is_scheduled, is_running, is_destroying,
       sender_count, kSenderStep
  <1>4. s - 8 \in Word
    BY <1>2, WordAssumption, SMT DEF Word, WordAssumption
  <1> QED
    BY <1>2, <1>3, <1>4, Zenon

\* What the destructor leaves the word at.
LEMMA MakeState ==
  /\ make_state(FALSE, FALSE, TRUE) \in Nat
  /\ ~is_scheduled(make_state(FALSE, FALSE, TRUE))
  /\ ~is_running(make_state(FALSE, FALSE, TRUE))
  /\ is_destroying(make_state(FALSE, FALSE, TRUE))
  /\ sender_count(make_state(FALSE, FALSE, TRUE)) = 0
  <1>1. make_state(FALSE, FALSE, TRUE) = 4
    BY DEF make_state
  <1>2. ~is_scheduled(4) /\ ~is_running(4) /\ is_destroying(4) /\ sender_count(4) = 0 /\ 4 \in Nat
    BY SMT DEF is_scheduled, is_running, is_destroying, sender_count, kSenderStep
  <1> QED
    BY <1>1, <1>2, Zenon

-----------------------------------------------------------------------------
(* The invariant: what the fields say about where the threads are.         *)

\* Each thread is in its own part of the code.
PlacesOK ==
    /\ \A s \in Senders : pc[s] \in {"out", "gate", "pushing", "leave"}
    /\ \A r \in Runners : pc[r] \in {"out", "acquire", "inside", "release"}
    /\ pc[Owner] \in {"out", "publish", "draining", "terminal", "gone"}

\* The count is the number of senders past the gate.
CountOK == sender_count(word) = Cardinality(Registered)

\* `running` says whether someone is inside, and nobody is there with another.
RunningOK ==
    /\ is_running(word) <=> Holders # {}
    /\ \A r, q \in Holders : r = q

\* `destroying` says how far the destructor is, and no acquisition is under way
\* once it has begun.
OwnerOK ==
    /\ is_destroying(word) <=> pc[Owner] \in {"draining", "terminal", "gone"}
    /\ pc[Owner] # "out" => \A r \in Runners : pc[r] # "acquire"

\* What the resume guard has seen is the scheduled bit of the word it has loaded,
\* and that bit stays up in the word while it tries again.
SawOK ==
    \A r \in Runners :
        pc[r] = "release" =>
            /\ saw[r] <=> is_scheduled(current[r])
            /\ is_scheduled(current[r]) => is_scheduled(word)

Inv ==
    /\ TypeOK
    /\ PlacesOK
    /\ CountOK
    /\ RunningOK
    /\ OwnerOK
    /\ DrainSound
    /\ SawOK

\* The senders are finite, so those past the gate can be counted, and the word
\* has room for one more as long as one is not past it.
LEMMA RegisteredFinite ==
  /\ IsFiniteSet(Registered)
  /\ Cardinality(Registered) \in Nat
  /\ \A s \in Senders \ Registered : Cardinality(Registered) + 1 < WordSize \div kSenderStep
  <1>1. Registered \in SUBSET Senders /\ IsFiniteSet(Senders)
    BY WordAssumption DEF Registered, WordAssumption
  <1>2. IsFiniteSet(Registered) /\ Cardinality(Registered) \in Nat
    BY <1>1, FS_Subset, FS_CardinalityType
  <1>3. ASSUME NEW s \in Senders \ Registered
        PROVE  Cardinality(Registered) + 1 < WordSize \div kSenderStep
    <2>1. Registered \cup {s} \in SUBSET Senders
      BY <1>1, <1>3
    <2>2. Cardinality(Registered \cup {s}) = Cardinality(Registered) + 1
      BY <1>2, <1>3, FS_AddElement
    <2>3. Cardinality(Registered \cup {s}) <= Cardinality(Senders)
      BY <1>1, <2>1, FS_Subset
    <2>4. Cardinality(Senders) \in Nat
      BY <1>1, FS_CardinalityType
    <2>5. Cardinality(Senders) < WordSize \div kSenderStep /\ WordSize \in Nat
      BY WordAssumption DEF WordAssumption
    <2>6. WordSize \div kSenderStep \in Nat
      BY <2>5, SMT DEF kSenderStep
    <2> QED
      BY <1>2, <2>2, <2>3, <2>4, <2>5, <2>6
  <1> QED
    BY <1>2, <1>3

\* Zero is a word.
LEMMA ZeroWord == 0 \in Word /\ 0 \in 0 .. kMaxCasAttempts
  <1>1. IsFiniteSet(Senders) /\ Cardinality(Senders) \in Nat
    BY WordAssumption, FS_CardinalityType DEF WordAssumption
  <1> QED
    BY <1>1, WordAssumption, SMT DEF WordAssumption, Word, kSenderStep

\* A fresh word: all fields are zero and nobody is there.
LEMMA InitInv == Init => Inv
  <1> SUFFICES ASSUME Init PROVE Inv
    OBVIOUS
  <1>1. ~is_scheduled(0) /\ ~is_running(0) /\ ~is_destroying(0) /\ sender_count(0) = 0
    BY SMT DEF is_scheduled, is_running, is_destroying, sender_count, kSenderStep
  <1>3. TypeOK
    BY ZeroWord DEF Init, TypeOK
  <1>4. PlacesOK
    BY DEF Init, PlacesOK, Threads
  <1>5. Registered = {} /\ Holders = {}
    BY DEF Init, Registered, Holders, Threads
  <1>6. CountOK
    BY <1>1, <1>5, FS_EmptySet DEF Init, CountOK
  <1>7. RunningOK /\ DrainSound
    BY <1>1, <1>5 DEF Init, RunningOK, DrainSound, Threads
  <1>8. OwnerOK /\ SawOK
    BY <1>1 DEF Init, OwnerOK, SawOK, Threads
  <1> QED
    BY <1>3, <1>4, <1>6, <1>7, <1>8 DEF Inv

\* No step leaves the types or a thread's own part of the code: what is exchanged
\* is a word again.
LEMMA NextTypes == Inv /\ [Next]_vars => (TypeOK /\ PlacesOK)'
  <1> SUFFICES ASSUME Inv, [Next]_vars PROVE (TypeOK /\ PlacesOK)'
    OBVIOUS
  <1> USE DEF Inv
  <1> kMaxCasAttempts \in Nat
    BY WordAssumption DEF WordAssumption
  <1>a. /\ \A s \in Senders : s \in Threads /\ s \notin Runners /\ s # Owner
        /\ \A r \in Runners : r \in Threads /\ r \notin Senders /\ r # Owner
        /\ Owner \in Threads /\ Owner \notin Senders /\ Owner \notin Runners
        /\ Threads = Senders \cup Runners \cup {Owner}
    BY WordAssumption DEF WordAssumption, Threads
  <1>b. ASSUME NEW t \in Threads, NEW from, NEW loop \in Loops, Enter(t, from, loop)
        PROVE  /\ word' \in Word /\ current' \in [Threads -> Word]
               /\ attempts' \in [Threads -> 0 .. kMaxCasAttempts] /\ aborted' \in BOOLEAN
               /\ pc' = [pc EXCEPT ![t] = loop]
    BY <1>b DEF Enter, TypeOK
  <1>c. ASSUME NEW t \in Threads, NEW loop, NEW desired, NEW then,
               Attempt(t, loop, desired, then), word = current[t] => desired \in Word
        PROVE  /\ word' \in Word /\ current' \in [Threads -> Word]
               /\ attempts' \in [Threads -> 0 .. kMaxCasAttempts] /\ aborted' \in BOOLEAN
               /\ pc[t] = loop
               /\ \/ pc' = [pc EXCEPT ![t] = then]
                  \/ pc' = pc
    <2>2. CASE word = current[t]
      BY <1>c, <2>2, ZeroWord DEF Attempt, TypeOK
    <2>3. CASE word # current[t]
      <3>1. attempts[t] + 1 \in 0 .. kMaxCasAttempts
        BY <1>c DEF Attempt, OutOfAttempts, TypeOK
      <3> QED
        BY <1>c, <2>3, <3>1 DEF Attempt, TypeOK
    <2> QED
      BY <2>2, <2>3
  <1>d. ASSUME NEW r \in Runners, NEW x \in {"out", "acquire", "inside", "release"},
               pc' = [pc EXCEPT ![r] = x]
        PROVE  PlacesOK' /\ pc' \in [Threads -> Loops \cup {"out", "pushing", "inside",
                                                           "draining", "gone"}]
    BY <1>d, <1>a DEF PlacesOK, TypeOK, Loops
  <1>e. ASSUME NEW x \in {"out", "publish", "draining", "terminal", "gone"},
               pc' = [pc EXCEPT ![Owner] = x]
        PROVE  PlacesOK' /\ pc' \in [Threads -> Loops \cup {"out", "pushing", "inside",
                                                           "draining", "gone"}]
    BY <1>e, <1>a DEF PlacesOK, TypeOK, Loops
  <1>1. ASSUME NEW s \in Senders, EnqueueImpl(s) PROVE (TypeOK /\ PlacesOK)'
    BY <1>1, <1>a, <1>b, ZenonT(40) DEF EnqueueImpl, Enter, TypeOK, PlacesOK, Loops
  <1>2. ASSUME NEW s \in Senders, Gate(s) PROVE (TypeOK /\ PlacesOK)'
    <2>1. CASE Refused(s)
      BY <1>2, <1>a, <2>1, ZeroWord DEF Gate, TypeOK, PlacesOK
    <2>2. CASE ~Refused(s)
      <3>1. Attempt(s, "gate", add_sender(current[s]), "pushing")
        BY <1>2, <2>2 DEF Gate
      <3>2. word = current[s] => add_sender(current[s]) \in Word
        <4> SUFFICES ASSUME word = current[s] PROVE add_sender(word) \in Word
          OBVIOUS
        <4>1. s \in Senders \ Registered
          BY <3>1 DEF Attempt, Registered
        <4> QED
          BY <4>1, AddSender, RegisteredFinite DEF CountOK, TypeOK
      <3>3. UNCHANGED <<unblocked, keep, saw>>
        BY <1>2 DEF Gate
      <3> QED
        BY <1>a, <1>c, <3>1, <3>2, <3>3 DEF TypeOK, PlacesOK
    <2> QED
      BY <2>1, <2>2
  <1>3. ASSUME NEW s \in Senders, PushBack(s) PROVE (TypeOK /\ PlacesOK)'
    <2>1. unblocked' \in [Senders -> BOOLEAN] /\ UNCHANGED <<keep, saw>>
      BY <1>3 DEF PushBack, TypeOK
    <2>2. Enter(s, "pushing", "leave") /\ "leave" \in Loops
      BY <1>3 DEF PushBack, Loops
    <2> QED
      BY <1>a, <1>b, <2>1, <2>2 DEF TypeOK, PlacesOK
  <1>4. ASSUME NEW s \in Senders, Leave(s) PROVE (TypeOK /\ PlacesOK)'
    <2> DEFINE claims == /\ unblocked[s]
                         /\ ~is_destroying(current[s])
                         /\ ~is_scheduled(current[s])
               left == sub_sender(current[s])
               desired == IF claims THEN set_scheduled(left, TRUE) ELSE left
    <2>1. Attempt(s, "leave", desired, "out")
      BY <1>4 DEF Leave
    <2>2. word = current[s] => desired \in Word
      <3> SUFFICES ASSUME word = current[s] PROVE desired \in Word
        OBVIOUS
      <3>1. s \in Registered
        BY <2>1 DEF Attempt, Registered
      <3>2. Cardinality(Registered) > 0
        BY <3>1, RegisteredFinite, FS_EmptySet
      <3>3. left \in Word
        BY <3>2, SubSender DEF CountOK, TypeOK
      <3> HIDE DEF left, claims
      <3> QED
        BY <3>3, SetScheduled
    <2>3. unblocked' \in [Senders -> BOOLEAN] /\ UNCHANGED <<keep, saw>>
      BY <1>4, Zenon DEF Leave, TypeOK
    <2> HIDE DEF desired
    <2> QED
      BY <1>a, <1>c, <2>1, <2>2, <2>3 DEF TypeOK, PlacesOK
  <1>5. ASSUME NEW r \in Runners, ResumeCall(r) PROVE (TypeOK /\ PlacesOK)'
    BY <1>5, <1>a, <1>b, <1>d DEF ResumeCall, Enter, TypeOK, Loops
  <1>6. ASSUME NEW r \in Runners, TryAcquireRunning(r) PROVE (TypeOK /\ PlacesOK)'
    <2>1. UNCHANGED <<unblocked, keep, saw>> /\ current[r] \in Word
      BY <1>6, <1>a DEF TryAcquireRunning, TypeOK
    <2>2. CASE is_running(current[r])
      <3>1. Attempt(r, "acquire", set_scheduled(current[r], TRUE), "out")
        BY <1>6, <2>2 DEF TryAcquireRunning
      <3>2. set_scheduled(current[r], TRUE) \in Word
        BY <2>1, SetScheduled
      <3> QED
        BY <1>a, <1>c, <1>d, <2>1, <3>1, <3>2 DEF TypeOK, PlacesOK
    <2>3. CASE ~is_running(current[r])
      <3>1. Attempt(r, "acquire",
                    set_scheduled(set_running(current[r], TRUE), FALSE), "inside")
        BY <1>6, <2>3 DEF TryAcquireRunning
      <3>2. set_scheduled(set_running(current[r], TRUE), FALSE) \in Word
        BY <2>1, SetScheduled, SetRunning
      <3> QED
        BY <1>a, <1>c, <1>d, <2>1, <3>1, <3>2, ZenonT(40) DEF TypeOK, PlacesOK
    <2> QED
      BY <2>2, <2>3
  <1>7. ASSUME NEW r \in Runners, ResumeImpl(r) PROVE (TypeOK /\ PlacesOK)'
    <2>1. Enter(r, "inside", "release") /\ "release" \in Loops /\ UNCHANGED unblocked
      BY <1>7 DEF ResumeImpl, Loops
    <2>2. is_scheduled(word) \in BOOLEAN
      BY DEF is_scheduled
    <2>3. keep' \in [Runners -> BOOLEAN] /\ saw' \in [Runners -> BOOLEAN]
      BY <1>7, <2>2, Zenon DEF ResumeImpl, TypeOK
    <2> QED
      BY <1>a, <1>b, <2>1, <2>3 DEF TypeOK, PlacesOK
  <1>8. ASSUME NEW r \in Runners, ResumeGuard(r) PROVE (TypeOK /\ PlacesOK)'
    <2> DEFINE kept == keep[r] \/ is_scheduled(current[r])
               desired == set_scheduled(set_running(current[r], FALSE), kept)
    <2>1. Attempt(r, "release", desired, "out") /\ UNCHANGED unblocked
      BY <1>8 DEF ResumeGuard
    <2>2. desired \in Word
      <3>1. set_running(current[r], FALSE) \in Word
        BY <1>a, SetRunning DEF TypeOK
      <3>2. kept \in BOOLEAN
        BY DEF is_scheduled
      <3> HIDE DEF kept
      <3> QED
        BY <3>1, <3>2, SetScheduled
    <2>3. keep' \in [Runners -> BOOLEAN] /\ saw' \in [Runners -> BOOLEAN]
      BY <1>8, Zenon DEF ResumeGuard, SawScheduled, TypeOK
    <2> HIDE DEF desired
    <2> QED
      BY <1>a, <1>c, <2>1, <2>2, <2>3 DEF TypeOK, PlacesOK
  <1>9. CASE Destroy
    BY <1>9, <1>a, <1>b DEF Destroy, Enter, TypeOK, PlacesOK, Loops
  <1>10. CASE Publish
    <2>1. Attempt(Owner, "publish", set_destroying(current[Owner]), "draining")
          /\ UNCHANGED <<unblocked, keep, saw>>
      BY <1>10 DEF Publish
    <2>2. set_destroying(current[Owner]) \in Word
      BY <1>a, SetDestroying DEF TypeOK
    <2> QED
      BY <1>a, <1>c, <1>e, <2>1, <2>2 DEF TypeOK, PlacesOK
  <1>11. CASE Drained
    BY <1>11, <1>a, <1>b DEF Drained, Enter, TypeOK, PlacesOK, Loops
  <1>12. CASE Terminal
    <2>1. Attempt(Owner, "terminal", make_state(FALSE, FALSE, TRUE), "gone")
          /\ UNCHANGED <<unblocked, keep, saw>>
      BY <1>12 DEF Terminal
    <2>2. make_state(FALSE, FALSE, TRUE) \in Word
      <3>1. IsFiniteSet(Senders) /\ Cardinality(Senders) \in Nat
        BY WordAssumption, FS_CardinalityType DEF WordAssumption
      <3>2. 0 < WordSize \div kSenderStep
        BY <3>1, WordAssumption, SMT DEF WordAssumption, kSenderStep
      <3> QED
        BY <3>2, MakeState, WordByCount
    <2> QED
      BY <1>a, <1>c, <1>e, <2>1, <2>2 DEF TypeOK, PlacesOK
  <1>13. ASSUME NEW t \in Threads, Abort(t) PROVE (TypeOK /\ PlacesOK)'
    BY <1>13 DEF Abort, TypeOK, PlacesOK
  <1>14. CASE UNCHANGED vars
    BY <1>14 DEF vars, TypeOK, PlacesOK
  <1> QED
    BY <1>1, <1>2, <1>3, <1>4, <1>5, <1>6, <1>7, <1>8, <1>9, <1>10, <1>11, <1>12, <1>13,
       <1>14 DEF Next

\* The part of the invariant that ties the fields to the threads.
FieldsOK == CountOK /\ RunningOK /\ OwnerOK /\ DrainSound /\ SawOK

\* A step that leaves the word alone, moves nobody past the gate, into or out of
\* the actor, or the destructor past its drain, keeps the fields true.
LEMMA WordUnmoved ==
  ASSUME Inv,
         word' = word, Registered' = Registered, Holders' = Holders,
         pc'[Owner] = pc[Owner] \/ (pc[Owner] = "out" /\ pc'[Owner] = "publish"),
         pc'[Owner] # "out" => \A r \in Runners : pc'[r] # "acquire",
         \A r \in Runners : pc'[r] = "release" =>
             /\ saw'[r] <=> is_scheduled(current'[r])
             /\ is_scheduled(current'[r]) => is_scheduled(word)
  PROVE  FieldsOK'
  <1>1. CountOK' /\ RunningOK'
    BY DEF Inv, CountOK, RunningOK
  <1>2. OwnerOK' /\ DrainSound'
    BY DEF Inv, OwnerOK, DrainSound
  <1>3. SawOK'
    BY DEF Inv, SawOK
  <1> QED
    BY <1>1, <1>2, <1>3 DEF FieldsOK

\* What AtomicOnRecord says of one step.
RecordStep ==
    word' # word =>
        /\ Decoded' \in Exchanges(Decoded)
        /\ is_destroying(word) =>
             is_destroying(word') /\ sender_count(word') <= sender_count(word)

\* The record of a word is moved field by field.
LEMMA DecodedMoves ==
  ASSUME NEW v, NEW w, is_scheduled(word') = v, is_running(word') = w,
         is_destroying(word') = is_destroying(word)
  PROVE  /\ sender_count(word') = sender_count(word) =>
              Decoded' = [Decoded EXCEPT !.running = w, !.scheduled = v]
         /\ sender_count(word') = sender_count(word) /\ w = is_running(word) =>
              Decoded' = [Decoded EXCEPT !.scheduled = v]
         /\ sender_count(word') = sender_count(word) /\ v = is_scheduled(word) =>
              Decoded' = [Decoded EXCEPT !.running = w]
         /\ sender_count(word') = sender_count(word) - 1 /\ w = is_running(word) =>
              Decoded' = [Decoded EXCEPT !.senders = @ - 1, !.scheduled = v]
         /\ sender_count(word') = sender_count(word) - 1 /\ w = is_running(word)
              /\ v = is_scheduled(word) => Decoded' = [Decoded EXCEPT !.senders = @ - 1]
  <1>1. Decoded' = [scheduled |-> v, running |-> w, destroying |-> is_destroying(word),
                    senders |-> sender_count(word')]
    BY DEF Decoded
  <1>2. [Decoded EXCEPT !.running = w, !.scheduled = v]
          = [scheduled |-> v, running |-> w, destroying |-> is_destroying(word),
             senders |-> sender_count(word)]
    <2>1. [Decoded EXCEPT !.running = w, !.scheduled = v]
            = [[Decoded EXCEPT !.running = w] EXCEPT !.scheduled = v]
      OBVIOUS
    <2>2. [Decoded EXCEPT !.running = w]
            = [scheduled |-> is_scheduled(word), running |-> w,
               destroying |-> is_destroying(word), senders |-> sender_count(word)]
      BY DEF Decoded
    <2>3. [[scheduled |-> is_scheduled(word), running |-> w,
            destroying |-> is_destroying(word), senders |-> sender_count(word)]
              EXCEPT !.scheduled = v]
            = [scheduled |-> v, running |-> w,
               destroying |-> is_destroying(word), senders |-> sender_count(word)]
      BY SMT
    <2> QED
      BY <2>1, <2>2, <2>3, Zenon
  <1>3. [Decoded EXCEPT !.scheduled = v]
          = [scheduled |-> v, running |-> is_running(word),
             destroying |-> is_destroying(word), senders |-> sender_count(word)]
    BY DEF Decoded
  <1>4. [Decoded EXCEPT !.running = w]
          = [scheduled |-> is_scheduled(word), running |-> w,
             destroying |-> is_destroying(word), senders |-> sender_count(word)]
    BY DEF Decoded
  <1>5. [Decoded EXCEPT !.senders = @ - 1, !.scheduled = v]
          = [scheduled |-> v, running |-> is_running(word),
             destroying |-> is_destroying(word), senders |-> sender_count(word) - 1]
    <2>1. [Decoded EXCEPT !.senders = @ - 1, !.scheduled = v]
            = [[Decoded EXCEPT !.senders = @ - 1] EXCEPT !.scheduled = v]
      OBVIOUS
    <2>2. [Decoded EXCEPT !.senders = @ - 1]
            = [scheduled |-> is_scheduled(word), running |-> is_running(word),
               destroying |-> is_destroying(word), senders |-> sender_count(word) - 1]
      BY DEF Decoded
    <2>3. [[scheduled |-> is_scheduled(word), running |-> is_running(word),
            destroying |-> is_destroying(word), senders |-> sender_count(word) - 1]
              EXCEPT !.scheduled = v]
            = [scheduled |-> v, running |-> is_running(word),
               destroying |-> is_destroying(word), senders |-> sender_count(word) - 1]
      BY SMT
    <2> QED
      BY <2>1, <2>2, <2>3, Zenon
  <1>6. [Decoded EXCEPT !.senders = @ - 1]
          = [scheduled |-> is_scheduled(word), running |-> is_running(word),
             destroying |-> is_destroying(word), senders |-> sender_count(word) - 1]
    BY DEF Decoded
  <1> QED
    BY <1>1, <1>2, <1>3, <1>4, <1>5, <1>6, Zenon

\* The three kinds of threads are distinct.
LEMMA Roles ==
  /\ \A s \in Senders : s \in Threads /\ s \notin Runners /\ s # Owner
  /\ \A r \in Runners : r \in Threads /\ r \notin Senders /\ r # Owner
  /\ Owner \in Threads /\ Owner \notin Senders /\ Owner \notin Runners
  BY WordAssumption DEF WordAssumption, Threads

\* A sender that is not past the gate moves nobody there by looking at the word.
LEMMA GateStep ==
  ASSUME Inv, NEW s \in Senders, EnqueueImpl(s) \/ Gate(s)
  PROVE  FieldsOK' /\ RecordStep
  <1> USE DEF Inv
  <1>0. pc \in [Threads -> Loops \cup {"out", "pushing", "inside", "draining", "gone"}]
    BY DEF TypeOK
  <1>a. /\ pc[s] \in {"out", "gate"} /\ saw' = saw
        /\ \A t \in Threads : t # s => pc'[t] = pc[t] /\ current'[t] = current[t]
    BY <1>0, Roles DEF EnqueueImpl, Gate, Enter, Attempt, TypeOK
  <1>b. /\ Holders' = Holders /\ pc'[Owner] = pc[Owner]
        /\ \A r \in Runners : pc'[r] = pc[r] /\ current'[r] = current[r] /\ saw'[r] = saw[r]
    BY <1>a, Roles DEF Holders
  <1>1. CASE ~(pc[s] = "gate" /\ pc'[s] = "pushing")
    <2>1. word' = word /\ pc'[s] \in {"out", "gate"}
      BY <1>0, <1>1, Roles DEF EnqueueImpl, Gate, Enter, Attempt
    <2>2. Registered' = Registered
      BY <1>a, <2>1, Roles DEF Registered
    <2>3. FieldsOK'
      BY <1>b, <2>1, <2>2, WordUnmoved DEF OwnerOK, SawOK
    <2> QED
      BY <2>1, <2>3 DEF RecordStep
  <1>2. CASE pc[s] = "gate" /\ pc'[s] = "pushing"
    <2>1. word = current[s] /\ ~is_destroying(word) /\ word' = add_sender(word)
      BY <1>0, <1>2, Roles DEF EnqueueImpl, Gate, Enter, Attempt, Refused, Loops
    <2>2. s \in Senders \ Registered /\ Registered' = Registered \cup {s}
      BY <1>a, <1>2, Roles DEF Registered
    <2>3. /\ sender_count(word') = sender_count(word) + 1
          /\ SameFlags(word', word)
      BY <2>1, <2>2, AddSender, RegisteredFinite DEF CountOK, TypeOK
    <2>4. CountOK'
      <3>1. Cardinality(Registered \cup {s}) = Cardinality(Registered) + 1
        BY <2>2, FS_AddElement, RegisteredFinite
      <3> QED
        BY <2>2, <2>3, <3>1 DEF CountOK
    <2>5. RunningOK' /\ OwnerOK' /\ DrainSound' /\ SawOK'
      BY <1>b, <2>1, <2>3 DEF SameFlags, RunningOK, OwnerOK, DrainSound, SawOK
    <2>6. Decoded' = [Decoded EXCEPT !.senders = @ + 1]
      <3>1. /\ is_scheduled(word') = is_scheduled(word)
            /\ is_running(word') = is_running(word)
            /\ is_destroying(word') = is_destroying(word)
        BY <2>3 DEF SameFlags, is_scheduled, is_running, is_destroying
      <3> QED
        BY <2>3, <3>1 DEF Decoded
    <2> QED
      BY <2>1, <2>4, <2>5, <2>6 DEF FieldsOK, RecordStep, Exchanges
  <1> QED
    BY <1>1, <1>2

\* A sender that leaves takes itself off the count, and perhaps raises
\* `scheduled`.
LEMMA LeaveStep ==
  ASSUME Inv, NEW s \in Senders, PushBack(s) \/ Leave(s)
  PROVE  FieldsOK' /\ RecordStep
  <1> USE DEF Inv
  <1> DEFINE claims == /\ unblocked[s]
                       /\ ~is_destroying(current[s])
                       /\ ~is_scheduled(current[s])
             left == sub_sender(current[s])
             desired == IF claims THEN set_scheduled(left, TRUE) ELSE left
  <1>0. pc \in [Threads -> Loops \cup {"out", "pushing", "inside", "draining", "gone"}]
    BY DEF TypeOK
  <1>a. /\ pc[s] \in {"pushing", "leave"} /\ saw' = saw
        /\ \A t \in Threads : t # s => pc'[t] = pc[t] /\ current'[t] = current[t]
    BY <1>0, Roles DEF PushBack, Leave, Enter, Attempt, TypeOK
  <1>b. /\ Holders' = Holders /\ pc'[Owner] = pc[Owner]
        /\ \A r \in Runners : pc'[r] = pc[r] /\ current'[r] = current[r] /\ saw'[r] = saw[r]
    BY <1>a, Roles DEF Holders
  <1>1. CASE ~(pc[s] = "leave" /\ pc'[s] = "out")
    <2>1. word' = word /\ pc'[s] = "leave"
      BY <1>0, <1>1, Roles DEF PushBack, Leave, Enter, Attempt
    <2>2. Registered' = Registered
      BY <1>a, <2>1, Roles DEF Registered
    <2>3. FieldsOK'
      BY <1>b, <2>1, <2>2, WordUnmoved DEF OwnerOK, SawOK
    <2> QED
      BY <2>1, <2>3 DEF RecordStep
  <1>2. CASE pc[s] = "leave" /\ pc'[s] = "out"
    <2>1. Attempt(s, "leave", desired, "out")
      BY <1>2 DEF PushBack, Enter, Leave
    <2>2. word = current[s] /\ word' = desired
      <3> HIDE DEF desired
      <3> QED
        BY <1>2, <2>1 DEF Attempt
    <2>3. s \in Registered /\ Registered' = Registered \ {s}
      BY <1>a, <1>2, Roles DEF Registered
    <2>4. sender_count(word) > 0 /\ sender_count(word) \in Nat
      BY <2>3, RegisteredFinite, FS_EmptySet DEF CountOK
    <2>5. /\ sub_sender(word) \in Word
          /\ sender_count(sub_sender(word)) = sender_count(word) - 1
          /\ SameFlags(sub_sender(word), word)
      BY <2>4, SubSender DEF TypeOK
    <2>6. /\ sender_count(word') = sender_count(word) - 1
          /\ is_running(word') <=> is_running(word)
          /\ is_destroying(word') <=> is_destroying(word)
          /\ (is_scheduled(word') <=> is_scheduled(word)) \/ is_scheduled(word')
      <3>1. CASE claims
        <4>1. word' = set_scheduled(sub_sender(word), TRUE)
          BY <2>2, <3>1
        <4> QED
          BY <2>5, <4>1, SetScheduled DEF SameFlags, SameButScheduled
      <3>2. CASE ~claims
        <4>1. word' = sub_sender(word)
          BY <2>2, <3>2
        <4> QED
          BY <2>5, <4>1 DEF SameFlags
      <3> QED
        BY <3>1, <3>2
    <2> HIDE DEF desired, claims, left
    <2>7. CountOK'
      <3>1. Cardinality(Registered \ {s}) = Cardinality(Registered) - 1
        BY <2>3, FS_RemoveElement, RegisteredFinite
      <3> QED
        BY <2>3, <2>6, <3>1 DEF CountOK
    <2>8. RunningOK' /\ OwnerOK'
      BY <1>b, <2>6 DEF RunningOK, OwnerOK
    <2>9. DrainSound' /\ SawOK'
      BY <1>b, <2>3, <2>6 DEF DrainSound, SawOK
    <2>10. \/ Decoded' = [Decoded EXCEPT !.senders = @ - 1]
           \/ Decoded' = [Decoded EXCEPT !.senders = @ - 1, !.scheduled = TRUE]
      <3>1. /\ is_running(word') = is_running(word)
            /\ is_destroying(word') = is_destroying(word)
            /\ is_scheduled(word') = is_scheduled(word) \/ is_scheduled(word') = TRUE
        BY <2>6 DEF is_scheduled, is_running, is_destroying
      <3> QED
        BY <2>6, <3>1, DecodedMoves
    <2>11. Decoded.senders # 0
      BY <2>4 DEF Decoded
    <2>12. Decoded' \in Exchanges(Decoded)
      BY <2>10, <2>11, Zenon DEF Exchanges
    <2> QED
      BY <2>4, <2>6, <2>7, <2>8, <2>9, <2>12 DEF FieldsOK, RecordStep
  <1> QED
    BY <1>1, <1>2

\* resume() that finds the actor running raises `scheduled`; one that finds it
\* idle raises `running`, and is the only holder.
LEMMA AcquireStep ==
  ASSUME Inv, NEW r \in Runners, ResumeCall(r) \/ TryAcquireRunning(r)
  PROVE  FieldsOK' /\ RecordStep
  <1> USE DEF Inv
  <1>0. pc \in [Threads -> Loops \cup {"out", "pushing", "inside", "draining", "gone"}]
        /\ current \in [Threads -> Word] /\ word \in Word
    BY DEF TypeOK
  <1>a. /\ pc[r] \in {"out", "acquire"} /\ saw' = saw
        /\ \A t \in Threads : t # r => pc'[t] = pc[t] /\ current'[t] = current[t]
    BY <1>0, Roles DEF ResumeCall, TryAcquireRunning, Enter, Attempt, TypeOK
  <1>b. Registered' = Registered /\ pc'[Owner] = pc[Owner]
    BY <1>a, Roles DEF Registered
  <1>c. \A q \in Runners : pc'[q] = "release" =>
          pc[q] = "release" /\ current'[q] = current[q] /\ saw'[q] = saw[q]
    <2>1. pc'[r] # "release"
      BY <1>0, <1>a, Roles DEF ResumeCall, TryAcquireRunning, Enter, Attempt
    <2> QED
      BY <1>a, <2>1, Roles
  <1>d. pc'[Owner] # "out" => \A q \in Runners : pc'[q] # "acquire"
    <2>1. pc'[r] = "acquire" => pc[Owner] = "out"
      BY <1>0, Roles DEF ResumeCall, TryAcquireRunning, Enter, Attempt, OwnerOK
    <2> QED
      BY <1>a, <1>b, <2>1, Roles DEF OwnerOK
  <1>1. CASE word' = word /\ pc'[r] \in {"out", "acquire"}
    <2>1. Holders' = Holders
      BY <1>1, <1>a, Roles DEF Holders
    <2>2. FieldsOK'
      BY <1>1, <1>b, <1>c, <1>d, <2>1, WordUnmoved DEF SawOK
    <2> QED
      BY <1>1, <2>2 DEF RecordStep
  <1>2. CASE /\ pc[r] = "acquire" /\ word = current[r] /\ is_running(word)
             /\ pc'[r] = "out" /\ word' = set_scheduled(word, TRUE)
    <2>1. Holders' = Holders
      BY <1>2, <1>a, Roles DEF Holders
    <2>2. is_scheduled(word') /\ SameButScheduled(word', word)
      BY <1>0, <1>2, SetScheduled
    <2>3. CountOK' /\ RunningOK' /\ OwnerOK' /\ DrainSound' /\ SawOK'
      BY <1>b, <1>c, <1>d, <2>1, <2>2 DEF SameButScheduled, CountOK, RunningOK, OwnerOK,
         DrainSound, SawOK
    <2>4. Decoded' = [Decoded EXCEPT !.scheduled = TRUE]
      <3>1. /\ is_running(word') = is_running(word)
            /\ is_destroying(word') = is_destroying(word)
            /\ is_scheduled(word') = TRUE
        BY <2>2 DEF SameButScheduled, is_scheduled, is_running, is_destroying
      <3> QED
        BY <2>2, <3>1, DecodedMoves DEF SameButScheduled
    <2>5. Decoded' \in Exchanges(Decoded)
      BY <2>4, Zenon DEF Exchanges
    <2>6. sender_count(word) \in Nat
      BY RegisteredFinite DEF CountOK
    <2> QED
      BY <2>2, <2>3, <2>5, <2>6 DEF FieldsOK, RecordStep, SameButScheduled
  <1>3. CASE /\ pc[r] = "acquire" /\ word = current[r] /\ ~is_running(word)
             /\ pc'[r] = "inside"
             /\ word' = set_scheduled(set_running(word, TRUE), FALSE)
    <2>1. Holders = {} /\ Holders' = {r}
      <3>1. Holders = {}
        BY <1>3 DEF RunningOK
      <3> QED
        BY <1>3, <1>a, <3>1, Roles DEF Holders
    <2>2. /\ is_running(word') /\ ~is_scheduled(word')
          /\ is_destroying(word') <=> is_destroying(word)
          /\ sender_count(word') = sender_count(word)
      BY <1>0, <1>3, SetScheduled, SetRunning DEF SameButScheduled, SameButRunning
    <2>3. pc[Owner] = "out"
      BY <1>3 DEF OwnerOK
    <2>4. CountOK' /\ RunningOK' /\ OwnerOK' /\ DrainSound'
      BY <1>b, <1>d, <2>1, <2>2, <2>3 DEF CountOK, RunningOK, OwnerOK, DrainSound
    <2>5. SawOK'
      BY <1>c, <2>1 DEF SawOK, Holders
    <2>6. Decoded' = [Decoded EXCEPT !.running = TRUE, !.scheduled = FALSE]
      <3>1. /\ is_running(word') = TRUE
            /\ is_destroying(word') = is_destroying(word)
            /\ is_scheduled(word') = FALSE
        BY <2>2 DEF is_scheduled, is_running, is_destroying
      <3> QED
        BY <2>2, <3>1, DecodedMoves
    <2>7. Decoded' \in Exchanges(Decoded)
      BY <2>6, Zenon DEF Exchanges
    <2>8. ~is_destroying(word)
      BY <2>3 DEF OwnerOK
    <2> QED
      BY <2>4, <2>5, <2>7, <2>8 DEF FieldsOK, RecordStep
  <1> QED
    BY <1>0, <1>1, <1>2, <1>3, Roles DEF ResumeCall, TryAcquireRunning, Enter, Attempt

\* What GuardSeesClaim says of one step.
GuardStep ==
    \A r \in Runners :
        pc[r] = "release" /\ pc'[r] = "out" => (saw[r] <=> is_scheduled(word))

\* The resume guard takes `running` down, keeps `scheduled` if it is up, and
\* leaves with what it has seen of the word it replaces.
LEMMA ReleaseStep ==
  ASSUME Inv, NEW r \in Runners, ResumeImpl(r) \/ ResumeGuard(r)
  PROVE  FieldsOK' /\ RecordStep
  <1> USE DEF Inv
  <1>0. pc \in [Threads -> Loops \cup {"out", "pushing", "inside", "draining", "gone"}]
        /\ current \in [Threads -> Word] /\ word \in Word /\ saw \in [Runners -> BOOLEAN]
        /\ keep \in [Runners -> BOOLEAN]
    BY DEF TypeOK
  <1>a. /\ pc[r] \in {"inside", "release"}
        /\ \A t \in Threads : t # r => pc'[t] = pc[t] /\ current'[t] = current[t]
        /\ \A q \in Runners : q # r => saw'[q] = saw[q]
    BY <1>0, Roles DEF ResumeImpl, ResumeGuard, Enter, Attempt
  <1>b. Registered' = Registered /\ pc'[Owner] = pc[Owner] /\ pc'[r] \in {"out", "release"}
    <2>1. pc'[r] \in {"out", "release"}
      BY <1>0, Roles DEF ResumeImpl, ResumeGuard, Enter, Attempt
    <2> QED
      BY <1>a, <2>1, Roles DEF Registered
  <1>d. pc'[Owner] # "out" => \A q \in Runners : pc'[q] # "acquire"
    BY <1>a, <1>b, Roles DEF OwnerOK
  <1>e. Holders = {r}
    BY <1>a DEF RunningOK, Holders
  <1>1. CASE pc'[r] = "release"
    <2>1. word' = word /\ current'[r] = word
      BY <1>0, <1>1, Roles DEF ResumeImpl, ResumeGuard, Enter, Attempt
    <2>2. Holders' = Holders
      BY <1>1, <1>a, Roles DEF Holders
    <2>3. saw'[r] <=> is_scheduled(word)
      <3>1. CASE ResumeImpl(r)
        BY <3>1, <1>0 DEF ResumeImpl
      <3>2. CASE ResumeGuard(r)
        <4>1. saw'[r] <=> saw[r] \/ is_scheduled(current'[r])
          BY <3>2, <1>0, <1>1 DEF ResumeGuard, SawScheduled
        <4>2. pc[r] = "release"
          BY <3>2 DEF ResumeGuard, Attempt
        <4> QED
          BY <2>1, <4>1, <4>2 DEF SawOK
      <3> QED
        BY <3>1, <3>2
    <2>4. \A q \in Runners : pc'[q] = "release" =>
            /\ saw'[q] <=> is_scheduled(current'[q])
            /\ is_scheduled(current'[q]) => is_scheduled(word)
      BY <1>a, <2>1, <2>3, Roles DEF SawOK
    <2>5. FieldsOK'
      BY <1>b, <1>d, <2>1, <2>2, <2>4, WordUnmoved
    <2> QED
      BY <2>1, <2>5 DEF RecordStep
  <1>2. CASE pc'[r] = "out"
    <2> DEFINE kept == keep[r] \/ is_scheduled(word)
    <2>1. /\ pc[r] = "release" /\ word = current[r]
          /\ word' = set_scheduled(set_running(word, FALSE), kept)
      <3>1. Attempt(r, "release",
                    set_scheduled(set_running(current[r], FALSE),
                                  keep[r] \/ is_scheduled(current[r])), "out")
        BY <1>2, <1>0, Roles DEF ResumeImpl, ResumeGuard, Enter
      <3>2. pc[r] = "release" /\ word = current[r]
        BY <1>2, <3>1 DEF Attempt
      <3> QED
        BY <3>1, <3>2, Zenon DEF Attempt
    <2>2. kept \in BOOLEAN /\ (is_scheduled(word) => kept)
      BY DEF is_scheduled
    <2> HIDE DEF kept
    <2>3. /\ ~is_running(word')
          /\ is_scheduled(word) => is_scheduled(word')
          /\ is_destroying(word') <=> is_destroying(word)
          /\ sender_count(word') = sender_count(word)
      <3>1. /\ set_running(word, FALSE) \in Word
            /\ ~is_running(set_running(word, FALSE))
            /\ SameButRunning(set_running(word, FALSE), word)
        BY <1>0, SetRunning
      <3>2. /\ is_scheduled(word') <=> kept
            /\ SameButScheduled(word', set_running(word, FALSE))
        BY <2>1, <2>2, <3>1, SetScheduled, Zenon
      <3> QED
        BY <2>2, <3>1, <3>2 DEF SameButScheduled, SameButRunning
    <2>4. Holders' = {}
      BY <1>2, <1>a, <1>e, Roles DEF Holders
    <2>5. CountOK' /\ RunningOK' /\ OwnerOK' /\ DrainSound'
      BY <1>b, <1>d, <2>3, <2>4 DEF CountOK, RunningOK, OwnerOK, DrainSound
    <2>6. SawOK'
      BY <2>4 DEF SawOK, Holders
    <2>7. \/ Decoded' = [Decoded EXCEPT !.running = FALSE, !.scheduled = TRUE]
          \/ Decoded' = [Decoded EXCEPT !.running = FALSE]
      <3>1. /\ is_running(word') = FALSE
            /\ is_destroying(word') = is_destroying(word)
            /\ is_scheduled(word') = is_scheduled(word) \/ is_scheduled(word') = TRUE
        BY <2>3 DEF is_scheduled, is_running, is_destroying
      <3> QED
        BY <2>3, <3>1, DecodedMoves
    <2>8. Decoded' \in Exchanges(Decoded)
      BY <2>7, Zenon DEF Exchanges
    <2>9. sender_count(word) \in Nat
      BY RegisteredFinite DEF CountOK
    <2> QED
      BY <2>3, <2>5, <2>6, <2>8, <2>9 DEF FieldsOK, RecordStep
  <1> QED
    BY <1>b, <1>1, <1>2

\* The destructor publishes `destroying`; its drain reads the count and `running`,
\* which tell the truth; make_state() then erases nobody.
LEMMA OwnerStep ==
  ASSUME Inv, Destroy \/ Publish \/ Drained \/ Terminal
  PROVE  FieldsOK' /\ RecordStep
  <1> USE DEF Inv
  <1>0. pc \in [Threads -> Loops \cup {"out", "pushing", "inside", "draining", "gone"}]
        /\ current \in [Threads -> Word] /\ word \in Word
    BY DEF TypeOK
  <1>a. /\ saw' = saw
        /\ \A t \in Threads : t # Owner => pc'[t] = pc[t] /\ current'[t] = current[t]
    BY <1>0, Roles DEF Destroy, Publish, Drained, Terminal, Enter, Attempt
  <1>b. /\ Registered' = Registered /\ Holders' = Holders
        /\ \A r \in Runners : pc'[r] = pc[r] /\ current'[r] = current[r] /\ saw'[r] = saw[r]
    BY <1>a, Roles DEF Registered, Holders
  <1>d. \A r \in Runners : pc'[r] # "acquire"
    BY <1>0, <1>b, Roles DEF Destroy, Publish, Drained, Terminal, Enter, Attempt, OwnerOK
  <1>1. CASE word' = word /\ (pc'[Owner] = pc[Owner]
                              \/ (pc[Owner] = "out" /\ pc'[Owner] = "publish"))
    <2>1. FieldsOK'
      BY <1>1, <1>b, <1>d, WordUnmoved DEF SawOK
    <2> QED
      BY <1>1, <2>1 DEF RecordStep
  <1>2. CASE /\ pc[Owner] = "publish" /\ pc'[Owner] = "draining"
             /\ word' = set_destroying(word)
    <2>1. is_destroying(word') /\ SameButDestroying(word', word)
      BY <1>0, <1>2, SetDestroying
    <2>2. CountOK' /\ RunningOK' /\ OwnerOK' /\ DrainSound' /\ SawOK'
      BY <1>b, <1>d, <1>2, <2>1 DEF SameButDestroying, CountOK, RunningOK, OwnerOK,
         DrainSound, SawOK
    <2>3. Decoded' = [Decoded EXCEPT !.destroying = TRUE]
      <3>1. /\ is_running(word') = is_running(word)
            /\ is_scheduled(word') = is_scheduled(word)
        BY <2>1 DEF SameButDestroying, is_scheduled, is_running
      <3>2. sender_count(word') = sender_count(word)
        BY <2>1 DEF SameButDestroying
      <3>3. ASSUME NEW d, is_destroying(word') = d
            PROVE  Decoded' = [Decoded EXCEPT !.destroying = d]
        BY <3>1, <3>2, <3>3 DEF Decoded
      <3>4. is_destroying(word') = TRUE
        BY <2>1 DEF is_destroying
      <3> QED
        BY <3>3, <3>4
    <2>5. Decoded' \in Exchanges(Decoded)
      BY <2>3, Zenon DEF Exchanges
    <2>6. ~is_destroying(word)
      BY <1>2 DEF OwnerOK
    <2> QED
      BY <2>2, <2>5, <2>6 DEF FieldsOK, RecordStep
  <1>3. CASE /\ pc[Owner] = "draining" /\ pc'[Owner] = "terminal" /\ word' = word
             /\ ~is_running(word) /\ sender_count(word) = 0
    <2>1. Registered = {} /\ Holders = {}
      BY <1>3, RegisteredFinite, FS_EmptySet DEF CountOK, RunningOK
    <2>2. CountOK' /\ RunningOK' /\ OwnerOK' /\ DrainSound' /\ SawOK'
      BY <1>3, <1>b, <1>d, <2>1 DEF CountOK, RunningOK, OwnerOK, DrainSound, SawOK
    <2> QED
      BY <1>3, <2>2 DEF FieldsOK, RecordStep
  <1>4. CASE /\ pc[Owner] = "terminal" /\ pc'[Owner] = "gone"
             /\ word' = make_state(FALSE, FALSE, TRUE)
    <2>1. Registered = {} /\ Holders = {}
      BY <1>4 DEF DrainSound
    <2>2. ~is_running(word) /\ is_destroying(word) /\ sender_count(word) = 0
      BY <1>4, <2>1, FS_EmptySet DEF CountOK, RunningOK, OwnerOK
    <2>3. /\ ~is_scheduled(word') /\ ~is_running(word') /\ is_destroying(word')
          /\ sender_count(word') = 0
      BY <1>4, MakeState, Zenon
    <2>4. CountOK' /\ RunningOK' /\ OwnerOK' /\ DrainSound'
      BY <1>4, <1>b, <1>d, <2>1, <2>3, FS_EmptySet DEF CountOK, RunningOK, OwnerOK, DrainSound
    <2>5. SawOK'
      BY <1>b, <2>1 DEF SawOK, Holders
    <2>6. Decoded' = [Decoded EXCEPT !.scheduled = FALSE]
      <3>1. /\ is_running(word') = is_running(word)
            /\ is_destroying(word') = is_destroying(word)
            /\ is_scheduled(word') = FALSE
        BY <2>2, <2>3 DEF is_scheduled, is_running, is_destroying
      <3> QED
        BY <2>2, <2>3, <3>1, DecodedMoves
    <2>7. Decoded' \in Exchanges(Decoded)
      BY <2>6, Zenon DEF Exchanges
    <2> QED
      BY <2>2, <2>3, <2>4, <2>5, <2>7 DEF FieldsOK, RecordStep
  <1> QED
    <2>1. CASE Destroy
      BY <2>1, <1>0, <1>1, Roles DEF Destroy, Enter
    <2>2. CASE Publish
      BY <2>2, <1>0, <1>1, <1>2, Roles DEF Publish, Attempt
    <2>3. CASE Drained
      BY <2>3, <1>0, <1>3, Roles DEF Drained, Enter
    <2>4. CASE Terminal
      BY <2>4, <1>0, <1>1, <1>4, Roles DEF Terminal, Attempt
    <2> QED
      BY <2>1, <2>2, <2>3, <2>4

\* Every step keeps the invariant, is one exchange on the record, and lets a
\* resume guard out with the scheduled bit of the word it replaces.
LEMMA NextInv == Inv /\ [Next]_vars => Inv' /\ RecordStep /\ GuardStep
  <1> SUFFICES ASSUME Inv, [Next]_vars PROVE Inv' /\ RecordStep /\ GuardStep
    OBVIOUS
  <1>1. (TypeOK /\ PlacesOK)'
    BY NextTypes
  <1>2. FieldsOK' /\ RecordStep
    <2>1. ASSUME NEW t \in Threads, Abort(t) PROVE FieldsOK' /\ RecordStep
      <3>1. UNCHANGED <<word, pc, current, saw>>
        BY <2>1 DEF Abort
      <3> QED
        BY <3>1, WordUnmoved DEF Inv, OwnerOK, SawOK, Registered, Holders, RecordStep
    <2>2. CASE UNCHANGED vars
      BY <2>2, WordUnmoved DEF vars, Inv, OwnerOK, SawOK, Registered, Holders, RecordStep
    <2> QED
      BY <2>1, <2>2, GateStep, LeaveStep, AcquireStep, ReleaseStep, OwnerStep DEF Next
  <1>3. GuardStep
    <2> SUFFICES ASSUME NEW r \in Runners, pc[r] = "release", pc'[r] = "out"
                 PROVE  saw[r] <=> is_scheduled(word)
      BY DEF GuardStep
    <2>1. word = current[r]
      <3>1. pc \in [Threads -> Loops \cup {"out", "pushing", "inside", "draining", "gone"}]
        BY DEF Inv, TypeOK
      <3>2. ASSUME NEW t \in Threads, NEW from, NEW loop, Enter(t, from, loop),
                   loop \in Loops
            PROVE  FALSE
        BY <3>1, <3>2, Roles DEF Enter, Loops
      <3>3. ASSUME NEW t \in Threads, t # r, NEW loop, NEW desired, NEW then,
                   Attempt(t, loop, desired, then)
            PROVE  FALSE
        BY <3>1, <3>3, Roles DEF Attempt
      <3>4. pc[r] # "acquire" /\ pc' # pc
        BY <3>1, Roles
      <3>5. ASSUME NEW s \in Senders, Gate(s) PROVE FALSE
        BY <3>1, <3>3, <3>5, Roles DEF Gate
      <3>6. ASSUME NEW q \in Runners, TryAcquireRunning(q) PROVE FALSE
        BY <3>1, <3>3, <3>4, <3>6, Roles DEF TryAcquireRunning, Attempt
      <3>7. ASSUME NEW q \in Runners, ResumeGuard(q) PROVE q = r
        BY <3>3, <3>7, Roles DEF ResumeGuard
      <3>8. Next
        BY <3>4 DEF vars
      <3>9. ResumeGuard(r)
        <4>1. ASSUME NEW s \in Senders, EnqueueImpl(s) \/ PushBack(s) \/ Leave(s)
              PROVE  FALSE
          BY <3>2, <3>3, <4>1, Roles DEF EnqueueImpl, PushBack, Leave, Loops
        <4>2. ASSUME NEW q \in Runners, ResumeCall(q) \/ ResumeImpl(q) PROVE FALSE
          BY <3>2, <4>2, Roles DEF ResumeCall, ResumeImpl, Loops
        <4>3. CASE Destroy \/ Publish \/ Drained \/ Terminal
          BY <3>2, <3>3, <4>3, Roles DEF Destroy, Publish, Drained, Terminal, Loops
        <4>4. ASSUME NEW t \in Threads, Abort(t) PROVE FALSE
          BY <3>4, <4>4 DEF Abort
        <4> QED
          BY <3>5, <3>6, <3>7, <3>8, <4>1, <4>2, <4>3, <4>4 DEF Next
      <3> QED
        BY <3>1, <3>9, Roles DEF ResumeGuard, Attempt
    <2> QED
      BY <2>1 DEF Inv, SawOK
  <1> QED
    BY <1>1, <1>2, <1>3 DEF FieldsOK, Inv

-----------------------------------------------------------------------------
(* The theorems.                                                           *)

\* The inductive invariant holds: each field of the word tells where the threads
\* are.
THEOREM Fields == Spec => []Inv
  <1>1. Init => Inv
    BY InitInv
  <1>2. Inv /\ [Next]_vars => Inv'
    BY NextInv
  <1> QED
    BY <1>1, <1>2, PTL DEF Spec

\* wait_for_activity_to_drain() reads the truth off the word: behind it no sender
\* is past the gate and no runner inside.
THEOREM Drain == Spec => []DrainSound
  <1>1. Inv => DrainSound
    BY DEF Inv
  <1> QED
    BY <1>1, Fields, PTL

\* Every successful compare-exchange of the six loops is one step on the record
\* that CooperativeActor works on: no carry, no borrow, and no registration
\* behind `destroying`.
THEOREM Atomicity == Spec => AtomicOnRecord
  <1>1. Inv /\ [Next]_vars => [RecordStep]_vars
    BY NextInv
  <1>2. Spec => [][RecordStep]_vars
    BY <1>1, Fields, PTL DEF Spec
  <1> QED
    BY <1>2 DEF AtomicOnRecord, RecordStep

\* A resume guard leaves with the scheduled bit of the word it replaces.
THEOREM GuardClaim == Spec => GuardSeesClaim
  <1>1. Inv /\ [Next]_vars => [GuardStep]_vars
    BY NextInv
  <1>2. Spec => [][GuardStep]_vars
    BY <1>1, Fields, PTL DEF Spec
  <1> QED
    BY <1>2 DEF GuardSeesClaim, GuardStep

-----------------------------------------------------------------------------
(* The inductive invariant of a shared state, nothing of which is an       *)
(* actor's.                                                                *)

\* The producer's bits follow its label.
ProducerOK ==
    /\ "promise_released" \in flags <=> producer \in {"load", "cas", "clear", "out"}
    /\ producer \in {"load", "cas", "clear"} => "promise_finalizing" \in flags
    /\ producer \in {"check", "publish"} =>
         ("promise_finalizing" \in flags <=> exit = "settle")
    /\ producer \in {"working", "finalize"} => "promise_finalizing" \notin flags
    /\ producer \in {"finalize", "load", "cas", "clear"} => exit = "settle"

\* A result, once there, is the producer's; without one release_promise()
\* supplies an error.
OutcomeOK ==
    /\ outcome = "value" <=> "value_set" \in flags
    /\ "error_set" \in flags <=>
         \/ outcome \in {"error", "exception"}
         \/ outcome = "none" /\ "promise_released" \in flags
    /\ producer = "working" => outcome = "none"
    /\ outcome = "none" => exit = "cleanup" \/ producer = "working"
    /\ producer = "publish" => (repair <=> outcome = "none")
    /\ outcome = "value" =>
         slot = (IF "consumed" \in flags THEN "taken" ELSE "full")

\* The consumer's bits and its knowledge follow its label.
ConsumerOK ==
    /\ "future_released" \in flags <=> consumer = "out"
    /\ "consumed" \in flags => consumer \in {"releasing", "out"} /\ outcome = "value"
    /\ consumer = "extract" => "promise_released" \in flags /\ "error_set" \notin flags
    /\ consumer = "ready" => "promise_released" \in flags
    /\ consumer = "resumed" => flags \cap ResultSet # {}
    /\ consumer # "refused"

\* What try_complete_finalize() loaded differs from the word only by what the
\* consumer has done since.
SeenOK ==
    /\ producer = "cas" =>
         seen \subseteq flags /\ flags \subseteq seen \cup {"consumed", "future_released"}
    /\ producer = "clear" => "consumed" \in flags \ seen

\* Whoever leaves last frees, except after a fetch_and.
FreeOK ==
    /\ freed = 0 \/ (freed = 1 /\ BothOut)
    /\ producer = "out" /\ consumer # "out" => "promise_finalizing" \notin flags
    /\ BothOut /\ freed = 0 => exit = "settle" /\ "consumed" \in flags \ seen

SharedInv == SharedTypeOK /\ ProducerOK /\ OutcomeOK /\ ConsumerOK /\ SeenOK /\ FreeOK

-----------------------------------------------------------------------------
\* A fresh block, as the promise's constructor allocates it, satisfies it.
LEMMA InitShared == SharedInit => SharedInv
  <1> SUFFICES ASSUME SharedInit PROVE SharedInv
    OBVIOUS
  <1>1. SharedTypeOK
    BY DEF SharedInit, SharedTypeOK, ProducerLabel, ConsumerLabel
  <1>2. ProducerOK /\ OutcomeOK
    BY DEF SharedInit, ProducerOK, OutcomeOK
  <1>3. ConsumerOK /\ SeenOK /\ FreeOK
    BY DEF SharedInit, ConsumerOK, SeenOK, FreeOK, BothOut
  <1> QED
    BY <1>1, <1>2, <1>3 DEF SharedInv

\* Every access of either side to flags_ preserves it.
LEMMA NextShared == SharedInv /\ [SharedNext]_sharedVars => SharedInv'
  <1> SUFFICES ASSUME SharedInv, [SharedNext]_sharedVars PROVE SharedInv'
    OBVIOUS
  <1> USE DEF SharedInv, SharedTypeOK, ProducerOK, OutcomeOK, ConsumerOK, SeenOK, FreeOK,
              BothOut, Flag, ResultSet, ProducerLabel, ConsumerLabel,
              HasResult, HasError, IsReady, Deallocate, Step
  <1>1. ASSUME NEW o \in {"value", "error", "exception"}, SetResult(o)
        PROVE  SharedInv'
    BY <1>1 DEF SetResult, ExitStart
  <1>2. CASE ReleaseWithoutResult
    BY <1>2 DEF ReleaseWithoutResult, consumerVars
  <1>3. CASE StartFinalize
    BY <1>3 DEF StartFinalize, consumerVars
  <1>4. CASE CheckResult
    <2>1. /\ producer = "check" /\ producer' = "publish"
          /\ UNCHANGED <<flags, outcome, exit, seen, freed, slot, continuation, consumer>>
      BY <1>4 DEF CheckResult, consumerVars
    <2>2. repair' \in BOOLEAN /\ (repair' <=> flags \cap ResultSet = {})
      BY <1>4 DEF CheckResult
    <2>3. flags \cap ResultSet = {} <=> outcome = "none"
      BY <2>1
    <2> QED
      BY <2>1, <2>2, <2>3
  <1>5. CASE ReleasePromise
    BY <1>5 DEF ReleasePromise, ReleasedBits, consumerVars
  <1>6. CASE LoadFlags
    BY <1>6 DEF LoadFlags, consumerVars
  <1>7. CASE CompleteFinalize
    <2>1. CASE flags = seen \ {"future_released"}
      <3>1. producer = "cas" /\ "future_released" \notin flags /\ consumer # "out"
        BY <1>7, <2>1 DEF CompleteFinalize
      <3>2. /\ producer' = "out" /\ flags' = flags \ {"promise_finalizing"}
            /\ UNCHANGED <<outcome, exit, repair, seen, freed, consumerVars>>
        BY <1>7, <2>1 DEF CompleteFinalize
      <3> QED
        BY <3>1, <3>2 DEF consumerVars
    <2>2. CASE flags # seen \ {"future_released"} /\ "future_released" \in flags
      <3>1. consumer = "out" /\ freed = 0 /\ producer = "cas"
        BY <1>7, <2>2 DEF CompleteFinalize
      <3>2. /\ producer' = "out" /\ freed' = 1 /\ UNCHANGED flags
            /\ UNCHANGED <<outcome, exit, repair, seen, consumerVars>>
        BY <1>7, <2>2, <3>1 DEF CompleteFinalize
      <3> QED
        BY <3>1, <3>2 DEF consumerVars
    <2>3. CASE flags # seen \ {"future_released"} /\ "future_released" \notin flags
      <3>1. "consumed" \in flags \ seen
        BY <1>7, <2>3 DEF CompleteFinalize
      <3> QED
        BY <1>7, <2>3, <3>1 DEF CompleteFinalize, consumerVars
    <2> QED
      BY <2>1, <2>2, <2>3
  <1>8. CASE ClearFinalizing
    BY <1>8 DEF ClearFinalizing, WithoutFinalizing, consumerVars
  <1>9. CASE DropFuture
    BY <1>9 DEF DropFuture, producerVars
  <1>10. CASE PollReady
    BY <1>10 DEF PollReady, producerVars
  <1>11. CASE PollFailed
    BY <1>11 DEF PollFailed, producerVars
  <1>12. CASE TakeReady
    <2>1. HasResult /\ ~HasError /\ slot = "full"
      BY <1>12 DEF TakeReady
    <2>2. /\ consumer = "extract" /\ consumer' = "releasing"
          /\ flags' = flags \cup {"consumed"} /\ slot' = "taken"
          /\ UNCHANGED <<continuation, freed, producerVars>>
      BY <1>12, <2>1 DEF TakeReady, TakeValue, TakenBits
    <2> QED
      BY <2>1, <2>2 DEF producerVars
  <1>13. CASE AwaitReady
    BY <1>13 DEF AwaitReady, producerVars
  <1>14. CASE Register
    BY <1>14 DEF Register, producerVars
  <1>15. CASE Recheck
    <2>1. CASE HasResult
      BY <1>15, <2>1, ZenonT(40) DEF Recheck, producerVars
    <2>2. CASE ~HasResult
      BY <1>15, <2>2 DEF Recheck, producerVars
    <2> QED
      BY <2>1, <2>2
  <1>16. CASE DrainAwaited
    BY <1>16 DEF DrainAwaited, producerVars
  <1>17. CASE AwaitResume
    <2>1. CASE HasError
      <3>1. /\ consumer = "resumed" /\ consumer' \in {"releasing", "aborted"}
            /\ UNCHANGED <<flags, slot, continuation, freed, producerVars>>
        BY <1>17, <2>1 DEF AwaitResume
      <3> QED
        BY <3>1 DEF producerVars
    <2>2. CASE ~HasError
      <3>1. slot = "full" /\ outcome = "value"
        BY <1>17, <2>2 DEF AwaitResume
      <3>2. /\ consumer = "resumed" /\ consumer' = "releasing"
            /\ flags' = flags \cup {"consumed"} /\ slot' = "taken"
            /\ UNCHANGED <<continuation, freed, producerVars>>
        BY <1>17, <2>2, <3>1 DEF AwaitResume, TakeValue, TakenBits
      <3> QED
        BY <2>2, <3>1, <3>2 DEF producerVars
    <2> QED
      BY <2>1, <2>2
  <1>18. CASE ReleaseFuture
    BY <1>18 DEF ReleaseFuture, FreesAsLast, producerVars
  <1>19. CASE UNCHANGED sharedVars
    BY <1>19 DEF sharedVars
  <1> QED
    BY <1>1, <1>2, <1>3, <1>4, <1>5, <1>6, <1>7, <1>8, <1>9, <1>10, <1>11,
       <1>12, <1>13, <1>14, <1>15, <1>16, <1>17, <1>18, <1>19
    DEF SharedNext, Producer, Consumer

\* The invariant holds throughout the life of the block.
THEOREM SharedInvariance == SharedSpec => []SharedInv
  BY InitShared, NextShared, PTL DEF SharedSpec

-----------------------------------------------------------------------------
(* What follows from it for a shared state.                                *)

\* Once deallocate() has run, neither settle() nor release() touches the block.
THEOREM Memory == SharedSpec => []NeverUsedAfterFree
  <1>1. SharedInv => NeverUsedAfterFree
    BY DEF SharedInv, FreeOK, NeverUsedAfterFree
  <1> QED
    BY <1>1, SharedInvariance, PTL

\* take_ready() after is_ready() and not failed() always finds a value.
THEOREM Poll == SharedSpec => []PollerNeverRefused
  <1>1. SharedInv => PollerNeverRefused
    BY DEF SharedInv, ConsumerOK, PollerNeverRefused
  <1> QED
    BY <1>1, SharedInvariance, PTL

\* What release_promise() publishes is what the producer gave.
THEOREM Faithful == SharedSpec => []OutcomeFaithful
  <1>1. SharedInv => OutcomeFaithful
    BY DEF SharedInv, OutcomeOK, OutcomeFaithful
  <1> QED
    BY <1>1, SharedInvariance, PTL

\* If both sides have left and nobody freed the block, the value was taken
\* between the load and the compare-exchange of try_complete_finalize().
THEOREM Leak == SharedSpec => []LeakOnlyByOvertaking
  <1>1. SharedInv => LeakOnlyByOvertaking
    BY DEF SharedInv, FreeOK, LeakOnlyByOvertaking
  <1> QED
    BY <1>1, SharedInvariance, PTL

\* I2 of shared_state: only promise_finalizing is ever cleared.
THEOREM Monotonic == SharedSpec => FlagsMonotonic
  <1>1. [SharedNext]_sharedVars => [flags \ {"promise_finalizing"} \subseteq flags']_sharedVars
    BY DEF SharedNext, sharedVars, Producer, Consumer, SetResult, ReleaseWithoutResult,
           StartFinalize, CheckResult, ReleasePromise, LoadFlags,
           CompleteFinalize, ClearFinalizing, WithoutFinalizing, DropFuture,
           PollReady, PollFailed, TakeReady, TakeValue, TakenBits, AwaitReady,
           Register, Recheck, DrainAwaited, AwaitResume, ReleaseFuture
  <1> QED
    BY <1>1, PTL DEF SharedSpec, FlagsMonotonic

=============================================================================
