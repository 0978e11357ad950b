----------------------------- MODULE StateWord ------------------------------
(***************************************************************************)
(* cooperative_actor::state_ as the integer it is, and the loops that      *)
(* compare and exchange it: three flags in the low bits, the number of     *)
(* senders in flight above them, and at most kMaxCasAttempts attempts in a *)
(* loop.  CooperativeActor has the word as a record that each loop changes *)
(* in one step; this module shows that it may.                             *)
(*                                                                         *)
(* compare_exchange_weak() fails here only when the word has changed: a    *)
(* spurious failure would only add to the attempts.                        *)
(***************************************************************************)
EXTENDS Naturals, FiniteSets

CONSTANTS
    Senders,            \* threads in enqueue_impl()
    Runners,            \* threads in resume()
    Owner,              \* the thread that destroys the actor
    WordSize,           \* the number of values of the word, 2^32 in the code
    kMaxCasAttempts     \* the bound of every loop, 1000 in the code

kSenderStep == 8

Threads == Senders \cup Runners \cup {Owner}

\* enqueue_impl() asserts that the count does not overflow.
ASSUME WordAssumption ==
    /\ IsFiniteSet(Senders)
    /\ Senders \cap Runners = {}
    /\ Owner \notin Senders \cup Runners
    /\ WordSize \in Nat /\ WordSize % kSenderStep = 0
    /\ Cardinality(Senders) < WordSize \div kSenderStep
    /\ kMaxCasAttempts \in Nat

VARIABLES
    word,       \* state_
    pc,         \* where a thread is
    current,    \* the value its loop has loaded
    attempts,   \* cas_attempts
    unblocked,  \* whether a sender's push woke the reader
    keep,       \* resume_guard::keep_scheduled_
    saw,        \* scheduled_while_running
    aborted     \* a loop has run out of attempts

vars == <<word, pc, current, attempts, unblocked, keep, saw, aborted>>

-----------------------------------------------------------------------------
(* The word.                                                               *)

Word == 0 .. WordSize - 1

\* Wrong: the word has one bit less, as a narrower type would.
WrapNarrow(n) == n % (WordSize \div 2)

Wrap(n) == n % WordSize

is_scheduled(s) == s % 2 = 1
is_running(s) == (s \div 2) % 2 = 1
is_destroying(s) == (s \div 4) % 2 = 1
sender_count(s) == s \div kSenderStep

set_scheduled(s, value) ==
    IF value = is_scheduled(s) THEN s ELSE IF value THEN s + 1 ELSE s - 1

set_running(s, value) ==
    IF value = is_running(s) THEN s ELSE IF value THEN s + 2 ELSE s - 2

set_destroying(s) == IF is_destroying(s) THEN s ELSE s + 4

add_sender(s) == Wrap(s + kSenderStep)
sub_sender(s) == Wrap(s + WordSize - kSenderStep)

make_state(scheduled, running, destroying) ==
    (IF scheduled THEN 1 ELSE 0) + (IF running THEN 2 ELSE 0)
        + (IF destroying THEN 4 ELSE 0)

-----------------------------------------------------------------------------
(* The loops.                                                              *)

Loops == {"gate", "leave", "acquire", "release", "publish", "terminal"}

TypeOK ==
    /\ word \in Word
    /\ pc \in [Threads -> Loops \cup {"out", "pushing", "inside", "draining", "gone"}]
    /\ current \in [Threads -> Word]
    /\ attempts \in [Threads -> 0 .. kMaxCasAttempts]
    /\ unblocked \in [Senders -> BOOLEAN]
    /\ keep \in [Runners -> BOOLEAN]
    /\ saw \in [Runners -> BOOLEAN]
    /\ aborted \in BOOLEAN

Init ==
    /\ word = 0
    /\ pc = [t \in Threads |-> "out"]
    /\ current = [t \in Threads |-> 0]
    /\ attempts = [t \in Threads |-> 0]
    /\ unblocked = [s \in Senders |-> FALSE]
    /\ keep = [r \in Runners |-> FALSE]
    /\ saw = [r \in Runners |-> FALSE]
    /\ aborted = FALSE

\* The load in front of a loop.
Enter(t, from, loop) ==
    /\ ~aborted
    /\ pc[t] = from
    /\ pc' = [pc EXCEPT ![t] = loop]
    /\ current' = [current EXCEPT ![t] = word]
    /\ UNCHANGED <<word, attempts, aborted>>

\* cas_attempt() at the top of every iteration.
OutOfAttempts(t) == attempts[t] + 1 >= kMaxCasAttempts

Abort(t) ==
    /\ ~aborted
    /\ pc[t] \in Loops
    /\ OutOfAttempts(t)
    /\ aborted' = TRUE
    /\ UNCHANGED <<word, pc, current, attempts, unblocked, keep, saw>>

\* One iteration: exchange the word and go on, or load it again.  A loop's
\* variables end with it, and are 0 outside.
Attempt(t, loop, desired, then) ==
    /\ ~aborted
    /\ pc[t] = loop
    /\ ~OutOfAttempts(t)
    /\ IF word = current[t]
         THEN /\ word' = desired
              /\ pc' = [pc EXCEPT ![t] = then]
              /\ current' = [current EXCEPT ![t] = 0]
              /\ attempts' = [attempts EXCEPT ![t] = 0]
         ELSE /\ current' = [current EXCEPT ![t] = word]
              /\ attempts' = [attempts EXCEPT ![t] = @ + 1]
              /\ UNCHANGED <<word, pc>>
    /\ UNCHANGED aborted

-----------------------------------------------------------------------------
(* enqueue_impl().                                                         *)

EnqueueImpl(s) ==
    /\ Enter(s, "out", "gate")
    /\ UNCHANGED <<unblocked, keep, saw>>

\* Wrong: `destroying` is not looked at.
GateOpen(s) == FALSE

Refused(s) == is_destroying(current[s])

Gate(s) ==
    /\ \/ /\ Refused(s)
          /\ ~aborted /\ pc[s] = "gate" /\ ~OutOfAttempts(s)
          /\ pc' = [pc EXCEPT ![s] = "out"]
          /\ current' = [current EXCEPT ![s] = 0]
          /\ attempts' = [attempts EXCEPT ![s] = 0]
          /\ UNCHANGED <<word, aborted>>
       \/ /\ ~Refused(s)
          /\ Attempt(s, "gate", add_sender(current[s]), "pushing")
    /\ UNCHANGED <<unblocked, keep, saw>>

\* push_back(), then the load of leave_and_maybe_schedule().
PushBack(s) ==
    /\ Enter(s, "pushing", "leave")
    /\ \E b \in BOOLEAN : unblocked' = [unblocked EXCEPT ![s] = b]
    /\ UNCHANGED <<keep, saw>>

Leave(s) ==
    LET claims == /\ unblocked[s]
                  /\ ~is_destroying(current[s])
                  /\ ~is_scheduled(current[s])
        left == sub_sender(current[s])
    IN  /\ Attempt(s, "leave", IF claims THEN set_scheduled(left, TRUE) ELSE left, "out")
        /\ unblocked' = [unblocked EXCEPT ![s] = @ /\ pc'[s] = "leave"]
        /\ UNCHANGED <<keep, saw>>

-----------------------------------------------------------------------------
(* resume().                                                               *)

\* Nobody calls resume() once the destructor has begun.
ResumeCall(r) ==
    /\ pc[Owner] = "out"
    /\ Enter(r, "out", "acquire")
    /\ UNCHANGED <<unblocked, keep, saw>>

TryAcquireRunning(r) ==
    /\ IF is_running(current[r])
         THEN Attempt(r, "acquire", set_scheduled(current[r], TRUE), "out")
         ELSE Attempt(r, "acquire",
                      set_scheduled(set_running(current[r], TRUE), FALSE), "inside")
    /\ UNCHANGED <<unblocked, keep, saw>>

\* resume_impl() has decided on keep_scheduled; ~resume_guard loads the word.
ResumeImpl(r) ==
    /\ Enter(r, "inside", "release")
    /\ \E k \in BOOLEAN : keep' = [keep EXCEPT ![r] = k]
    /\ saw' = [saw EXCEPT ![r] = is_scheduled(word)]
    /\ UNCHANGED unblocked

\* Wrong: what a failed attempt loaded is not looked at.
SawAtFirst(r) == saw[r]

SawScheduled(r) == saw[r] \/ is_scheduled(current'[r])

ResumeGuard(r) ==
    /\ Attempt(r, "release",
               set_scheduled(set_running(current[r], FALSE),
                             keep[r] \/ is_scheduled(current[r])), "out")
    /\ saw' = [saw EXCEPT ![r] = SawScheduled(r) /\ pc'[r] = "release"]
    /\ keep' = [keep EXCEPT ![r] = @ /\ pc'[r] = "release"]
    /\ UNCHANGED unblocked

-----------------------------------------------------------------------------
(* ~cooperative_actor(), while no resume() is about to acquire.            *)

Destroy ==
    /\ \A r \in Runners : pc[r] # "acquire"
    /\ Enter(Owner, "out", "publish")
    /\ UNCHANGED <<unblocked, keep, saw>>

Publish ==
    /\ Attempt(Owner, "publish", set_destroying(current[Owner]), "draining")
    /\ UNCHANGED <<unblocked, keep, saw>>

\* wait_for_activity_to_drain() and the load that follows.
Drained ==
    /\ ~is_running(word)
    /\ sender_count(word) = 0
    /\ Enter(Owner, "draining", "terminal")
    /\ UNCHANGED <<unblocked, keep, saw>>

Terminal ==
    /\ Attempt(Owner, "terminal", make_state(FALSE, FALSE, TRUE), "gone")
    /\ UNCHANGED <<unblocked, keep, saw>>

-----------------------------------------------------------------------------
Next ==
    \/ \E s \in Senders : EnqueueImpl(s) \/ Gate(s) \/ PushBack(s) \/ Leave(s)
    \/ \E r \in Runners : \/ ResumeCall(r) \/ TryAcquireRunning(r)
                          \/ ResumeImpl(r) \/ ResumeGuard(r)
    \/ Destroy \/ Publish \/ Drained \/ Terminal
    \/ \E t \in Threads : Abort(t)

Spec == Init /\ [][Next]_vars

-----------------------------------------------------------------------------
(* Properties.                                                             *)

Registered == {s \in Senders : pc[s] \in {"pushing", "leave"}}
Holders == {r \in Runners : pc[r] \in {"inside", "release"}}

\* The destructor's drain reads the truth off the word: once it has gone by,
\* no sender is past the gate and no runner inside, though the count shares
\* the word with the flags and is rebuilt by make_state().
DrainSound ==
    pc[Owner] \in {"terminal", "gone"} => Registered = {} /\ Holders = {}

\* The record CooperativeActor works on.
Decoded == [scheduled  |-> is_scheduled(word),
            running    |-> is_running(word),
            destroying |-> is_destroying(word),
            senders    |-> sender_count(word)]

\* The exchanges CooperativeActor allows a thread, on the record.
Exchanges(d) ==
    {[d EXCEPT !.senders = @ + 1], [d EXCEPT !.scheduled = TRUE],
     [d EXCEPT !.running = TRUE, !.scheduled = FALSE],
     [d EXCEPT !.running = FALSE], [d EXCEPT !.running = FALSE, !.scheduled = TRUE],
     [d EXCEPT !.destroying = TRUE], [d EXCEPT !.scheduled = FALSE]}
    \cup (IF d.senders = 0 THEN {}
          ELSE {[d EXCEPT !.senders = @ - 1],
                [d EXCEPT !.senders = @ - 1, !.scheduled = TRUE]})

\* Every successful exchange is one step of the record: the value a loop
\* computed from is the value it replaces, no count carries into the flags or
\* out of the word, and a sender never registers behind `destroying`.
AtomicOnRecord ==
    [][word' # word =>
         /\ Decoded' \in Exchanges(Decoded)
         /\ is_destroying(word) =>
              is_destroying(word') /\ sender_count(word') <= sender_count(word)]_vars

\* What ~resume_guard leaves with is the scheduled bit of the word it replaces,
\* not of the one it loaded first: a claim in between is not lost.
GuardSeesClaim ==
    [][\A r \in Runners :
         pc[r] = "release" /\ pc'[r] = "out" =>
             (saw[r] <=> is_scheduled(word))]_vars

=============================================================================
