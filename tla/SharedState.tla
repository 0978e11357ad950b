---------------------------- MODULE SharedState -----------------------------
(***************************************************************************)
(* shared_state<T>: the block that a promise and its unique_future share,  *)
(* and the race between the producer's exit and the consumer's release     *)
(* over who gives it back ("last one out").                                *)
(*                                                                         *)
(* The producer is the holder of a promise (settle()), the destructor of a *)
(* message whose promise nobody took over (cleanup_fn_), or somebody who   *)
(* calls release_promise() with no result, as its tests do.  The consumer  *)
(* drops the future, polls it (is_ready(), failed(), take_ready()) or      *)
(* awaits it in an actor's behavior.  Every access to flags_ is a step of  *)
(* its own; what only one side touches goes with the access next to it.    *)
(***************************************************************************)
EXTENDS Naturals

VARIABLES
    flags,          \* flags_, as the set of the bits that are up
    slot,           \* value_: result_storage<T>
    outcome,        \* what the producer gives: a value, an error code, ...
    continuation,   \* whether continuation_ holds the awaiting coroutine
    producer,       \* where the producer is
    exit,           \* how it leaves: "settle" or "cleanup"
    repair,         \* whether release_promise() found no result
    seen,           \* `current` in try_complete_finalize()
    consumer,       \* where the consumer is
    freed           \* how often deallocate() ran

sharedVars == <<flags, slot, outcome, continuation, producer, exit, repair,
                seen, consumer, freed>>

producerVars == <<outcome, producer, exit, repair, seen>>
consumerVars == <<slot, continuation, consumer>>

-----------------------------------------------------------------------------
Flag == {"value_set", "error_set", "consumed", "promise_released",
         "future_released", "promise_finalizing"}

ResultSet == {"value_set", "error_set"}

ProducerLabel == {"working", "finalize", "check", "publish", "load", "cas",
                  "clear", "out"}

ConsumerLabel == {"holding", "ready", "extract", "register", "recheck",
                  "suspended", "resumed", "releasing", "out", "refused",
                  "aborted"}

SharedTypeOK ==
    /\ flags \in SUBSET Flag
    /\ slot \in {"empty", "full", "taken"}
    /\ outcome \in {"none", "value", "error", "exception"}
    /\ continuation \in BOOLEAN
    /\ producer \in ProducerLabel
    /\ exit \in {"settle", "cleanup"}
    /\ repair \in BOOLEAN
    /\ seen \in SUBSET Flag
    /\ consumer \in ConsumerLabel
    /\ freed \in {0, 1}

SharedInit ==
    /\ flags = {}
    /\ slot = "empty"
    /\ outcome = "none"
    /\ continuation = FALSE
    /\ producer = "working"
    /\ exit \in {"settle", "cleanup"}
    /\ repair = FALSE
    /\ seen = {}
    /\ consumer = "holding"
    /\ freed = 0

HasResult == flags \cap ResultSet # {}
HasError == "error_set" \in flags
IsReady == "promise_released" \in flags

Deallocate == freed' = freed + 1

-----------------------------------------------------------------------------
(* The producer.                                                           *)

\* Wrong: the message's cleanup reports the error and forgets the promise.
ExitForgotten(e) == IF e = "settle" THEN "finalize" ELSE "out"

\* Only settle() announces itself with promise_finalizing.
ExitStart(e) == IF e = "settle" THEN "finalize" ELSE "check"

\* set_value(), set_error(), set_exception(): storage first, then the bit.
\* A message's cleanup_fn_ knows only operation_canceled.
SetResult(o) ==
    /\ producer = "working"
    /\ exit = "cleanup" => o = "error"
    /\ outcome' = o
    /\ flags' = flags \cup {IF o = "value" THEN "value_set" ELSE "error_set"}
    /\ slot' = IF o = "value" THEN "full" ELSE slot
    /\ producer' = ExitStart(exit)
    /\ UNCHANGED <<continuation, exit, repair, seen, consumer, freed>>

\* release_promise() called with nothing set.
ReleaseWithoutResult ==
    /\ producer = "working"
    /\ exit = "cleanup"
    /\ producer' = "check"
    /\ UNCHANGED <<flags, outcome, exit, repair, seen, freed, consumerVars>>

\* settle(): fetch_or(promise_finalizing).
StartFinalize ==
    /\ producer = "finalize"
    /\ flags' = flags \cup {"promise_finalizing"}
    /\ producer' = "check"
    /\ UNCHANGED <<outcome, exit, repair, seen, freed, consumerVars>>

\* release_promise(): its load, which decides about error_set.
CheckResult ==
    /\ producer = "check"
    /\ repair' = ~HasResult
    /\ producer' = "publish"
    /\ UNCHANGED <<flags, outcome, exit, seen, freed, consumerVars>>

\* Wrong: the promise is released with whatever is there.
ReleasedBitOnly == {"promise_released"}

\* error_set rides the same read-modify-write when there is no result.
ReleasedBits ==
    {"promise_released"} \cup (IF repair THEN {"error_set"} ELSE {})

\* release_promise(): fetch_or.
ReleasePromise ==
    /\ producer = "publish"
    /\ flags' = flags \cup ReleasedBits
    /\ IF "future_released" \in flags
         THEN producer' = "out" /\ Deallocate
         ELSE /\ producer' = IF exit = "settle" THEN "load" ELSE "out"
              /\ UNCHANGED freed
    /\ UNCHANGED <<outcome, exit, repair, seen, consumerVars>>

\* try_complete_finalize(): the load.
LoadFlags ==
    /\ producer = "load"
    /\ seen' = flags
    /\ producer' = "cas"
    /\ UNCHANGED <<flags, outcome, exit, repair, freed, consumerVars>>

\* The compare-exchange, which expects no future_released.
CompleteFinalize ==
    /\ producer = "cas"
    /\ \/ /\ flags = seen \ {"future_released"}
          /\ flags' = flags \ {"promise_finalizing"}
          /\ producer' = "out"
          /\ UNCHANGED freed
       \/ /\ flags # seen \ {"future_released"}
          /\ "future_released" \in flags
          /\ producer' = "out"
          /\ Deallocate
          /\ UNCHANGED flags
       \/ /\ flags # seen \ {"future_released"}
          /\ "future_released" \notin flags
          /\ producer' = "clear"
          /\ UNCHANGED <<flags, freed>>
    /\ UNCHANGED <<outcome, exit, repair, seen, consumerVars>>

\* Wrong: a store of the value that was loaded, minus the bit.
StoredBack == seen \ {"promise_finalizing"}

WithoutFinalizing == flags \ {"promise_finalizing"}

\* It failed for another reason: fetch_and.
ClearFinalizing ==
    /\ producer = "clear"
    /\ flags' = WithoutFinalizing
    /\ producer' = "out"
    /\ UNCHANGED <<outcome, exit, repair, seen, freed, consumerVars>>

-----------------------------------------------------------------------------
(* The consumer.                                                           *)

Step(from, to) ==
    /\ consumer = from
    /\ consumer' = to

\* ~unique_future() or detach() of a future nobody looked at, and the end of a
\* behavior that is destroyed while it is suspended.
DropFuture ==
    /\ Step("holding", "releasing") \/ Step("suspended", "releasing")
    /\ UNCHANGED <<flags, slot, continuation, freed, producerVars>>

\* A poller looks at is_ready(), then at failed().
PollReady ==
    /\ IsReady
    /\ Step("holding", "ready")
    /\ UNCHANGED <<flags, slot, continuation, freed, producerVars>>

PollFailed ==
    /\ Step("ready", IF HasError THEN "releasing" ELSE "extract")
    /\ UNCHANGED <<flags, slot, continuation, freed, producerVars>>

\* Wrong: taking the value takes its bit down.
ValueBitCleared == flags \ {"value_set"}

TakenBits == flags \cup {"consumed"}

\* take_value(): mark it consumed, move it out.
TakeValue ==
    /\ flags' = TakenBits
    /\ slot' = "taken"
    /\ UNCHANGED <<continuation, freed, producerVars>>

\* take_ready(), which refuses, that is aborts, without a value.
TakeReady ==
    IF HasResult /\ ~HasError /\ slot = "full"
      THEN Step("extract", "releasing") /\ TakeValue
      ELSE /\ Step("extract", "refused")
           /\ UNCHANGED <<flags, slot, continuation, freed, producerVars>>

\* await_ready(): has_result().
AwaitReady ==
    /\ Step("holding", IF HasResult THEN "resumed" ELSE "register")
    /\ UNCHANGED <<flags, slot, continuation, freed, producerVars>>

\* future_await_suspend_cas(): register, then look again.
Register ==
    /\ Step("register", "recheck")
    /\ continuation' = TRUE
    /\ UNCHANGED <<flags, slot, freed, producerVars>>

Recheck ==
    /\ \/ /\ HasResult
          /\ Step("recheck", "resumed")
          /\ continuation' = FALSE
       \/ /\ ~HasResult
          /\ Step("recheck", "suspended")
          /\ UNCHANGED continuation
    /\ UNCHANGED <<flags, slot, freed, producerVars>>

\* resume_impl()'s drain: is_awaited_ready(), then take_awaited_continuation().
DrainAwaited ==
    /\ IsReady
    /\ continuation
    /\ Step("suspended", "resumed")
    /\ continuation' = FALSE
    /\ UNCHANGED <<flags, slot, freed, producerVars>>

\* await_resume(): rethrow, refuse a bare error, or take the value.
AwaitResume ==
    \/ /\ HasError
       /\ Step("resumed", IF outcome = "exception" THEN "releasing" ELSE "aborted")
       /\ UNCHANGED <<flags, slot, continuation, freed, producerVars>>
    \/ /\ ~HasError
       /\ IF slot = "full"
            THEN Step("resumed", "releasing") /\ TakeValue
            ELSE /\ Step("resumed", "aborted")
                 /\ UNCHANGED <<flags, slot, continuation, freed, producerVars>>

\* Wrong: a producer that is still finalizing is not waited for.
FreesWhenReleased == "promise_released" \in flags

FreesAsLast ==
    "promise_released" \in flags /\ "promise_finalizing" \notin flags

\* release_future(): fetch_or; the last one out gives the block back.
ReleaseFuture ==
    /\ Step("releasing", "out")
    /\ flags' = flags \cup {"future_released"}
    /\ IF FreesAsLast THEN Deallocate ELSE UNCHANGED freed
    /\ UNCHANGED <<slot, continuation, producerVars>>

-----------------------------------------------------------------------------
Producer ==
    \/ \E o \in {"value", "error", "exception"} : SetResult(o)
    \/ ReleaseWithoutResult
    \/ StartFinalize
    \/ CheckResult
    \/ ReleasePromise
    \/ LoadFlags
    \/ CompleteFinalize
    \/ ClearFinalizing

Consumer ==
    \/ DropFuture
    \/ PollReady
    \/ PollFailed
    \/ TakeReady
    \/ AwaitReady
    \/ Register
    \/ Recheck
    \/ DrainAwaited
    \/ AwaitResume
    \/ ReleaseFuture

SharedNext == Producer \/ Consumer

SharedSpec == SharedInit /\ [][SharedNext]_sharedVars

\* A promise is settled in the end, by its destructor if by nobody else, and
\* a suspended behavior keeps its actor scheduled, hence drained.
Fairness == WF_sharedVars(Producer) /\ WF_sharedVars(DrainAwaited)

LiveSpec == SharedSpec /\ Fairness

-----------------------------------------------------------------------------
(* Properties.                                                             *)

BothOut == producer = "out" /\ consumer = "out"

\* The block is given back only when neither side will look at it again: a
\* producer between its release and the end of try_complete_finalize() does.
NeverUsedAfterFree == freed > 0 => BothOut

\* A poller who saw is_ready() and not failed() is never refused its value:
\* "ready, not failed, nothing to take" does not exist (release_promise()).
PollerNeverRefused == consumer # "refused"

\* The outcome a consumer can see is the one the producer gave: a value that
\* was produced is never reported as an error, however late the producer
\* releases, nor is an error ever reported as a value.
OutcomeFaithful ==
    /\ outcome = "value" => "error_set" \notin flags /\ "value_set" \in flags
    /\ outcome # "value" => "value_set" \notin flags

\* Bits only go up, except promise_finalizing: no read-modify-write of one
\* side loses a bit the other has set.
FlagsMonotonic ==
    [][flags \ {"promise_finalizing"} \subseteq flags']_sharedVars

\* Only one interleaving loses the block: the consumer took the value after
\* try_complete_finalize() had loaded the flags.  The compare-exchange then
\* fails on the consumed bit and not on future_released.
LeakOnlyByOvertaking ==
    BothOut /\ freed = 0 =>
        /\ exit = "settle"
        /\ "consumed" \in flags \ seen

\* "Last one out": when both sides have left, the block has been given back.
FreedByLastOut == BothOut => freed = 1

\* A suspended awaiter is resumed, or its frame is destroyed.
AwaiterLeaves == consumer = "suspended" ~> consumer # "suspended"

=============================================================================
