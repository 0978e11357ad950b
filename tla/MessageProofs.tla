---------------------------- MODULE MessageProofs ----------------------------
(***************************************************************************)
(* Proofs about Message and Rtt, for any number of messages, promises,     *)
(* futures and resources, and every list of argument types.                *)
(***************************************************************************)
EXTENDS Message, FiniteSetTheorems, WellFoundedInduction, TLAPS

-----------------------------------------------------------------------------
(* A shared state, one operation at a time.                                *)

\* Everything in a state follows from who has left and whether a value was set.
Closed(st) ==
    /\ st \in State
    /\ st.freed = st.promise_released * st.future_released
    /\ st.has_value <=> st.value_set /\ st.future_released = 0
    /\ st.destroyed = IF st.value_set /\ st.future_released = 1 THEN 1 ELSE 0
    /\ st.value_set => st.promise_released = 1
    /\ st.future_released = 1 => st.claimed

\* A shared state is closed when it is made.
LEMMA NewClosed == Closed(NewState) /\ NewState.promise_released = 0 /\ ~NewState.claimed
                   /\ NewState.future_released = 0
  BY DEF Closed, NewState, State

\* A state by its members.
Members(vs, es, hv, d, c, pr, fr, fd) ==
    [value_set |-> vs, error_set |-> es, has_value |-> hv, destroyed |-> d,
     claimed |-> c, promise_released |-> pr, future_released |-> fr, freed |-> fd]

\* A state is given by its members.
LEMMA ByMembers ==
  ASSUME NEW st \in State
  PROVE  st = Members(st.value_set, st.error_set, st.has_value, st.destroyed, st.claimed,
                      st.promise_released, st.future_released, st.freed)
  BY DEF State, Members

\* The operations, with what they store left open: the provers take a literal
\* TRUE inside a record badly.
Valued(st, t) == [st EXCEPT !.value_set = t, !.has_value = t]
Failed(st, t) == [st EXCEPT !.error_set = t]
Emptied(st, n, t) == [st EXCEPT !.destroyed = n, !.has_value = t]
Given(st, n, t, m) == [st EXCEPT !.freed = n, !.has_value = t, !.destroyed = m]
Left(st, n, t) == [st EXCEPT !.promise_released = n, !.error_set = t]

\* set_value(), by members.
LEMMA ValuedMembers ==
  ASSUME NEW vs, NEW es, NEW hv, NEW d, NEW c, NEW pr, NEW fr, NEW fd, NEW t
  PROVE  Valued(Members(vs, es, hv, d, c, pr, fr, fd), t) = Members(t, es, t, d, c, pr, fr, fd)
  <1> DEFINE st == Members(vs, es, hv, d, c, pr, fr, fd)
  <1>1. Valued(st, t) =
          [[st EXCEPT !.value_set = t] EXCEPT !.has_value = t]
    BY DEF Valued
  <1>2. [st EXCEPT !.value_set = t] =
          Members(t, es, hv, d, c, pr, fr, fd)
    BY DEF Members
  <1>3. [Members(t, es, hv, d, c, pr, fr, fd) EXCEPT !.has_value = t] =
          Members(t, es, t, d, c, pr, fr, fd)
    BY DEF Members
  <1> QED
    BY <1>1, <1>2, <1>3, Zenon

\* set_error(), by members.
LEMMA FailedMembers ==
  ASSUME NEW vs, NEW es, NEW hv, NEW d, NEW c, NEW pr, NEW fr, NEW fd, NEW t
  PROVE  Failed(Members(vs, es, hv, d, c, pr, fr, fd), t) = Members(vs, t, hv, d, c, pr, fr, fd)
  BY DEF Members, Failed

\* Taking the value out, by members.
LEMMA EmptiedMembers ==
  ASSUME NEW vs, NEW es, NEW hv, NEW d, NEW c, NEW pr, NEW fr, NEW fd, NEW n, NEW t
  PROVE  Emptied(Members(vs, es, hv, d, c, pr, fr, fd), n, t) = Members(vs, es, t, n, c, pr, fr, fd)
  <1> DEFINE st == Members(vs, es, hv, d, c, pr, fr, fd)
  <1>1. Emptied(st, n, t) =
          [[st EXCEPT !.destroyed = n] EXCEPT !.has_value = t]
    BY DEF Emptied
  <1>2. [st EXCEPT !.destroyed = n] =
          Members(vs, es, hv, n, c, pr, fr, fd)
    BY DEF Members
  <1>3. [Members(vs, es, hv, n, c, pr, fr, fd) EXCEPT !.has_value = t] =
          Members(vs, es, t, n, c, pr, fr, fd)
    BY DEF Members
  <1> QED
    BY <1>1, <1>2, <1>3, Zenon

\* deallocate(), by members.
LEMMA GivenMembers ==
  ASSUME NEW vs, NEW es, NEW hv, NEW d, NEW c, NEW pr, NEW fr, NEW fd, NEW n, NEW t, NEW m
  PROVE  Given(Members(vs, es, hv, d, c, pr, fr, fd), n, t, m) = Members(vs, es, t, m, c, pr, fr, n)
  <1> DEFINE st == Members(vs, es, hv, d, c, pr, fr, fd)
  <1>1. Given(st, n, t, m) =
          [[[st EXCEPT !.freed = n] EXCEPT !.has_value = t] EXCEPT !.destroyed = m]
    BY DEF Given
  <1>2. [st EXCEPT !.freed = n] =
          Members(vs, es, hv, d, c, pr, fr, n)
    BY DEF Members
  <1>3. [Members(vs, es, hv, d, c, pr, fr, n) EXCEPT !.has_value = t] =
          Members(vs, es, t, d, c, pr, fr, n)
    BY DEF Members
  <1>4. [Members(vs, es, t, d, c, pr, fr, n) EXCEPT !.destroyed = m] =
          Members(vs, es, t, m, c, pr, fr, n)
    BY DEF Members
  <1> QED
    BY <1>1, <1>2, <1>3, <1>4, Zenon

\* The first half of release_promise(), by members.
LEMMA LeftMembers ==
  ASSUME NEW vs, NEW es, NEW hv, NEW d, NEW c, NEW pr, NEW fr, NEW fd, NEW n, NEW t
  PROVE  Left(Members(vs, es, hv, d, c, pr, fr, fd), n, t) = Members(vs, t, hv, d, c, n, fr, fd)
  <1> DEFINE st == Members(vs, es, hv, d, c, pr, fr, fd)
  <1>1. Left(st, n, t) =
          [[st EXCEPT !.promise_released = n] EXCEPT !.error_set = t]
    BY DEF Left
  <1>2. [st EXCEPT !.promise_released = n] =
          Members(vs, es, hv, d, c, n, fr, fd)
    BY DEF Members
  <1>3. [Members(vs, es, hv, d, c, n, fr, fd) EXCEPT !.error_set = t] =
          Members(vs, t, hv, d, c, n, fr, fd)
    BY DEF Members
  <1> QED
    BY <1>1, <1>2, <1>3, Zenon

\* Reading the members back.
LEMMA Read ==
  ASSUME NEW vs, NEW es, NEW hv, NEW d, NEW c, NEW pr, NEW fr, NEW fd, NEW st,
         st = Members(vs, es, hv, d, c, pr, fr, fd)
  PROVE  /\ st.value_set = vs /\ st.error_set = es /\ st.has_value = hv
         /\ st.destroyed = d /\ st.claimed = c /\ st.promise_released = pr
         /\ st.future_released = fr /\ st.freed = fd
  BY DEF Members

\* A value that is known to be TRUE, or FALSE; left closed where records are
\* compared, for the same reason.
Yes(t) == t = TRUE
No(f) == f = FALSE

\* There is such a value, and it is a Boolean.
LEMMA YesNo ==
  /\ \E t : Yes(t)
  /\ \E f : No(f)
  /\ \A t : Yes(t) => t /\ t \in BOOLEAN
  /\ \A f : No(f) => ~f /\ f \in BOOLEAN
  BY Zenon DEF Yes, No

\* The operations of the shared state are those with what they store put in.
LEMMA Operations ==
  ASSUME NEW st
  PROVE  /\ \A t : Yes(t) => SetValue(st) = Valued(st, t)
         /\ \A t : Yes(t) => SetError(st) = Failed(st, t)
         /\ \A f : No(f) => Taken(st) = Emptied(st, st.destroyed + 1, f)
         /\ \A f : No(f) => Deallocated(st) =
              Given(st, st.freed + 1, f,
                    IF st.has_value THEN st.destroyed + 1 ELSE st.destroyed)
         /\ [st EXCEPT !.promise_released = @ + 1, !.error_set = @ \/ ~st.value_set] =
              Left(st, st.promise_released + 1, st.error_set \/ ~st.value_set)
  BY Zenon DEF SetValue, SetError, Taken, Deallocated, Valued, Failed, Emptied, Given, Left,
               Yes, No

\* The same of the members of a closed state.
ClosedMembers(v, e, h, d, c, pr, fr, fd) ==
    /\ v \in BOOLEAN /\ e \in BOOLEAN /\ h \in BOOLEAN /\ c \in BOOLEAN
    /\ pr \in 0 .. 1 /\ fr \in 0 .. 1
    /\ fd = (IF pr = 1 /\ fr = 1 THEN 1 ELSE 0)
    /\ d = (IF v /\ fr = 1 THEN 1 ELSE 0)
    /\ h <=> v /\ fr = 0
    /\ v => pr = 1
    /\ fr = 1 => c

\* A state whose members are closed is closed.
LEMMA FromMembers ==
  ASSUME NEW v, NEW e, NEW h, NEW d, NEW c, NEW pr, NEW fr, NEW fd,
         ClosedMembers(v, e, h, d, c, pr, fr, fd),
         NEW x, x = Members(v, e, h, d, c, pr, fr, fd)
  PROVE  /\ Closed(x) /\ x.promise_released = pr /\ x.future_released = fr /\ x.claimed = c
  <1>0. /\ v \in BOOLEAN /\ e \in BOOLEAN /\ h \in BOOLEAN /\ c \in BOOLEAN
        /\ pr \in 0 .. 1 /\ fr \in 0 .. 1
    BY DEF ClosedMembers
  <1>1. d \in 0 .. 1 /\ fd \in 0 .. 1 /\ fd = pr * fr
    <2>1. (pr = 0 \/ pr = 1) /\ (fr = 0 \/ fr = 1)
      BY <1>0
    <2> QED
      BY <2>1 DEF ClosedMembers
  <1>2. x \in State
    BY <1>0, <1>1 DEF Members, State
  <1>3. /\ x.value_set = v /\ x.has_value = h /\ x.destroyed = d /\ x.claimed = c
        /\ x.promise_released = pr /\ x.future_released = fr /\ x.freed = fd
    BY Read
  <1> QED
    BY <1>1, <1>2, <1>3, Zenon DEF Closed, ClosedMembers

\* release_promise(), by members.
LEMMA PromiseOut ==
  ASSUME NEW v, NEW e, NEW h, NEW d, NEW c, NEW fr, NEW e1, NEW f, NEW d1,
         No(f), d1 = d + 1,
         NEW st, st = Members(v, e, h, d, c, 0, fr, 0),
         e1 = (e \/ ~v)
  PROVE  ReleasePromise(st) =
           IF fr > 0 THEN Members(v, e1, f, IF h THEN d1 ELSE d, c, 1, fr, 1)
                     ELSE Members(v, e1, h, d, c, 1, fr, 0)
  <1> DEFINE s1 == Members(v, e1, h, d, c, 1, fr, 0)
  <1>2. /\ st.promise_released = 0 /\ st.error_set = e /\ st.value_set = v
        /\ st.future_released = fr /\ s1.freed = 0 /\ s1.has_value = h /\ s1.destroyed = d
    BY Read
  <1>3. [st EXCEPT !.promise_released = @ + 1, !.error_set = @ \/ ~st.value_set] = s1
    <2>1. [st EXCEPT !.promise_released = @ + 1, !.error_set = @ \/ ~st.value_set] =
            Left(st, st.promise_released + 1, st.error_set \/ ~st.value_set)
      BY Operations, Zenon
    <2>2. Left(st, 1, e1) = s1
      BY LeftMembers
    <2>3. st.promise_released + 1 = 1
      BY <1>2
    <2> QED
      BY <1>2, <2>1, <2>2, <2>3, Zenon
  <1>4. Deallocated(s1) = Members(v, e1, f, IF h THEN d1 ELSE d, c, 1, fr, 1)
    <2>1. Deallocated(s1) = Given(s1, s1.freed + 1, f,
                                  IF s1.has_value THEN s1.destroyed + 1 ELSE s1.destroyed)
      BY Operations, Zenon
    <2>2. Given(s1, 1, f, IF h THEN d1 ELSE d) = Members(v, e1, f, IF h THEN d1 ELSE d, c, 1, fr, 1)
      <3>1. ASSUME NEW m
            PROVE  Given(s1, 1, f, m) = Members(v, e1, f, m, c, 1, fr, 1)
        BY GivenMembers
      <3> QED
        BY <3>1, Zenon
    <2>3. s1.freed + 1 = 1
      BY <1>2
    <2> QED
      BY <1>2, <2>1, <2>2, <2>3, Zenon
  <1> QED
    BY <1>2, <1>3, <1>4, Zenon DEF ReleasePromise

\* release() of the future, by members.
LEMMA FutureOut ==
  ASSUME NEW v, NEW e, NEW h, NEW d, NEW c, NEW pr, NEW f, NEW d1,
         No(f), d1 = d + 1,
         NEW st, st = Members(v, e, h, d, c, pr, 0, 0)
  PROVE  ReleaseFuture(st) =
           IF pr > 0 THEN Members(v, e, f, IF h THEN d1 ELSE d, c, pr, 1, 1)
                     ELSE Members(v, e, h, d, c, pr, 1, 0)
  <1> DEFINE s1 == Members(v, e, h, d, c, pr, 1, 0)
  <1>2. st.promise_released = pr /\ s1.freed = 0 /\ s1.has_value = h /\ s1.destroyed = d
    BY Read
  <1>3. [st EXCEPT !.future_released = @ + 1] = s1
    BY DEF Members
  <1>4. Deallocated(s1) = Members(v, e, f, IF h THEN d1 ELSE d, c, pr, 1, 1)
    <2>1. Deallocated(s1) = Given(s1, s1.freed + 1, f,
                                  IF s1.has_value THEN s1.destroyed + 1 ELSE s1.destroyed)
      BY Operations, Zenon
    <2>2. ASSUME NEW m
          PROVE  Given(s1, 1, f, m) = Members(v, e, f, m, c, pr, 1, 1)
      BY GivenMembers
    <2>3. s1.freed + 1 = 1
      BY <1>2
    <2> QED
      BY <1>2, <2>1, <2>2, <2>3, SMTT(30)
  <1> QED
    BY <1>2, <1>3, <1>4, Zenon DEF ReleaseFuture

\* A promise leaves a state that has no outcome, with the outcome v.
LEMMA PromiseLeft ==
  ASSUME NEW v \in BOOLEAN, NEW e \in BOOLEAN, NEW c \in BOOLEAN, NEW fr \in 0 .. 1,
         fr = 1 => c,
         NEW st, st = Members(v, e, v, 0, c, 0, fr, 0)
  PROVE  /\ Closed(ReleasePromise(st)) /\ ReleasePromise(st).promise_released = 1
         /\ ReleasePromise(st).future_released = fr /\ ReleasePromise(st).claimed = c
  <1>1. PICK f : No(f)
    BY YesNo, Zenon
  <1>2. PICK e1 : e1 = (e \/ ~v)
    OBVIOUS
  <1>3. PICK d1 : d1 = 0 + 1
    OBVIOUS
  <1>4. ReleasePromise(st) =
          IF fr > 0 THEN Members(v, e1, f, IF v THEN d1 ELSE 0, c, 1, fr, 1)
                    ELSE Members(v, e1, v, 0, c, 1, fr, 0)
    BY <1>1, <1>2, <1>3, PromiseOut
  <1>5. e1 \in BOOLEAN /\ f \in BOOLEAN /\ ~f
    BY <1>1, <1>2, YesNo
  <1>6. CASE fr = 0
    <2>1. ClosedMembers(v, e1, v, 0, c, 1, fr, 0)
      BY <1>5, <1>6 DEF ClosedMembers
    <2>2. ReleasePromise(st) = Members(v, e1, v, 0, c, 1, fr, 0)
      BY <1>4, <1>6
    <2> QED
      BY <2>1, <2>2, FromMembers
  <1>7. CASE fr = 1
    <2>1. ClosedMembers(v, e1, f, IF v THEN d1 ELSE 0, c, 1, fr, 1)
      BY <1>3, <1>5, <1>7 DEF ClosedMembers
    <2>2. ReleasePromise(st) = Members(v, e1, f, IF v THEN d1 ELSE 0, c, 1, fr, 1)
      <3>1. fr > 0
        BY <1>7
      <3> QED
        BY <1>4, <3>1, Zenon
    <2> QED
      BY <2>1, <2>2, FromMembers
  <1> QED
    BY <1>6, <1>7

\* set_value(), error() or the destructor: the promise is gone.
LEMMA PromiseLeaves ==
  ASSUME NEW st, Closed(st), st.promise_released = 0,
         NEW x \in {ReleasePromise(SetValue(st)), ReleasePromise(SetError(st))}
  PROVE  /\ Closed(x) /\ x.promise_released = 1
         /\ x.future_released = st.future_released /\ x.claimed = st.claimed
  <1>0. PICK t, f : Yes(t) /\ No(f)
    BY YesNo, Zenon
  <1> DEFINE es == st.error_set
             c == st.claimed
             fr == st.future_released
  <1>1. /\ es \in BOOLEAN /\ c \in BOOLEAN /\ fr \in 0 .. 1 /\ (fr = 1 => c)
        /\ st.value_set = f /\ st.has_value = f /\ st.destroyed = 0 /\ st.freed = 0
    <2>1. /\ es \in BOOLEAN /\ c \in BOOLEAN /\ fr \in 0 .. 1 /\ (fr = 1 => c)
          /\ st.value_set \in BOOLEAN /\ st.has_value \in BOOLEAN
          /\ ~st.value_set /\ ~st.has_value
      BY DEF Closed, State
    <2>2. st.destroyed = 0 /\ st.freed = 0
      BY <2>1 DEF Closed
    <2>3. st.value_set = f /\ st.has_value = f
      BY <1>0, <2>1, Zenon DEF No
    <2> QED
      BY <2>1, <2>2, <2>3, Zenon
  <1>3. st = Members(f, es, f, 0, c, 0, fr, 0)
    <2>1. st = Members(st.value_set, es, st.has_value, st.destroyed, c,
                       st.promise_released, fr, st.freed)
      BY ByMembers, Zenon DEF Closed
    <2> QED
      BY <1>1, <2>1, Zenon
  <1>6. t \in BOOLEAN /\ f \in BOOLEAN
    BY <1>0, YesNo, Zenon
  <1> HIDE DEF es, c, fr
  <1>4. SetValue(st) = Members(t, es, t, 0, c, 0, fr, 0)
    <2>1. SetValue(st) = Valued(st, t)
      BY <1>0, Operations, Zenon
    <2> QED
      BY <1>3, <2>1, ValuedMembers
  <1>5. SetError(st) = Members(f, t, f, 0, c, 0, fr, 0)
    <2>1. SetError(st) = Failed(st, t)
      BY <1>0, Operations, Zenon
    <2> QED
      BY <1>3, <2>1, FailedMembers
  <1>7. CASE x = ReleasePromise(SetValue(st))
    <2>1. /\ Closed(ReleasePromise(SetValue(st)))
          /\ ReleasePromise(SetValue(st)).promise_released = 1
          /\ ReleasePromise(SetValue(st)).future_released = fr
          /\ ReleasePromise(SetValue(st)).claimed = c
      BY <1>1, <1>4, <1>6, PromiseLeft
    <2> QED
      BY <1>7, <2>1, Zenon DEF fr, c
  <1>8. CASE x = ReleasePromise(SetError(st))
    <2>1. /\ Closed(ReleasePromise(SetError(st)))
          /\ ReleasePromise(SetError(st)).promise_released = 1
          /\ ReleasePromise(SetError(st)).future_released = fr
          /\ ReleasePromise(SetError(st)).claimed = c
      BY <1>1, <1>5, <1>6, PromiseLeft
    <2> QED
      BY <1>8, <2>1, Zenon DEF fr, c
  <1> QED
    BY <1>7, <1>8, Zenon

\* A future leaves a state whose value, if it has one, is there or was taken.
LEMMA FutureLeft ==
  ASSUME NEW v \in BOOLEAN, NEW e \in BOOLEAN, NEW h \in BOOLEAN, NEW c \in BOOLEAN, Yes(c),
         NEW d \in 0 .. 1, NEW pr \in 0 .. 1, v => pr = 1,
         d = IF v /\ ~h THEN 1 ELSE 0, h => v,
         NEW st, st = Members(v, e, h, d, c, pr, 0, 0)
  PROVE  /\ Closed(ReleaseFuture(st)) /\ ReleaseFuture(st).promise_released = pr
         /\ ReleaseFuture(st).future_released = 1 /\ ReleaseFuture(st).claimed = c
  <1>1. PICK f : No(f)
    BY YesNo, Zenon
  <1>3. PICK d1 : d1 = d + 1
    OBVIOUS
  <1>4. ReleaseFuture(st) =
          IF pr > 0 THEN Members(v, e, f, IF h THEN d1 ELSE d, c, pr, 1, 1)
                    ELSE Members(v, e, h, d, c, pr, 1, 0)
    BY <1>1, <1>3, FutureOut
  <1>5. f \in BOOLEAN /\ ~f
    BY <1>1, YesNo
  <1>6. CASE pr = 0
    <2>1. ClosedMembers(v, e, h, d, c, pr, 1, 0)
      BY <1>5, <1>6, YesNo DEF ClosedMembers
    <2>2. ReleaseFuture(st) = Members(v, e, h, d, c, pr, 1, 0)
      <3>1. ~(pr > 0)
        BY <1>6
      <3> QED
        BY <1>4, <3>1, Zenon
    <2> QED
      BY <2>1, <2>2, FromMembers
  <1>7. CASE pr = 1
    <2>1. ClosedMembers(v, e, f, IF h THEN d1 ELSE d, c, pr, 1, 1)
      BY <1>3, <1>5, <1>7, YesNo DEF ClosedMembers
    <2>2. ReleaseFuture(st) = Members(v, e, f, IF h THEN d1 ELSE d, c, pr, 1, 1)
      <3>1. pr > 0
        BY <1>7
      <3> QED
        BY <1>4, <3>1, Zenon
    <2> QED
      BY <2>1, <2>2, FromMembers
  <1> QED
    BY <1>6, <1>7

\* What a state that has its future holds.
LEMMA HeldMembers ==
  ASSUME NEW st, Closed(st), st.future_released = 0
  PROVE  /\ st = Members(st.value_set, st.error_set, st.value_set, 0, st.claimed,
                         st.promise_released, 0, 0)
         /\ st.value_set \in BOOLEAN /\ st.error_set \in BOOLEAN /\ st.claimed \in BOOLEAN
         /\ st.promise_released \in 0 .. 1 /\ (st.value_set => st.promise_released = 1)
         /\ st.destroyed = 0
  <1>1. /\ st.value_set \in BOOLEAN /\ st.error_set \in BOOLEAN /\ st.claimed \in BOOLEAN
        /\ st.promise_released \in 0 .. 1 /\ (st.value_set => st.promise_released = 1)
        /\ st.has_value \in BOOLEAN /\ (st.has_value <=> st.value_set)
    BY DEF Closed, State
  <1>2. st.destroyed = 0 /\ st.freed = 0
    BY <1>1 DEF Closed
  <1>3. st.has_value = st.value_set
    BY <1>1
  <1>4. st = Members(st.value_set, st.error_set, st.has_value, st.destroyed, st.claimed,
                     st.promise_released, st.future_released, st.freed)
    BY ByMembers, Zenon DEF Closed
  <1> QED
    BY <1>1, <1>2, <1>3, <1>4, Zenon

\* release() of a future whose value, if there is one, was not taken.
LEMMA FutureLeaves ==
  ASSUME NEW st, Closed(st), st.future_released = 0, st.claimed
  PROVE  /\ Closed(ReleaseFuture(st)) /\ ReleaseFuture(st).future_released = 1
         /\ ReleaseFuture(st).promise_released = st.promise_released
         /\ ReleaseFuture(st).claimed
  <1> DEFINE v == st.value_set
             e == st.error_set
             c == st.claimed
             pr == st.promise_released
  <1>1. /\ st = Members(v, e, v, 0, c, pr, 0, 0)
        /\ v \in BOOLEAN /\ e \in BOOLEAN /\ c \in BOOLEAN
        /\ pr \in 0 .. 1 /\ (v => pr = 1)
    BY HeldMembers, Zenon
  <1>2. Yes(c)
    BY <1>1, Zenon DEF Yes
  <1> SUFFICES ASSUME NEW w, NEW e1, NEW c1, NEW pr1, w = v, e1 = e, c1 = c, pr1 = pr
               PROVE  /\ Closed(ReleaseFuture(st)) /\ ReleaseFuture(st).future_released = 1
                      /\ ReleaseFuture(st).promise_released = pr1
                      /\ ReleaseFuture(st).claimed = c1
    BY Zenon
  <1> HIDE DEF v, e, c, pr
  <1>3. 0 = IF w /\ ~w THEN 1 ELSE 0
    BY Zenon
  <1> QED
    BY <1>1, <1>2, <1>3, FutureLeft

\* take(), then release().
LEMMA ValueLeaves ==
  ASSUME NEW st, Closed(st), st.future_released = 0, st.claimed, Extractable(st)
  PROVE  /\ Closed(ReleaseFuture(Taken(st)))
         /\ ReleaseFuture(Taken(st)).future_released = 1
         /\ ReleaseFuture(Taken(st)).promise_released = st.promise_released
         /\ ReleaseFuture(Taken(st)).claimed
  <1>0. PICK f : No(f)
    BY YesNo, Zenon
  <1> DEFINE v == st.value_set
             e == st.error_set
             c == st.claimed
             pr == st.promise_released
  <1>1. /\ st = Members(v, e, v, 0, c, pr, 0, 0) /\ st.destroyed = 0
        /\ v \in BOOLEAN /\ e \in BOOLEAN /\ c \in BOOLEAN
        /\ pr \in 0 .. 1 /\ (v => pr = 1)
    BY HeldMembers, Zenon
  <1>2. Yes(c) /\ Yes(v) /\ f \in BOOLEAN /\ ~f
    BY <1>0, <1>1, YesNo, Zenon DEF Yes, Extractable
  <1>3. Taken(st) = Emptied(st, 1, f)
    <2>1. Taken(st) = Emptied(st, st.destroyed + 1, f)
      BY <1>0, Operations, Zenon
    <2>2. st.destroyed + 1 = 1
      BY <1>1
    <2> QED
      BY <2>1, <2>2, Zenon
  <1> SUFFICES ASSUME NEW w, NEW e1, NEW c1, NEW pr1, w = v, e1 = e, c1 = c, pr1 = pr
               PROVE  /\ Closed(ReleaseFuture(Taken(st)))
                      /\ ReleaseFuture(Taken(st)).future_released = 1
                      /\ ReleaseFuture(Taken(st)).promise_released = pr1
                      /\ ReleaseFuture(Taken(st)).claimed = c1
    BY Zenon
  <1> HIDE DEF v, e, c, pr
  <1>4. Taken(st) = Members(w, e1, f, 1, c1, pr1, 0, 0)
    BY <1>1, <1>3, EmptiedMembers
  <1>5. 1 = IF w /\ ~f THEN 1 ELSE 0
    <2>1. Yes(w)
      BY <1>2, Zenon
    <2>2. w /\ ~f
      BY <1>2, <2>1, Zenon DEF Yes
    <2> QED
      BY <2>2
  <1>6. (f => w) /\ Yes(c1) /\ f \in BOOLEAN
    BY <1>2, Zenon
  <1>7. /\ w \in BOOLEAN /\ e1 \in BOOLEAN /\ c1 \in BOOLEAN
        /\ pr1 \in 0 .. 1 /\ (w => pr1 = 1)
    BY <1>1, Zenon
  <1>8. 1 \in 0 .. 1
    OBVIOUS
  <1> QED
    BY <1>4, <1>5, <1>6, <1>7, <1>8, FutureLeft

\* A future is made for a state.
LEMMA FutureClaimed ==
  ASSUME NEW st, Closed(st)
  PROVE  /\ Closed([st EXCEPT !.claimed = TRUE]) /\ [st EXCEPT !.claimed = TRUE].claimed
         /\ [st EXCEPT !.claimed = TRUE].promise_released = st.promise_released
         /\ [st EXCEPT !.claimed = TRUE].future_released = st.future_released
  BY DEF Closed, State

-----------------------------------------------------------------------------
(* Who owns what: a place has a thing, or Null, and no two have the same.  *)

Values(F) == {F[x] : x \in DOMAIN F} \ {Null}

Injective(F) == \A a, b \in DOMAIN F : F[a] = F[b] /\ F[a] # Null => a = b

MovedTo(F, a, b) == [F EXCEPT ![a] = F[b], ![b] = Null]
PutAt(F, a, n) == [F EXCEPT ![a] = n]
Swapped(F, a, b) == [F EXCEPT ![a] = F[b], ![b] = F[a]]

\* A move takes what b has to a, and a loses what it had.
LEMMA OwnsMove ==
  ASSUME NEW X, NEW F, F \in [X -> Ids \cup {Null}], Injective(F),
         NEW a \in X, NEW b \in X, a # b
  PROVE  /\ Injective(MovedTo(F, a, b)) /\ Values(MovedTo(F, a, b)) = Values(F) \ {F[a]}
         /\ MovedTo(F, a, b) \in [X -> Ids \cup {Null}]
  BY DEF Injective, Values, MovedTo

\* A place that has nothing is given something new.
LEMMA OwnsSet ==
  ASSUME NEW X, NEW F, F \in [X -> Ids \cup {Null}], Injective(F),
         NEW a \in X, F[a] = Null, NEW n \in Ids, n # Null, n \notin Values(F)
  PROVE  /\ Injective(PutAt(F, a, n)) /\ Values(PutAt(F, a, n)) = Values(F) \cup {n}
         /\ PutAt(F, a, n) \in [X -> Ids \cup {Null}]
  BY DEF Injective, Values, PutAt

\* A place is emptied.
LEMMA OwnsClear ==
  ASSUME NEW X, NEW F, F \in [X -> Ids \cup {Null}], Injective(F), NEW a \in X
  PROVE  /\ Injective(PutAt(F, a, Null)) /\ Values(PutAt(F, a, Null)) = Values(F) \ {F[a]}
         /\ PutAt(F, a, Null) \in [X -> Ids \cup {Null}]
  BY DEF Injective, Values, PutAt

\* Two places exchange what they have.
LEMMA OwnsSwap ==
  ASSUME NEW X, NEW F, F \in [X -> Ids \cup {Null}], Injective(F),
         NEW a \in X, NEW b \in X, a # b
  PROVE  Injective(Swapped(F, a, b)) /\ Values(Swapped(F, a, b)) = Values(F)
  BY DEF Injective, Values, Swapped

-----------------------------------------------------------------------------
(* The inductive invariant.                                                *)

Entry == [offset : Nat, type : Types]

\* What LayoutSound says of one buffer.
LaidOut(b) ==
    /\ b.objects \in Seq(Entry)
    /\ \A i \in DOMAIN b.objects :
         /\ b.objects[i].offset % AlignOf[b.objects[i].type] = 0
         /\ b.objects[i].offset + SizeOf[b.objects[i].type] <= b.capacity
    /\ \A i, j \in DOMAIN b.objects :
         i < j => b.objects[i].offset + SizeOf[b.objects[i].type] <= b.objects[j].offset

MsgsOK ==
    /\ msg \in [Objects -> Messages \cup {Null}]
    /\ \A o \in Objects : msg[o] # Null => LaidOut(msg[o].body)

TypesOK ==
    /\ prom \in [Promises -> Ids \cup {Null}]
    /\ fut \in [Futures -> Ids \cup {Null}]
    /\ state \in [Ids -> State]
    /\ made \in 0 .. MaxMade
    /\ thrown \subseteq 1 .. made
    /\ aborted \in {Null, "force_align", "take_ready"}
    /\ aborted = "force_align" => made # 0

Born == 1 .. made \ Unborn

\* The state that a message has to settle, and the buffer it carries.
Duty ==
    [o \in Objects |->
        IF msg[o] # Null /\ ~msg[o].transferred THEN msg[o].slot ELSE Null]

Carried == [o \in Objects |-> IF msg[o] # Null THEN msg[o].body.allocation ELSE Null]

\* The states that are still to be settled are the ones that messages and
\* promises have, each of them one.
Unsettled == {n \in Born : state[n].promise_released = 0}

Settling ==
    /\ Injective(Duty) /\ Injective(prom)
    /\ Values(Duty) \cap Values(prom) = {}
    /\ Values(Duty) \cup Values(prom) = Unsettled

\* The states whose future is held are the ones that futures have.
Open == {n \in Born : state[n].claimed /\ state[n].future_released = 0}

Holding == Injective(fut) /\ Values(fut) = Open

StatesOK ==
    \A n \in Ids : Closed(state[n]) /\ (n \notin Born => state[n] = NewState)

\* What clear() will compute from a body is what was allocated.
Matches(b, h) ==
    /\ h.resource = b.resource
    /\ h.size = total_size(b.capacity, Len(b.objects))
    /\ h.count = Len(b.objects)

Matching(H) ==
    \A o \in Objects : Carried[o] # Null => Matches(msg[o].body, H[Carried[o]])

Whole(h) == [resource |-> h.resource, size |-> h.size]

HeapOK(h) ==
    /\ h = [resource |-> h.resource, size |-> h.size, count |-> h.count,
            destroyed |-> h.destroyed, freed |-> h.freed]
    /\ h.count \in Nat
    /\ h.count = 0 => h = NoBuffer
    /\ \/ h.freed = <<>> /\ h.destroyed = <<>>
       \/ /\ h.freed = <<Whole(h)>>
          /\ h.destroyed = Reverse([i \in 1 .. h.count |-> i])

HeapTypes ==
    /\ heap = [n \in Ids |-> heap[n]]
    /\ \A n \in Ids : HeapOK(heap[n]) /\ (n \notin 1 .. made => heap[n] = NoBuffer)
    /\ \A n \in Unborn : heap[n].freed = <<>>

\* The buffers that have not been given back are the ones that messages carry.
Held == {n \in Born : heap[n].count # 0 /\ heap[n].freed = <<>>}

Buffers == HeapTypes /\ Injective(Carried) /\ Values(Carried) = Held /\ Matching(heap)

IInv == MsgsOK /\ TypesOK /\ Settling /\ Holding /\ StatesOK /\ Buffers

-----------------------------------------------------------------------------
(* Laying out arguments.                                                   *)

Less == {p \in Nat \X Nat : p[1] < p[2]}

\* Every set of numbers that is not empty has a least one: the induction over
\* a list of arguments.
LEMMA Least ==
  ASSUME NEW S, S \subseteq Nat, S # {}
  PROVE  \E x \in S : \A y \in S : x <= y
  <1>1. IsWellFoundedOn(Less, Nat)
    BY NatLessThanWellFounded DEF OpToRel, Less
  <1>2. PICK x \in S : \A y \in S : ~(<<y, x>> \in Less)
    BY <1>1, WFMin
  <1>3. ASSUME NEW y \in S PROVE x <= y
    <2>1. x \in Nat /\ y \in Nat
      BY <1>2
    <2>2. <<y, x>> \in Less <=> y < x
      BY <2>1 DEF Less
    <2> QED
      BY <1>2, <2>1, <2>2
  <1> QED
    BY <1>3

\* One step of Filled.
Pushed(b, args, i) ==
    IF Len(b.objects) = i - 1 /\ Fits(b, args[i]) THEN PushBack(b, args[i]) ELSE b

Stages(g, body, args, n) ==
    g = [i \in 0 .. n |-> IF i = 0 THEN body ELSE Pushed(g[i - 1], args, i)]

\* The buffers that Filled goes through exist.
LEMMA StagesExist ==
  ASSUME NEW body, NEW args, NEW n \in Nat
  PROVE  \E g : Stages(g, body, args, n)
  <1> DEFINE Bad == {m \in Nat : ~\E g : Stages(g, body, args, m)}
  <1>1. SUFFICES ASSUME Bad # {} PROVE FALSE
    BY Zenon
  <1>2. PICK m \in Bad : \A k \in Bad : m <= k
    BY <1>1, Least
  <1>3. m \in Nat /\ ~\E g : Stages(g, body, args, m)
    BY <1>2
  <1>4. CASE m = 0
    <2> DEFINE g == [i \in 0 .. 0 |-> body]
    <2>1. g = [i \in 0 .. 0 |-> IF i = 0 THEN body ELSE Pushed(g[i - 1], args, i)]
      OBVIOUS
    <2>2. Stages(g, body, args, 0)
      BY <2>1, Zenon DEF Stages
    <2> QED
      BY <1>3, <1>4, <2>2, Zenon
  <1>5. CASE m # 0
    <2>1. m - 1 \in Nat /\ ~(m <= m - 1)
      BY <1>3, <1>5
    <2>2. PICK h : Stages(h, body, args, m - 1)
      BY <1>2, <2>1
    <2> DEFINE g == [i \in 0 .. m |-> IF i = m THEN Pushed(h[m - 1], args, m) ELSE h[i]]
    <2>3. \A i \in 0 .. m - 1 : h[i] = IF i = 0 THEN body ELSE Pushed(h[i - 1], args, i)
      BY <2>2, Zenon DEF Stages
    <2>4. ASSUME NEW i \in 0 .. m
          PROVE  g[i] = IF i = 0 THEN body ELSE Pushed(g[i - 1], args, i)
      <3>1. CASE i = 0
        BY <1>3, <1>5, <2>1, <2>3, <3>1
      <3>2. CASE i = m
        <4>1. g[i - 1] = h[m - 1]
          BY <1>3, <1>5, <2>1, <3>2
        <4> QED
          BY <1>5, <3>2, <4>1, Zenon
      <3>3. CASE i # 0 /\ i # m
        <4>1. i \in 0 .. m - 1 /\ i - 1 \in 0 .. m /\ i - 1 # m
          BY <1>3, <3>3
        <4>2. g[i] = h[i] /\ g[i - 1] = h[i - 1]
          BY <3>3, <4>1, Zenon
        <4> QED
          BY <2>3, <3>3, <4>1, <4>2, Zenon
      <3> QED
        BY <3>1, <3>2, <3>3, Zenon
    <2>5. Stages(g, body, args, m)
      BY <2>4, Zenon DEF Stages
    <2> QED
      BY <1>3, <2>5, Zenon
  <1> QED
    BY <1>4, <1>5, Zenon

\* What Filled() yields is the last of its stages, one for each argument.
LEMMA FilledStages ==
  ASSUME NEW body, NEW args, NEW n \in Nat
  PROVE  \E g : Stages(g, body, args, n) /\ Filled(body, args, n) = g[n]
  <1> DEFINE at == CHOOSE g : g = [i \in 0 .. n |-> IF i = 0 THEN body
                                                    ELSE Pushed(g[i - 1], args, i)]
  <1>1. Filled(body, args, n) = at[n]
    BY DEF Filled, Pushed
  <1>2. \E g : g = [i \in 0 .. n |-> IF i = 0 THEN body ELSE Pushed(g[i - 1], args, i)]
    <2>1. PICK g : Stages(g, body, args, n)
      BY StagesExist, Zenon
    <2> QED
      BY <2>1, Zenon DEF Stages
  <1>3. Stages(at, body, args, n)
    BY <1>2, Zenon DEF Stages
  <1> QED
    BY <1>1, <1>3, Zenon

\* std::align(): the next place that is aligned.
LEMMA Aligned ==
  ASSUME NEW v \in Nat, NEW t \in Types
  PROVE  /\ try_to_align(v, t) \in Nat /\ v <= try_to_align(v, t)
         /\ try_to_align(v, t) % AlignOf[t] = 0
  <1>1. AlignOf[t] \in {1, 2, 4, 8, 16}
    BY TypesAssumption DEF TypesAssumption
  <1>2. ASSUME NEW a \in {1, 2, 4, 8, 16}
        PROVE  align_up(v, a) \in Nat /\ v <= align_up(v, a) /\ align_up(v, a) % a = 0
    BY DEF align_up
  <1> QED
    BY <1>1, <1>2 DEF try_to_align

\* A buffer that began as `body`, with what was pushed into it.
Grown(b, body) ==
    /\ b = [resource |-> body.resource, capacity |-> body.capacity, volume |-> b.volume,
            allocation |-> body.allocation, objects |-> b.objects]
    /\ b.volume \in Nat
    /\ LaidOut(b)
    /\ \A i \in DOMAIN b.objects : b.objects[i].offset + SizeOf[b.objects[i].type] <= b.volume

\* A buffer by its members.
Buffer(r, c, v, a, os) ==
    [resource |-> r, capacity |-> c, volume |-> v, allocation |-> a, objects |-> os]

\* Storing the objects, by members.
LEMMA BufferStore ==
  ASSUME NEW r, NEW c, NEW v, NEW a, NEW os, NEW x, NEW y, x = Buffer(r, c, v, a, os)
  PROVE  [x EXCEPT !.objects = y] = Buffer(r, c, v, a, y)
  BY DEF Buffer

\* push_back_no_realloc() keeps the arguments apart.
LEMMA PushGrows ==
  ASSUME NEW body, NEW b, Grown(b, body), NEW t \in Types, Fits(b, t)
  PROVE  Grown(PushBack(b, t), body)
  <1> DEFINE type == Decay[t]
             offset == try_to_align(b.volume, type)
             entry == [offset |-> offset, type |-> type]
             objects == Append(b.objects, entry)
             volume == offset + SizeOf[type]
             new == [resource |-> body.resource, capacity |-> body.capacity,
                     volume |-> volume, allocation |-> body.allocation, objects |-> objects]
  <1>1. type \in Types /\ SizeOf[type] \in Nat
    BY TypesAssumption DEF TypesAssumption
  <1>2. /\ offset \in Nat /\ b.volume <= offset /\ b.volume \in Nat
        /\ offset % AlignOf[type] = 0
    BY <1>1, Aligned DEF Grown
  <1>3. volume <= body.capacity /\ b.capacity = body.capacity
    BY DEF Fits, Grown
  <1>4. PushBack(b, t) = new
    <2>1. PushBack(b, t) = [[b EXCEPT !.objects = objects] EXCEPT !.volume = volume]
      BY Zenon DEF PushBack
    <2> HIDE DEF objects, volume
    <2>2. b = Buffer(body.resource, body.capacity, b.volume, body.allocation, b.objects)
      BY Zenon DEF Grown, Buffer
    <2>3. [b EXCEPT !.objects = objects] =
            Buffer(body.resource, body.capacity, b.volume, body.allocation, objects)
      BY <2>2, BufferStore
    <2>4. [[b EXCEPT !.objects = objects] EXCEPT !.volume = volume] =
            Buffer(body.resource, body.capacity, volume, body.allocation, objects)
      <3> DEFINE x == [b EXCEPT !.objects = objects]
      <3> HIDE DEF x
      <3>1. x = Buffer(body.resource, body.capacity, b.volume, body.allocation, objects)
        BY <2>3, Zenon DEF x
      <3>2. [x EXCEPT !.volume = volume] =
              Buffer(body.resource, body.capacity, volume, body.allocation, objects)
        BY <3>1 DEF Buffer
      <3> QED
        BY <3>2, Zenon DEF x
    <2> QED
      BY <2>1, <2>4, Zenon DEF Buffer
  <1>5. /\ b.objects \in Seq(Entry) /\ entry \in Entry
        /\ objects \in Seq(Entry) /\ Len(objects) = Len(b.objects) + 1
        /\ DOMAIN objects = DOMAIN b.objects \cup {Len(b.objects) + 1}
        /\ \A i \in DOMAIN b.objects : objects[i] = b.objects[i]
        /\ objects[Len(b.objects) + 1] = entry
        /\ DOMAIN b.objects = 1 .. Len(b.objects) /\ Len(b.objects) \in Nat
    <2>1. b.objects \in Seq(Entry) /\ entry \in Entry
      BY <1>1, <1>2 DEF Grown, LaidOut, Entry
    <2> QED
      BY <2>1
  <1>6. entry.offset = offset /\ entry.type = type
    OBVIOUS
  <1>7. ASSUME NEW i \in DOMAIN b.objects
        PROVE  /\ b.objects[i].offset \in Nat /\ SizeOf[b.objects[i].type] \in Nat
               /\ b.objects[i].offset + SizeOf[b.objects[i].type] <= b.volume
               /\ b.objects[i].offset + SizeOf[b.objects[i].type] <= body.capacity
               /\ b.objects[i].offset % AlignOf[b.objects[i].type] = 0
    <2>1. b.objects[i] \in Entry
      BY <1>5
    <2> QED
      BY <1>3, <2>1, TypesAssumption DEF Grown, LaidOut, Entry, TypesAssumption
  <1>8. new.objects = objects /\ new.capacity = body.capacity /\ new.volume = volume
    BY DEF new
  <1> HIDE DEF entry, objects, volume, offset, type, new
  <1>9. volume \in Nat /\ offset <= volume /\ volume = offset + SizeOf[type]
    BY <1>1, <1>2 DEF volume
  <1>10. ASSUME NEW i \in DOMAIN objects
         PROVE  /\ objects[i].offset + SizeOf[objects[i].type] <= volume
                /\ objects[i].offset + SizeOf[objects[i].type] <= body.capacity
                /\ objects[i].offset % AlignOf[objects[i].type] = 0
    <2>1. CASE i \in DOMAIN b.objects
      <3>1. ASSUME NEW x \in Nat, NEW y \in Nat, x + y <= b.volume
            PROVE  x + y <= volume
        BY <1>2, <1>9, <3>1
      <3>2. b.objects[i].offset + SizeOf[b.objects[i].type] <= volume
        BY <1>7, <2>1, <3>1
      <3> QED
        BY <1>5, <1>7, <2>1, <3>2, Zenon
    <2>2. CASE i = Len(b.objects) + 1
      BY <1>2, <1>3, <1>5, <1>6, <1>9, <2>2
    <2> QED
      BY <1>5, <2>1, <2>2
  <1>11. ASSUME NEW i \in DOMAIN objects, NEW j \in DOMAIN objects, i < j
         PROVE  objects[i].offset + SizeOf[objects[i].type] <= objects[j].offset
    <2>1. i \in DOMAIN b.objects
      BY <1>5, <1>11
    <2>2. CASE j \in DOMAIN b.objects
      BY <1>5, <1>11, <2>1, <2>2 DEF Grown, LaidOut
    <2>3. CASE j = Len(b.objects) + 1
      BY <1>2, <1>5, <1>6, <1>7, <2>1, <2>3, SMTT(30)
    <2> QED
      BY <1>5, <2>2, <2>3
  <1>12. LaidOut(new)
    BY <1>5, <1>8, <1>10, <1>11 DEF LaidOut
  <1>13. new = [resource |-> body.resource, capacity |-> body.capacity, volume |-> new.volume,
                allocation |-> body.allocation, objects |-> new.objects]
    BY <1>8, Zenon DEF new
  <1> QED
    BY <1>4, <1>8, <1>9, <1>10, <1>12, <1>13, Zenon DEF Grown

\* Whatever the arguments, the buffer that is filled is laid out soundly and is
\* the one that was begun.
LEMMA FilledGrows ==
  ASSUME NEW body, Grown(body, body), NEW args \in Seq(Types), NEW n \in 0 .. Len(args)
  PROVE  Grown(Filled(body, args, n), body)
  <1>0. n \in Nat /\ \A i \in 1 .. n : args[i] \in Types
    OBVIOUS
  <1>1. PICK g : Stages(g, body, args, n) /\ Filled(body, args, n) = g[n]
    BY <1>0, FilledStages, Zenon
  <1>2. \A i \in 0 .. n : g[i] = IF i = 0 THEN body ELSE Pushed(g[i - 1], args, i)
    BY <1>1, Zenon DEF Stages
  <1> DEFINE Bad == {i \in 0 .. n : ~Grown(g[i], body)}
  <1>3. SUFFICES ASSUME ~Grown(g[n], body) PROVE FALSE
    BY <1>1, Zenon
  <1>4. PICK m \in Bad : \A k \in Bad : m <= k
    <2>1. n \in Bad /\ Bad \subseteq Nat
      BY <1>0, <1>3
    <2> QED
      BY <2>1, Least
  <1>5. m \in 0 .. n /\ ~Grown(g[m], body)
    BY <1>4
  <1>6. CASE m = 0
    BY <1>2, <1>5, <1>6
  <1>7. CASE m # 0
    <2>1. m - 1 \in 0 .. n /\ ~(m <= m - 1) /\ m \in 1 .. n
      BY <1>0, <1>5, <1>7
    <2>2. Grown(g[m - 1], body)
      BY <1>4, <2>1
    <2>3. g[m] = Pushed(g[m - 1], args, m)
      BY <1>2, <1>5, <1>7, Zenon
    <2>4. Grown(Pushed(g[m - 1], args, m), body)
      BY <1>0, <2>1, <2>2, PushGrows DEF Pushed
    <2> QED
      BY <1>5, <2>3, <2>4, Zenon
  <1> QED
    BY <1>6, <1>7

\* The buffer a message is made with.
LEMMA FreshBuffer ==
  ASSUME NEW r \in Resources, NEW args \in ArgLists, NEW n \in 0 .. Len(args),
         NEW b, b = Filled(Fresh(r, args), args, n)
  PROVE  /\ LaidOut(b) /\ b.resource = r
         /\ b.capacity = IF args = <<>> THEN 0 ELSE getSize(args)
         /\ b.allocation = IF args = <<>> THEN Null ELSE made + 1
         /\ b = Buffer(b.resource, b.capacity, b.volume, b.allocation, b.objects)
         /\ b.volume \in Nat /\ b.objects \in Seq(Entry)
  <1> DEFINE c == IF args = <<>> THEN 0 ELSE getSize(args)
             a == IF args = <<>> THEN Null ELSE made + 1
  <1>1. Fresh(r, args) = Buffer(r, c, 0, a, <<>>)
    <2>1. CASE args = <<>>
      BY <2>1, Zenon DEF Fresh, Empty, Buffer
    <2>2. CASE args # <<>>
      <3> DEFINE k == made + 1
                 size == getSize(args)
      <3>1. Fresh(r, args) = [Empty(r) EXCEPT !.capacity = size, !.allocation = k]
        BY <2>2, Zenon DEF Fresh
      <3>2. ASSUME NEW x, NEW y
            PROVE  [Empty(r) EXCEPT !.capacity = x, !.allocation = y] = Buffer(r, x, 0, y, <<>>)
        <4>1. [Empty(r) EXCEPT !.capacity = x] = Buffer(r, x, 0, Null, <<>>)
          BY DEF Empty, Buffer
        <4>2. [Buffer(r, x, 0, Null, <<>>) EXCEPT !.allocation = y] = Buffer(r, x, 0, y, <<>>)
          BY DEF Buffer
        <4> QED
          BY <4>1, <4>2, Zenon
      <3> QED
        BY <2>2, <3>1, <3>2, Zenon
    <2> QED
      BY <2>1, <2>2
  <1> DEFINE f == Fresh(r, args)
  <1> HIDE DEF f, a, c
  <1>2. /\ f.resource = r /\ f.capacity = c /\ f.volume = 0 /\ f.allocation = a
        /\ f.objects = <<>> /\ f = Buffer(r, c, 0, a, <<>>)
    BY <1>1 DEF Buffer, f
  <1>3. Grown(f, f)
    <2>1. LaidOut(f)
      BY <1>2 DEF LaidOut
    <2>2. f = [resource |-> f.resource, capacity |-> f.capacity, volume |-> f.volume,
               allocation |-> f.allocation, objects |-> f.objects]
      BY <1>2, Zenon DEF Buffer
    <2> QED
      BY <1>2, <2>1, <2>2 DEF Grown
  <1>4. args \in Seq(Types)
    BY MessageAssumption DEF MessageAssumption
  <1>5. Grown(b, f)
    BY <1>3, <1>4, FilledGrows, Zenon DEF f
  <1>6. /\ LaidOut(b) /\ b.resource = f.resource /\ b.capacity = f.capacity
        /\ b.allocation = f.allocation /\ b.volume \in Nat /\ b.objects \in Seq(Entry)
    BY <1>5 DEF Grown, LaidOut
  <1>7. b = Buffer(b.resource, b.capacity, b.volume, b.allocation, b.objects)
    BY <1>5, <1>6, Zenon DEF Grown, Buffer
  <1> QED
    BY <1>2, <1>6, <1>7, Zenon DEF a, c

-----------------------------------------------------------------------------
(* What the operations on messages do to the duties and the buffers.       *)

\* A null pointer is no message and no id, and no reason to abort.
LEMMA NullApart ==
  /\ Null \notin Ids /\ Null \notin Messages
  /\ Null # "force_align" /\ Null # "take_ready"
  /\ MaxMade \in Nat
  BY MessageAssumption DEF MessageAssumption

\* The members of a message, by their types.
LEMMA MessageParts ==
  ASSUME NEW m \in Messages
  PROVE  /\ m.slot \in Ids \cup {Null} /\ m.transferred \in BOOLEAN /\ m.body \in Bodies
         /\ m.body.resource \in Resources \cup {Null} /\ m.body.allocation \in Ids \cup {Null}
         /\ m.body.objects \in Seq(Entry)
  <1>1. m.slot \in Ids \cup {Null} /\ m.transferred \in BOOLEAN /\ m.body \in Bodies
    BY DEF Messages
  <1>2. ASSUME NEW b \in Bodies
        PROVE  /\ b.resource \in Resources \cup {Null} /\ b.allocation \in Ids \cup {Null}
               /\ b.objects \in Seq(Entry)
    BY DEF Bodies, Entry
  <1> QED
    BY <1>1, <1>2

\* A message has at most one slot to settle and one buffer to give back.
LEMMA DutyTypes ==
  ASSUME MsgsOK
  PROVE  Duty \in [Objects -> Ids \cup {Null}] /\ Carried \in [Objects -> Ids \cup {Null}]
  <1>1. ASSUME NEW o \in Objects, msg[o] # Null
        PROVE  msg[o].slot \in Ids \cup {Null} /\ msg[o].body.allocation \in Ids \cup {Null}
    <2>1. msg[o] \in Messages
      BY <1>1 DEF MsgsOK
    <2> QED
      BY <2>1, MessageParts
  <1> QED
    BY <1>1 DEF Duty, Carried

\* A message that has been moved from has no slot and no buffer.
LEMMA MovedEmpty ==
  ASSUME NEW m
  PROVE  /\ MovedFrom(m) \in Messages /\ LaidOut(MovedFrom(m).body)
         /\ MovedFrom(m).slot = Null /\ MovedFrom(m).body.allocation = Null
  <1> DEFINE e == Empty(Null)
  <1>1. e \in Bodies /\ LaidOut(e) /\ e.allocation = Null
    BY DEF Empty, Bodies, LaidOut, Entry
  <1> HIDE DEF e
  <1>2. PICK f : No(f)
    BY YesNo, Zenon
  <1>3. MovedFrom(m) = [slot |-> Null, transferred |-> f, body |-> e]
    BY <1>2, Zenon DEF MovedFrom, No, e
  <1>4. f \in BOOLEAN
    BY <1>2, YesNo, Zenon
  <1> QED
    BY <1>1, <1>3, <1>4 DEF Messages

\* A place takes what another has.
LEMMA MsgMoved ==
  ASSUME MsgsOK, NEW o \in Objects, NEW from \in Objects, o # from, msg[from] # Null,
         msg' = [msg EXCEPT ![o] = msg[from], ![from] = MovedFrom(msg[from])]
  PROVE  /\ MsgsOK'
         /\ Duty' = MovedTo(Duty, o, from)
         /\ Carried' = MovedTo(Carried, o, from)
         /\ \A H : Matching(H) => Matching(H)'
  <1> DEFINE e == MovedFrom(msg[from])
  <1>1. /\ e \in Messages /\ LaidOut(e.body) /\ e.slot = Null /\ e.body.allocation = Null
    BY MovedEmpty
  <1> HIDE DEF e
  <1>2. /\ msg \in [Objects -> Messages \cup {Null}]
        /\ msg' = [msg EXCEPT ![o] = msg[from], ![from] = e]
    BY DEF MsgsOK, e
  <1>3. /\ msg' \in [Objects -> Messages \cup {Null}]
        /\ msg'[o] = msg[from] /\ msg'[from] = e
        /\ \A x \in Objects : x # o /\ x # from => msg'[x] = msg[x]
    BY <1>1, <1>2
  <1>4. MsgsOK'
    BY <1>1, <1>3 DEF MsgsOK
  <1>5. ASSUME NEW x \in Objects
        PROVE  /\ Duty'[x] = MovedTo(Duty, o, from)[x]
               /\ Carried'[x] = MovedTo(Carried, o, from)[x]
    <2>1. CASE x = o
      BY <1>3, <2>1 DEF Duty, Carried, MovedTo
    <2>2. CASE x = from
      BY <1>1, <1>3, <2>2 DEF Duty, Carried, MovedTo
    <2>3. CASE x # o /\ x # from
      BY <1>3, <2>3 DEF Duty, Carried, MovedTo
    <2> QED
      BY <2>1, <2>2, <2>3
  <1>6. /\ Duty' = MovedTo(Duty, o, from)
        /\ Carried' = MovedTo(Carried, o, from)
    BY <1>5 DEF Duty, Carried, MovedTo
  <1>7. ASSUME NEW H, Matching(H), NEW x \in Objects, Carried'[x] # Null
        PROVE  Matches(msg'[x].body, H[Carried'[x]])
    <2>1. Carried \in [Objects -> Ids \cup {Null}]
      BY DutyTypes
    <2>2. CASE x = o
      BY <1>3, <1>6, <1>7, <2>1, <2>2 DEF Matching, MovedTo
    <2>3. CASE x = from
      BY <1>6, <1>7, <2>1, <2>3 DEF MovedTo
    <2>4. CASE x # o /\ x # from
      BY <1>3, <1>6, <1>7, <2>1, <2>4 DEF Matching, MovedTo
    <2> QED
      BY <2>2, <2>3, <2>4
  <1>8. \A H : Matching(H) => Matching(H)'
    BY <1>7, Zenon DEF Matching
  <1> QED
    BY <1>4, <1>6, <1>8

\* Two places exchange what they have.
LEMMA MsgSwapped ==
  ASSUME MsgsOK, NEW o \in Objects, NEW p \in Objects, o # p,
         msg' = [msg EXCEPT ![o] = msg[p], ![p] = msg[o]]
  PROVE  /\ MsgsOK'
         /\ Duty' = Swapped(Duty, o, p)
         /\ Carried' = Swapped(Carried, o, p)
         /\ \A H : Matching(H) => Matching(H)'
  <1>2. msg \in [Objects -> Messages \cup {Null}]
    BY DEF MsgsOK
  <1>3. /\ msg' \in [Objects -> Messages \cup {Null}]
        /\ msg'[o] = msg[p] /\ msg'[p] = msg[o]
        /\ \A x \in Objects : x # o /\ x # p => msg'[x] = msg[x]
    BY <1>2
  <1>4. MsgsOK'
    BY <1>3 DEF MsgsOK
  <1>5. ASSUME NEW x \in Objects
        PROVE  /\ Duty'[x] = Swapped(Duty, o, p)[x]
               /\ Carried'[x] = Swapped(Carried, o, p)[x]
    <2>1. CASE x = o
      BY <1>3, <2>1 DEF Duty, Carried, Swapped
    <2>2. CASE x = p
      BY <1>3, <2>2 DEF Duty, Carried, Swapped
    <2>3. CASE x # o /\ x # p
      BY <1>3, <2>3 DEF Duty, Carried, Swapped
    <2> QED
      BY <2>1, <2>2, <2>3
  <1>6. /\ Duty' = Swapped(Duty, o, p)
        /\ Carried' = Swapped(Carried, o, p)
    BY <1>5 DEF Duty, Carried, Swapped
  <1>7. ASSUME NEW H, Matching(H), NEW x \in Objects, Carried'[x] # Null
        PROVE  Matches(msg'[x].body, H[Carried'[x]])
    <2>1. Carried \in [Objects -> Ids \cup {Null}]
      BY DutyTypes
    <2>2. CASE x = o
      BY <1>3, <1>6, <1>7, <2>1, <2>2 DEF Matching, Swapped
    <2>3. CASE x = p
      BY <1>3, <1>6, <1>7, <2>1, <2>3 DEF Matching, Swapped
    <2>4. CASE x # o /\ x # p
      BY <1>3, <1>6, <1>7, <2>1, <2>4 DEF Matching, Swapped
    <2> QED
      BY <2>2, <2>3, <2>4
  <1>8. \A H : Matching(H) => Matching(H)'
    BY <1>7, Zenon DEF Matching
  <1> QED
    BY <1>4, <1>6, <1>8

\* The message at a place is gone.
LEMMA MsgCleared ==
  ASSUME MsgsOK, NEW o \in Objects, msg' = [msg EXCEPT ![o] = Null]
  PROVE  /\ MsgsOK'
         /\ Duty' = PutAt(Duty, o, Null)
         /\ Carried' = PutAt(Carried, o, Null)
         /\ \A H : Matching(H) => Matching(H)'
  <1>2. msg \in [Objects -> Messages \cup {Null}]
    BY DEF MsgsOK
  <1>3. /\ msg' \in [Objects -> Messages \cup {Null}]
        /\ msg'[o] = Null
        /\ \A x \in Objects : x # o => msg'[x] = msg[x]
    BY <1>2
  <1>4. MsgsOK'
    BY <1>3 DEF MsgsOK
  <1>5. ASSUME NEW x \in Objects
        PROVE  /\ Duty'[x] = PutAt(Duty, o, Null)[x]
               /\ Carried'[x] = PutAt(Carried, o, Null)[x]
    <2>1. CASE x = o
      BY <1>3, <2>1 DEF Duty, Carried, PutAt
    <2>3. CASE x # o
      BY <1>3, <2>3 DEF Duty, Carried, PutAt
    <2> QED
      BY <2>1, <2>3
  <1>6. /\ Duty' = PutAt(Duty, o, Null)
        /\ Carried' = PutAt(Carried, o, Null)
    BY <1>5 DEF Duty, Carried, PutAt
  <1>7. ASSUME NEW H, Matching(H), NEW x \in Objects, Carried'[x] # Null
        PROVE  Matches(msg'[x].body, H[Carried'[x]])
    <2>1. Carried \in [Objects -> Ids \cup {Null}]
      BY DutyTypes
    <2>2. x # o
      BY <1>6, <1>7, <2>1 DEF PutAt
    <2> QED
      BY <1>3, <1>6, <1>7, <2>1, <2>2 DEF Matching, PutAt
  <1>8. \A H : Matching(H) => Matching(H)'
    BY <1>7, Zenon DEF Matching
  <1> QED
    BY <1>4, <1>6, <1>8

Transferred(m) == [m EXCEPT !.transferred = TRUE]

\* The duty of a message is handed to a promise.
LEMMA MsgTransferred ==
  ASSUME MsgsOK, NEW o \in Objects, msg[o] # Null,
         msg' = [msg EXCEPT ![o] = Transferred(msg[o])]
  PROVE  /\ MsgsOK'
         /\ Duty' = PutAt(Duty, o, Null)
         /\ Carried' = Carried
         /\ \A H : Matching(H) => Matching(H)'
  <1> DEFINE m == Transferred(msg[o])
  <1>1. /\ msg \in [Objects -> Messages \cup {Null}] /\ msg[o] \in Messages
        /\ LaidOut(msg[o].body)
    BY DEF MsgsOK
  <1>2. m \in Messages /\ m.body = msg[o].body /\ m.transferred
    <2>1. PICK t : Yes(t)
      BY YesNo, Zenon
    <2>2. m = [msg[o] EXCEPT !.transferred = t]
      BY <2>1, Zenon DEF Yes, Transferred
    <2>3. t \in BOOLEAN /\ (Yes(t) => t)
      BY <2>1, Zenon DEF Yes
    <2>4. [msg[o] EXCEPT !.transferred = t] \in Messages
          /\ [msg[o] EXCEPT !.transferred = t].body = msg[o].body
          /\ [msg[o] EXCEPT !.transferred = t].transferred = t
      <3>1. t \in BOOLEAN
        BY <2>3, Zenon
      <3> QED
        BY <1>1, <3>1 DEF Messages
    <2> QED
      BY <2>1, <2>2, <2>3, <2>4, Zenon
  <1>9. m # Null
    BY <1>2, NullApart
  <1>10. msg' = [msg EXCEPT ![o] = m]
    BY DEF m
  <1> HIDE DEF m
  <1>3. /\ msg' \in [Objects -> Messages \cup {Null}]
        /\ msg'[o] = m
        /\ \A x \in Objects : x # o => msg'[x] = msg[x]
    BY <1>1, <1>2, <1>10
  <1>4. MsgsOK'
    BY <1>1, <1>2, <1>3 DEF MsgsOK
  <1>5. ASSUME NEW x \in Objects
        PROVE  Duty'[x] = PutAt(Duty, o, Null)[x] /\ Carried'[x] = Carried[x]
    <2>1. CASE x = o
      BY <1>2, <1>3, <1>9, <2>1 DEF Duty, Carried, PutAt
    <2>3. CASE x # o
      BY <1>3, <2>3 DEF Duty, Carried, PutAt
    <2> QED
      BY <2>1, <2>3
  <1>6. Duty' = PutAt(Duty, o, Null) /\ Carried' = Carried
    BY <1>5 DEF Duty, Carried, PutAt
  <1>7. ASSUME NEW H, Matching(H), NEW x \in Objects, Carried'[x] # Null
        PROVE  Matches(msg'[x].body, H[Carried'[x]])
    <2>1. msg'[x].body = msg[x].body
      BY <1>2, <1>3
    <2>2. Carried[x] # Null /\ Carried'[x] = Carried[x]
      BY <1>6, <1>7
    <2> QED
      BY <1>7, <2>1, <2>2 DEF Matching, PutAt
  <1>8. \A H : Matching(H) => Matching(H)'
    BY <1>7, Zenon DEF Matching
  <1> QED
    BY <1>4, <1>6, <1>8

\* A message is made at a place that has none.
LEMMA MsgMade ==
  ASSUME MsgsOK, NEW o \in Objects, msg[o] = Null, NEW n \in Ids, NEW b \in Bodies, LaidOut(b),
         msg' = [msg EXCEPT ![o] = Made(n, b)]
  PROVE  /\ MsgsOK'
         /\ Duty' = PutAt(Duty, o, n)
         /\ Carried' = PutAt(Carried, o, b.allocation)
         /\ \A H : Matching(H) /\ (b.allocation # Null => Matches(b, H[b.allocation]))
                     => Matching(H)'
  <1> DEFINE m == Made(n, b)
  <1>1. msg \in [Objects -> Messages \cup {Null}]
    BY DEF MsgsOK
  <1>2. m \in Messages /\ m.body = b /\ m.slot = n /\ ~m.transferred
    <2>1. PICK f : No(f)
      BY YesNo, Zenon
    <2>2. m = [slot |-> n, transferred |-> f, body |-> b]
      BY <2>1, Zenon DEF No, Made
    <2>3. f \in BOOLEAN /\ (No(f) => ~f)
      BY <2>1, YesNo, Zenon
    <2>4. /\ [slot |-> n, transferred |-> f, body |-> b] \in Messages
          /\ [slot |-> n, transferred |-> f, body |-> b].body = b
          /\ [slot |-> n, transferred |-> f, body |-> b].slot = n
          /\ [slot |-> n, transferred |-> f, body |-> b].transferred = f
      <3>1. f \in BOOLEAN
        BY <2>3, Zenon
      <3> QED
        BY <3>1 DEF Messages
    <2> QED
      BY <2>1, <2>2, <2>3, <2>4, Zenon
  <1>9. m # Null
    BY <1>2, NullApart
  <1> HIDE DEF m
  <1>3. /\ msg' \in [Objects -> Messages \cup {Null}]
        /\ msg'[o] = m
        /\ \A x \in Objects : x # o => msg'[x] = msg[x]
    BY <1>1, <1>2 DEF m
  <1>4. MsgsOK'
    BY <1>2, <1>3 DEF MsgsOK
  <1>5. ASSUME NEW x \in Objects
        PROVE  /\ Duty'[x] = PutAt(Duty, o, n)[x]
               /\ Carried'[x] = PutAt(Carried, o, b.allocation)[x]
    <2>1. CASE x = o
      BY <1>2, <1>3, <1>9, <2>1 DEF Duty, Carried, PutAt
    <2>3. CASE x # o
      BY <1>3, <2>3 DEF Duty, Carried, PutAt
    <2> QED
      BY <2>1, <2>3
  <1>6. Duty' = PutAt(Duty, o, n) /\ Carried' = PutAt(Carried, o, b.allocation)
    BY <1>5 DEF Duty, Carried, PutAt
  <1>7. ASSUME NEW H, Matching(H), b.allocation # Null => Matches(b, H[b.allocation]),
               NEW x \in Objects, Carried'[x] # Null
        PROVE  Matches(msg'[x].body, H[Carried'[x]])
    <2>1. Carried \in [Objects -> Ids \cup {Null}]
      BY DutyTypes
    <2>2. CASE x = o
      BY <1>2, <1>3, <1>6, <1>7, <2>1, <2>2 DEF PutAt
    <2>3. CASE x # o
      BY <1>3, <1>6, <1>7, <2>1, <2>3 DEF Matching, PutAt
    <2> QED
      BY <2>2, <2>3
  <1>8. \A H : Matching(H) /\ (b.allocation # Null => Matches(b, H[b.allocation]))
                 => Matching(H)'
    BY <1>7, Zenon DEF Matching
  <1> QED
    BY <1>4, <1>6, <1>8

-----------------------------------------------------------------------------
(* Every operation keeps the invariant.                                    *)

\* Before anything is made the invariant is empty.
LEMMA InitInv == Init => IInv
  <1> SUFFICES ASSUME Init PROVE IInv
    OBVIOUS
  <1>1. \A o \in Objects : msg[o] = Null
    BY DEF Init
  <1>2. MsgsOK
    BY DEF Init, MsgsOK
  <1>3. Unborn = {} /\ Born = {}
    BY NullApart DEF Init, Unborn, Born
  <1>4. TypesOK
    BY NewClosed, NullApart DEF Init, TypesOK, Closed
  <1>5. Unsettled = {} /\ Open = {} /\ Held = {}
    BY <1>3 DEF Unsettled, Open, Held
  <1>6. Duty = [o \in Objects |-> Null] /\ Carried = [o \in Objects |-> Null]
    BY <1>1 DEF Duty, Carried
  <1>7. Settling /\ Holding
    BY <1>5, <1>6 DEF Settling, Holding, Injective, Values, Init
  <1>8. StatesOK
    BY <1>3, NewClosed DEF StatesOK, Init
  <1>9. HeapTypes
    <2>1. HeapOK(NoBuffer)
      BY DEF HeapOK, NoBuffer
    <2>2. heap = [n \in Ids |-> NoBuffer]
      BY DEF Init
    <2> QED
      BY <1>3, <2>1, <2>2 DEF HeapTypes
  <1>10. Buffers
    BY <1>5, <1>6, <1>9 DEF Buffers, Matching, Injective, Values
  <1> QED
    BY <1>2, <1>4, <1>7, <1>8, <1>10 DEF IInv

\* A promise, or a message that has the duty, lets go of the state n.
LEMMA Settles ==
  ASSUME TypesOK, StatesOK, Born' = Born, NEW n \in Unsettled,
         NEW x \in {ReleasePromise(SetValue(state[n])), ReleasePromise(SetError(state[n]))},
         state' = [state EXCEPT ![n] = x]
  PROVE  /\ state' \in [Ids -> State] /\ StatesOK'
         /\ Unsettled' = Unsettled \ {n} /\ Open' = Open
  <1>1. /\ n \in Ids /\ n \in Born /\ state[n].promise_released = 0 /\ Closed(state[n])
        /\ state \in [Ids -> State]
    BY NullApart DEF Unsettled, Born, TypesOK, StatesOK, Ids
  <1>2. /\ Closed(x) /\ x.promise_released = 1 /\ x \in State
        /\ x.future_released = state[n].future_released /\ x.claimed = state[n].claimed
    BY <1>1, PromiseLeaves DEF Closed
  <1>3. /\ state' \in [Ids -> State] /\ state'[n] = x
        /\ \A k \in Ids : k # n => state'[k] = state[k]
    BY <1>1, <1>2
  <1>4. Born \subseteq Ids
    BY NullApart DEF Born, Ids, TypesOK
  <1> QED
    BY <1>1, <1>2, <1>3, <1>4 DEF StatesOK, Unsettled, Open

\* A future lets go of the state n.
LEMMA LetsGo ==
  ASSUME TypesOK, StatesOK, Born' = Born, NEW n \in Open,
         NEW x, Closed(x), x.future_released = 1, x.claimed,
         x.promise_released = state[n].promise_released,
         state' = [state EXCEPT ![n] = x]
  PROVE  /\ state' \in [Ids -> State] /\ StatesOK'
         /\ Unsettled' = Unsettled /\ Open' = Open \ {n}
  <1>4. Born \subseteq Ids
    BY NullApart DEF Born, Ids, TypesOK
  <1>1. /\ n \in Ids /\ n \in Born /\ state \in [Ids -> State] /\ x \in State
    BY <1>4 DEF Open, TypesOK, Closed
  <1>3. /\ state' \in [Ids -> State] /\ state'[n] = x
        /\ \A k \in Ids : k # n => state'[k] = state[k]
    BY <1>1
  <1> QED
    BY <1>1, <1>3, <1>4 DEF StatesOK, Unsettled, Open

\* What is there does not change while nothing is made or lost.
LEMMA BornSame ==
  ASSUME UNCHANGED <<made, thrown, aborted>>
  PROVE  Born' = Born /\ Unborn' = Unborn
  BY DEF Born, Unborn

\* What is there and what was lost while being made are apart.
LEMMA BornIds ==
  ASSUME TypesOK
  PROVE  Born \subseteq Ids /\ Unborn \subseteq Ids /\ Born \cap Unborn = {}
  BY NullApart DEF Born, Ids, TypesOK, Unborn

\* What is made next was not there before.
LEMMA BornNew ==
  ASSUME TypesOK, Running, made < MaxMade, made' = made + 1
  PROVE  /\ made + 1 \in Ids /\ made + 1 \notin Born /\ made + 1 \notin Unborn
         /\ made + 1 \notin 1 .. made /\ made' \in 0 .. MaxMade
         /\ 1 .. made' = 1 .. made \cup {made + 1}
         /\ thrown \subseteq 1 .. made'
         /\ UNCHANGED <<thrown, aborted>> => Born' = Born \cup {made + 1} /\ Unborn' = Unborn
         /\ UNCHANGED thrown /\ aborted' = "force_align" =>
              Born' = Born /\ Unborn' = Unborn \cup {made + 1}
         /\ thrown' = thrown \cup {made + 1} /\ UNCHANGED aborted =>
              Born' = Born /\ Unborn' = Unborn \cup {made + 1}
  <1>1. /\ made \in Nat /\ made + 1 \in Ids /\ made + 1 \notin 1 .. made /\ made' \in 0 .. MaxMade
        /\ 1 .. made' = 1 .. made \cup {made + 1} /\ thrown \subseteq 1 .. made
    BY NullApart DEF Ids, TypesOK
  <1>2. Unborn = thrown /\ Born = 1 .. made \ thrown
    BY NullApart DEF Unborn, Born, Running
  <1>3. UNCHANGED <<thrown, aborted>> => Unborn' = thrown
    BY NullApart DEF Unborn, Running
  <1>4. thrown' = thrown \cup {made + 1} /\ UNCHANGED aborted => Unborn' = thrown \cup {made + 1}
    BY NullApart DEF Unborn, Running
  <1>5. UNCHANGED thrown /\ aborted' = "force_align" => Unborn' = thrown \cup {made + 1}
    BY DEF Unborn
  <1>6. Born' = 1 .. made' \ Unborn'
    BY DEF Born
  <1> HIDE DEF Ids
  <1> QED
    BY <1>1, <1>2, <1>3, <1>4, <1>5, <1>6

\* take_ready() without a value aborts and makes nothing.
LEMMA BornAborted ==
  ASSUME Running, aborted' = "take_ready", UNCHANGED <<made, thrown>>
  PROVE  Born' = Born /\ Unborn' = Unborn
  BY NullApart DEF Born, Unborn, Running

\* A state is made; x is what it is when the operation ends.
LEMMA Begins ==
  ASSUME TypesOK, StatesOK, NEW k \in Ids, k \notin Born, Born' = Born \cup {k},
         NEW x, Closed(x), state' = [state EXCEPT ![k] = x]
  PROVE  /\ state' \in [Ids -> State] /\ StatesOK'
         /\ Unsettled' = Unsettled \cup (IF x.promise_released = 0 THEN {k} ELSE {})
         /\ Open' = Open \cup (IF x.claimed /\ x.future_released = 0 THEN {k} ELSE {})
  <1>1. Born \subseteq Ids /\ state \in [Ids -> State] /\ x \in State
    BY BornIds DEF TypesOK, Closed
  <1>2. /\ state' \in [Ids -> State] /\ state'[k] = x
        /\ \A n \in Ids : n # k => state'[n] = state[n]
    BY <1>1
  <1> QED
    BY <1>1, <1>2 DEF StatesOK, Unsettled, Open

\* A future is made for a state that has none.
LEMMA Claims ==
  ASSUME TypesOK, StatesOK, Born' = Born, NEW n \in Unsettled, ~state[n].claimed,
         NEW x, Closed(x), x.claimed, x.promise_released = state[n].promise_released,
         x.future_released = state[n].future_released,
         state' = [state EXCEPT ![n] = x]
  PROVE  /\ state' \in [Ids -> State] /\ StatesOK'
         /\ Unsettled' = Unsettled /\ Open' = Open \cup {n} /\ n \notin Open
  <1>1. Born \subseteq Ids /\ state \in [Ids -> State] /\ x \in State
    BY BornIds DEF TypesOK, Closed
  <1>2. n \in Ids /\ n \in Born /\ Closed(state[n])
    BY <1>1 DEF Unsettled, StatesOK
  <1>3. state[n].future_released = 0
    BY <1>2 DEF Closed, State
  <1>4. /\ state' \in [Ids -> State] /\ state'[n] = x
        /\ \A k \in Ids : k # n => state'[k] = state[k]
    BY <1>1, <1>2
  <1> QED
    BY <1>1, <1>2, <1>3, <1>4 DEF StatesOK, Unsettled, Open

\* The destructor of a message or promise whose duty, if it has one, is n.
LEMMA Dies ==
  ASSUME TypesOK, StatesOK, Born' = Born, NEW n, n = Null \/ n \in Unsettled,
         state' = PromiseDies(n)
  PROVE  /\ state' \in [Ids -> State] /\ StatesOK'
         /\ Unsettled' = Unsettled \ {n} /\ Open' = Open
  <1>1. CASE n = Null
    <2>1. state' = state
      BY <1>1 DEF PromiseDies
    <2>2. Null \notin Unsettled
      BY BornIds, NullApart DEF Unsettled
    <2> QED
      BY <1>1, <2>1, <2>2 DEF TypesOK, StatesOK, Unsettled, Open
  <1>2. CASE n # Null
    <2>1. n \in Unsettled
      BY <1>2
    <2>2. state' = [state EXCEPT ![n] = ReleasePromise(SetError(state[n]))]
      BY <1>2, Zenon DEF PromiseDies
    <2> QED
      BY <2>1, <2>2, Settles
  <1> QED
    BY <1>1, <1>2

\* The record of a buffer, by its members.
Record(r, s, c, d, fd) ==
    [resource |-> r, size |-> s, count |-> c, destroyed |-> d, freed |-> fd]

\* Reading the members back.
LEMMA ReadRecord ==
  ASSUME NEW r, NEW s, NEW c, NEW d, NEW fd, NEW x, x = Record(r, s, c, d, fd)
  PROVE  /\ x.resource = r /\ x.size = s /\ x.count = c /\ x.destroyed = d /\ x.freed = fd
  BY DEF Record

\* clear() of a buffer that has an allocation.
LEMMA ClearedHeap ==
  ASSUME NEW b, b.allocation # Null
  PROVE  Cleared(b) = [heap EXCEPT ![b.allocation] = GivenBack(heap[b.allocation], b)]
  BY DEF Cleared

\* The numbers from c down to 1.
LEMMA Downwards ==
  ASSUME NEW c \in Nat
  PROVE  Reverse([i \in 1 .. c |-> i]) \in Seq(Nat)
  <1> DEFINE s == [i \in 1 .. c |-> i]
  <1>1. s \in Seq(Nat) /\ Len(s) = c
    OBVIOUS
  <1>2. \A i \in 1 .. c : (c - i) + 1 \in 1 .. c
    OBVIOUS
  <1>3. Reverse(s) = [i \in 1 .. c |-> s[(c - i) + 1]]
    <2> HIDE DEF s
    <2> QED
      BY <1>1 DEF Reverse
  <1>4. Reverse(s) \in [1 .. c -> Nat]
    BY <1>2, <1>3
  <1> QED
    BY <1>4

\* clear() of the buffer that was allocated as h.
LEMMA ClearedRecord ==
  ASSUME NEW h, HeapOK(h), h.count # 0, h.freed = <<>>,
         NEW b, b.objects \in Seq(Entry), Matches(b, h),
         NEW x, x = GivenBack(h, b)
  PROVE  /\ HeapOK(x) /\ x.freed # <<>> /\ x.count = h.count /\ x.size = h.size
         /\ x.resource = h.resource
  <1> DEFINE w == [resource |-> b.resource, size |-> total_size(b.capacity, Len(b.objects))]
             d == Reverse([i \in 1 .. h.count |-> i])
             fd == <<w>>
  <1>1. w = Whole(h)
    BY Zenon DEF Matches, Whole
  <1>2. h.destroyed = <<>> /\ h.count \in Nat
        /\ h = Record(h.resource, h.size, h.count, h.destroyed, h.freed)
    BY DEF HeapOK, Record
  <1>3. DestroyOrder(b) = d
    <2>1. DOMAIN b.objects = 1 .. h.count
      BY DEF Matches
    <2> QED
      BY <2>1 DEF DestroyOrder
  <1>4. h.destroyed \o d = d
    <2>2. d \in Seq(Nat)
      BY <1>2, Downwards
    <2> HIDE DEF d
    <2> QED
      BY <1>2, <2>2
  <1>5. Append(h.freed, w) = fd
    <2> HIDE DEF w
    <2> QED
      OBVIOUS
  <1>6. x = [[h EXCEPT !.destroyed = d] EXCEPT !.freed = fd]
    BY <1>3, <1>4, <1>5, Zenon DEF GivenBack
  <1>9. fd # <<>> /\ fd = <<Whole(h)>>
    BY <1>1
  <1> HIDE DEF d, fd
  <1>7. [h EXCEPT !.destroyed = d] = Record(h.resource, h.size, h.count, d, h.freed)
    BY <1>2 DEF Record
  <1>8. x = Record(h.resource, h.size, h.count, d, fd)
    <2> DEFINE y == [h EXCEPT !.destroyed = d]
    <2> HIDE DEF y
    <2>1. y = Record(h.resource, h.size, h.count, d, h.freed)
      BY <1>7, Zenon DEF y
    <2>2. [y EXCEPT !.freed = fd] = Record(h.resource, h.size, h.count, d, fd)
      BY <2>1 DEF Record
    <2> QED
      BY <1>6, <2>2, Zenon DEF y
  <1>10. /\ x.resource = h.resource /\ x.size = h.size /\ x.count = h.count
         /\ x.destroyed = d /\ x.freed = fd
    BY <1>8, ReadRecord
  <1>11. Whole(x) = Whole(h)
    BY <1>10, Zenon DEF Whole
  <1>12. x = [resource |-> x.resource, size |-> x.size, count |-> x.count,
              destroyed |-> x.destroyed, freed |-> x.freed]
    BY <1>8, <1>10, Zenon DEF Record
  <1>13. x.destroyed = Reverse([i \in 1 .. x.count |-> i])
    BY <1>10, Zenon DEF d
  <1> QED
    BY <1>2, <1>9, <1>10, <1>11, <1>12, <1>13, Zenon DEF HeapOK

\* rtt::clear() of a message's buffer.
LEMMA Clears ==
  ASSUME TypesOK, MsgsOK, Buffers, NEW o \in Objects, msg[o] # Null,
         heap' = Cleared(msg[o].body), UNCHANGED <<made, thrown, aborted>>
  PROVE  /\ HeapTypes' /\ Held' = Held \ {Carried[o]}
         /\ \A G : G = heap' => Matching(G)
  <1> DEFINE b == msg[o].body
             n == b.allocation
  <1>1. n = Carried[o] /\ Carried \in [Objects -> Ids \cup {Null}] /\ b.objects \in Seq(Entry)
    <2>1. msg[o] \in Messages
      BY DEF MsgsOK
    <2> QED
      BY <2>1, DutyTypes, MessageParts DEF Carried
  <1>2. Born' = Born /\ Unborn' = Unborn /\ Born \subseteq Ids /\ Born \cap Unborn = {}
        /\ Unborn \subseteq Ids
    BY BornSame, BornIds
  <1>3. HeapTypes /\ Values(Carried) = Held /\ Matching(heap)
    BY DEF Buffers
  <1> HIDE DEF b, n
  <1>4. CASE n = Null
    <2>1. heap' = heap
      BY <1>4 DEF Cleared, b, n
    <2>2. Null \notin Held
      BY <1>2, NullApart DEF Held
    <2>3. HeapTypes' /\ Held' = Held
      BY <1>2, <1>3, <2>1 DEF HeapTypes, Held
    <2> QED
      BY <1>1, <1>3, <1>4, <2>1, <2>2, <2>3
  <1>5. CASE n # Null
    <2>1. n \in Held
      BY <1>1, <1>3, <1>5 DEF Values
    <2>2. /\ n \in Ids /\ n \in Born /\ HeapOK(heap[n]) /\ heap[n].count # 0
          /\ heap[n].freed = <<>> /\ n \notin Unborn /\ n \in 1 .. made
      BY <1>2, <1>3, <2>1 DEF Held, HeapTypes, Born
    <2>3. Matches(b, heap[n])
      BY <1>1, <1>3, <1>5 DEF Matching, b
    <2> DEFINE x == GivenBack(heap[n], b)
    <2>4. heap' = [heap EXCEPT ![n] = x]
      BY <1>5, ClearedHeap, Zenon DEF b, n
    <2>5. /\ HeapOK(x) /\ x.freed # <<>> /\ x.count = heap[n].count
          /\ x.size = heap[n].size /\ x.resource = heap[n].resource
      BY <1>1, <2>2, <2>3, ClearedRecord
    <2> HIDE DEF x
    <2>6. /\ heap' = [k \in Ids |-> IF k = n THEN x ELSE heap[k]]
          /\ heap'[n] = x /\ \A k \in Ids : k # n => heap'[k] = heap[k]
      BY <1>3, <2>2, <2>4 DEF HeapTypes
    <2>7. HeapTypes'
      <3>1. heap' = [k \in Ids |-> heap'[k]]
        BY <2>6
      <3>2. \A k \in Ids : HeapOK(heap'[k]) /\ (k \notin 1 .. made => heap'[k] = NoBuffer)
        BY <1>3, <2>2, <2>5, <2>6 DEF HeapTypes
      <3>3. \A k \in Unborn : heap'[k].freed = <<>>
        BY <1>2, <1>3, <2>2, <2>6 DEF HeapTypes
      <3> QED
        BY <1>2, <3>1, <3>2, <3>3 DEF HeapTypes
    <2>8. Held' = Held \ {n}
      BY <1>2, <2>2, <2>5, <2>6 DEF Held
    <2>9. ASSUME NEW G, G = heap' PROVE Matching(G)
      <3>1. ASSUME NEW y \in Objects, Carried[y] # Null
            PROVE  Matches(msg[y].body, G[Carried[y]])
        <4>1. Carried[y] \in Ids /\ Matches(msg[y].body, heap[Carried[y]])
          BY <1>1, <1>3, <3>1 DEF Matching
        <4>2. CASE Carried[y] = n
          BY <2>5, <2>6, <2>9, <4>1, <4>2 DEF Matches
        <4>3. CASE Carried[y] # n
          BY <2>6, <2>9, <4>1, <4>3
        <4> QED
          BY <4>2, <4>3
      <3> QED
        BY <3>1 DEF Matching
    <2> QED
      BY <1>1, <2>7, <2>8, <2>9
  <1> QED
    BY <1>4, <1>5

\* The record of an allocation.
LEMMA AllocatedRecord ==
  ASSUME NEW r, NEW args \in ArgLists, NEW x, x = Allocated(r, args)
  PROVE  /\ HeapOK(x) /\ x.freed = <<>> /\ x.count = Len(args) /\ Len(args) \in Nat
         /\ args # <<>> => /\ x.resource = r /\ x.count # 0
                           /\ x.size = total_size(getSize(args), Len(args))
         /\ args = <<>> => x.count = 0
  <1>1. args \in Seq(Types)
    BY MessageAssumption DEF MessageAssumption
  <1>2. Len(args) \in Nat /\ (args = <<>> <=> Len(args) = 0)
    BY <1>1
  <1>3. HeapOK(NoBuffer) /\ NoBuffer.freed = <<>> /\ NoBuffer.count = 0
    BY DEF HeapOK, NoBuffer
  <1>4. CASE args = <<>>
    BY <1>2, <1>3, <1>4 DEF Allocated
  <1>5. CASE args # <<>>
    <2> DEFINE c == Len(args)
               z == total_size(getSize(args), Len(args))
    <2>1. x = [[[NoBuffer EXCEPT !.resource = r] EXCEPT !.count = c] EXCEPT !.size = z]
      BY <1>5, Zenon DEF Allocated
    <2>2. c \in Nat /\ c # 0
      BY <1>2, <1>5
    <2> HIDE DEF c, z
    <2>3. [NoBuffer EXCEPT !.resource = r] = Record(r, 0, 0, <<>>, <<>>)
      BY DEF NoBuffer, Record
    <2>4. [Record(r, 0, 0, <<>>, <<>>) EXCEPT !.count = c] = Record(r, 0, c, <<>>, <<>>)
      BY DEF Record
    <2>5. [Record(r, 0, c, <<>>, <<>>) EXCEPT !.size = z] = Record(r, z, c, <<>>, <<>>)
      BY DEF Record
    <2>6. x = Record(r, z, c, <<>>, <<>>)
      BY <2>1, <2>3, <2>4, <2>5, Zenon
    <2>7. /\ x.resource = r /\ x.size = z /\ x.count = c /\ x.destroyed = <<>> /\ x.freed = <<>>
      BY <2>6, ReadRecord
    <2>8. x = [resource |-> x.resource, size |-> x.size, count |-> x.count,
               destroyed |-> x.destroyed, freed |-> x.freed]
      BY <2>6, <2>7, Zenon DEF Record
    <2>9. HeapOK(x)
      BY <2>2, <2>7, <2>8, Zenon DEF HeapOK
    <2> QED
      BY <1>5, <2>2, <2>7, <2>9, Zenon DEF c, z
  <1> QED
    BY <1>4, <1>5, Zenon

\* The buffer of the message that is made.
LEMMA Allocates ==
  ASSUME TypesOK, MsgsOK, Buffers, Running, made < MaxMade, made' = made + 1,
         NEW r, NEW args \in ArgLists,
         heap' = [heap EXCEPT ![made + 1] = Allocated(r, args)]
  PROVE  /\ Unborn' \subseteq Unborn \cup {made + 1} => HeapTypes'
         /\ Born' = Born => Held' = Held
         /\ Born' = Born \cup {made + 1} =>
              Held' = Held \cup (IF args = <<>> THEN {} ELSE {made + 1})
         /\ \A G : G = heap' => Matching(G)
         /\ made + 1 \in Ids /\ heap'[made + 1] = Allocated(r, args)
  <1> DEFINE k == made + 1
             x == Allocated(r, args)
  <1>1. /\ HeapOK(x) /\ x.freed = <<>> /\ (x.count = 0 <=> args = <<>>)
    BY AllocatedRecord
  <1>2. /\ k \in Ids /\ k \notin Born /\ k \notin Unborn /\ k \notin 1 .. made
        /\ 1 .. made' = 1 .. made \cup {k} /\ Born \subseteq Ids /\ Unborn \subseteq Ids
    BY BornNew, BornIds
  <1>3. HeapTypes /\ Values(Carried) = Held /\ Matching(heap)
    BY DEF Buffers
  <1>4. Carried \in [Objects -> Ids \cup {Null}]
    BY DutyTypes
  <1>5. heap' = [heap EXCEPT ![k] = x]
    OBVIOUS
  <1> HIDE DEF x, k
  <1>6. /\ heap' = [n \in Ids |-> IF n = k THEN x ELSE heap[n]]
        /\ heap'[k] = x /\ \A n \in Ids : n # k => heap'[n] = heap[n]
    BY <1>2, <1>3, <1>5 DEF HeapTypes
  <1>7. ASSUME Unborn' \subseteq Unborn \cup {k} PROVE HeapTypes'
    <2>1. heap' = [n \in Ids |-> heap'[n]]
      BY <1>6
    <2>2. \A n \in Ids : HeapOK(heap'[n]) /\ (n \notin 1 .. made' => heap'[n] = NoBuffer)
      BY <1>1, <1>2, <1>3, <1>6 DEF HeapTypes
    <2>3. \A n \in Unborn' : heap'[n].freed = <<>>
      BY <1>1, <1>2, <1>3, <1>6, <1>7 DEF HeapTypes
    <2> QED
      BY <2>1, <2>2, <2>3 DEF HeapTypes
  <1>8. Born' = Born => Held' = Held
    BY <1>2, <1>6 DEF Held
  <1>9. Born' = Born \cup {k} => Held' = Held \cup (IF args = <<>> THEN {} ELSE {k})
    BY <1>1, <1>2, <1>6 DEF Held
  <1>10. ASSUME NEW G, G = heap' PROVE Matching(G)
    <2>1. ASSUME NEW y \in Objects, Carried[y] # Null
          PROVE  Matches(msg[y].body, G[Carried[y]])
      <3>1. Carried[y] \in Ids /\ Matches(msg[y].body, heap[Carried[y]]) /\ Carried[y] \in Held
        BY <1>3, <1>4, <2>1 DEF Matching, Values
      <3>2. Carried[y] # k
        BY <1>2, <3>1 DEF Held
      <3> QED
        BY <1>6, <1>10, <3>1, <3>2
    <2> QED
      BY <2>1 DEF Matching
  <1> QED
    BY <1>2, <1>6, <1>7, <1>8, <1>9, <1>10, Zenon DEF k, x

\* The duties and buffers of messages, when no message is touched.
LEMMA MsgSame ==
  ASSUME msg' = msg
  PROVE  /\ MsgsOK => MsgsOK'
         /\ Duty' = Duty /\ Carried' = Carried
         /\ \A H : Matching(H) => Matching(H)'
  <1>1. Duty' = Duty /\ Carried' = Carried
    BY DEF Duty, Carried
  <1> QED
    BY <1>1 DEF MsgsOK, Matching

\* The buffers match the arena after a step, too.
LEMMA MatchingNext ==
  ASSUME \A G : G = heap' => Matching(G), \A H : Matching(H) => Matching(H)'
  PROVE  Matching(heap)'
  BY DEF Matching

\* The buffers when no allocation is touched.
LEMMA HeapSame ==
  ASSUME TypesOK, Buffers, heap' = heap, Unborn' = Unborn,
         \/ Born' = Born /\ made' = made
         \/ /\ made' = made + 1 /\ Born' = Born \cup {made + 1}
            /\ made + 1 \in Ids /\ made + 1 \notin 1 .. made
            /\ 1 .. made' = 1 .. made \cup {made + 1}
  PROVE  HeapTypes' /\ Held' = Held /\ \A G : G = heap' => Matching(G)
  <1>1. HeapTypes /\ Matching(heap)
    BY DEF Buffers
  <1>2. HeapTypes'
    BY <1>1 DEF HeapTypes
  <1>3. Held' = Held
    <2>1. CASE Born' = Born
      BY <2>1 DEF Held
    <2>2. CASE Born' = Born \cup {made + 1} /\ made + 1 \in Ids /\ made + 1 \notin 1 .. made
      <3>1. heap[made + 1].count = 0
        BY <1>1, <2>2 DEF HeapTypes, NoBuffer
      <3> QED
        BY <2>2, <3>1 DEF Held
    <2> QED
      BY <2>1, <2>2
  <1> QED
    BY <1>1, <1>2, <1>3

\* Nothing but messages moves.
LEMMA MoveConstructInv ==
  ASSUME IInv, NEW o \in Objects, NEW from \in Objects, MoveConstruct(o, from)
  PROVE  IInv'
  <1>1. /\ MsgsOK /\ TypesOK /\ Settling /\ Holding /\ StatesOK /\ Buffers
        /\ UNCHANGED <<prom, fut, state, made, heap, thrown, aborted>> /\ o # from
        /\ msg[o] = Null /\ msg[from] # Null
        /\ msg' = [msg EXCEPT ![o] = msg[from], ![from] = MovedFrom(msg[from])]
    BY DEF IInv, MoveConstruct
  <1>2. /\ MsgsOK'
        /\ Duty' = MovedTo(Duty, o, from)
        /\ Carried' = MovedTo(Carried, o, from)
        /\ \A H : Matching(H) => Matching(H)'
    BY <1>1, MsgMoved
  <1>3. /\ Duty \in [Objects -> Ids \cup {Null}] /\ Carried \in [Objects -> Ids \cup {Null}]
        /\ Duty[o] = Null /\ Carried[o] = Null
    BY <1>1, DutyTypes DEF Duty, Carried
  <1>4. /\ Injective(Duty') /\ Values(Duty') = Values(Duty) \ {Null}
        /\ Injective(Carried') /\ Values(Carried') = Values(Carried) \ {Null}
    <2>0. o # from
      BY <1>1
    <2>1. Injective(Duty) /\ Injective(Carried)
      BY <1>1 DEF Settling, Buffers
    <2>3. Injective(Duty') /\ Values(Duty') = Values(Duty) \ {Duty[o]}
      BY <1>2, <1>3, <2>0, <2>1, OwnsMove
    <2>4. Injective(Carried') /\ Values(Carried') = Values(Carried) \ {Carried[o]}
      BY <1>2, <1>3, <2>0, <2>1, OwnsMove
    <2> QED
      BY <1>3, <2>3, <2>4
  <1>5. Values(Duty') = Values(Duty) /\ Values(Carried') = Values(Carried)
    BY <1>4 DEF Values
  <1>6. Born' = Born /\ Unborn' = Unborn
    BY <1>1, BornSame
  <1>7. Unsettled' = Unsettled /\ Open' = Open /\ StatesOK' /\ TypesOK'
    BY <1>1, <1>6 DEF Unsettled, Open, StatesOK, TypesOK
  <1>8. HeapTypes' /\ Held' = Held /\ \A G : G = heap' => Matching(G)
    BY <1>1, <1>6, HeapSame
  <1>9. Matching(heap)'
    BY <1>2, <1>8, MatchingNext
  <1>10. Settling' /\ Holding'
    BY <1>1, <1>4, <1>5, <1>7 DEF Settling, Holding
  <1>11. Buffers'
    BY <1>1, <1>4, <1>5, <1>8, <1>9 DEF Buffers
  <1> QED
    BY <1>2, <1>7, <1>10, <1>11 DEF IInv

\* swap() exchanges the slots and the buffers.
LEMMA SwapMessagesInv ==
  ASSUME IInv, NEW o \in Objects, NEW p \in Objects, SwapMessages(o, p)
  PROVE  IInv'
  <1>1. /\ MsgsOK /\ TypesOK /\ Settling /\ Holding /\ StatesOK /\ Buffers
        /\ UNCHANGED <<prom, fut, state, made, heap, thrown, aborted>> /\ o # p
        /\ msg' = [msg EXCEPT ![o] = msg[p], ![p] = msg[o]]
    BY DEF IInv, SwapMessages
  <1>2. /\ MsgsOK'
        /\ Duty' = Swapped(Duty, o, p)
        /\ Carried' = Swapped(Carried, o, p)
        /\ \A H : Matching(H) => Matching(H)'
    BY <1>1, MsgSwapped
  <1>3. Duty \in [Objects -> Ids \cup {Null}] /\ Carried \in [Objects -> Ids \cup {Null}]
    BY <1>1, DutyTypes
  <1>4. /\ Injective(Duty') /\ Values(Duty') = Values(Duty)
        /\ Injective(Carried') /\ Values(Carried') = Values(Carried)
    <2>0. o # p
      BY <1>1
    <2>1. Injective(Duty) /\ Injective(Carried)
      BY <1>1 DEF Settling, Buffers
    <2>3. Injective(Duty') /\ Values(Duty') = Values(Duty)
      BY <1>2, <1>3, <2>0, <2>1, OwnsSwap
    <2>4. Injective(Carried') /\ Values(Carried') = Values(Carried)
      BY <1>2, <1>3, <2>0, <2>1, OwnsSwap
    <2> QED
      BY <2>3, <2>4
  <1>6. Born' = Born /\ Unborn' = Unborn
    BY <1>1, BornSame
  <1>7. Unsettled' = Unsettled /\ Open' = Open /\ StatesOK' /\ TypesOK'
    BY <1>1, <1>6 DEF Unsettled, Open, StatesOK, TypesOK
  <1>8. HeapTypes' /\ Held' = Held /\ \A G : G = heap' => Matching(G)
    BY <1>1, <1>6, HeapSame
  <1>9. Matching(heap)'
    BY <1>2, <1>8, MatchingNext
  <1>10. Settling' /\ Holding'
    BY <1>1, <1>4, <1>7 DEF Settling, Holding
  <1>11. Buffers'
    BY <1>1, <1>4, <1>8, <1>9 DEF Buffers
  <1> QED
    BY <1>2, <1>7, <1>10, <1>11 DEF IInv

\* ~message() and operator= settle what the message has to settle.
LEMMA CleanUp ==
  ASSUME NEW o \in Objects, msg[o] # Null
  PROVE  CleanedUp(msg[o]) = PromiseDies(Duty[o])
  BY DEF CleanedUp, Duty, PromiseDies

\* A duty is one that is left to do.
LEMMA DutyUnsettled ==
  ASSUME MsgsOK, Settling, NEW o \in Objects
  PROVE  Duty[o] = Null \/ (Duty[o] \in Unsettled /\ Duty[o] \notin Values(prom))
  <1>1. Duty[o] = Null \/ Duty[o] \in Values(Duty)
    BY DutyTypes DEF Values
  <1> QED
    BY <1>1 DEF Settling

\* operator=(message&&) settles and clears what the target had, then moves.
LEMMA MoveAssignInv ==
  ASSUME IInv, NEW o \in Objects, NEW from \in Objects, MoveAssign(o, from)
  PROVE  IInv'
  <1>1. /\ MsgsOK /\ TypesOK /\ Settling /\ Holding /\ StatesOK /\ Buffers
        /\ UNCHANGED <<prom, fut, made, thrown, aborted>> /\ o # from
        /\ msg[o] # Null /\ msg[from] # Null
        /\ state' = CleanedUpByAssign(msg[o]) /\ heap' = Cleared(msg[o].body)
    BY Zenon DEF IInv, MoveAssign
  <1>2. msg' = [msg EXCEPT ![o] = msg[from], ![from] = MovedFrom(msg[from])]
    <2>1. msg' = [msg EXCEPT ![o] = [msg[from] EXCEPT !.body = msg[from].body],
                             ![from] = MovedFrom(msg[from])]
      BY Zenon DEF MoveAssign, AssignedBody
    <2>2. msg[from] \in Messages
      BY <1>1 DEF MsgsOK
    <2>3. [msg[from] EXCEPT !.body = msg[from].body] = msg[from]
      BY <2>2 DEF Messages
    <2> QED
      BY <2>1, <2>3, Zenon
  <1>3. /\ MsgsOK' /\ Duty' = MovedTo(Duty, o, from) /\ Carried' = MovedTo(Carried, o, from)
        /\ \A H : Matching(H) => Matching(H)'
    BY <1>1, <1>2, MsgMoved
  <1>4. Duty \in [Objects -> Ids \cup {Null}] /\ Carried \in [Objects -> Ids \cup {Null}]
    BY <1>1, DutyTypes
  <1>5. /\ Injective(Duty') /\ Values(Duty') = Values(Duty) \ {Duty[o]}
        /\ Injective(Carried') /\ Values(Carried') = Values(Carried) \ {Carried[o]}
    <2>1. Injective(Duty) /\ Injective(Carried)
      BY <1>1 DEF Settling, Buffers
    <2> QED
      BY <1>1, <1>3, <1>4, <2>1, OwnsMove
  <1>6. Born' = Born
    BY <1>1, BornSame
  <1>7. state' = PromiseDies(Duty[o])
    BY <1>1, CleanUp DEF CleanedUpByAssign
  <1>8. /\ state' \in [Ids -> State] /\ StatesOK'
        /\ Unsettled' = Unsettled \ {Duty[o]} /\ Open' = Open
    BY <1>1, <1>6, <1>7, DutyUnsettled, Dies
  <1>9. /\ HeapTypes' /\ Held' = Held \ {Carried[o]} /\ \A G : G = heap' => Matching(G)
    BY <1>1, Clears
  <1>10. Matching(heap)'
    BY <1>3, <1>9, MatchingNext
  <1>11. Settling'
    <2>1. Duty[o] \notin Values(prom) \/ Duty[o] = Null
      BY <1>1, DutyUnsettled
    <2>2. Null \notin Values(prom)
      BY DEF Values
    <2> QED
      BY <1>1, <1>5, <1>8, <2>1, <2>2 DEF Settling
  <1>12. Holding' /\ TypesOK'
    BY <1>1, <1>8 DEF Holding, TypesOK
  <1>13. Buffers'
    BY <1>1, <1>5, <1>9, <1>10 DEF Buffers
  <1> QED
    BY <1>3, <1>8, <1>11, <1>12, <1>13 DEF IInv

\* ~message() settles its slot and clears its buffer.
LEMMA DestroyMessageInv ==
  ASSUME IInv, NEW o \in Objects, DestroyMessage(o)
  PROVE  IInv'
  <1>1. /\ MsgsOK /\ TypesOK /\ Settling /\ Holding /\ StatesOK /\ Buffers
        /\ UNCHANGED <<prom, fut, made, thrown, aborted>>
        /\ msg[o] # Null /\ msg' = [msg EXCEPT ![o] = Null]
        /\ state' = CleanedUp(msg[o]) /\ heap' = Cleared(msg[o].body)
    BY DEF IInv, DestroyMessage
  <1>3. /\ MsgsOK' /\ Duty' = PutAt(Duty, o, Null) /\ Carried' = PutAt(Carried, o, Null)
        /\ \A H : Matching(H) => Matching(H)'
    BY <1>1, MsgCleared
  <1>4. Duty \in [Objects -> Ids \cup {Null}] /\ Carried \in [Objects -> Ids \cup {Null}]
    BY <1>1, DutyTypes
  <1>5. /\ Injective(Duty') /\ Values(Duty') = Values(Duty) \ {Duty[o]}
        /\ Injective(Carried') /\ Values(Carried') = Values(Carried) \ {Carried[o]}
    <2>1. Injective(Duty) /\ Injective(Carried)
      BY <1>1 DEF Settling, Buffers
    <2> QED
      BY <1>1, <1>3, <1>4, <2>1, OwnsClear
  <1>6. Born' = Born
    BY <1>1, BornSame
  <1>7. state' = PromiseDies(Duty[o])
    BY <1>1, CleanUp
  <1>8. /\ state' \in [Ids -> State] /\ StatesOK'
        /\ Unsettled' = Unsettled \ {Duty[o]} /\ Open' = Open
    BY <1>1, <1>6, <1>7, DutyUnsettled, Dies
  <1>9. /\ HeapTypes' /\ Held' = Held \ {Carried[o]} /\ \A G : G = heap' => Matching(G)
    BY <1>1, Clears
  <1>10. Matching(heap)'
    BY <1>3, <1>9, MatchingNext
  <1>11. Settling'
    <2>1. Duty[o] \notin Values(prom) \/ Duty[o] = Null
      BY <1>1, DutyUnsettled
    <2>2. Null \notin Values(prom)
      BY DEF Values
    <2> QED
      BY <1>1, <1>5, <1>8, <2>1, <2>2 DEF Settling
  <1>12. Holding' /\ TypesOK'
    BY <1>1, <1>8 DEF Holding, TypesOK
  <1>13. Buffers'
    BY <1>1, <1>5, <1>9, <1>10 DEF Buffers
  <1> QED
    BY <1>3, <1>8, <1>11, <1>12, <1>13 DEF IInv

\* transfer_ownership() hands the slot to a promise.
LEMMA TransferOwnershipInv ==
  ASSUME IInv, NEW o \in Objects, NEW p \in Promises, TransferOwnership(o, p)
  PROVE  IInv'
  <1>1. /\ MsgsOK /\ TypesOK /\ Settling /\ Holding /\ StatesOK /\ Buffers
        /\ UNCHANGED <<fut, state, made, heap, thrown, aborted>>
        /\ msg[o] # Null /\ prom[p] = Null /\ prom' = [prom EXCEPT ![p] = Duty[o]]
        /\ Duty[o] # Null
    BY DEF IInv, TransferOwnership, Duty
  <1>2. msg' = [msg EXCEPT ![o] = Transferred(msg[o])]
    BY Zenon DEF TransferOwnership, Transferred
  <1>3. /\ MsgsOK' /\ Duty' = PutAt(Duty, o, Null) /\ Carried' = Carried
        /\ \A H : Matching(H) => Matching(H)'
    BY <1>1, <1>2, MsgTransferred
  <1>4. /\ Duty \in [Objects -> Ids \cup {Null}] /\ prom \in [Promises -> Ids \cup {Null}]
        /\ Duty[o] \in Ids /\ Duty[o] \in Values(Duty)
    BY <1>1, DutyTypes DEF TypesOK, Values
  <1>5. Injective(Duty') /\ Values(Duty') = Values(Duty) \ {Duty[o]}
    BY <1>1, <1>3, <1>4, OwnsClear DEF Settling
  <1>6. /\ Injective(prom') /\ Values(prom') = Values(prom) \cup {Duty[o]}
        /\ prom' \in [Promises -> Ids \cup {Null}]
    <2>1. prom' = PutAt(prom, p, Duty[o])
      BY <1>1 DEF PutAt
    <2>2. Injective(prom) /\ Duty[o] \notin Values(prom)
      BY <1>1, <1>4 DEF Settling
    <2>3. ASSUME NEW n \in Ids, n \notin Values(prom)
          PROVE  /\ Injective(PutAt(prom, p, n)) /\ Values(PutAt(prom, p, n)) = Values(prom) \cup {n}
                 /\ PutAt(prom, p, n) \in [Promises -> Ids \cup {Null}]
      BY <1>1, <1>4, <2>2, <2>3, OwnsSet, NullApart
    <2> QED
      BY <1>4, <2>1, <2>2, <2>3
  <1>7. Born' = Born /\ Unborn' = Unborn
    BY <1>1, BornSame
  <1>8. Unsettled' = Unsettled /\ Open' = Open /\ StatesOK' /\ TypesOK'
    BY <1>1, <1>6, <1>7 DEF Unsettled, Open, StatesOK, TypesOK
  <1>9. HeapTypes' /\ Held' = Held /\ \A G : G = heap' => Matching(G)
    BY <1>1, <1>7, HeapSame
  <1>10. Matching(heap)'
    BY <1>3, <1>9, MatchingNext
  <1>11. Settling' /\ Holding'
    BY <1>1, <1>4, <1>5, <1>6, <1>8 DEF Settling, Holding
  <1>12. Buffers'
    BY <1>1, <1>3, <1>9, <1>10 DEF Buffers
  <1> QED
    BY <1>3, <1>8, <1>11, <1>12 DEF IInv

\* The parts that an operation on promises and futures leaves alone.
LEMMA HandlesOnly ==
  ASSUME IInv, UNCHANGED <<msg, heap>>, Unborn' = Unborn,
         \/ Born' = Born /\ made' = made
         \/ /\ made' = made + 1 /\ Born' = Born \cup {made + 1}
            /\ made + 1 \in Ids /\ made + 1 \notin 1 .. made
            /\ 1 .. made' = 1 .. made \cup {made + 1}
  PROVE  MsgsOK' /\ Buffers' /\ Duty' = Duty
  <1>1. MsgsOK /\ TypesOK /\ Buffers
    BY DEF IInv
  <1>2. /\ MsgsOK' /\ Duty' = Duty /\ Carried' = Carried
        /\ \A H : Matching(H) => Matching(H)'
    BY <1>1, MsgSame
  <1>3. HeapTypes' /\ Held' = Held /\ \A G : G = heap' => Matching(G)
    BY <1>1, HeapSame
  <1>4. Matching(heap)'
    BY <1>2, <1>3, MatchingNext
  <1> QED
    BY <1>1, <1>2, <1>3, <1>4 DEF Buffers

\* A state that is made is nobody's.
LEMMA NobodyHas ==
  ASSUME IInv, NEW k \in Ids, k \notin Born
  PROVE  k # Null /\ k \notin Values(Duty) /\ k \notin Values(prom) /\ k \notin Values(fut)
         /\ k \notin Values(Carried)
  BY NullApart DEF IInv, Settling, Holding, Buffers, Unsettled, Open, Held

\* A promise of its own makes a state.
LEMMA MakePromiseInv ==
  ASSUME IInv, NEW p \in Promises, MakePromise(p)
  PROVE  IInv'
  <1> DEFINE k == made + 1
  <1>1. /\ MsgsOK /\ TypesOK /\ Settling /\ Holding /\ StatesOK /\ Running /\ made < MaxMade
        /\ UNCHANGED <<msg, fut, state, heap, thrown, aborted>> /\ made' = made + 1
        /\ prom[p] = Null /\ prom' = PutAt(prom, p, k)
    BY DEF IInv, MakePromise, PutAt
  <1>2. /\ k \in Ids /\ k \notin Born /\ k \notin 1 .. made /\ made' \in 0 .. MaxMade
        /\ 1 .. made' = 1 .. made \cup {k} /\ thrown \subseteq 1 .. made'
        /\ Born' = Born \cup {k} /\ Unborn' = Unborn
    BY <1>1, BornNew
  <1>3. MsgsOK' /\ Buffers' /\ Duty' = Duty
    BY <1>1, <1>2, HandlesOnly
  <1>4. k # Null /\ k \notin Values(prom) /\ k \notin Values(Duty)
    BY <1>2, NobodyHas
  <1>5. /\ state \in [Ids -> State] /\ prom \in [Promises -> Ids \cup {Null}] /\ made \in Nat
        /\ state[k] = NewState
    BY <1>1, <1>2 DEF TypesOK, StatesOK
  <1> HIDE DEF k
  <1>6. /\ Injective(prom') /\ Values(prom') = Values(prom) \cup {k}
        /\ prom' \in [Promises -> Ids \cup {Null}]
    BY <1>1, <1>2, <1>4, <1>5, OwnsSet DEF Settling
  <1>7. /\ StatesOK' /\ Unsettled' = Unsettled \cup {k} /\ Open' = Open
    BY <1>1, <1>2, <1>5, NewClosed DEF StatesOK, Unsettled, Open
  <1>8. TypesOK'
    BY <1>1, <1>2, <1>5, <1>6 DEF TypesOK
  <1>9. Settling' /\ Holding'
    BY <1>1, <1>3, <1>4, <1>6, <1>7 DEF Settling, Holding
  <1> QED
    BY <1>3, <1>7, <1>8, <1>9 DEF IInv

\* set_value(), error() and exception() settle what the promise has.
LEMMA SettlePromiseInv ==
  ASSUME IInv, NEW p \in Promises, SettlePromise(p)
  PROVE  IInv'
  <1>1. /\ MsgsOK /\ TypesOK /\ Settling /\ Holding /\ StatesOK
        /\ UNCHANGED <<msg, fut, made, heap, thrown, aborted>>
        /\ prom[p] # Null /\ prom' = PutAt(prom, p, Null)
    BY DEF IInv, SettlePromise, PutAt
  <1>2. PICK x \in {ReleasePromise(SetValue(state[prom[p]])), ReleasePromise(SetError(state[prom[p]]))} :
          state' = [state EXCEPT ![prom[p]] = x]
    BY DEF SettlePromise
  <1>3. Born' = Born /\ Unborn' = Unborn
    BY <1>1, BornSame
  <1>4. prom \in [Promises -> Ids \cup {Null}] /\ Injective(prom)
    BY <1>1 DEF TypesOK, Settling
  <1>5. prom[p] \in Unsettled /\ prom[p] \notin Values(Duty)
    <2>1. prom[p] \in Values(prom)
      BY <1>1, <1>4 DEF Values
    <2> QED
      BY <1>1, <2>1 DEF Settling
  <1>6. /\ state' \in [Ids -> State] /\ StatesOK'
        /\ Unsettled' = Unsettled \ {prom[p]} /\ Open' = Open
    BY <1>1, <1>2, <1>3, <1>5, Settles
  <1>7. /\ Injective(prom') /\ Values(prom') = Values(prom) \ {prom[p]}
        /\ prom' \in [Promises -> Ids \cup {Null}]
    BY <1>1, <1>4, OwnsClear
  <1>8. MsgsOK' /\ Buffers' /\ Duty' = Duty
    BY <1>1, <1>3, HandlesOnly
  <1>9. TypesOK'
    BY <1>1, <1>6, <1>7 DEF TypesOK
  <1>10. Settling' /\ Holding'
    BY <1>1, <1>5, <1>6, <1>7, <1>8 DEF Settling, Holding
  <1> QED
    BY <1>6, <1>8, <1>9, <1>10 DEF IInv

\* A promise moved over another settles what that one had.
LEMMA MovePromiseInv ==
  ASSUME IInv, NEW p \in Promises, NEW from \in Promises, MovePromise(p, from)
  PROVE  IInv'
  <1>1. /\ MsgsOK /\ TypesOK /\ Settling /\ Holding /\ StatesOK
        /\ UNCHANGED <<msg, fut, made, heap, thrown, aborted>> /\ p # from
        /\ prom' = MovedTo(prom, p, from) /\ state' = PromiseDies(prom[p])
    BY DEF IInv, MovePromise, MovedTo
  <1>3. Born' = Born /\ Unborn' = Unborn
    BY <1>1, BornSame
  <1>4. prom \in [Promises -> Ids \cup {Null}] /\ Injective(prom)
    BY <1>1 DEF TypesOK, Settling
  <1>5. /\ prom[p] = Null \/ prom[p] \in Unsettled
        /\ prom[p] \notin Values(Duty)
    <2>1. prom[p] = Null \/ prom[p] \in Values(prom)
      BY <1>4 DEF Values
    <2>2. Null \notin Values(Duty)
      BY DEF Values
    <2> QED
      BY <1>1, <2>1, <2>2 DEF Settling
  <1>6. /\ state' \in [Ids -> State] /\ StatesOK'
        /\ Unsettled' = Unsettled \ {prom[p]} /\ Open' = Open
    BY <1>1, <1>3, <1>5, Dies
  <1>7. /\ Injective(prom') /\ Values(prom') = Values(prom) \ {prom[p]}
        /\ prom' \in [Promises -> Ids \cup {Null}]
    BY <1>1, <1>4, OwnsMove
  <1>8. MsgsOK' /\ Buffers' /\ Duty' = Duty
    BY <1>1, <1>3, HandlesOnly
  <1>9. TypesOK'
    BY <1>1, <1>6, <1>7 DEF TypesOK
  <1>10. Settling' /\ Holding'
    BY <1>1, <1>5, <1>6, <1>7, <1>8 DEF Settling, Holding
  <1> QED
    BY <1>6, <1>8, <1>9, <1>10 DEF IInv

\* get_future() claims the future of a state once.
LEMMA GetFutureInv ==
  ASSUME IInv, NEW p \in Promises, NEW f \in Futures, GetFuture(p, f)
  PROVE  IInv'
  <1> DEFINE n == prom[p]
             x == [state[n] EXCEPT !.claimed = TRUE]
  <1>1. /\ MsgsOK /\ TypesOK /\ Settling /\ Holding /\ StatesOK
        /\ UNCHANGED <<msg, prom, made, heap, thrown, aborted>>
        /\ n # Null /\ fut[f] = Null /\ fut' = PutAt(fut, f, n) /\ ~state[n].claimed
    BY DEF IInv, GetFuture, PutAt
  <1>2. state' = [state EXCEPT ![n] = x]
    BY Zenon DEF GetFuture
  <1>3. Born' = Born /\ Unborn' = Unborn
    BY <1>1, BornSame
  <1>4. /\ prom \in [Promises -> Ids \cup {Null}] /\ fut \in [Futures -> Ids \cup {Null}]
        /\ Injective(fut)
    BY <1>1 DEF TypesOK, Holding
  <1>5. n \in Unsettled /\ n \in Ids
    <2>1. n \in Values(prom)
      BY <1>1, <1>4 DEF Values
    <2> QED
      BY <1>1, <1>4, <2>1 DEF Settling
  <1>6. /\ Closed(x) /\ x.claimed /\ x.promise_released = state[n].promise_released
        /\ x.future_released = state[n].future_released
    BY <1>1, <1>5, FutureClaimed, Zenon DEF StatesOK
  <1> HIDE DEF x, n
  <1>7. /\ state' \in [Ids -> State] /\ StatesOK'
        /\ Unsettled' = Unsettled /\ Open' = Open \cup {n} /\ n \notin Open
    BY <1>1, <1>2, <1>3, <1>5, <1>6, Claims
  <1>8. /\ Injective(fut') /\ Values(fut') = Values(fut) \cup {n}
        /\ fut' \in [Futures -> Ids \cup {Null}]
    <2>1. n \notin Values(fut)
      BY <1>1, <1>7 DEF Holding
    <2> QED
      BY <1>1, <1>4, <1>5, <2>1, OwnsSet
  <1>9. MsgsOK' /\ Buffers' /\ Duty' = Duty
    BY <1>1, <1>3, HandlesOnly
  <1>10. TypesOK'
    BY <1>1, <1>7, <1>8 DEF TypesOK
  <1>11. Settling' /\ Holding'
    BY <1>1, <1>7, <1>8, <1>9 DEF Settling, Holding
  <1> QED
    BY <1>7, <1>9, <1>10, <1>11 DEF IInv

\* The state of a future that is ready when it is returned.
LEMMA ReadyState ==
  ASSUME NEW st \in {SetValue(NewState), SetError(NewState)},
         NEW x, x = [ReleasePromise(st) EXCEPT !.claimed = TRUE]
  PROVE  Closed(x) /\ x.claimed /\ x.promise_released = 1 /\ x.future_released = 0
  <1>1. Closed(NewState) /\ NewState.promise_released = 0 /\ NewState.future_released = 0
    BY NewClosed
  <1> DEFINE y == ReleasePromise(st)
  <1>2. y \in {ReleasePromise(SetValue(NewState)), ReleasePromise(SetError(NewState))}
    OBVIOUS
  <1> HIDE DEF y
  <1>3. Closed(y) /\ y.promise_released = 1 /\ y.future_released = 0
    BY <1>1, <1>2, PromiseLeaves
  <1>4. x = [y EXCEPT !.claimed = TRUE]
    BY Zenon DEF y
  <1> QED
    BY <1>3, <1>4, FutureClaimed, Zenon

\* A ready future has a state that is settled already.
LEMMA MakeReadyFutureInv ==
  ASSUME IInv, NEW f \in Futures, MakeReadyFuture(f)
  PROVE  IInv'
  <1> DEFINE k == made + 1
  <1>1. /\ MsgsOK /\ TypesOK /\ Settling /\ Holding /\ StatesOK /\ Running /\ made < MaxMade
        /\ UNCHANGED <<msg, prom, heap, thrown, aborted>> /\ made' = made + 1
        /\ fut[f] = Null /\ fut' = PutAt(fut, f, k)
    BY Zenon DEF IInv, MakeReadyFuture, PutAt
  <1>2. /\ k \in Ids /\ k \notin Born /\ k \notin 1 .. made /\ made' \in 0 .. MaxMade
        /\ 1 .. made' = 1 .. made \cup {k} /\ thrown \subseteq 1 .. made'
        /\ Born' = Born \cup {k} /\ Unborn' = Unborn
    BY <1>1, BornNew
  <1>3. MsgsOK' /\ Buffers' /\ Duty' = Duty
    BY <1>1, <1>2, HandlesOnly
  <1>4. k # Null /\ k \notin Values(fut)
    BY <1>2, NobodyHas
  <1>5. fut \in [Futures -> Ids \cup {Null}] /\ made \in Nat
    BY <1>1 DEF TypesOK
  <1>6. PICK x : /\ state' = [state EXCEPT ![k] = x] /\ Closed(x) /\ x.claimed
                 /\ x.promise_released = 1 /\ x.future_released = 0
    <2>1. PICK st \in {SetValue(NewState), SetError(NewState)} :
            state' = [state EXCEPT ![k] = [ReleasePromise(st) EXCEPT !.claimed = TRUE]]
      BY Zenon DEF MakeReadyFuture
    <2> QED
      BY <2>1, ReadyState, Zenon
  <1> HIDE DEF k
  <1>7. /\ state' \in [Ids -> State] /\ StatesOK'
        /\ Unsettled' = Unsettled /\ Open' = Open \cup {k}
    <2>1. /\ state' \in [Ids -> State] /\ StatesOK'
          /\ Unsettled' = Unsettled \cup (IF x.promise_released = 0 THEN {k} ELSE {})
          /\ Open' = Open \cup (IF x.claimed /\ x.future_released = 0 THEN {k} ELSE {})
      BY <1>1, <1>2, <1>6, Begins
    <2>2. ~(x.promise_released = 0) /\ x.claimed /\ x.future_released = 0
      BY <1>6
    <2> QED
      BY <2>1, <2>2
  <1>8. /\ Injective(fut') /\ Values(fut') = Values(fut) \cup {k}
        /\ fut' \in [Futures -> Ids \cup {Null}]
    BY <1>1, <1>2, <1>4, <1>5, OwnsSet DEF Holding
  <1>9. TypesOK'
    BY <1>1, <1>2, <1>5, <1>7, <1>8 DEF TypesOK
  <1>10. Settling' /\ Holding'
    BY <1>1, <1>3, <1>7, <1>8 DEF Settling, Holding
  <1> QED
    BY <1>3, <1>7, <1>9, <1>10 DEF IInv

\* A future of a place is of an open state.
LEMMA FutureOpen ==
  ASSUME IInv, NEW f \in Futures, fut[f] # Null
  PROVE  /\ fut[f] \in Open /\ fut[f] \in Ids /\ Closed(state[fut[f]])
         /\ state[fut[f]].claimed /\ state[fut[f]].future_released = 0
  <1>1. fut[f] \in Values(fut) /\ fut[f] \in Ids
    BY DEF IInv, TypesOK, Values
  <1>2. fut[f] \in Open
    BY <1>1 DEF IInv, Holding
  <1> QED
    BY <1>1, <1>2 DEF IInv, StatesOK, Open

\* A future moved over another releases what that one had.
LEMMA MoveFutureInv ==
  ASSUME IInv, NEW f \in Futures, NEW from \in Futures, MoveFuture(f, from)
  PROVE  IInv'
  <1>1. /\ MsgsOK /\ TypesOK /\ Settling /\ Holding /\ StatesOK
        /\ UNCHANGED <<msg, prom, made, heap, thrown, aborted>> /\ f # from
        /\ fut' = MovedTo(fut, f, from) /\ state' = FutureDies(fut[f])
    BY DEF IInv, MoveFuture, MovedTo
  <1>3. Born' = Born /\ Unborn' = Unborn
    BY <1>1, BornSame
  <1>4. fut \in [Futures -> Ids \cup {Null}] /\ Injective(fut)
    BY <1>1 DEF TypesOK, Holding
  <1>6. /\ state' \in [Ids -> State] /\ StatesOK'
        /\ Unsettled' = Unsettled /\ Open' = Open \ {fut[f]}
    <2>1. CASE fut[f] = Null
      <3>1. state' = state
        BY <1>1, <2>1 DEF FutureDies
      <3>2. Null \notin Open
        BY <1>1, BornIds, NullApart DEF Open
      <3> QED
        BY <1>1, <1>3, <2>1, <3>1, <3>2 DEF TypesOK, StatesOK, Unsettled, Open
    <2>2. CASE fut[f] # Null
      <3> DEFINE n == fut[f]
                 x == ReleaseFuture(state[n])
      <3>1. n \in Open /\ Closed(state[n]) /\ state[n].claimed /\ state[n].future_released = 0
        BY <2>2, FutureOpen
      <3>2. state' = [state EXCEPT ![n] = x]
        BY <1>1, <2>2, Zenon DEF FutureDies
      <3>3. /\ Closed(x) /\ x.future_released = 1 /\ x.claimed
            /\ x.promise_released = state[n].promise_released
        BY <3>1, FutureLeaves, Zenon
      <3> HIDE DEF x
      <3> QED
        BY <1>1, <1>3, <3>1, <3>2, <3>3, LetsGo
    <2> QED
      BY <2>1, <2>2
  <1>7. /\ Injective(fut') /\ Values(fut') = Values(fut) \ {fut[f]}
        /\ fut' \in [Futures -> Ids \cup {Null}]
    BY <1>1, <1>4, OwnsMove
  <1>8. MsgsOK' /\ Buffers' /\ Duty' = Duty
    BY <1>1, <1>3, HandlesOnly
  <1>9. TypesOK'
    BY <1>1, <1>6, <1>7 DEF TypesOK
  <1>10. Settling' /\ Holding'
    BY <1>1, <1>6, <1>7, <1>8 DEF Settling, Holding
  <1> QED
    BY <1>6, <1>8, <1>9, <1>10 DEF IInv

\* take_ready() takes the value and releases the future; without one it aborts.
LEMMA TakeReadyInv ==
  ASSUME IInv, NEW f \in Futures, TakeReady(f)
  PROVE  IInv'
  <1> DEFINE n == fut[f]
  <1>1. /\ MsgsOK /\ TypesOK /\ Settling /\ Holding /\ StatesOK /\ Running
        /\ UNCHANGED <<msg, prom, made, heap, thrown>> /\ n # Null
    BY DEF IInv, TakeReady
  <1>2. CASE /\ Extractable(state[n]) /\ UNCHANGED aborted
             /\ state' = [state EXCEPT ![n] = ReleaseFuture(Taken(state[n]))]
             /\ fut' = PutAt(fut, f, Null)
    <2>1. Born' = Born /\ Unborn' = Unborn
      BY <1>1, <1>2, BornSame
    <2>2. fut \in [Futures -> Ids \cup {Null}] /\ Injective(fut)
      BY <1>1 DEF TypesOK, Holding
    <2> DEFINE x == ReleaseFuture(Taken(state[n]))
    <2>3. n \in Open /\ Closed(state[n]) /\ state[n].claimed /\ state[n].future_released = 0
      BY <1>1, FutureOpen
    <2>4. /\ Closed(x) /\ x.future_released = 1 /\ x.claimed
          /\ x.promise_released = state[n].promise_released
      BY <1>2, <2>3, ValueLeaves, Zenon
    <2> HIDE DEF x
    <2>5. state' = [state EXCEPT ![n] = x]
      BY <1>2 DEF x
    <2>6. /\ state' \in [Ids -> State] /\ StatesOK'
          /\ Unsettled' = Unsettled /\ Open' = Open \ {n}
      BY <1>1, <2>1, <2>3, <2>4, <2>5, LetsGo
    <2>7. /\ Injective(fut') /\ Values(fut') = Values(fut) \ {n}
          /\ fut' \in [Futures -> Ids \cup {Null}]
      BY <1>2, <2>2, OwnsClear
    <2>8. MsgsOK' /\ Buffers' /\ Duty' = Duty
      BY <1>1, <2>1, HandlesOnly
    <2>9. TypesOK'
      BY <1>1, <1>2, <2>6, <2>7 DEF TypesOK
    <2>10. Settling' /\ Holding'
      BY <1>1, <2>6, <2>7, <2>8 DEF Settling, Holding
    <2> QED
      BY <2>6, <2>8, <2>9, <2>10 DEF IInv
  <1>3. CASE aborted' = "take_ready" /\ UNCHANGED <<state, fut>>
    <2>1. Born' = Born /\ Unborn' = Unborn
      BY <1>1, <1>3, BornAborted
    <2>2. MsgsOK' /\ Buffers' /\ Duty' = Duty
      BY <1>1, <2>1, HandlesOnly
    <2>3. Unsettled' = Unsettled /\ Open' = Open /\ StatesOK' /\ TypesOK'
      BY <1>1, <1>3, <2>1 DEF Unsettled, Open, StatesOK, TypesOK
    <2>4. Settling' /\ Holding'
      BY <1>1, <1>3, <2>2, <2>3 DEF Settling, Holding
    <2> QED
      BY <2>2, <2>3, <2>4 DEF IInv
  <1> QED
    BY <1>2, <1>3, Zenon DEF TakeReady, PutAt

\* A buffer with members of the right types is a body.
LEMMA BufferBody ==
  ASSUME NEW b, b = Buffer(b.resource, b.capacity, b.volume, b.allocation, b.objects),
         b.resource \in Resources \cup {Null},
         b.capacity \in {0} \cup {getSize(args) : args \in ArgLists},
         b.volume \in Nat, b.allocation \in Ids \cup {Null}, b.objects \in Seq(Entry)
  PROVE  b \in Bodies
  BY DEF Buffer, Bodies, Entry

\* What is lost when force_align() aborts, or an argument throws: a state and a
\* buffer that nobody has.
LEMMA LostInv ==
  ASSUME IInv, Running, made < MaxMade, made' = made + 1, NEW r \in Resources,
         NEW args \in ArgLists, heap' = [heap EXCEPT ![made + 1] = Allocated(r, args)],
         UNCHANGED <<msg, prom, fut, state>>,
         \/ UNCHANGED thrown /\ aborted' = "force_align"
         \/ thrown' = thrown \cup {made + 1} /\ UNCHANGED aborted
  PROVE  IInv'
  <1>1. MsgsOK /\ TypesOK /\ Settling /\ Holding /\ StatesOK /\ Buffers
    BY DEF IInv
  <1>2. /\ Born' = Born /\ Unborn' = Unborn \cup {made + 1} /\ made' \in 0 .. MaxMade
        /\ 1 .. made' = 1 .. made \cup {made + 1} /\ made \in Nat
    BY <1>1, BornNew DEF TypesOK
  <1>3. HeapTypes' /\ Held' = Held /\ \A G : G = heap' => Matching(G)
    BY <1>1, <1>2, Allocates
  <1>4. /\ MsgsOK' /\ Duty' = Duty /\ Carried' = Carried
        /\ \A H : Matching(H) => Matching(H)'
    BY <1>1, MsgSame
  <1>5. Matching(heap)'
    BY <1>3, <1>4, MatchingNext
  <1>6. Unsettled' = Unsettled /\ Open' = Open /\ StatesOK'
    BY <1>1, <1>2 DEF Unsettled, Open, StatesOK
  <1>7. TypesOK'
    <2>1. thrown' \subseteq 1 .. made'
      BY <1>1, <1>2 DEF TypesOK
    <2>2. /\ aborted' \in {Null, "force_align", "take_ready"}
          /\ aborted' = "force_align" => made' # 0
      BY <1>1, <1>2 DEF TypesOK
    <2> QED
      BY <1>1, <1>2, <2>1, <2>2 DEF TypesOK
  <1>8. Settling' /\ Holding'
    BY <1>1, <1>4, <1>6 DEF Settling, Holding
  <1>9. Buffers'
    BY <1>1, <1>3, <1>4, <1>5 DEF Buffers
  <1> QED
    BY <1>4, <1>6, <1>7, <1>8, <1>9 DEF IInv

\* make_message() when an argument throws.
LEMMA MakeThrowsInv ==
  ASSUME IInv, NEW r \in Resources, NEW args \in ArgLists, NEW n, MakeThrows(r, args, n)
  PROVE  IInv'
  BY LostInv DEF MakeThrows

\* make_message() fills a buffer, makes a state and a message that has both.
LEMMA MakeMessageInv ==
  ASSUME IInv, NEW o \in Objects, NEW f \in Futures, NEW r \in Resources, NEW args \in ArgLists,
         MakeMessage(o, f, r, args)
  PROVE  IInv'
  <1> DEFINE k == made + 1
             b == Filled(Fresh(r, args), args, Len(args))
  <1>1. /\ MsgsOK /\ TypesOK /\ Settling /\ Holding /\ StatesOK /\ Buffers
        /\ Running /\ made < MaxMade /\ made' = made + 1
        /\ heap' = [heap EXCEPT ![made + 1] = Allocated(r, args)]
        /\ UNCHANGED <<prom, thrown>> /\ msg[o] = Null /\ fut[f] = Null
    BY Zenon DEF IInv, MakeMessage
  <1>2. CASE aborted' = "force_align" /\ UNCHANGED <<msg, fut, state>>
    BY <1>1, <1>2, LostInv
  <1>3. CASE /\ Len(b.objects) = Len(args)
             /\ msg' = [msg EXCEPT ![o] = Made(k, b)] /\ fut' = PutAt(fut, f, k)
             /\ state' = [state EXCEPT ![k] = [state[k] EXCEPT !.claimed = TRUE]]
             /\ UNCHANGED aborted
    <2>1. /\ k \in Ids /\ k \notin Born /\ made' \in 0 .. MaxMade /\ thrown \subseteq 1 .. made'
          /\ Born' = Born \cup {k} /\ Unborn' = Unborn
      BY <1>1, <1>3, BornNew
    <2>2. /\ LaidOut(b) /\ b.resource = r
          /\ b.capacity = IF args = <<>> THEN 0 ELSE getSize(args)
          /\ b.allocation = IF args = <<>> THEN Null ELSE k
          /\ b = Buffer(b.resource, b.capacity, b.volume, b.allocation, b.objects)
          /\ b.volume \in Nat /\ b.objects \in Seq(Entry)
      <3>1. Len(args) \in 0 .. Len(args)
        BY AllocatedRecord
      <3> QED
        BY <3>1, FreshBuffer
    <2>3. b \in Bodies
      <3> HIDE DEF b, k
      <3> QED
        BY <2>1, <2>2, BufferBody
    <2>4. /\ HeapTypes' /\ Held' = Held \cup (IF args = <<>> THEN {} ELSE {k})
          /\ \A G : G = heap' => Matching(G)
          /\ heap'[k] = Allocated(r, args)
      BY <1>1, <2>1, Allocates
    <2>5. k # Null /\ k \notin Values(Duty) /\ k \notin Values(fut) /\ k \notin Values(prom)
          /\ k \notin Values(Carried)
      BY <2>1, NobodyHas
    <2> HIDE DEF b, k
    <2>6. /\ MsgsOK' /\ Duty' = PutAt(Duty, o, k) /\ Carried' = PutAt(Carried, o, b.allocation)
          /\ \A H : Matching(H) /\ (b.allocation # Null => Matches(b, H[b.allocation]))
                      => Matching(H)'
      BY <1>1, <1>3, <2>1, <2>2, <2>3, MsgMade
    <2>7. /\ Duty \in [Objects -> Ids \cup {Null}] /\ Carried \in [Objects -> Ids \cup {Null}]
          /\ fut \in [Futures -> Ids \cup {Null}] /\ Duty[o] = Null /\ Carried[o] = Null
          /\ Injective(Duty) /\ Injective(Carried) /\ Injective(fut)
      BY <1>1, DutyTypes DEF TypesOK, Duty, Carried, Settling, Holding, Buffers
    <2>8. Injective(Duty') /\ Values(Duty') = Values(Duty) \cup {k}
      BY <2>1, <2>5, <2>6, <2>7, OwnsSet
    <2>9. /\ Injective(fut') /\ Values(fut') = Values(fut) \cup {k}
          /\ fut' \in [Futures -> Ids \cup {Null}]
      BY <1>1, <1>3, <2>1, <2>5, <2>7, OwnsSet
    <2>10. /\ Injective(Carried')
           /\ Values(Carried') = Values(Carried) \cup (IF args = <<>> THEN {} ELSE {k})
      <3>1. CASE args = <<>>
        <4>1. Carried' = PutAt(Carried, o, Null)
          BY <2>2, <2>6, <3>1
        <4>2. Injective(Carried') /\ Values(Carried') = Values(Carried) \ {Null}
          BY <2>7, <4>1, OwnsClear
        <4>3. Null \notin Values(Carried)
          BY DEF Values
        <4> QED
          BY <3>1, <4>2, <4>3
      <3>2. CASE args # <<>>
        <4>1. Carried' = PutAt(Carried, o, k)
          BY <2>2, <2>6, <3>2
        <4>2. Injective(Carried') /\ Values(Carried') = Values(Carried) \cup {k}
          BY <2>1, <2>5, <2>7, <4>1, OwnsSet
        <4> QED
          BY <3>2, <4>2
      <3> QED
        BY <3>1, <3>2
    <2>11. Matching(heap)'
      <3>1. ASSUME b.allocation # Null PROVE Matches(b, heap'[b.allocation])
        <4>1. args # <<>> /\ b.allocation = k /\ b.capacity = getSize(args)
          BY <2>2, <3>1
        <4> DEFINE x == Allocated(r, args)
        <4>2. x.resource = r /\ x.count = Len(args) /\ x.size = total_size(getSize(args), Len(args))
          BY <4>1, AllocatedRecord
        <4> HIDE DEF x
        <4>3. heap'[b.allocation] = x
          BY <2>4, <4>1 DEF x
        <4> QED
          BY <1>3, <2>2, <4>1, <4>2, <4>3, Zenon DEF Matches
      <3>2. ASSUME NEW G, G = heap' PROVE Matching(G)'
        <4>1. Matching(G) /\ (b.allocation # Null => Matches(b, G[b.allocation]))
          BY <2>4, <3>1, <3>2
        <4> QED
          BY <2>6, <4>1
      <3> QED
        BY <3>2 DEF Matching
    <2>12. /\ state' \in [Ids -> State] /\ StatesOK'
           /\ Unsettled' = Unsettled \cup {k} /\ Open' = Open \cup {k}
      <3> DEFINE x == [state[k] EXCEPT !.claimed = TRUE]
      <3>1. Closed(state[k]) /\ state[k] = NewState
        BY <1>1, <2>1 DEF StatesOK
      <3>2. state[k].promise_released = 0 /\ state[k].future_released = 0
        BY <3>1, NewClosed
      <3>3. Closed(x) /\ x.claimed /\ x.promise_released = 0 /\ x.future_released = 0
        BY <3>1, <3>2, FutureClaimed, Zenon
      <3>4. state' = [state EXCEPT ![k] = x]
        BY <1>3, Zenon
      <3> HIDE DEF x
      <3>5. /\ state' \in [Ids -> State] /\ StatesOK'
            /\ Unsettled' = Unsettled \cup (IF x.promise_released = 0 THEN {k} ELSE {})
            /\ Open' = Open \cup (IF x.claimed /\ x.future_released = 0 THEN {k} ELSE {})
        BY <1>1, <2>1, <3>3, <3>4, Begins
      <3> QED
        BY <3>3, <3>5
    <2>13. TypesOK'
      <3>1. made' # 0
        BY <1>1 DEF TypesOK
      <3> QED
        BY <1>1, <1>3, <2>1, <2>9, <2>12, <3>1 DEF TypesOK
    <2>14. Settling' /\ Holding'
      BY <1>1, <2>5, <2>8, <2>9, <2>12 DEF Settling, Holding
    <2>15. Buffers'
      BY <1>1, <2>4, <2>10, <2>11 DEF Buffers
    <2> QED
      BY <2>6, <2>12, <2>13, <2>14, <2>15 DEF IInv
  <1> QED
    BY <1>2, <1>3, Zenon DEF MakeMessage, PutAt

\* Every operation keeps the invariant.
LEMMA NextInv == IInv /\ [Next]_vars => IInv'
  <1> SUFFICES ASSUME IInv, [Next]_vars PROVE IInv'
    OBVIOUS
  <1>1. CASE UNCHANGED vars
    <2>1. /\ UNCHANGED <<msg, prom, fut, state, made, heap, thrown, aborted>>
      BY <1>1 DEF vars
    <2>2. Born' = Born /\ Unborn' = Unborn
      BY <2>1, BornSame
    <2>3. MsgsOK' /\ Buffers' /\ Duty' = Duty
      BY <2>1, <2>2, HandlesOnly
    <2>4. Unsettled' = Unsettled /\ Open' = Open /\ StatesOK' /\ TypesOK'
      BY <2>1, <2>2 DEF Unsettled, Open, StatesOK, TypesOK, IInv
    <2>5. Settling' /\ Holding'
      BY <2>1, <2>3, <2>4 DEF Settling, Holding, IInv
    <2> QED
      BY <2>3, <2>4, <2>5 DEF IInv
  <1> QED
    BY <1>1, MakeMessageInv, MakeThrowsInv, MoveConstructInv, MoveAssignInv, SwapMessagesInv,
       DestroyMessageInv, TransferOwnershipInv, MakePromiseInv, SettlePromiseInv,
       MovePromiseInv, GetFutureInv, MakeReadyFutureInv, TakeReadyInv, MoveFutureInv
       DEF Next

\* What messages, promises and futures own, always.
THEOREM MessageInvariant == Spec => []IInv
  BY InitInv, NextInv, PTL DEF Spec

-----------------------------------------------------------------------------
(* What follows.                                                           *)

\* A thing is at one place or at none.
LEMMA Owners ==
  ASSUME NEW X, NEW F, F \in [X -> Ids \cup {Null}], Injective(F), NEW n \in Ids
  PROVE  /\ Cardinality({x \in X : F[x] = n}) = IF n \in Values(F) THEN 1 ELSE 0
         /\ n \notin Values(F) => {x \in X : F[x] = n} = {}
  <1>0. n # Null
    BY NullApart
  <1>1. CASE n \in Values(F)
    <2>1. PICK x \in X : F[x] = n
      BY <1>1 DEF Values
    <2>2. {y \in X : F[y] = n} = {x}
      BY <1>0, <2>1 DEF Injective
    <2>3. Cardinality({x}) = 1
      BY FS_Singleton
    <2> QED
      BY <1>1, <2>2, <2>3
  <1>2. CASE n \notin Values(F)
    <2>1. {y \in X : F[y] = n} = {}
      BY <1>0, <1>2 DEF Values
    <2>2. Cardinality({}) = 0
      BY FS_EmptySet
    <2> QED
      BY <1>2, <2>1, <2>2
  <1> QED
    BY <1>1, <1>2

\* The caller's future is settled exactly once, however messages and promises
\* are moved, swapped, assigned over and destroyed.
THEOREM SettledOnce == Spec => []OneSettler
  <1>1. IInv => OneSettler
    <2> SUFFICES ASSUME IInv, NEW n \in 1 .. made
                 PROVE  state[n].promise_released
                          + Cardinality({o \in Live : msg[o].slot = n /\ ~msg[o].transferred})
                          + Cardinality({p \in Promises : prom[p] = n})
                            = (IF n \in Unborn THEN 0 ELSE 1)
      BY DEF OneSettler
    <2>1. MsgsOK /\ TypesOK /\ Settling /\ StatesOK
      BY DEF IInv
    <2>2. n \in Ids /\ (n \in Born <=> n \notin Unborn)
      BY <2>1, NullApart DEF TypesOK, Ids, Born
    <2>3. n # Null
      BY <2>2, NullApart
    <2>4. {o \in Live : msg[o].slot = n /\ ~msg[o].transferred} = {o \in Objects : Duty[o] = n}
      BY <2>3 DEF Live, Duty
    <2>5. Cardinality({o \in Objects : Duty[o] = n}) = IF n \in Values(Duty) THEN 1 ELSE 0
      BY <2>1, <2>2, DutyTypes, Owners DEF Settling
    <2>6. Cardinality({p \in Promises : prom[p] = n}) = IF n \in Values(prom) THEN 1 ELSE 0
      BY <2>1, <2>2, Owners DEF Settling, TypesOK
    <2>7. state[n].promise_released \in 0 .. 1
      BY <2>1, <2>2 DEF TypesOK, State
    <2>8. n \notin Born => state[n].promise_released = 0
      BY <2>1, <2>2, NewClosed DEF StatesOK
    <2>9. /\ n \in Values(Duty) \/ n \in Values(prom) <=>
               n \in Born /\ state[n].promise_released = 0
          /\ ~(n \in Values(Duty) /\ n \in Values(prom))
      <3>1. /\ Values(Duty) \cap Values(prom) = {}
            /\ Values(Duty) \cup Values(prom) = Unsettled
        BY <2>1 DEF Settling
      <3>2. n \in Unsettled <=> n \in Born /\ state[n].promise_released = 0
        BY DEF Unsettled
      <3> QED
        BY <3>1, <3>2
    <2> DEFINE r == state[n].promise_released
               a == Cardinality({o \in Live : msg[o].slot = n /\ ~msg[o].transferred})
               b == Cardinality({p \in Promises : prom[p] = n})
    <2>10. a = (IF n \in Values(Duty) THEN 1 ELSE 0) /\ b = (IF n \in Values(prom) THEN 1 ELSE 0)
      BY <2>4, <2>5, <2>6, Zenon
    <2> HIDE DEF r, a, b
    <2>11. r + a + b = (IF n \in Unborn THEN 0 ELSE 1)
      BY <2>2, <2>7, <2>8, <2>9, <2>10 DEF r
    <2> QED
      BY <2>11 DEF r, a, b
  <1> QED
    BY <1>1, MessageInvariant, PTL

\* A shared state is given back exactly when both of its sides have left, and
\* the value in it is destroyed exactly once.
THEOREM StateGivenBack == Spec => []StateReturned
  <1>1. IInv => StateReturned
    <2> SUFFICES ASSUME IInv, NEW n \in 1 .. made \ Unborn
                 PROVE  LET st == state[n]
                            holders == {f \in Futures : fut[f] = n}
                        IN  /\ st.future_released + Cardinality(holders)
                                 = (IF st.claimed THEN 1 ELSE 0)
                            /\ st.freed = st.promise_released * st.future_released
                            /\ st.destroyed + (IF st.has_value THEN 1 ELSE 0)
                                 = (IF st.value_set THEN 1 ELSE 0)
                            /\ st.freed = 1 => ~st.has_value
      BY DEF StateReturned
    <2>1. TypesOK /\ Holding /\ StatesOK
      BY DEF IInv
    <2>2. n \in Ids /\ n \in Born
      BY <2>1, NullApart DEF TypesOK, Ids, Born
    <2>3. Closed(state[n])
      BY <2>1, <2>2 DEF StatesOK
    <2>4. Cardinality({f \in Futures : fut[f] = n}) = IF n \in Values(fut) THEN 1 ELSE 0
      BY <2>1, <2>2, Owners DEF Holding, TypesOK
    <2>5. n \in Values(fut) <=> state[n].claimed /\ state[n].future_released = 0
      BY <2>1, <2>2 DEF Holding, Open
    <2>6. /\ state[n].promise_released \in 0 .. 1 /\ state[n].future_released \in 0 .. 1
      BY <2>3 DEF Closed, State
    <2>7. state[n].future_released = 1 => state[n].claimed
      BY <2>3 DEF Closed
    <2>8. state[n].future_released + Cardinality({f \in Futures : fut[f] = n})
            = (IF state[n].claimed THEN 1 ELSE 0)
      BY <2>4, <2>5, <2>6, <2>7
    <2>9. /\ state[n].destroyed + (IF state[n].has_value THEN 1 ELSE 0)
               = (IF state[n].value_set THEN 1 ELSE 0)
          /\ state[n].freed = 1 => ~state[n].has_value
          /\ state[n].freed = state[n].promise_released * state[n].future_released
      <3>1. CASE state[n].future_released = 0
        BY <2>3, <2>6, <3>1 DEF Closed
      <3>2. CASE state[n].future_released = 1
        BY <2>3, <2>6, <3>2 DEF Closed
      <3> QED
        BY <2>6, <3>1, <3>2
    <2> QED
      BY <2>8, <2>9
  <1> QED
    BY <1>1, MessageInvariant, PTL

\* A buffer is given back once, to the resource it came from and with its size,
\* after its arguments were destroyed from the last to the first.
THEOREM BufferGivenBack == Spec => []BufferReturned
  <1>1. IInv => BufferReturned
    <2> SUFFICES ASSUME IInv, NEW n \in Ids
                 PROVE  LET owners == {o \in Live : msg[o].body.allocation = n}
                            whole == [resource |-> heap[n].resource, size |-> heap[n].size]
                        IN  /\ heap[n].freed \in {<<>>, <<whole>>}
                            /\ heap[n].size > 0 /\ n \notin Unborn =>
                                   (heap[n].freed = <<>> <=> Cardinality(owners) = 1)
                            /\ heap[n].freed # <<>> => owners = {}
                            /\ heap[n].destroyed = IF heap[n].freed = <<>> THEN <<>>
                                                   ELSE Reverse([i \in 1 .. heap[n].count |-> i])
      BY DEF BufferReturned
    <2> DEFINE h == heap[n]
    <2>1. MsgsOK /\ TypesOK /\ Buffers
      BY DEF IInv
    <2>2. HeapOK(h) /\ (n \notin 1 .. made => h = NoBuffer)
      BY <2>1 DEF Buffers, HeapTypes
    <2>3. n # Null
      BY NullApart
    <2>4. {o \in Live : msg[o].body.allocation = n} = {o \in Objects : Carried[o] = n}
      BY <2>3 DEF Live, Carried
    <2>5. /\ Cardinality({o \in Objects : Carried[o] = n}) = IF n \in Values(Carried) THEN 1 ELSE 0
          /\ n \notin Values(Carried) => {o \in Objects : Carried[o] = n} = {}
      <3>1. Carried \in [Objects -> Ids \cup {Null}] /\ Injective(Carried)
        BY <2>1, DutyTypes DEF Buffers
      <3> QED
        BY <3>1, Owners, Zenon
    <2>6. n \in Values(Carried) <=> n \in Born /\ h.count # 0 /\ h.freed = <<>>
      BY <2>1 DEF Buffers, Held
    <2> HIDE DEF h
    <2>7. h.freed = <<>> \/ h.freed = <<Whole(h)>>
      BY <2>2, Zenon DEF HeapOK
    <2>8. h.destroyed = IF h.freed = <<>> THEN <<>> ELSE Reverse([i \in 1 .. h.count |-> i])
      <3>1. <<Whole(h)>> # <<>>
        OBVIOUS
      <3> QED
        BY <2>2, <3>1, Zenon DEF HeapOK
    <2>9. h.size > 0 /\ n \notin Unborn => n \in Born /\ h.count # 0
      <3>1. h.size > 0 => h # NoBuffer
        BY DEF NoBuffer
      <3> QED
        BY <2>2, <3>1 DEF HeapOK, Born
    <2>10. h.size > 0 /\ n \notin Unborn =>
             (h.freed = <<>> <=> Cardinality({o \in Objects : Carried[o] = n}) = 1)
      BY <2>5, <2>6, <2>9
    <2>11. h.freed # <<>> => {o \in Objects : Carried[o] = n} = {}
      BY <2>5, <2>6
    <2> QED
      BY <2>4, <2>7, <2>8, <2>10, <2>11, Zenon DEF h, Whole
  <1> QED
    BY <1>1, MessageInvariant, PTL

\* In every message the arguments lie aligned, apart from each other and below
\* the table, whatever their types.
THEOREM ArgumentsLaidOut == Spec => []LayoutSound
  <1>1. IInv => LayoutSound
    BY DEF IInv, MsgsOK, LayoutSound, LaidOut, Live
  <1> QED
    BY <1>1, MessageInvariant, PTL

\* Messages, handles, states and buffers keep their types.
THEOREM MessageTypes == Spec => []TypeOK
  <1>1. IInv => TypeOK
    <2> SUFFICES ASSUME IInv PROVE TypeOK
      OBVIOUS
    <2>1. MsgsOK /\ TypesOK /\ HeapTypes
      BY DEF IInv, Buffers
    <2>2. DOMAIN heap = Ids
      BY <2>1 DEF HeapTypes
    <2>3. thrown \subseteq Ids
      BY <2>1, NullApart DEF TypesOK, Ids
    <2> QED
      BY <2>1, <2>2, <2>3, Zenon DEF TypesOK, MsgsOK, TypeOK
  <1> QED
    BY <1>1, MessageInvariant, PTL

=============================================================================
