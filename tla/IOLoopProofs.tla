---------------------------- MODULE IOLoopProofs ----------------------------
(***************************************************************************)
(* Proofs about IOLoop, for any callbacks, timeouts, file descriptors,     *)
(* threads and bounds.                                                     *)
(***************************************************************************)
EXTENDS IOLoop, FiniteSetTheorems, TLAPS

\* A caller that is on its way to the list has a callback to append.
ArgOK == \A t \in Callers : cpc[t] \in {"acquire", "append"} => arg[t] \in Callbacks

\* Something is running exactly while the loop thread is in user code that
\* the loop called, and a batch is left only then or between its callbacks.
RunOK == /\ pc = "user" <=> current # Nobody
         /\ batch # <<>> => pc = "batch" \/ (pc = "user" /\ current \in Callbacks)

\* The waker's pipe is closed last.
WakerOK == waker = "closed" => pc = "closed"

\* A new loop has the variables of its types.
LEMMA InitTypeOK == Init => TypeOK /\ ArgOK
<1> SUFFICES ASSUME Init PROVE TypeOK /\ ArgOK
  OBVIOUS
<1> USE IOLoopAssumption DEF Init
<1>1. ArgOK
  BY DEF ArgOK
<1>2. batch \in Seq(Callbacks) /\ callbacks \in Seq(Callbacks)
  OBVIOUS
<1>3. deadline \in [Timeouts -> 0..MaxTime \cup {NoDeadline}]
  OBVIOUS
<1>4. /\ cpc \in [Callers -> {"idle", "acquire", "append", "wake"}]
      /\ arg \in [Callers -> Callbacks \cup {Nobody}]
      /\ condition \in [Fds -> {"quiet", "ready", "error"}]
  OBVIOUS
<1>5. pollTimeout \in 0..MaxPoll /\ cancellations \in Int
  OBVIOUS
<1> QED
  BY <1>1, <1>2, <1>3, <1>4, <1>5 DEF TypeOK

\* Every step of the loop, of a caller and of user code keeps the types.
LEMMA NextTypeOK == TypeOK /\ ArgOK /\ [Next]_vars => TypeOK' /\ ArgOK'
<1> SUFFICES ASSUME TypeOK, ArgOK, [Next]_vars PROVE TypeOK' /\ ArgOK'
  OBVIOUS
<1> USE IOLoopAssumption DEF TypeOK, ArgOK, Created, NoDeadline,
        vars, loopVars, queueVars, timerVars, ioVars, callerVars
<1>1. CASE LockCallbacks
  BY <1>1 DEF LockCallbacks
<1>2. CASE SwapCallbacks
  BY <1>2 DEF SwapCallbacks
<1>3. CASE RunCallback
  BY <1>3 DEF RunCallback
<1>4. CASE BatchDone
  BY <1>4 DEF BatchDone, AfterBatch
<1>5. CASE ExpireDone
  BY <1>5 DEF ExpireDone, Cleanup, Seconds, Roots
<1>6. CASE CheckQueue
  <2>1. pollTimeout' \in 0..MaxPoll
    BY <1>6 DEF CheckQueue, PollWait
  <2>2. pc' \in {"poll", "outside"} /\ stopped' \in BOOLEAN
    BY <1>6 DEF CheckQueue
  <2> QED
    BY <1>6, <2>1, <2>2 DEF CheckQueue
<1>7. CASE PollReturns
  BY <1>7 DEF PollReturns, Reportable
<1>8. CASE DispatchWaker \/ DispatchDone
  BY <1>8 DEF DispatchWaker, DispatchDone
<1>9. CASE Return
  BY <1>9 DEF Return
<1>10. CASE \E t \in Timeouts : PopCancelled(t) \/ FireTimeout(t)
  BY <1>10 DEF PopCancelled, FireTimeout, Due, Roots
<1>11. CASE \E fd \in Fds : DispatchHandler(fd)
  BY <1>11 DEF DispatchHandler
<1>12. CASE Start \/ Stop \/ Close
  <2>1. CASE Start
    BY <2>1 DEF Start
  <2>2. CASE Stop
    BY <2>2 DEF Stop
  <2>3. CASE Close
    <3>1. /\ pc' \in {"closing", "closed"} /\ closing' \in BOOLEAN
          /\ waker' \in {"empty", "full", "closed"}
      BY <2>3 DEF Close
    <3>2. /\ UNCHANGED <<current, running, stopped, started, batch, callbacks>>
          /\ UNCHANGED <<lock, timerVars, ioVars, callerVars>>
      BY <2>3 DEF Close
    <3> QED
      BY <3>1, <3>2
  <2> QED
    BY <1>12, <2>1, <2>2, <2>3
<1>13. CASE \E c \in Callbacks : AddCallback(c)
  BY <1>13 DEF AddCallback
<1>14. CASE \E t \in Timeouts :
              RemoveTimeout(t) \/ \E d \in 0..MaxTime : AddTimeout(t, d)
  <2>1. ASSUME NEW t \in Timeouts, RemoveTimeout(t)
        PROVE  TypeOK' /\ ArgOK'
    <3>1. /\ heap' \subseteq Created' /\ live' \subseteq Created'
          /\ cancellations' \in Int
      BY <2>1 DEF RemoveTimeout
    <3> QED
      BY <2>1, <3>1 DEF RemoveTimeout
  <2>2. ASSUME NEW t \in Timeouts, NEW d \in 0..MaxTime, AddTimeout(t, d)
        PROVE  TypeOK' /\ ArgOK'
    <3>1. deadline' = [deadline EXCEPT ![t] = d]
      BY <2>2 DEF AddTimeout
    <3>2. deadline' \in [Timeouts -> 0..MaxTime \cup {NoDeadline}]
      BY <3>1
    <3>3. Created' = Created \cup {t}
      BY <3>1
    <3>4. heap' \subseteq Created' /\ live' \subseteq Created'
      BY <2>2, <3>3 DEF AddTimeout
    <3> QED
      BY <2>2, <3>2, <3>4 DEF AddTimeout
  <2> QED
    BY <1>14, <2>1, <2>2
<1>15. CASE \E fd \in Fds : \/ AddHandler(fd) \/ UpdateHandler(fd)
                            \/ RemoveHandler(fd) \/ Drain(fd)
  BY <1>15 DEF AddHandler, UpdateHandler, RemoveHandler, EventsWithout, Drain
<1>16. CASE \E t \in Callers : CallerStep(t)
  <2> PICK t \in Callers : CallerStep(t)
    BY <1>16
  <2>1. CASE Acquire(t)
    BY <2>1 DEF Acquire
  <2>2. CASE AppendAndRelease(t)
    <3>1. callbacks' \in Seq(Callbacks)
      BY <2>2 DEF AppendAndRelease
    <3>2. /\ cpc' \in [Callers -> {"idle", "acquire", "append", "wake"}]
          /\ arg' \in [Callers -> Callbacks \cup {Nobody}]
          /\ ArgOK'
      BY <2>2 DEF AppendAndRelease
    <3> QED
      BY <2>2, <3>1, <3>2 DEF AppendAndRelease
  <2>3. CASE Wake(t)
    BY <2>3 DEF Wake
  <2> QED
    BY <2>1, <2>2, <2>3 DEF CallerStep
<1>17. CASE \E t \in Threads, c \in Callbacks : Call(t, c)
  BY <1>17 DEF Call, Callers
<1>18. CASE \E c \in Callbacks : SignalOnLoop(c)
  BY <1>18 DEF SignalOnLoop
<1>19. CASE \E c \in Callbacks : SignalElsewhere(c)
  BY <1>19 DEF SignalElsewhere, Callers
<1>20. CASE Tick \/ (\E fd \in Fds : FdEvent(fd)) \/ UNCHANGED vars
  BY <1>20 DEF Tick, FdEvent
<1> QED
  BY <1>1, <1>2, <1>3, <1>4, <1>5, <1>6, <1>7, <1>8, <1>9, <1>10, <1>11, <1>12,
     <1>13, <1>14, <1>15, <1>16, <1>17, <1>18, <1>19, <1>20
  DEF Next, LoopStep, UserStep

-----------------------------------------------------------------------------
\* Appending to the back of two lists in a row.
LEMMA ConcatAppend ==
  ASSUME NEW S, NEW s \in Seq(S), NEW t \in Seq(S), NEW e \in S
  PROVE  s \o Append(t, e) = Append(s \o t, e)
  OBVIOUS

\* The head of two lists in a row is that of the first.
LEMMA ConcatTail ==
  ASSUME NEW S, NEW s \in Seq(S), NEW t \in Seq(S), s # <<>>
  PROVE  /\ s \o t # <<>>
         /\ Head(s \o t) = Head(s)
         /\ Tail(s \o t) = Tail(s) \o t
  OBVIOUS

\* The empty list joined to another adds nothing.
LEMMA ConcatEmpty ==
  ASSUME NEW S, NEW s \in Seq(S)
  PROVE  <<>> \o s = s /\ s \o <<>> = s
  OBVIOUS

-----------------------------------------------------------------------------
\* start() is in user code only while it runs something.
LEMMA NextRunOK == TypeOK /\ RunOK /\ [Next]_vars => RunOK'
<1> SUFFICES ASSUME TypeOK, RunOK, [Next]_vars PROVE RunOK'
  OBVIOUS
<1> USE IOLoopAssumption DEF RunOK,
        vars, loopVars, queueVars, timerVars, ioVars, callerVars
<1>1. CASE LockCallbacks \/ SwapCallbacks \/ BatchDone \/ ExpireDone
  BY <1>1 DEF LockCallbacks, SwapCallbacks, BatchDone, AfterBatch, ExpireDone
<1>2. CASE RunCallback
  BY <1>2 DEF RunCallback, TypeOK
<1>3. CASE CheckQueue \/ PollReturns \/ DispatchWaker \/ DispatchDone
  BY <1>3 DEF CheckQueue, PollReturns, DispatchWaker, DispatchDone
<1>4. CASE Return
  BY <1>4 DEF Return, TypeOK
<1>5. CASE \E t \in Timeouts : PopCancelled(t) \/ FireTimeout(t)
  BY <1>5 DEF PopCancelled, FireTimeout
<1>6. CASE \E fd \in Fds : DispatchHandler(fd)
  BY <1>6 DEF DispatchHandler
<1>7. CASE UserStep
  BY <1>7 DEF UserStep, Start, Stop, Close, AddCallback, RemoveTimeout,
              AddTimeout, AddHandler, UpdateHandler, RemoveHandler, Drain
<1>8. CASE \E t \in Callers : CallerStep(t)
  BY <1>8 DEF CallerStep, Acquire, AppendAndRelease, Wake
<1>9. CASE \E c \in Callbacks : \/ \E t \in Threads : Call(t, c)
                                \/ SignalOnLoop(c) \/ SignalElsewhere(c)
  BY <1>9 DEF Call, SignalOnLoop, SignalElsewhere
<1>10. CASE Tick \/ (\E fd \in Fds : FdEvent(fd)) \/ UNCHANGED vars
  BY <1>10 DEF Tick, FdEvent
<1> QED
  BY <1>1, <1>2, <1>3, <1>4, <1>5, <1>6, <1>7, <1>8, <1>9, <1>10
  DEF Next, LoopStep

\* Each step lets a loop asleep in poll() be woken: who adds to an empty
\* list writes to the waker, and the waker is closed last.
LEMMA NextWakeup ==
  TypeOK /\ WakerOK /\ NoLostWakeup /\ [Next]_vars => WakerOK' /\ NoLostWakeup'
<1> SUFFICES ASSUME TypeOK, WakerOK, NoLostWakeup, [Next]_vars
             PROVE  WakerOK' /\ NoLostWakeup'
  OBVIOUS
<1> USE IOLoopAssumption DEF WakerOK, NoLostWakeup,
        vars, loopVars, queueVars, timerVars, ioVars, callerVars
<1>1. CASE LockCallbacks \/ SwapCallbacks \/ RunCallback \/ BatchDone \/ ExpireDone
  BY <1>1 DEF LockCallbacks, SwapCallbacks, RunCallback, BatchDone, AfterBatch,
              ExpireDone
<1>2. CASE CheckQueue
  BY <1>2 DEF CheckQueue, PollWait
<1>3. CASE PollReturns \/ DispatchWaker \/ DispatchDone \/ Return
  BY <1>3 DEF PollReturns, DispatchWaker, DispatchDone, Return
<1>4. CASE \E t \in Timeouts : PopCancelled(t) \/ FireTimeout(t)
  BY <1>4 DEF PopCancelled, FireTimeout
<1>5. CASE \E fd \in Fds : DispatchHandler(fd)
  BY <1>5 DEF DispatchHandler
<1>6. CASE UserStep
  BY <1>6 DEF UserStep, Start, Stop, Close, AddCallback, RemoveTimeout, InUser,
              AddTimeout, AddHandler, UpdateHandler, RemoveHandler, Drain
<1>7. CASE \E t \in Callers : CallerStep(t)
  <2> PICK t \in Callers : CallerStep(t)
    BY <1>7
  <2>1. CASE Acquire(t)
    BY <2>1 DEF Acquire, TypeOK
  <2>2. CASE AppendAndRelease(t)
    BY <2>2 DEF AppendAndRelease, NeedsWake, TypeOK
  <2>3. CASE Wake(t)
    BY <2>3 DEF Wake
  <2> QED
    BY <2>1, <2>2, <2>3 DEF CallerStep
<1>8. CASE \E t \in Threads, c \in Callbacks : Call(t, c)
  BY <1>8 DEF Call, TypeOK, Callers
<1>9. CASE \E c \in Callbacks : SignalOnLoop(c)
  BY <1>9 DEF SignalOnLoop, InLoop
<1>10. CASE \E c \in Callbacks : SignalElsewhere(c)
  BY <1>10 DEF SignalElsewhere, TypeOK, Callers
<1>11. CASE Tick \/ (\E fd \in Fds : FdEvent(fd)) \/ UNCHANGED vars
  BY <1>11 DEF Tick, FdEvent
<1> QED
  BY <1>1, <1>2, <1>3, <1>4, <1>5, <1>6, <1>7, <1>8, <1>9, <1>10, <1>11
  DEF Next, LoopStep

-----------------------------------------------------------------------------
\* remove_handler drops the pending events of what it removes.
LEMMA NextPendingEvents ==
  TypeOK /\ PendingEventsHaveHandlers /\ [Next]_vars => PendingEventsHaveHandlers'
<1> SUFFICES ASSUME TypeOK, PendingEventsHaveHandlers, [Next]_vars
             PROVE  PendingEventsHaveHandlers'
  OBVIOUS
<1> USE DEF PendingEventsHaveHandlers,
        vars, loopVars, queueVars, timerVars, ioVars, callerVars
<1>1. CASE PollReturns
  BY <1>1 DEF PollReturns, Reportable
<1>2. CASE \E fd \in Fds : DispatchHandler(fd)
  BY <1>2 DEF DispatchHandler
<1>3. CASE LoopStep /\ ~PollReturns /\ ~(\E fd \in Fds : DispatchHandler(fd))
  BY <1>3 DEF LoopStep, LockCallbacks, SwapCallbacks, RunCallback, BatchDone,
      ExpireDone, CheckQueue, DispatchWaker, DispatchDone, Return,
      PopCancelled, FireTimeout
<1>4. CASE UserStep
  BY <1>4 DEF UserStep, Start, Stop, Close, AddCallback, RemoveTimeout,
      AddTimeout, AddHandler, UpdateHandler, RemoveHandler, EventsWithout, Drain
<1>5. CASE ~LoopStep /\ ~UserStep
  BY <1>5 DEF Next, CallerStep, Acquire, AppendAndRelease, Wake, Call,
      SignalOnLoop, SignalElsewhere, Tick, FdEvent
<1> QED
  BY <1>1, <1>2, <1>3, <1>4, <1>5

\* The cancelled timeouts in the heap and their number.
Defunct == heap \ live

\* There are finitely many timeouts, so those cancelled can be counted.
LEMMA DefunctFinite ==
  TypeOK => IsFiniteSet(Defunct) /\ Cardinality(Defunct) \in Nat
  BY IOLoopAssumption, FS_Subset, FS_CardinalityType
  DEF TypeOK, Defunct, Created

\* Each remove_timeout, pop and clean-up keeps _cancellations high enough.
LEMMA NextCancellationBound ==
  TypeOK /\ CancellationBound /\ [Next]_vars => CancellationBound'
<1> SUFFICES ASSUME TypeOK, CancellationBound, [Next]_vars
             PROVE  Cardinality(Defunct') <= cancellations'
  BY DEF CancellationBound, Defunct
<1> USE DEF vars, loopVars, queueVars, timerVars, ioVars, callerVars
<1>0. /\ IsFiniteSet(Defunct) /\ Cardinality(Defunct) \in Nat
      /\ Cardinality(Defunct) <= cancellations /\ cancellations \in Int
  BY DefunctFinite DEF CancellationBound, Defunct, TypeOK
<1>1. CASE \E t \in Timeouts : PopCancelled(t)
  <2> PICK t \in Timeouts : PopCancelled(t)
    BY <1>1
  <2>1. t \in Defunct /\ Defunct' = Defunct \ {t} /\ cancellations' = cancellations - 1
    BY DEF PopCancelled, Roots, Defunct
  <2> QED
    BY <1>0, <2>1, FS_RemoveElement
<1>2. CASE \E t \in Timeouts : FireTimeout(t)
  BY <1>0, <1>2 DEF FireTimeout, Due, Defunct
<1>3. CASE ExpireDone
  <2>1. CASE CleanupDue
    <3>1. Defunct' = {} /\ cancellations' = 0
      BY <1>3, <2>1 DEF ExpireDone, Cleanup, Defunct
    <3> QED
      BY <3>1, FS_EmptySet
  <2>2. CASE ~CleanupDue
    BY <1>0, <1>3, <2>2 DEF ExpireDone, Cleanup, Defunct
  <2> QED
    BY <2>1, <2>2
<1>4. CASE \E t \in Timeouts, d \in 0..MaxTime : AddTimeout(t, d)
  <2>1. Defunct' = Defunct /\ cancellations' = cancellations
    BY <1>4 DEF AddTimeout, TypeOK, Defunct
  <2> QED
    BY <1>0, <2>1
<1>5. CASE \E t \in Timeouts : RemoveTimeout(t)
  <2> PICK t \in Timeouts : RemoveTimeout(t)
    BY <1>5
  <2>1. Defunct' \subseteq Defunct \cup {t} /\ cancellations' = cancellations + 1
    BY DEF RemoveTimeout, Defunct
  <2>2. /\ IsFiniteSet(Defunct \cup {t})
        /\ Cardinality(Defunct \cup {t}) <= Cardinality(Defunct) + 1
        /\ Cardinality(Defunct \cup {t}) \in Nat
    <3>1. /\ IsFiniteSet(Defunct \cup {t})
          /\ Cardinality(Defunct \cup {t}) =
               IF t \in Defunct THEN Cardinality(Defunct) ELSE Cardinality(Defunct) + 1
      BY <1>0, FS_AddElement
    <3> QED
      BY <1>0, <3>1
  <2>3. /\ Cardinality(Defunct') <= Cardinality(Defunct \cup {t})
        /\ Cardinality(Defunct') \in Nat
    BY <2>1, <2>2, FS_Subset, FS_CardinalityType
  <2> QED
    BY <1>0, <2>1, <2>2, <2>3
<1>6. CASE UNCHANGED <<heap, live, cancellations>>
  BY <1>0, <1>6 DEF Defunct
<1>7. \/ \E t \in Timeouts : PopCancelled(t) \/ FireTimeout(t) \/ RemoveTimeout(t)
      \/ ExpireDone
      \/ \E t \in Timeouts, d \in 0..MaxTime : AddTimeout(t, d)
      \/ UNCHANGED <<heap, live, cancellations>>
  BY DEF Next, LoopStep, UserStep, LockCallbacks, SwapCallbacks, RunCallback,
      BatchDone, CheckQueue, PollReturns, DispatchWaker, DispatchHandler,
      DispatchDone, Return, Start, Stop, Close, AddCallback, AddHandler,
      UpdateHandler, RemoveHandler, Drain, CallerStep, Acquire,
      AppendAndRelease, Wake, Call, SignalOnLoop, SignalElsewhere, Tick, FdEvent
<1> QED
  BY <1>1, <1>2, <1>3, <1>4, <1>5, <1>6, <1>7

-----------------------------------------------------------------------------
\* The inductive invariant.
IInv == /\ TypeOK /\ ArgOK /\ RunOK /\ WakerOK
        /\ NoLostWakeup /\ PendingEventsHaveHandlers /\ CancellationBound

\* The invariant holds of a new loop.
LEMMA InitIInv == Init => IInv
<1> SUFFICES ASSUME Init PROVE IInv
  OBVIOUS
<1>1. TypeOK /\ ArgOK
  BY InitTypeOK
<1>2. RunOK /\ WakerOK /\ NoLostWakeup /\ PendingEventsHaveHandlers
  BY DEF Init, RunOK, WakerOK, NoLostWakeup, PendingEventsHaveHandlers
<1>3. CancellationBound
  <2>1. heap \ live = {} /\ cancellations = 0
    BY DEF Init
  <2> QED
    BY <2>1, FS_EmptySet DEF CancellationBound
<1> QED
  BY <1>1, <1>2, <1>3 DEF IInv

\* The invariant is inductive.
LEMMA NextIInv == IInv /\ [Next]_vars => IInv'
  BY NextTypeOK, NextRunOK, NextWakeup, NextPendingEvents, NextCancellationBound
  DEF IInv

\* The invariant holds in every state that the loop can be in.
THEOREM Invariance == Spec => []IInv
  BY InitIInv, NextIInv, PTL DEF Spec

\* Every variable keeps its type, for every value of the constants.
THEOREM TypeCorrect == Spec => []TypeOK
  BY Invariance, PTL DEF IInv

\* The loop never sleeps in poll() on a callback nobody will wake it for,
\* with any number of threads and of signals.
THEOREM NoLostWakeupHolds == Spec => []NoLostWakeup
  BY Invariance, PTL DEF IInv

\* No event outlives its handler in _events.
THEOREM PendingEventsHold == Spec => []PendingEventsHaveHandlers
  BY Invariance, PTL DEF IInv

\* _cancellations never falls below the number of defunct timeouts.
THEOREM CancellationBoundHolds == Spec => []CancellationBound
  BY Invariance, PTL DEF IInv

-----------------------------------------------------------------------------
\* What one step may do to one timeout.
LEMMA TimeoutStep ==
  ASSUME IInv, [Next]_vars, NEW t \in Timeouts
  PROVE  /\ t \notin live /\ current # t => current' # t
         /\ t \in heap \cap live /\ t \notin heap' => current' = t
<1> USE IOLoopAssumption DEF IInv, TypeOK, RunOK,
        vars, loopVars, queueVars, timerVars, ioVars, callerVars
<1>1. CASE RunCallback
  BY <1>1 DEF RunCallback
<1>2. CASE \E fd \in Fds : DispatchHandler(fd)
  BY <1>2 DEF DispatchHandler
<1>3. CASE Return
  BY <1>3 DEF Return
<1>4. CASE \E u \in Timeouts : PopCancelled(u) \/ FireTimeout(u)
  BY <1>4 DEF PopCancelled, FireTimeout, Due, Roots
<1>5. CASE ExpireDone
  BY <1>5 DEF ExpireDone, Cleanup
<1>6. CASE \E u \in Timeouts :
             RemoveTimeout(u) \/ \E d \in 0..MaxTime : AddTimeout(u, d)
  BY <1>6 DEF RemoveTimeout, AddTimeout
<1>7. CASE UNCHANGED <<current, heap, live>>
  BY <1>7
<1>8. \/ RunCallback \/ Return \/ ExpireDone
      \/ \E fd \in Fds : DispatchHandler(fd)
      \/ \E u \in Timeouts : PopCancelled(u) \/ FireTimeout(u)
      \/ \E u \in Timeouts :
           RemoveTimeout(u) \/ \E d \in 0..MaxTime : AddTimeout(u, d)
      \/ UNCHANGED <<current, heap, live>>
  BY DEF Next, LoopStep, UserStep, LockCallbacks, SwapCallbacks, BatchDone,
      CheckQueue, PollReturns, DispatchWaker, DispatchDone, Start, Stop, Close,
      AddCallback, AddHandler, UpdateHandler, RemoveHandler, Drain, CallerStep,
      Acquire, AppendAndRelease, Wake, Call, SignalOnLoop, SignalElsewhere,
      Tick, FdEvent
<1> QED
  BY <1>1, <1>2, <1>3, <1>4, <1>5, <1>6, <1>7, <1>8

\* A removed timeout never starts, and one that nobody removed leaves the
\* heap only to run, whatever the clean-up does.
THEOREM TimeoutsHold == Spec => TimeoutsRunUnlessRemoved
<1>1. IInv /\ [Next]_vars =>
        [\A t \in Timeouts :
           /\ t \notin live /\ current # t => current' # t
           /\ t \in heap \cap live /\ t \notin heap' => current' = t]_vars
  BY TimeoutStep
<1> QED
  BY <1>1, Invariance, PTL DEF Spec, TimeoutsRunUnlessRemoved

-----------------------------------------------------------------------------
\* Once the timeouts were looked through, no live one is due, and the time to
\* wait is no longer than any of theirs.
WaitOK == pc = "check" =>
            \A t \in heap \cap live : /\ deadline[t] > now
                                      /\ pollTimeout <= deadline[t] - now

\* The nearest live timeout bounds the wait for all: it is at the heap's root.
LEMMA ExpireDoneWaitOK == TypeOK /\ ExpireDone => WaitOK'
<1> SUFFICES ASSUME TypeOK, ExpireDone, NEW t \in heap' \cap live'
             PROVE  deadline'[t] > now' /\ pollTimeout' <= deadline'[t] - now'
  BY DEF WaitOK
<1>1. t \in heap \cap live /\ UNCHANGED <<deadline, now>>
  BY DEF ExpireDone, Cleanup
<1>2. PICK r \in Roots \cap live : deadline[r] > now /\ pollTimeout' = Seconds(r)
  BY <1>1 DEF ExpireDone
<1>3. /\ deadline[r] \in Int /\ deadline[t] \in Int /\ now \in Nat
      /\ pollTimeout \in Int /\ deadline[r] <= deadline[t]
  BY <1>1, IOLoopAssumption DEF TypeOK, Roots, Created, NoDeadline
<1>4. pollTimeout' <= deadline[r] - now
  BY <1>2, <1>3 DEF Seconds
<1>5. pollTimeout' \in Int
  BY <1>2, <1>3 DEF Seconds
<1> QED
  BY <1>1, <1>2, <1>3, <1>4, <1>5

\* Nothing touches the timeouts, or the time to wait, before poll().
LEMMA NextWaitOK == TypeOK /\ WaitOK /\ [Next]_vars => WaitOK'
<1> SUFFICES ASSUME TypeOK, WaitOK, [Next]_vars PROVE WaitOK'
  OBVIOUS
<1> USE DEF vars, loopVars, queueVars, timerVars, ioVars, callerVars
<1>1. CASE ExpireDone
  BY <1>1, ExpireDoneWaitOK
<1>2. CASE BatchDone
  BY <1>2 DEF BatchDone, AfterBatch, WaitOK
<1>3. CASE Tick
  BY <1>3 DEF Tick, WaitOK
<1>4. CASE UNCHANGED <<pc, timerVars>>
  BY <1>4 DEF WaitOK
<1>5. CASE pc' # "check"
  BY <1>5 DEF WaitOK
<1>6. ExpireDone \/ BatchDone \/ Tick \/ UNCHANGED <<pc, timerVars>> \/ pc' # "check"
  BY DEF Next, LoopStep, UserStep, LockCallbacks, SwapCallbacks, RunCallback,
      PopCancelled, FireTimeout, CheckQueue, PollReturns, DispatchWaker,
      DispatchHandler, DispatchDone, Return, Start, Stop, Close, AddCallback,
      AddTimeout, RemoveTimeout, InUser, AddHandler, UpdateHandler,
      RemoveHandler, Drain, CallerStep, Acquire, AppendAndRelease, Wake, Call,
      SignalOnLoop, SignalElsewhere, FdEvent
<1> QED
  BY <1>1, <1>2, <1>3, <1>4, <1>5, <1>6

\* poll() is entered by one step, which shortens the wait if it changes it.
LEMMA PollStep ==
  ASSUME TypeOK, WaitOK, [Next]_vars, pc # "poll", pc' = "poll",
         NEW t \in heap' \cap live'
  PROVE  pollTimeout' <= deadline'[t] - now'
<1> USE DEF vars, loopVars, queueVars, timerVars, ioVars, callerVars
<1>1. CheckQueue
  BY DEF Next, LoopStep, UserStep, LockCallbacks, SwapCallbacks, RunCallback,
      BatchDone, AfterBatch, ExpireDone, PopCancelled, FireTimeout, PollReturns,
      DispatchWaker, DispatchHandler, DispatchDone, Return, Start, Stop, Close,
      AddCallback, AddTimeout, RemoveTimeout, AddHandler, UpdateHandler,
      RemoveHandler, Drain, CallerStep, Acquire, AppendAndRelease, Wake, Call,
      SignalOnLoop, SignalElsewhere, Tick, FdEvent
<1>2. /\ pc = "check" /\ t \in heap \cap live /\ UNCHANGED <<deadline, now>>
      /\ pollTimeout' \in {pollTimeout, 0}
  BY <1>1 DEF CheckQueue, PollWait
<1>3. deadline[t] > now /\ pollTimeout <= deadline[t] - now
  BY <1>2 DEF WaitOK
<1>4. deadline[t] \in Int /\ now \in Nat
  BY <1>2, IOLoopAssumption DEF TypeOK, Created, NoDeadline
<1> QED
  BY <1>2, <1>3, <1>4

\* However long the loop means to sleep, it is no longer than the nearest live
\* timeout had when the pass began, clean-up or not.
THEOREM NeverSleepsHolds == Spec => NeverSleepsPastDeadline
<1>1. Init => WaitOK
  BY DEF Init, WaitOK
<1>2. TypeOK /\ WaitOK /\ [Next]_vars =>
        [pc # "poll" /\ pc' = "poll" =>
           \A t \in heap' \cap live' : pollTimeout' <= deadline'[t] - now']_vars
  BY PollStep
<1> QED
  BY <1>1, <1>2, NextWaitOK, TypeCorrect, PTL DEF Spec, NeverSleepsPastDeadline

-----------------------------------------------------------------------------
\* Adding at the back of callbacks is adding at the back of the queue.
LEMMA AddRefines ==
  ASSUME TypeOK, NEW c \in Callbacks, callbacks' = Append(callbacks, c),
         UNCHANGED <<batch, current>>
  PROVE  CQ!Next
<1>1. queue' = Append(queue, c)
  BY ConcatAppend DEF TypeOK, queue
<1> QED
  BY <1>1 DEF CQ!Next, CQ!Add

\* Every step of the loop is a step of the abstract queue, or changes none of
\* its variables.
LEMMA QueueStep == IInv /\ [Next]_vars => [CQ!Next]_CQ!vars
<1> SUFFICES ASSUME IInv, [Next]_vars PROVE CQ!Next \/ UNCHANGED CQ!vars
  OBVIOUS
<1> USE IOLoopAssumption DEF IInv
<1>1. CASE RunCallback
  <2>1. batch \in Seq(Callbacks) /\ callbacks \in Seq(Callbacks) /\ batch # <<>>
    BY <1>1 DEF RunCallback, TypeOK
  <2>2. queue # <<>> /\ current' = Head(queue) /\ queue' = Tail(queue)
    BY <1>1, <2>1, ConcatTail DEF RunCallback, queue
  <2>3. current = Nobody /\ current' \in Callbacks
    BY <1>1, <2>1 DEF RunCallback, RunOK
  <2> QED
    BY <2>2, <2>3 DEF CQ!Next, CQ!Start
<1>2. CASE SwapCallbacks
  <2>1. batch = <<>> /\ callbacks \in Seq(Callbacks)
    BY <1>2 DEF SwapCallbacks, RunOK, TypeOK
  <2>2. queue' = queue /\ current' = current
    BY <1>2, <2>1, ConcatEmpty DEF SwapCallbacks, queue
  <2> QED
    BY <2>2 DEF CQ!vars
<1>3. CASE Return
  <2>1. queue' = queue /\ current' = Nobody
    BY <1>3 DEF Return, queue, queueVars
  <2>2. CASE current \in Callbacks
    BY <2>1, <2>2 DEF CQ!Next, CQ!Finish
  <2>3. CASE current \notin Callbacks
    BY <2>1, <2>3 DEF CQ!vars
  <2> QED
    BY <2>2, <2>3
<1>4. CASE \E t \in Timeouts : FireTimeout(t)
  <2>1. queue' = queue /\ current = Nobody /\ current' \in Timeouts
    BY <1>4 DEF FireTimeout, queue, queueVars, RunOK
  <2> QED
    BY <2>1 DEF CQ!vars
<1>5. CASE \E fd \in Fds : DispatchHandler(fd)
  <2>1. queue' = queue /\ current = Nobody /\ current' \in Fds
    BY <1>5 DEF DispatchHandler, queue, queueVars, RunOK
  <2> QED
    BY <2>1 DEF CQ!vars
<1>6. CASE \E c \in Callbacks : AddCallback(c) \/ SignalOnLoop(c)
  BY <1>6, AddRefines DEF AddCallback, SignalOnLoop, loopVars
<1>7. CASE \E t \in Callers : AppendAndRelease(t)
  <2> PICK t \in Callers : AppendAndRelease(t)
    BY <1>7
  <2>1. CASE closing
    BY <2>1 DEF AppendAndRelease, loopVars, queue, CQ!vars
  <2>2. CASE ~closing
    <3>1. arg[t] \in Callbacks
      BY DEF AppendAndRelease, ArgOK
    <3> QED
      BY <2>2, <3>1, AddRefines DEF AppendAndRelease, loopVars
  <2> QED
    BY <2>1, <2>2
<1>8. CASE UNCHANGED <<current, batch, callbacks>>
  BY <1>8 DEF queue, CQ!vars
<1>9. \/ RunCallback \/ SwapCallbacks \/ Return
      \/ \E t \in Timeouts : FireTimeout(t)
      \/ \E fd \in Fds : DispatchHandler(fd)
      \/ \E c \in Callbacks : AddCallback(c) \/ SignalOnLoop(c)
      \/ \E t \in Callers : AppendAndRelease(t)
      \/ UNCHANGED <<current, batch, callbacks>>
  BY DEF Next, LoopStep, UserStep, LockCallbacks, BatchDone, PopCancelled,
      ExpireDone, CheckQueue, PollReturns, DispatchWaker, DispatchDone, Start,
      Stop, Close, RemoveTimeout, AddTimeout, AddHandler, UpdateHandler,
      RemoveHandler, Drain, CallerStep, Acquire, Wake, Call, SignalElsewhere,
      Tick, FdEvent,
      vars, loopVars, queueVars, timerVars, ioVars, callerVars
<1> QED
  BY <1>1, <1>2, <1>3, <1>4, <1>5, <1>6, <1>7, <1>8, <1>9

\* add_callback, add_callback_from_signal and the loop implement a first-in-
\* first-out queue whose entries run exactly once each.
THEOREM QueueRefinement == Spec => ImplementsCallbackQueue
<1>1. Init => CQ!Init
  BY IOLoopAssumption, ConcatEmpty DEF Init, CQ!Init, queue
<1> QED
  BY <1>1, QueueStep, Invariance, PTL
  DEF Spec, ImplementsCallbackQueue, CQ!Spec
=============================================================================
