------------------------------- MODULE IOLoop -------------------------------
(***************************************************************************)
(* PollIOLoop of tornado/ioloop.py: one loop thread that runs callbacks,   *)
(* timeouts and I/O handlers, other threads that hand it callbacks through *)
(* add_callback, and a signal handler on the main thread that uses         *)
(* add_callback_from_signal.                                               *)
(*                                                                         *)
(* pc is where the loop thread is: "outside" start(), at a point of the    *)
(* loop in start(), or in "user" code that the loop called, where current  *)
(* names the callback, timeout or file descriptor.  User code may call any *)
(* method of the loop, any number of times, before it returns.             *)
(***************************************************************************)
EXTENDS Integers, Sequences, FiniteSets

CONSTANTS Callbacks, Timeouts, Fds,   \* what user code hands to the loop
          WakerFd,      \* the read end of the waker's pipe
          Threads,      \* the other threads
          Loop, Sig,    \* the loop's thread; the Python signal handler
          Main,         \* the thread signals run on; Nobody: no signals
          Nobody,
          QueueBound,   \* callers stop adding at this many callbacks
          MaxTime,      \* largest deadline, and how far the clock runs
          MaxPoll,      \* poll_timeout's start value (3600 s): never elapses
          CleanupAt,    \* _cancellations that make a cleanup due (512)
          CancelBound   \* user code stops removing timeouts at this many

ASSUME IOLoopAssumption ==
  /\ Callbacks \cap Timeouts = {} /\ (Callbacks \cup Timeouts) \cap Fds = {}
  /\ WakerFd \notin Fds /\ Sig \notin Threads /\ Loop \notin Threads \cup {Sig}
  /\ Nobody \notin Callbacks \cup Timeouts \cup Fds \cup Threads \cup {Loop, Sig}
  /\ Main \in Threads \cup {Loop, Nobody}
  /\ QueueBound \in Nat /\ MaxTime \in Nat /\ CleanupAt \in Nat
  /\ MaxPoll \in Nat /\ MaxPoll > 2 * MaxTime /\ CancelBound \in Nat
  /\ IsFiniteSet(Timeouts)

VARIABLES
  pc, current, running, stopped,
  started,        \* _thread_ident is the loop's thread; it is never reset
  batch,          \* the local list of callbacks that start() iterates over
  callbacks,      \* _callbacks
  lock,           \* holder of _callback_lock, or Nobody
  closing,
  waker,          \* the waker's pipe: "empty", "full" or "closed"
  heap,           \* _timeouts
  live,           \* timeouts whose callback is not None
  deadline,       \* NoDeadline: add_timeout has not made this one yet
  cancellations, now, pollTimeout, clock,
  handlers,       \* keys of _handlers, the waker's left out
  interest,       \* fds whose handler asked for readiness
  condition,      \* what the poller would report of each fd
  events,         \* keys of _events
  cpc, arg        \* callers inside add_callback: where, and with what

loopVars   == <<pc, current, running, stopped, started>>
queueVars  == <<batch, callbacks, lock, closing, waker>>
timerVars  == <<heap, live, deadline, cancellations, now, pollTimeout, clock>>
ioVars     == <<handlers, interest, condition, events>>
callerVars == <<cpc, arg>>
vars == <<loopVars, queueVars, timerVars, ioVars, callerVars>>

Callers == Threads \cup {Sig}
NoDeadline == -1
Created == {t \in Timeouts : deadline[t] # NoDeadline}
queue == batch \o callbacks        \* accepted and not yet started, in order

InLoop == pc \notin {"outside", "closing", "closed"}

\* A thread runs unless the signal handler has interrupted it.
Awake(t) == t = Main => cpc[Sig] = "idle"

TypeOK ==
  /\ pc \in {"outside", "lock", "swap", "batch", "expire", "check", "poll",
             "dispatch", "user", "closing", "closed"}
  /\ current \in Callbacks \cup Timeouts \cup Fds \cup {Nobody}
  /\ running \in BOOLEAN /\ stopped \in BOOLEAN /\ started \in BOOLEAN
  /\ batch \in Seq(Callbacks) /\ callbacks \in Seq(Callbacks)
  /\ lock \in Callers \cup {Loop, Nobody} /\ closing \in BOOLEAN
  /\ waker \in {"empty", "full", "closed"}
  /\ heap \subseteq Created /\ live \subseteq Created
  /\ deadline \in [Timeouts -> 0..MaxTime \cup {NoDeadline}]
  /\ cancellations \in Int /\ now \in Nat /\ pollTimeout \in 0..MaxPoll
  /\ clock \in Nat
  /\ handlers \subseteq Fds /\ interest \subseteq handlers
  /\ condition \in [Fds -> {"quiet", "ready", "error"}]
  /\ events \subseteq Fds \cup {WakerFd}
  /\ cpc \in [Callers -> {"idle", "acquire", "append", "wake"}]
  /\ arg \in [Callers -> Callbacks \cup {Nobody}]

\* A loop as initialize() leaves it.
Init ==
  /\ pc = "outside" /\ current = Nobody
  /\ running = FALSE /\ stopped = FALSE /\ started = FALSE
  /\ batch = <<>> /\ callbacks = <<>> /\ lock = Nobody /\ closing = FALSE
  /\ waker = "empty"
  /\ heap = {} /\ live = {} /\ deadline = [t \in Timeouts |-> NoDeadline]
  /\ cancellations = 0 /\ now = 0 /\ pollTimeout = MaxPoll /\ clock = 0
  /\ handlers = {} /\ interest = {} /\ events = {}
  /\ condition = [fd \in Fds |-> "quiet"]
  /\ cpc = [t \in Callers |-> "idle"] /\ arg = [t \in Callers |-> Nobody]

-----------------------------------------------------------------------------
(* The loop in start().                                                    *)

\* start() returns at once when stop() came first.
Start ==
  /\ pc = "outside"
  /\ IF stopped THEN /\ stopped' = FALSE
                     /\ UNCHANGED <<pc, running, started>>
                ELSE /\ pc' = "lock" /\ running' = TRUE /\ started' = TRUE
                     /\ UNCHANGED stopped
  /\ UNCHANGED <<current, queueVars, timerVars, ioVars, callerVars>>

LockCallbacks ==
  /\ pc = "lock" /\ lock = Nobody
  /\ lock' = Loop /\ pc' = "swap"
  /\ UNCHANGED <<current, running, stopped, started, batch, callbacks,
                 closing, waker, timerVars, ioVars, callerVars>>

\* A bug: the list is taken and not emptied.
SwapCallbacksCopying ==
  /\ pc = "swap"
  /\ batch' = callbacks /\ lock' = Nobody /\ pc' = "batch"
  /\ UNCHANGED <<current, running, stopped, started, callbacks, closing, waker,
                 timerVars, ioVars, callerVars>>

\* A signal handler may append to the list before or after it is taken.
SwapCallbacks ==
  /\ pc = "swap"
  /\ batch' = callbacks /\ callbacks' = <<>> /\ lock' = Nobody
  /\ pc' = "batch"
  /\ UNCHANGED <<current, running, stopped, started, closing, waker,
                 timerVars, ioVars, callerVars>>

RunCallback ==
  /\ pc = "batch" /\ batch # <<>>
  /\ current' = Head(batch) /\ batch' = Tail(batch) /\ pc' = "user"
  /\ UNCHANGED <<running, stopped, started, callbacks, lock, closing, waker,
                 timerVars, ioVars, callerVars>>

\* A bug: callbacks that callbacks added are run before anything else.
AfterBatchMoreCallbacks == IF callbacks # <<>> THEN "lock"
                           ELSE IF heap = {} THEN "check" ELSE "expire"

\* After the batch: the timeouts, if there are any.
AfterBatch == IF heap = {} THEN "check" ELSE "expire"

BatchDone ==
  /\ pc = "batch" /\ batch = <<>>
  /\ pollTimeout' = MaxPoll
  /\ pc' = AfterBatch
  /\ now' = IF pc' = "expire" THEN clock ELSE now
  /\ UNCHANGED <<current, running, stopped, started, queueVars, heap, live,
                 deadline, cancellations, clock, ioVars, callerVars>>

\* A bug: the list is not a heap again after it was filtered.
RootsUnordered == heap

\* The timeouts that may be at the heap's root.  Equal deadlines are ordered
\* by object address, which is any order.
Roots == {t \in heap : \A u \in heap : deadline[t] <= deadline[u]}

PopCancelled(t) ==
  /\ pc = "expire" /\ t \in Roots /\ t \notin live
  /\ heap' = heap \ {t} /\ cancellations' = cancellations - 1
  /\ UNCHANGED <<loopVars, queueVars, live, deadline, now, pollTimeout, clock,
                 ioVars, callerVars>>

\* A bug: only the deadline is looked at.
DueIfCancelledToo(t) == deadline[t] <= now

Due(t) == t \in live /\ deadline[t] <= now

FireTimeout(t) ==
  /\ pc = "expire" /\ t \in Roots /\ Due(t)
  /\ heap' = heap \ {t} /\ current' = t /\ pc' = "user"
  /\ UNCHANGED <<running, stopped, started, queueVars, live, deadline,
                 cancellations, now, pollTimeout, clock, ioVars, callerVars>>

\* Half of what remains being cancelled makes the queue worth a cleanup.
CleanupDue == /\ cancellations > CleanupAt
              /\ cancellations > Cardinality(heap) \div 2

\* A bug: the count is reset and nothing is cleaned up.
CleanupOfTheCount == /\ cancellations' = IF CleanupDue THEN 0 ELSE cancellations
                     /\ UNCHANGED heap

\* The clean-up of defunct timeouts that ends a pass.
Cleanup ==
  IF CleanupDue THEN cancellations' = 0 /\ heap' = heap \cap live
                ELSE UNCHANGED <<cancellations, heap>>

\* A bug: subtracted the wrong way round.
SecondsSwapped(t) == now - deadline[t]

\* The seconds to a timeout, as of the time the pass began.
Seconds(t) == IF deadline[t] - now < pollTimeout THEN deadline[t] - now
                                                 ELSE pollTimeout

ExpireDone ==
  /\ pc = "expire"
  /\ \/ heap = {} /\ UNCHANGED pollTimeout
     \/ \E t \in Roots \cap live : /\ deadline[t] > now
                                   /\ pollTimeout' = Seconds(t)
  /\ Cleanup
  /\ pc' = "check"
  /\ UNCHANGED <<current, running, stopped, started, queueVars, live,
                 deadline, now, clock, ioVars, callerVars>>

\* A bug: nobody looks at the callbacks again before poll().
PollWaitRegardless == pollTimeout

\* Callbacks that came meanwhile forbid waiting in poll().
PollWait == IF callbacks = <<>> THEN pollTimeout ELSE 0

\* A bug: a stopped loop first drains its callbacks.
ContinueWhileBusy == running \/ callbacks # <<>>

Continue == running

\* A stopped loop leaves start().
CheckQueue ==
  /\ pc = "check"
  /\ pollTimeout' = PollWait
  /\ IF Continue THEN pc' = "poll" /\ UNCHANGED stopped
                 ELSE pc' = "outside" /\ stopped' = FALSE
  /\ UNCHANGED <<current, running, started, queueVars, heap, live, deadline,
                 cancellations, now, clock, ioVars, callerVars>>

\* Every registration asks for ERROR, with or without readiness.
Reportable == {fd \in handlers : \/ condition[fd] = "error"
                                 \/ condition[fd] = "ready" /\ fd \in interest}
              \cup (IF waker = "full" THEN {WakerFd} ELSE {})

PollReturns ==
  /\ pc = "poll" /\ (Reportable # {} \/ pollTimeout = 0)
  /\ events' = events \cup Reportable /\ pc' = "dispatch"
  /\ UNCHANGED <<current, running, stopped, started, queueVars, timerVars,
                 handlers, interest, condition, callerVars>>

\* The waker's own handler drains the pipe.
DispatchWaker ==
  /\ pc = "dispatch" /\ WakerFd \in events
  /\ events' = events \ {WakerFd} /\ waker' = "empty"
  /\ UNCHANGED <<loopVars, batch, callbacks, lock, closing, timerVars,
                 handlers, interest, condition, callerVars>>

DispatchHandler(fd) ==
  /\ pc = "dispatch" /\ fd \in events
  /\ events' = events \ {fd} /\ current' = fd /\ pc' = "user"
  /\ UNCHANGED <<running, stopped, started, queueVars, timerVars, handlers,
                 interest, condition, callerVars>>

DispatchDone ==
  /\ pc = "dispatch" /\ events = {} /\ pc' = "lock"
  /\ UNCHANGED <<current, running, stopped, started, queueVars, timerVars,
                 ioVars, callerVars>>

\* User code returns, or raises: _run_callback and the dispatch loop log the
\* exception and go on.
Return ==
  /\ pc = "user" /\ current' = Nobody
  /\ pc' = CASE current \in Callbacks -> "batch"
             [] current \in Timeouts  -> "expire"
             [] OTHER                 -> "dispatch"
  /\ UNCHANGED <<running, stopped, started, queueVars, timerVars, ioVars,
                 callerVars>>

-----------------------------------------------------------------------------
(* The loop's methods, called on the loop's thread.                        *)

InUser == pc \in {"user", "outside"}

Stop ==
  /\ InUser
  /\ running' = FALSE /\ stopped' = TRUE /\ waker' = "full"
  /\ UNCHANGED <<pc, current, started, batch, callbacks, lock, closing,
                 timerVars, ioVars, callerVars>>

\* add_callback: nothing of this thread can run inside its lock, so it is one
\* step.  It wakes the loop only when the loop's thread is not known yet.
AddCallback(c) ==
  /\ InUser /\ lock = Nobody /\ Len(queue) < QueueBound
  /\ callbacks' = Append(callbacks, c)
  /\ waker' = IF callbacks = <<>> /\ ~started THEN "full" ELSE waker
  /\ UNCHANGED <<loopVars, batch, lock, closing, timerVars, ioVars, callerVars>>

AddTimeout(t, d) ==
  /\ InUser /\ t \notin Created
  /\ deadline' = [deadline EXCEPT ![t] = d]
  /\ heap' = heap \cup {t} /\ live' = live \cup {t}
  /\ UNCHANGED <<loopVars, queueVars, cancellations, now, pollTimeout, clock,
                 ioVars, callerVars>>

\* Also legal for a timeout that has run, and more than once.
RemoveTimeout(t) ==
  /\ InUser /\ t \in Created /\ cancellations < CancelBound
  /\ live' = live \ {t} /\ cancellations' = cancellations + 1
  /\ UNCHANGED <<loopVars, queueVars, heap, deadline, now, pollTimeout, clock,
                 ioVars, callerVars>>

AddHandler(fd) ==
  /\ InUser /\ fd \notin handlers
  /\ handlers' = handlers \cup {fd} /\ interest' = interest \cup {fd}
  /\ UNCHANGED <<loopVars, queueVars, timerVars, condition, events, callerVars>>

UpdateHandler(fd) ==
  /\ InUser /\ fd \in handlers
  /\ interest' \in {interest \cup {fd}, interest \ {fd}}
  /\ UNCHANGED <<loopVars, queueVars, timerVars, handlers, condition, events,
                 callerVars>>

\* A bug: the event stays.
EventsKept(fd) == events

\* An event that poll() reported and that no handler has seen yet is forgotten.
EventsWithout(fd) == events \ {fd}

RemoveHandler(fd) ==
  /\ InUser /\ fd \in handlers
  /\ handlers' = handlers \ {fd} /\ interest' = interest \ {fd}
  /\ events' = EventsWithout(fd)
  /\ UNCHANGED <<loopVars, queueVars, timerVars, condition, callerVars>>

\* User code reads or writes until the fd would block.
Drain(fd) ==
  /\ InUser /\ condition' = [condition EXCEPT ![fd] = "quiet"]
  /\ UNCHANGED <<loopVars, queueVars, timerVars, handlers, interest, events,
                 callerVars>>

\* close() is for a loop that is not running.
Close ==
  \/ /\ pc = "outside" /\ lock = Nobody
     /\ closing' = TRUE /\ pc' = "closing" /\ UNCHANGED waker
     /\ UNCHANGED <<current, running, stopped, started, batch, callbacks, lock,
                    timerVars, ioVars, callerVars>>
  \/ /\ pc = "closing"
     /\ waker' = "closed" /\ pc' = "closed" /\ UNCHANGED closing
     /\ UNCHANGED <<current, running, stopped, started, batch, callbacks, lock,
                    timerVars, ioVars, callerVars>>

-----------------------------------------------------------------------------
(* add_callback on another thread, and add_callback_from_signal.           *)

Call(t, c) ==
  /\ t \in Threads /\ cpc[t] = "idle" /\ Len(queue) < QueueBound
  /\ cpc' = [cpc EXCEPT ![t] = "acquire"] /\ arg' = [arg EXCEPT ![t] = c]
  /\ UNCHANGED <<loopVars, queueVars, timerVars, ioVars>>

Acquire(t) ==
  /\ cpc[t] = "acquire" /\ lock = Nobody
  /\ lock' = t /\ cpc' = [cpc EXCEPT ![t] = "append"]
  /\ UNCHANGED <<loopVars, batch, callbacks, closing, waker, timerVars, ioVars,
                 arg>>

\* A bug: other threads never wake the loop.
NeedsNoWake == FALSE

NeedsWake == ~closing /\ callbacks = <<>>

\* With the lock: raise if the loop is closing, else append, and remember
\* whether the list was empty.
AppendAndRelease(t) ==
  /\ cpc[t] = "append" /\ lock' = Nobody
  /\ callbacks' = IF closing THEN callbacks ELSE Append(callbacks, arg[t])
  /\ cpc' = [cpc EXCEPT ![t] = IF NeedsWake THEN "wake" ELSE "idle"]
  /\ arg' = [arg EXCEPT ![t] = Nobody]
  /\ UNCHANGED <<loopVars, batch, closing, waker, timerVars, ioVars>>

\* Writing to the closed pipe raises ValueError in the caller.
Wake(t) ==
  /\ cpc[t] = "wake" /\ cpc' = [cpc EXCEPT ![t] = "idle"]
  /\ waker' = IF waker = "closed" THEN "closed" ELSE "full"
  /\ UNCHANGED <<loopVars, batch, callbacks, lock, closing, timerVars, ioVars,
                 arg>>

CallerStep(t) == Acquire(t) \/ AppendAndRelease(t) \/ Wake(t)

\* A signal on the loop's own thread appends without the lock.  While start()
\* runs, the signal's byte goes to the waker (set_wakeup_fd); poll() fails
\* with EINTR and the loop starts over.
SignalOnLoop(c) ==
  /\ Main = Loop /\ started /\ Len(queue) < QueueBound
  /\ callbacks' = Append(callbacks, c)
  /\ waker' = IF InLoop THEN "full" ELSE waker
  /\ pc' = IF pc = "poll" THEN "lock" ELSE pc
  /\ UNCHANGED <<current, running, stopped, started, batch, lock, closing,
                 timerVars, ioVars, callerVars>>

\* On any other thread (or before start()) it calls add_callback, on top of
\* whatever that thread was doing.
SignalElsewhere(c) ==
  /\ Main # Nobody /\ (Main # Loop \/ ~started)
  /\ cpc[Sig] = "idle" /\ Len(queue) < QueueBound
  /\ cpc' = [cpc EXCEPT ![Sig] = "acquire"]
  /\ arg' = [arg EXCEPT ![Sig] = c]
  /\ UNCHANGED <<loopVars, queueVars, timerVars, ioVars>>

-----------------------------------------------------------------------------
\* Time passes: up to MaxTime, and beyond it while poll() waits for a timeout.
Tick ==
  /\ clock < MaxTime \/ (pc = "poll" /\ pollTimeout \in 1..(MaxPoll - 1))
  /\ clock' = clock + 1
  /\ pollTimeout' = IF pc = "poll" /\ pollTimeout \in 1..(MaxPoll - 1)
                    THEN pollTimeout - 1 ELSE pollTimeout
  /\ UNCHANGED <<loopVars, queueVars, heap, live, deadline, cancellations, now,
                 ioVars, callerVars>>

\* The kernel: a file descriptor becomes ready, or fails.
FdEvent(fd) ==
  /\ condition[fd] = "quiet"
  /\ \E s \in {"ready", "error"} : condition' = [condition EXCEPT ![fd] = s]
  /\ UNCHANGED <<loopVars, queueVars, timerVars, handlers, interest, events,
                 callerVars>>

LoopStep ==
  \/ LockCallbacks \/ SwapCallbacks \/ RunCallback \/ BatchDone
  \/ ExpireDone \/ CheckQueue \/ PollReturns
  \/ DispatchWaker \/ DispatchDone \/ Return
  \/ \E t \in Timeouts : PopCancelled(t) \/ FireTimeout(t)
  \/ \E fd \in Fds : DispatchHandler(fd)

UserStep ==
  \/ Start \/ Stop \/ Close
  \/ \E c \in Callbacks : AddCallback(c)
  \/ \E t \in Timeouts : RemoveTimeout(t) \/ \E d \in 0..MaxTime : AddTimeout(t, d)
  \/ \E fd \in Fds : \/ AddHandler(fd) \/ UpdateHandler(fd)
                     \/ RemoveHandler(fd) \/ Drain(fd)

Next ==
  \/ Awake(Loop) /\ (LoopStep \/ UserStep)
  \/ \E t \in Callers : Awake(t) /\ CallerStep(t)
  \/ \E t \in Threads, c \in Callbacks : Awake(t) /\ Call(t, c)
  \/ \E c \in Callbacks : SignalOnLoop(c) \/ SignalElsewhere(c)
  \/ Tick
  \/ \E fd \in Fds : FdEvent(fd)

Spec == Init /\ [][Next]_vars

\* The interpreter goes on running the loop's thread and every caller inside
\* add_callback, user code returns, and time passes.
Fairness == /\ WF_vars(Awake(Loop) /\ LoopStep)
            /\ \A t \in Callers : WF_vars(Awake(t) /\ CallerStep(t))
            /\ WF_vars(Tick)

FairSpec == Spec /\ Fairness

-----------------------------------------------------------------------------
(* Properties.                                                             *)

\* The loop never waits in poll() while a callback is queued, unless a thread
\* that queued one has still to write to the waker (add_callback skips the
\* write when the list was not empty).
NoLostWakeup ==
  pc = "poll" /\ callbacks # <<>> =>
    pollTimeout = 0 \/ waker = "full" \/ \E t \in Callers : cpc[t] = "wake"

\* _cancellations counts at least the cancelled timeouts in the heap, so the
\* clean-up cannot be put off by a count that went below them.
CancellationBound == Cardinality(heap \ live) <= cancellations

\* Every event still to be dispatched belongs to a registered handler: an
\* earlier handler of the same poll() that removed it, or closed and reused
\* the file descriptor, leaves no stale event behind.
PendingEventsHaveHandlers == events \subseteq handlers \cup {WakerFd}

\* remove_timeout() stops a timeout until the instant it starts, also from an
\* earlier timeout of the same pass; and a timeout nobody removed leaves the
\* heap, clean-up included, only to run.
TimeoutsRunUnlessRemoved ==
  [][\A t \in Timeouts :
       /\ t \notin live /\ current # t => current' # t
       /\ t \in heap \cap live /\ t \notin heap' => current' = t]_vars

\* poll() is never given a longer wait than the nearest live timeout had when
\* the pass began.
NeverSleepsPastDeadline ==
  [][pc # "poll" /\ pc' = "poll" =>
       \A t \in heap' \cap live' : pollTimeout' <= deadline'[t] - now']_vars

\* add_callback is a first-in-first-out queue whose entries run exactly once,
\* whatever threads and signals do.
CQ == INSTANCE CallbackQueue WITH
        runner <- IF current \in Callbacks THEN current ELSE Nobody
ImplementsCallbackQueue == CQ!Spec

\* A callback at the front of the queue of a running loop is started, unless
\* the loop is stopped: no add_callback is slept through.
CallbacksRun == \A c \in Callbacks :
  InLoop /\ queue # <<>> /\ Head(queue) = c ~> current = c \/ pc = "outside"

\* What poll() can report is handled, however busily callbacks are added
\* ("Prevent IO event starvation"); and nothing is handled for a descriptor that
\* an earlier handler of the same poll() removed.
EventsHandled ==
  /\ []PendingEventsHaveHandlers
  /\ \A fd \in Fds :
       InLoop /\ fd \in Reportable ~>
         current = fd \/ fd \notin Reportable \/ pc = "outside"

\* A stop() from inside the loop makes start() return.
StopReturns == InLoop /\ ~running ~> pc = "outside"

\* add_callback_from_signal is "Safe for use from a Python signal handler":
\* the handler never waits for a lock held by the thread it interrupted.
SignalHandlerNeverSelfDeadlocks == ~(cpc[Sig] = "acquire" /\ lock = Main)

\* add_callback "should raise a clean exception if called while another thread
\* is closing the IOLoop": its only exception is RuntimeError, never the
\* ValueError of a write to the waker's closed pipe.
AddCallbackFailsCleanly ==
  \A t \in Callers : ~(cpc[t] = "wake" /\ waker = "closed")
=============================================================================
