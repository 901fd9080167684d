----------------------------- MODULE LoopClients -----------------------------
(***************************************************************************)
(* Those who start and stop the loop, or live on its timeouts:             *)
(* IOLoop.run_sync and PeriodicCallback of tornado/ioloop.py, and wait()   *)
(* and stop() of AsyncTestCase in tornado/testing.py.                      *)
(*                                                                         *)
(* The loop is reduced to its passes (module IOLoop has it whole): it runs *)
(* the callbacks that are queued, then the timeouts that are due, and ends *)
(* if it was stopped.  The main thread calls run_sync for each of Syncs,   *)
(* and wait(), in any order.  Other callbacks of the loop resolve futures, *)
(* start and stop the PeriodicCallback and stop the test, at any point.    *)
(***************************************************************************)
EXTENDS Integers, Sequences, FiniteSets

CONSTANTS Syncs,       \* calls of run_sync
          MaxWaits,    \* calls of wait()
          Patience,    \* their timeouts
          Period,      \* callback_time
          MaxTicks,    \* timeouts that a PeriodicCallback has at a time
          MaxTime      \* the clock

VARIABLES
  pc,        \* "main": the loop does not run; else the part of its pass
  call,      \* the call that started it, <<"none", 0>> if there is none
  running, stopped,   \* the loop's _running and _stopped
  queue,     \* its callbacks, by the call they belong to
  batch,     \* how many of them this pass runs
  timers,    \* its timeouts: their owners and deadlines
  now,
  future,    \* of each run_sync: None, pending or done
  ended,     \* how it returned
  test,      \* the AsyncTestCase
  periodic   \* the PeriodicCallback

vars == <<pc, call, running, stopped, queue, batch, timers, now, future, ended,
          test, periodic>>

loop == <<running, stopped, queue, batch>>

NoCall == <<"none", 0>>
Owners == ({"run", "stop", "sync"} \X Syncs)
          \cup ({"wait"} \X (1..MaxWaits)) \cup ({"tick"} \X (1..MaxTicks))

TypeOK ==
  /\ pc \in {"main", "batch", "timeouts", "tick", "poll"}
  /\ call \in Owners \cup {NoCall} /\ running \in BOOLEAN /\ stopped \in BOOLEAN
  /\ queue \in Seq({"run", "stop"} \X Syncs) /\ batch \in 0..Len(queue)
  /\ timers \subseteq [owner : Owners, at : 0..(MaxTime + Period)]
  /\ now \in 0..MaxTime
  /\ future \in [Syncs -> {"none", "pending", "done"}]
  /\ ended \in [Syncs -> {"no", "result", "timeout"}]
  /\ test \in [stopped : BOOLEAN, running : BOOLEAN, failure : BOOLEAN,
               waits : 0..MaxWaits]
  /\ periodic \in [running : BOOLEAN, next : 0..(MaxTime + Period),
                   timeout : 0..MaxTicks]

Init == /\ pc = "main" /\ call = NoCall /\ running = FALSE /\ stopped = FALSE
        /\ queue = <<>> /\ batch = 0 /\ timers = {} /\ now = 0
        /\ future = [i \in Syncs |-> "none"] /\ ended = [i \in Syncs |-> "no"]
        /\ test = [stopped |-> FALSE, running |-> FALSE, failure |-> FALSE,
                   waits |-> 0]
        /\ periodic = [running |-> FALSE, next |-> 0, timeout |-> 0]

-----------------------------------------------------------------------------
(* The loop.                                                               *)

\* start() returns at once when stop() came first.
Start(c) ==
  /\ call' = c /\ stopped' = FALSE /\ running' = (running \/ ~stopped)
  /\ pc' = IF stopped THEN "main" ELSE "batch"
  /\ batch' = IF stopped THEN 0 ELSE Len(queue')

StopLoop == running' = FALSE /\ stopped' = TRUE

Due == {t \in timers : t.at <= now}
First == {t \in Due : \A u \in Due : t.at <= u.at}

EndOfBatch == /\ pc = "batch" /\ batch = 0 /\ pc' = "timeouts"
              /\ UNCHANGED <<call, running, stopped, queue, batch, timers, now,
                             future, ended, test, periodic>>

\* No timeout is due: the loop ends if it was stopped, or polls.
EndOfTimeouts ==
  /\ pc = "timeouts" /\ Due = {}
  /\ IF running THEN pc' = "poll" /\ UNCHANGED stopped
                ELSE pc' = "main" /\ stopped' = FALSE
  /\ UNCHANGED <<call, running, queue, batch, timers, now, future, ended, test,
                 periodic>>

\* poll() returns; it waits only when there is nothing to run.
Poll ==
  /\ pc = "poll" /\ (queue # <<>> \/ Due # {} \/ now = MaxTime)
  /\ pc' = "batch" /\ batch' = Len(queue)
  /\ UNCHANGED <<call, running, stopped, queue, timers, now, future, ended, test,
                 periodic>>

Elapse == /\ now < MaxTime /\ now' = now + 1
          /\ UNCHANGED <<pc, call, timers, future, ended, test, periodic>>
          /\ UNCHANGED loop

-----------------------------------------------------------------------------
(* IOLoop.run_sync.                                                        *)

RunSync(i) ==
  /\ pc = "main" /\ call = NoCall /\ future[i] = "none" /\ ended[i] = "no"
  /\ now + Patience <= MaxTime
  /\ queue' = Append(queue, <<"run", i>>)
  /\ timers' = timers \cup {[owner |-> <<"sync", i>>, at |-> now + Patience]}
  /\ Start(<<"sync", i>>)
  /\ UNCHANGED <<now, future, ended, test, periodic>>

\* The callback of add_future, or run(): whose function returns, or fails, or
\* returns a future.  That of a future that is done is queued at once.
RunCallback ==
  /\ pc = "batch" /\ batch > 0 /\ batch' = batch - 1
  /\ LET item == Head(queue)
         i == item[2]
     IN  \/ /\ item[1] = "stop" /\ StopLoop /\ queue' = Tail(queue)
            /\ UNCHANGED future
         \/ /\ item[1] = "run" /\ queue' = Append(Tail(queue), <<"stop", i>>)
            /\ future' = [future EXCEPT ![i] = "done"]
            /\ UNCHANGED <<running, stopped>>
         \/ /\ item[1] = "run" /\ queue' = Tail(queue)
            /\ future' = [future EXCEPT ![i] = "pending"]
            /\ UNCHANGED <<running, stopped>>
  /\ UNCHANGED <<pc, call, timers, now, ended, test, periodic>>

\* Futures are resolved by other callbacks, or by other threads.
ResolveFuture(i) ==
  /\ future[i] = "pending" /\ future' = [future EXCEPT ![i] = "done"]
  /\ queue' = Append(queue, <<"stop", i>>)
  /\ UNCHANGED <<pc, call, running, stopped, batch, timers, now, ended, test,
                 periodic>>

Remove(owner) == {t \in timers : t.owner # owner}

\* Its timeout: stop().
SyncTimesOut(i) ==
  /\ pc = "timeouts" /\ \E t \in First : t.owner = <<"sync", i>>
  /\ timers' = Remove(<<"sync", i>>) /\ StopLoop
  /\ UNCHANGED <<pc, call, queue, batch, now, future, ended, test, periodic>>

\* (Before run() was called, future_cell[0].done() raises AttributeError.)
RunSyncReturns(i) ==
  /\ pc = "main" /\ call = <<"sync", i>> /\ call' = NoCall
  /\ timers' = Remove(<<"sync", i>>)
  /\ ended' = [ended EXCEPT ![i] = IF future[i] = "done" THEN "result"
                                                       ELSE "timeout"]
  /\ UNCHANGED <<pc, now, future, test, periodic>> /\ UNCHANGED loop

-----------------------------------------------------------------------------
(* AsyncTestCase.                                                          *)

UserCode == pc \in {"batch", "timeouts", "tick"} \/ (pc = "main" /\ call = NoCall)

\* stop(), by t: the test as it is, or with a failure.
StopTest(t) ==
  /\ IF test.running THEN StopLoop ELSE UNCHANGED <<running, stopped>>
  /\ test' = [t EXCEPT !.running = FALSE, !.stopped = TRUE]

\* Callbacks call stop(), or raise an exception that the test's context sees.
TestStops ==
  /\ UserCode
  /\ StopTest(test) \/ StopTest([test EXCEPT !.failure = TRUE])
  /\ UNCHANGED <<pc, call, queue, batch, timers, now, future, ended, periodic>>

\* timeout_func
WaitTimesOut(w) ==
  /\ pc = "timeouts" /\ \E t \in First : t.owner = <<"wait", w>>
  /\ timers' = Remove(<<"wait", w>>) /\ StopTest([test EXCEPT !.failure = TRUE])
  /\ UNCHANGED <<pc, call, queue, batch, now, future, ended, periodic>>

\* wait() sets its timeout and starts the loop, unless stop() came before.
Wait ==
  /\ pc = "main" /\ call = NoCall /\ test.waits < MaxWaits
  /\ now + Patience <= MaxTime
  /\ LET w == test.waits + 1
     IN  IF test.stopped
         THEN /\ test' = [test EXCEPT !.waits = w, !.stopped = FALSE,
                                      !.failure = FALSE]
              /\ UNCHANGED <<pc, call, timers>> /\ UNCHANGED loop
         ELSE /\ timers' = timers \cup {[owner |-> <<"wait", w>>,
                                         at |-> now + Patience]}
              /\ test' = [test EXCEPT !.waits = w, !.running = TRUE]
              /\ UNCHANGED queue /\ Start(<<"wait", w>>)
  /\ UNCHANGED <<now, future, ended, periodic>>

\* The loop returned, and the condition does not hold yet.
WaitAgain ==
  /\ pc = "main" /\ call[1] = "wait" /\ ~test.failure
  /\ test' = [test EXCEPT !.running = TRUE] /\ UNCHANGED queue /\ Start(call)
  /\ UNCHANGED <<timers, now, future, ended, periodic>>

\* A bug: only a wait that succeeds returns.
WaitReturnsWell ==
  /\ pc = "main" /\ call[1] = "wait" /\ ~test.failure /\ call' = NoCall
  /\ timers' = Remove(call)
  /\ test' = [test EXCEPT !.stopped = FALSE, !.failure = FALSE]
  /\ UNCHANGED <<pc, now, future, ended, periodic>> /\ UNCHANGED loop

\* It returns, or raises the failure (or the assertion that it was stopped).
WaitReturns ==
  /\ pc = "main" /\ call[1] = "wait" /\ call' = NoCall
  /\ timers' = Remove(call)
  /\ test' = IF test.stopped THEN [test EXCEPT !.stopped = FALSE, !.failure = FALSE]
                             ELSE test
  /\ UNCHANGED <<pc, now, future, ended, periodic>> /\ UNCHANGED loop

-----------------------------------------------------------------------------
(* PeriodicCallback.                                                       *)

FreeTicks == {n \in 1..MaxTicks : \A t \in timers : t.owner # <<"tick", n>>}

\* The first time after now that is whole periods after next.
After(next) ==
  CHOOSE at \in (now + 1)..(now + Period) : (at - next) % Period = 0

\* _schedule_next, of p with what is left of the timers.
ScheduleNext(p, left) ==
  \/ ~p.running /\ periodic' = p /\ timers' = left
  \/ /\ p.running
     /\ \E n \in FreeTicks :
          LET at == IF p.next <= now THEN After(p.next) ELSE p.next
          IN  /\ periodic' = [p EXCEPT !.next = at, !.timeout = n]
              /\ timers' = left \cup {[owner |-> <<"tick", n>>, at |-> at]}

\* (Bounded: the callback that runs keeps a timeout for its own return.)
PeriodicStart ==
  /\ UserCode /\ (pc = "tick" => Cardinality(FreeTicks) > 1)
  /\ ScheduleNext([periodic EXCEPT !.running = TRUE, !.next = now], timers)
  /\ UNCHANGED <<pc, call, now, future, ended, test>> /\ UNCHANGED loop

PeriodicStop ==
  /\ UserCode /\ timers' = Remove(<<"tick", periodic.timeout>>)
  /\ periodic' = [periodic EXCEPT !.running = FALSE, !.timeout = 0]
  /\ UNCHANGED <<pc, call, now, future, ended, test>> /\ UNCHANGED loop

\* _run: the callback is called, which may raise.
TickRuns(n) ==
  /\ pc = "timeouts" /\ \E t \in First : t.owner = <<"tick", n>>
  /\ timers' = Remove(<<"tick", n>>)
  /\ pc' = IF periodic.running THEN "tick" ELSE pc
  /\ UNCHANGED <<call, now, future, ended, test, periodic>> /\ UNCHANGED loop

\* A bug: a callback that raises is the last one.
TickReturnsOnly ==
  /\ pc = "tick" /\ pc' = "timeouts"
  /\ ScheduleNext(periodic, timers) \/ UNCHANGED <<timers, periodic>>
  /\ UNCHANGED <<call, now, future, ended, test>> /\ UNCHANGED loop

TickReturns ==
  /\ pc = "tick" /\ pc' = "timeouts" /\ ScheduleNext(periodic, timers)
  /\ UNCHANGED <<call, now, future, ended, test>> /\ UNCHANGED loop

-----------------------------------------------------------------------------
LoopStep == \/ EndOfBatch \/ EndOfTimeouts \/ Poll \/ RunCallback
            \/ (\E i \in Syncs : SyncTimesOut(i) \/ RunSyncReturns(i))
            \/ (\E w \in 1..MaxWaits : WaitTimesOut(w))
            \/ (\E n \in 1..MaxTicks : TickRuns(n)) \/ TickReturns \/ WaitReturns

Next == \/ LoopStep \/ Elapse \/ Wait \/ WaitAgain \/ TestStops
        \/ (\E i \in Syncs : RunSync(i) \/ ResolveFuture(i))
        \/ PeriodicStart \/ PeriodicStop

Spec == Init /\ [][Next]_vars

\* The loop goes on, and so does the clock.
FairSpec == Spec /\ WF_vars(LoopStep) /\ []<>(now = MaxTime)

-----------------------------------------------------------------------------
(* Properties.                                                             *)

\* A PeriodicCallback that was started goes on, whatever its callback does: but
\* for the time its callback takes, the timeout that it knows is set.
RunningMeansScheduled ==
  periodic.running /\ pc # "tick" =>
    \E t \in timers : t.owner = <<"tick", periodic.timeout>>

\* run_sync and wait() return, if only because of their timeouts.
CallsReturn == call # NoCall ~> call = NoCall

\* "If the timeout expires, a TimeoutError is raised": not before.
TimeoutErrorMeansTimeout ==
  [][\A i \in Syncs : ended[i] = "no" /\ ended'[i] = "timeout" =>
       \A t \in timers : t.owner = <<"sync", i>> => t.at <= now]_vars
=============================================================================
