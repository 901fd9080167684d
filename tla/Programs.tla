------------------------------ MODULE Programs -------------------------------
(***************************************************************************)
(* Programs on the loop.  One forks its server (module TCPServer), one     *)
(* runs subprocesses (Subprocess), one is started again when its source    *)
(* changes (Autoreload), one starts and stops the loop for a call and      *)
(* lives on its timeouts (LoopClients), and one is a coroutine (Coroutine).*)
(* They share nothing and are checked side by side, as one specification.  *)
(***************************************************************************)
EXTENDS Integers, Sequences, FiniteSets

CONSTANTS Tasks, Pids, Sockets, Conns, MaxRestarts, MaxDeaths,
          Subprocs,
          Files, MaxSourceTime,
          Syncs, MaxWaits, Patience, Period, MaxTicks, MaxTime,
          Names, GenTasks, Futures, MaxKids

ASSUME ProgramsAssumption ==
  /\ 0 \notin Pids /\ MaxRestarts \in Nat /\ MaxDeaths \in Nat
  /\ IsFiniteSet(Tasks) /\ Tasks = 0..(Cardinality(Tasks) - 1)
  /\ MaxSourceTime \in Nat /\ MaxTime \in Nat
  /\ MaxWaits \in Nat /\ Patience \in Nat /\ Period \in Nat \ {0} /\ MaxTicks \in Nat
  /\ Names \cap GenTasks = {} /\ Names \cap Futures = {} /\ GenTasks \cap Futures = {}
  /\ MaxKids \in Nat \ {0}

VARIABLES
  program,   \* "server", "subprocesses", "source", "calls" or "coroutine"
  parent, server, children, restarts, proc, ended, backlog, conn,
  initialized, signal, child, status, waiting, queue, cleaning, callback, returncode,
  mtime, loaded, modify_times, watched, toCheck, state, hooks, wrapped, task,
  at, call, running, stopped, callbacks, batch, timers, now, awaited, returned, test,
  periodic,
  pc, caller, inside, r, active, future, fut, due, used, next

Server == INSTANCE TCPServer
Runner == INSTANCE Subprocess
Source == INSTANCE Autoreload WITH MaxTime <- MaxSourceTime
Calls  == INSTANCE LoopClients WITH pc <- at, queue <- callbacks, future <- awaited,
                                    ended <- returned
Gen    == INSTANCE Coroutine WITH Tasks <- GenTasks

serverVars == <<parent, server, children, restarts, proc, ended, backlog, conn>>
runnerVars == <<initialized, signal, child, status, waiting, queue, cleaning,
                callback, returncode>>
sourceVars == <<mtime, loaded, modify_times, watched, toCheck, state, hooks, wrapped,
                task>>
callsVars == <<at, call, running, stopped, callbacks, batch, timers, now, awaited,
               returned, test, periodic>>
genVars == <<pc, caller, inside, r, active, future, fut, due, used, next>>
vars == <<program, serverVars, runnerVars, sourceVars, callsVars, genVars>>

Init ==
  /\ program \in {"server", "subprocesses", "source", "calls", "coroutine"}
  /\ Server!Init /\ Runner!Init /\ Source!Init /\ Calls!Init /\ Gen!Init
  /\ program # "server" => \A p \in Pids : proc[p].state = "free"
  /\ program # "source" => ~wrapped /\ ~task

Next ==
  /\ UNCHANGED program
  /\ \/ /\ program = "server" /\ Server!Next
        /\ UNCHANGED <<runnerVars, sourceVars, callsVars, genVars>>
     \/ /\ program = "subprocesses" /\ Runner!Next
        /\ UNCHANGED <<serverVars, sourceVars, callsVars, genVars>>
     \/ /\ program = "source" /\ Source!Next
        /\ UNCHANGED <<serverVars, runnerVars, callsVars, genVars>>
     \/ /\ program = "calls" /\ Calls!Next
        /\ UNCHANGED <<serverVars, runnerVars, sourceVars, genVars>>
     \/ /\ program = "coroutine" /\ Gen!Next
        /\ UNCHANGED <<serverVars, runnerVars, sourceVars, callsVars>>

\* The fairness of the parts' modules, for the program that runs.  (Server!Fairness
\* and the two after it ask nothing of a program that has not begun.)
Fairness ==
  /\ Server!Fairness /\ Runner!Fairness /\ Source!Fairness
  /\ WF_callsVars(Calls!LoopStep) /\ []<>(program = "calls" => now = MaxTime)
  /\ WF_genVars(Gen!OperationReturns)
  /\ \A k \in Names \cup GenTasks : []<>(k \notin r.given)
  /\ \A f \in Futures :
       []<>(program = "coroutine" => fut[f] # "unresolved") /\ []<>(due[f] = 0)

Spec == Init /\ [][Next]_vars /\ Fairness

-----------------------------------------------------------------------------
(* The parts' properties; the modules state them.                          *)

\* fork_processes exits without an error only when every task ended well.
ExitMeansDone == Server!ExitMeansDone

\* A task whose process died badly gets another one, or the parent gives up.
TasksComeBack == Server!TasksComeBack

\* Every child that ended has its exit callback called, with its status, while
\* the handler is installed.
ExitIsReported == Runner!ExitIsReported

\* A file that changed since the check first saw it has the program reloaded, if
\* it is still there.
ChangesAreSeen == Source!ChangesAreSeen

\* A PeriodicCallback that was started goes on.
RunningMeansScheduled == Calls!RunningMeansScheduled

\* run_sync and wait() return.
CallsReturn == Calls!CallsReturn

\* A result that comes at an odd time still resumes the coroutine.
NoLostResume == Gen!NoLostResume

\* A coroutine whose operations were started is resumed.
WaitsEnd == Gen!WaitsEnd
=============================================================================
