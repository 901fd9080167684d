----------------------------- MODULE Subprocess ------------------------------
(***************************************************************************)
(* Subprocess of tornado/process.py: an exit callback that the SIGCHLD     *)
(* handler runs on a loop.  The signal says that some child ended, or      *)
(* several; it is lost while no handler is installed.                      *)
(***************************************************************************)
EXTENDS Integers, Sequences, FiniteSets

CONSTANT Subprocs

VARIABLES
  initialized, \* is the SIGCHLD handler installed
  signal,      \* a SIGCHLD is pending
  child,       \* each child: not yet started, running, ended, or reaped
  status,      \* its exit status
  waiting,     \* _waiting
  queue,       \* callbacks of the loop: "cleanup", or the child that was reaped
  cleaning,    \* what _cleanup has yet to try
  callback,    \* _exit_callback: never set, set, or called
  returncode   \* returncode

vars == <<initialized, signal, child, status, waiting, queue, cleaning, callback,
          returncode>>

None == "none"
Statuses == {"exit", "killed"}

TypeOK ==
  /\ initialized \in BOOLEAN /\ signal \in BOOLEAN
  /\ child \in [Subprocs -> {"new", "running", "ended", "reaped"}]
  /\ status \in [Subprocs -> Statuses \cup {None}]
  /\ waiting \subseteq Subprocs /\ cleaning \subseteq Subprocs
  /\ queue \in Seq(Subprocs \cup {"cleanup"})
  /\ callback \in [Subprocs -> {"unset", "set", "called"}]
  /\ returncode \in [Subprocs -> Statuses \cup {None}]

Init ==
  /\ initialized = FALSE /\ signal = FALSE
  /\ child = [s \in Subprocs |-> "new"] /\ status = [s \in Subprocs |-> None]
  /\ waiting = {} /\ queue = <<>> /\ cleaning = {}
  /\ callback = [s \in Subprocs |-> "unset"]
  /\ returncode = [s \in Subprocs |-> None]

Start(s) ==
  /\ child[s] = "new" /\ child' = [child EXCEPT ![s] = "running"]
  /\ UNCHANGED <<initialized, signal, status, waiting, queue, cleaning, callback,
                 returncode>>

Ends(s) ==
  /\ child[s] = "running" /\ child' = [child EXCEPT ![s] = "ended"]
  /\ \E how \in Statuses : status' = [status EXCEPT ![s] = how]
  /\ signal' = (signal \/ initialized)
  /\ UNCHANGED <<initialized, waiting, queue, cleaning, callback, returncode>>

\* The signal handler: add_callback_from_signal.
SignalHandler ==
  /\ signal /\ signal' = FALSE /\ queue' = Append(queue, "cleanup")
  /\ UNCHANGED <<initialized, child, status, waiting, cleaning, callback, returncode>>

\* _try_cleanup_process, of one that is among those who wait, w.
TryCleanup(s, w, q) ==
  IF child[s] = "ended"
  THEN /\ child' = [child EXCEPT ![s] = "reaped"]
       /\ waiting' = w \ {s} /\ queue' = Append(q, s)
  ELSE waiting' = w /\ queue' = q /\ UNCHANGED child

\* A bug: the handler will see to it.
SetExitCallbackLazily(s) ==
  /\ child[s] \in {"running", "ended"} /\ callback[s] = "unset" /\ cleaning = {}
  /\ initialized' = TRUE /\ callback' = [callback EXCEPT ![s] = "set"]
  /\ waiting' = waiting \cup {s}
  /\ UNCHANGED <<signal, child, status, queue, cleaning, returncode>>

SetExitCallback(s) ==
  /\ child[s] \in {"running", "ended"} /\ callback[s] = "unset" /\ cleaning = {}
  /\ initialized' = TRUE /\ callback' = [callback EXCEPT ![s] = "set"]
  /\ TryCleanup(s, waiting \cup {s}, queue)
  /\ UNCHANGED <<signal, status, cleaning, returncode>>

\* uninitialize(): the signals that come after it are lost, also those of the
\* children that are waited for.
Uninitialize ==
  /\ initialized /\ initialized' = FALSE /\ signal' = FALSE
  /\ UNCHANGED <<child, status, waiting, queue, cleaning, callback, returncode>>

Cleanup ==
  /\ queue # <<>> /\ Head(queue) = "cleanup" /\ cleaning = {}
  /\ queue' = Tail(queue) /\ cleaning' = waiting
  /\ UNCHANGED <<initialized, signal, child, status, waiting, callback, returncode>>

CleanOne(s) ==
  /\ s \in cleaning /\ cleaning' = cleaning \ {s}
  /\ TryCleanup(s, waiting, queue)
  /\ UNCHANGED <<initialized, signal, status, callback, returncode>>

\* _set_returncode
SetReturncode(s) ==
  /\ queue # <<>> /\ Head(queue) = s /\ cleaning = {}
  /\ queue' = Tail(queue) /\ returncode' = [returncode EXCEPT ![s] = status[s]]
  /\ callback' = [callback EXCEPT ![s] = IF @ = "set" THEN "called" ELSE @]
  /\ UNCHANGED <<initialized, signal, child, status, waiting, cleaning>>

LoopStep == Cleanup \/ \E s \in Subprocs : CleanOne(s) \/ SetReturncode(s)

Next == \/ SignalHandler \/ LoopStep \/ Uninitialize
        \/ \E s \in Subprocs : Start(s) \/ Ends(s) \/ SetExitCallback(s)

Spec == Init /\ [][Next]_vars
Fairness == WF_vars(SignalHandler) /\ WF_vars(LoopStep)
FairSpec == Spec /\ Fairness

\* Every child that ends, before or after its callback is set, however many one
\* signal stands for, has its callback called with its status, unless the
\* handler is removed while it is waited for.
ExitIsReported ==
  \A s \in Subprocs :
    [](s \in waiting => initialized) =>
      (child[s] \in {"ended", "reaped"} /\ callback[s] = "set"
         ~> callback[s] = "called" /\ returncode[s] = status[s])
=============================================================================
