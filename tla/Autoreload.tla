----------------------------- MODULE Autoreload ------------------------------
(***************************************************************************)
(* tornado/autoreload.py: a PeriodicCallback compares the modification     *)
(* times of the modules' and of the watched files with those it saw first, *)
(* one file after the other, and starts the program again when one has     *)
(* changed; and the wrapper that runs a script and starts it again even    *)
(* when it fails.  Files change at any time, also while the program is     *)
(* being loaded or checked.                                                *)
(***************************************************************************)
EXTENDS Integers, FiniteSets

CONSTANTS Files,    \* source files
          MaxTime   \* modification times of each

VARIABLES
  mtime,        \* the files' modification times, 0 of one that is not there
  loaded,       \* those they had when they were imported, 0 if they were not
  modify_times, \* those the check knows, 0 if it has not seen the file
  watched,      \* _watched_files
  toCheck,      \* files that this check has yet to look at
  state,        \* "loading", "running" or "reloading"
  hooks,        \* _reload_hooks that were run, of those there are
  wrapped,      \* does main() run the script
  task          \* is this a child of fork_processes

vars == <<mtime, loaded, modify_times, watched, toCheck, state, hooks, wrapped, task>>

TypeOK ==
  /\ mtime \in [Files -> 0..MaxTime] /\ loaded \in [Files -> 0..MaxTime]
  /\ modify_times \in [Files -> 0..MaxTime] /\ watched \subseteq Files
  /\ toCheck \subseteq Files /\ hooks \in [run : BOOLEAN, started : BOOLEAN]
  /\ state \in {"loading", "running", "reloading"}
  /\ wrapped \in BOOLEAN /\ task \in BOOLEAN

Fresh ==
  /\ loaded' = [f \in Files |-> 0] /\ modify_times' = [f \in Files |-> 0]
  /\ watched' = {} /\ toCheck' = {} /\ state' = "loading"
  /\ hooks' = [run |-> FALSE, started |-> FALSE]

Init ==
  /\ mtime = [f \in Files |-> 1] /\ loaded = [f \in Files |-> 0]
  /\ modify_times = [f \in Files |-> 0] /\ watched = {} /\ toCheck = {}
  /\ state = "loading" /\ hooks = [run |-> FALSE, started |-> FALSE]
  /\ wrapped \in BOOLEAN /\ task \in BOOLEAN /\ ~(wrapped /\ task)

\* A file is removed, comes (back) with some time, or is written in place.
Changes(f) ==
  /\ \E t \in 0..MaxTime \ {mtime[f]} : mtime' = [mtime EXCEPT ![f] = t]
  /\ UNCHANGED <<loaded, modify_times, watched, toCheck, state, hooks, wrapped, task>>

Import(f) ==
  /\ state \in {"loading", "running"} /\ loaded[f] = 0 /\ mtime[f] # 0
  /\ loaded' = [loaded EXCEPT ![f] = mtime[f]]
  /\ UNCHANGED <<mtime, modify_times, watched, toCheck, state, hooks, wrapped, task>>

Watch(f) ==
  /\ state \in {"loading", "running"} /\ watched' = watched \cup {f}
  /\ UNCHANGED <<mtime, loaded, modify_times, toCheck, state, hooks, wrapped, task>>

\* start(): a loop is watched once.
StartChecks ==
  /\ state = "loading" /\ ~wrapped /\ hooks.started = FALSE
  /\ hooks' = [hooks EXCEPT !.started = TRUE] /\ state' = "running"
  /\ UNCHANGED <<mtime, loaded, modify_times, watched, toCheck, wrapped, task>>

\* main(): the script ended, well or not; the files of the traceback, and its
\* own, are watched even if they were not imported, and it waits.
ScriptEnds ==
  /\ state = "loading" /\ wrapped /\ state' = "running"
  /\ \E fs \in SUBSET Files : watched' = watched \cup fs
  /\ hooks' = [hooks EXCEPT !.started = TRUE]
  /\ UNCHANGED <<mtime, loaded, modify_times, toCheck, wrapped, task>>

\* _reload_on_update: not after an attempt, and not in children.
Check ==
  /\ state = "running" /\ hooks.started /\ ~task /\ toCheck = {}
  /\ toCheck' = watched \cup {f \in Files : loaded[f] # 0} /\ toCheck' # {}
  /\ UNCHANGED <<mtime, loaded, modify_times, watched, state, hooks, wrapped, task>>

\* A bug: the time that was just seen is what the next check compares with.
CheckFileForgets(f) ==
  /\ state = "running" /\ f \in toCheck /\ toCheck' = toCheck \ {f}
  /\ modify_times' = [modify_times EXCEPT ![f] = mtime[f]]
  /\ UNCHANGED <<mtime, loaded, watched, state, hooks, wrapped, task>>

\* _check_file: the first time that is seen is what the file is compared with.
\* A file that is not there is passed over.
CheckFile(f) ==
  /\ state = "running" /\ f \in toCheck
  /\ CASE mtime[f] \in {0, modify_times[f]} ->
            toCheck' = toCheck \ {f} /\ UNCHANGED <<modify_times, state>>
       [] mtime[f] # 0 /\ modify_times[f] = 0 ->
            /\ modify_times' = [modify_times EXCEPT ![f] = mtime[f]]
            /\ toCheck' = toCheck \ {f} /\ UNCHANGED state
       [] OTHER -> state' = "reloading" /\ toCheck' = {} /\ UNCHANGED modify_times
  /\ UNCHANGED <<mtime, loaded, watched, hooks, wrapped, task>>

RunHooks ==
  /\ state = "reloading" /\ ~hooks.run /\ hooks' = [hooks EXCEPT !.run = TRUE]
  /\ UNCHANGED <<mtime, loaded, modify_times, watched, toCheck, state, wrapped, task>>

\* execv, or a new process, with the same arguments.
Reload ==
  /\ state = "reloading" /\ hooks.run /\ Fresh
  /\ UNCHANGED <<mtime, wrapped, task>>

Next == \/ \E f \in Files : Changes(f) \/ Import(f) \/ Watch(f) \/ CheckFile(f)
        \/ StartChecks \/ ScriptEnds \/ Check \/ RunHooks \/ Reload

Spec == Init /\ [][Next]_vars
Fairness == WF_vars(Check) /\ WF_vars(RunHooks) /\ WF_vars(Reload)
            /\ \A f \in Files : WF_vars(CheckFile(f))
FairSpec == Spec /\ Fairness

\* A file that changed since the check first saw it, whether or not it can be
\* imported, has the program started again, unless the change is undone or the
\* file is gone before the check comes to it.
ChangesAreSeen ==
  \A f \in Files, t \in 1..MaxTime :
    state = "running" /\ modify_times[f] = t /\ mtime[f] \notin {0, t}
      ~> state # "running" \/ mtime[f] \in {0, t}
=============================================================================
