------------------------------ MODULE Coroutine ------------------------------
(***************************************************************************)
(* A coroutine of tornado/gen.py: the wrapper that coroutine() puts round  *)
(* a generator function, the Runner that drives the generator, the yield   *)
(* points it waits at, and the futures of tornado/concurrent.py that it    *)
(* waits for and resolves.                                                 *)
(*                                                                         *)
(* r is the Runner.  What the code keeps on Python's stack is where the    *)
(* control is (pc) and where run() was called from (caller):               *)
(*   "call"  before the call          "loop"  in the loop                  *)
(*   "gen"   in the generator         "task"  in the function of a Task    *)
(*   "op"    in code that an operation of the coroutine registered, with   *)
(*           the coroutine's ExceptionStackContext round it if inside      *)
(* Whatever the generator and the operations may do is done by actions.    *)
(***************************************************************************)
EXTENDS Naturals, Sequences, Functions

CONSTANTS Names,     \* keys of yield gen.Callback(key) and gen.Wait(key)
          Tasks,     \* gen.Tasks, each yielded once
          Futures,   \* futures, each yielded once
          MaxKids    \* length of a list that is yielded

VARIABLES pc, caller, inside,
          r,        \* the Runner
          active,   \* the coroutine's ExceptionStackContext is not deactivated
          future,   \* the coroutine's own future
          fut,      \* the futures it waits for
          due,      \* their done callbacks that are in the loop's queue
          used,     \* the Tasks and Futures that were yielded
          next      \* the child of the yield point that starts next

vars == <<pc, caller, inside, r, active, future, fut, due, used, next>>

Keys == Names \cup Tasks \cup Futures

\* A yield point is the list of its children: one of them unless it is a Multi
\* or a WaitAll.  (<<>> is _null_yield_point, or None.)
Leaves == [kind : {"callback", "wait"}, key : Names]
          \cup [kind : {"task"}, key : Tasks]
          \cup [kind : {"future"}, key : Futures]

YieldPoints == UNION {[1..n -> Leaves] : n \in 0..MaxKids}

Runner == [
  pending  : SUBSET Keys,   \* pending_callbacks
  results  : SUBSET Keys,   \* the keys of results
  given    : SUBSET Keys,   \* whose result_callback is out and not yet called
  running  : BOOLEAN, finished : BOOLEAN,
  exc      : BOOLEAN,       \* exc_info is not None
  had      : BOOLEAN,       \* had_exception
  yp       : YieldPoints]   \* yield_point

Outcomes == {"unresolved", "result", "error"}

TypeOK == /\ pc \in {"call", "loop", "gen", "task", "op"}
          /\ caller \in {"loop", "op"} /\ inside \in BOOLEAN
          /\ r \in Runner /\ active \in BOOLEAN /\ future \in Outcomes
          /\ fut \in [Futures -> Outcomes] /\ due \in [Futures -> 0..2]
          /\ used \subseteq Tasks \cup Futures /\ next \in 0..MaxKids

Init == /\ pc = "call" /\ caller = "loop" /\ inside = FALSE
        /\ r = [pending |-> {}, results |-> {}, given |-> {}, running |-> FALSE,
                finished |-> FALSE, exc |-> FALSE, had |-> FALSE, yp |-> <<>>]
        /\ active = TRUE /\ future = "unresolved"
        /\ fut = [f \in Futures |-> "unresolved"] /\ due = [f \in Futures |-> 0]
        /\ used = {} /\ next = 0

-----------------------------------------------------------------------------
(* Yield points.                                                           *)

Awaited(q) == {l \in Range(q.yp) : l.kind # "callback"}

\* is_ready raises UnknownKeyError for a key that is not registered.  A Multi
\* asks its children in any order, and stops at the first that is not ready.
MayRaise(q) == \E l \in Awaited(q) : l.key \notin q.pending
MayWait(q)  == \E l \in Awaited(q) : l.key \in q.pending \ q.results
IsReady(q)  == \A l \in Awaited(q) : l.key \in q.pending \cap q.results

\* get_result of a child: the callback of Callback; the others pop the result, and
\* raise when there is none, when an earlier child has it, or when it is a
\* future's exception.
GetRaises(q, n) ==
  LET l == q.yp[n]
  IN  /\ l.kind # "callback"
      /\ \/ l.key \notin q.pending
         \/ \E m \in 1..(n - 1) : q.yp[m].kind # "callback" /\ q.yp[m].key = l.key
         \/ l.kind = "future" /\ fut[l.key] # "result"

\* The children of a Multi are asked in order, up to the first that raises.
GetResults(q) ==
  LET asked  == {n \in DOMAIN q.yp : \A m \in 1..(n - 1) : ~GetRaises(q, m)}
      given  == {q.yp[n].key : n \in {m \in asked : q.yp[m].kind = "callback"}}
      popped == {q.yp[n].key : n \in {m \in asked : q.yp[m].kind # "callback"}}
  IN  [ok |-> \A n \in DOMAIN q.yp : ~GetRaises(q, n),
       q  |-> [q EXCEPT !.given = @ \cup given, !.pending = @ \ popped,
                        !.results = @ \ popped]]

-----------------------------------------------------------------------------
(* Runner.run.                                                             *)

\* The generator is resumed with an exception.
Thrown(q) == [q EXCEPT !.exc = FALSE, !.had = TRUE]

\* A bug: what became ready while the yield point was started is not seen.
RunsOnUnseen(q) ==
  IF q.exc THEN {Thrown(q)}
  ELSE {[q EXCEPT !.running = (Awaited(q) = {})]}

\* The loop's next turn: the Runners with which it resumes the generator, or
\* with running = FALSE leaves.
RunsOn(q) ==
  IF q.exc THEN {Thrown(q)}
  ELSE LET got == GetResults(q)
       IN  {p \in {Thrown(q)} : MayRaise(q)}
           \cup {p \in {[q EXCEPT !.running = FALSE]} : MayWait(q)}
           \cup {p \in {IF got.ok THEN [got.q EXCEPT !.yp = <<>>]
                                   ELSE Thrown(got.q)} : IsReady(q)}

Resume(q, from) ==
  \E p \in RunsOn([q EXCEPT !.running = TRUE]) :
    /\ r' = p
    /\ pc' = IF p.running THEN "gen" ELSE from

\* A bug: a result does not resume the generator.
RunLater(q, from) == r' = q /\ pc' = from

\* run() called from the loop or an operation.
Run(q, from) ==
  IF q.running \/ q.finished THEN r' = q /\ pc' = pc
  ELSE Resume(q, from)

-----------------------------------------------------------------------------
(* The coroutine's own future; an exception is never replaced by a result. *)

SetResult == future' = IF future = "error" THEN "error" ELSE "result"
SetException == future' = "error"

\* A plain function returns or raises; a generator starts to run.
Call ==
  /\ pc = "call"
  /\ \/ pc' = "loop" /\ (SetResult \/ SetException) /\ active' = FALSE
        /\ r' = [r EXCEPT !.finished = TRUE]
     \/ Resume(r, "loop") /\ UNCHANGED <<future, active>>
  /\ UNCHANGED <<caller, inside, fut, due, used, next>>

\* run() is left, because the generator is.
Leave == /\ r' = [r EXCEPT !.running = FALSE, !.finished = TRUE, !.yp = <<>>]
         /\ pc' = caller

\* A bug: callbacks that are not waited for end the coroutine silently.
ReturnsUnlessLeaking ==
  IF r.pending # {} /\ ~r.had THEN UNCHANGED <<future, active>>
  ELSE SetResult /\ active' = FALSE

\* The generator returned: final_callback, or LeakedCallbackError, which
\* handle_exception finds when it propagates.
Returns ==
  IF r.pending # {} /\ ~r.had THEN SetException /\ UNCHANGED active
  ELSE SetResult /\ active' = FALSE

GeneratorReturns ==
  /\ pc = "gen" /\ Leave /\ Returns
  /\ UNCHANGED <<caller, inside, fut, due, used, next>>

GeneratorRaises ==
  /\ pc = "gen" /\ Leave /\ SetException
  /\ UNCHANGED <<caller, inside, active, fut, due, used, next>>

-----------------------------------------------------------------------------
(* The generator yields, and the yield point is started child by child.    *)

\* What is no yield point is thrown back as BadYieldError.
YieldBad ==
  /\ pc = "gen" /\ r' = Thrown(r)
  /\ UNCHANGED <<pc, caller, inside, active, future, fut, due, used, next>>

Yieldable(yp) ==
  /\ yp # <<>>
  /\ \A n \in DOMAIN yp :
       yp[n].kind \in {"task", "future"} =>
         /\ yp[n].key \notin used
         /\ \A m \in DOMAIN yp : yp[m] = yp[n] => m = n

\* When every child was started, or one raised, the loop goes on.
AfterStart(q, n) ==
  IF q.exc \/ n > Len(q.yp) THEN Resume(q, caller) /\ next' = 0
  ELSE r' = q /\ pc' = "gen" /\ next' = n

Yield ==
  /\ pc = "gen" /\ next = 0
  /\ \E yp \in YieldPoints : Yieldable(yp) /\ r' = [r EXCEPT !.yp = yp]
  /\ next' = 1
  /\ UNCHANGED <<pc, caller, inside, active, future, fut, due, used>>

\* start(): a key that is pending raises KeyReuseError; the done callback of a
\* future that is resolved is queued at once; a Task runs its function.
Registered(k) == [r EXCEPT !.pending = @ \cup {k}]

StartChild ==
  /\ pc = "gen" /\ next > 0
  /\ LET l == r.yp[next]
     IN  CASE l.kind = "callback" ->
                /\ AfterStart(IF l.key \in r.pending THEN [r EXCEPT !.exc = TRUE]
                                                     ELSE Registered(l.key), next + 1)
                /\ UNCHANGED <<due, used>>
           [] l.kind = "wait" ->
                AfterStart(r, next + 1) /\ UNCHANGED <<due, used>>
           [] l.kind = "future" ->
                /\ used' = used \cup {l.key}
                /\ due' = [due EXCEPT ![l.key] =
                             IF fut[l.key] = "unresolved" THEN 0 ELSE 1]
                /\ AfterStart(Registered(l.key), next + 1)
           [] OTHER ->
                /\ used' = used \cup {l.key} /\ UNCHANGED <<due, next>>
                /\ r' = [Registered(l.key) EXCEPT !.given = @ \cup {l.key}]
                /\ pc' = "task"
  /\ UNCHANGED <<caller, inside, active, future, fut>>

TaskReturns ==
  /\ pc = "task" /\ AfterStart(r, next + 1)
  /\ UNCHANGED <<caller, inside, active, future, fut, due, used>>

TaskRaises ==
  /\ pc = "task" /\ AfterStart([r EXCEPT !.exc = TRUE], next + 1)
  /\ UNCHANGED <<caller, inside, active, future, fut, due, used>>

-----------------------------------------------------------------------------
(* Results and exceptions.                                                 *)

\* set_result: a result_callback is called, by whatever code runs.  (In the
\* loop, by an operation that does nothing else.)
CallBack(k) ==
  /\ pc # "call" /\ (pc = "gen" => next = 0) /\ k \in r.given
  /\ caller' = IF pc \in {"loop", "op"} THEN pc ELSE caller
  /\ Run([r EXCEPT !.given = @ \ {k}, !.results = @ \cup {k}], pc)
  /\ UNCHANGED <<inside, active, future, fut, due, used, next>>

\* A future is resolved, by any thread; a failure may still replace its result.  Its done
\* callbacks are run again, as those of concurrent.futures are.
Resolve(f, outcome) ==
  /\ \/ fut[f] = "unresolved"
     \/ fut[f] = "result" /\ outcome = "error"
  /\ fut' = [fut EXCEPT ![f] = outcome]
  /\ due' = [due EXCEPT ![f] = IF f \in used THEN @ + 1 ELSE @]
  /\ UNCHANGED <<pc, caller, inside, r, active, future, used, next>>

\* The loop runs a done callback that add_future queued.
Deliver(f) ==
  /\ pc = "loop" /\ due[f] > 0
  /\ due' = [due EXCEPT ![f] = @ - 1] /\ caller' = "loop"
  /\ Run([r EXCEPT !.results = @ \cup {f}], "loop")
  /\ UNCHANGED <<inside, active, future, fut, used, next>>

\* Code that the coroutine registered while it ran.
OperationRuns ==
  /\ pc = "loop" /\ pc' = "op" /\ inside' = active
  /\ UNCHANGED <<caller, r, active, future, fut, due, used, next>>

OperationReturns ==
  /\ pc = "op" /\ pc' = "loop" /\ inside' = FALSE
  /\ UNCHANGED <<caller, r, active, future, fut, due, used, next>>

\* Its exception: handle_exception of the coroutine throws it into a generator
\* that waits, and lets an ended one's future fail.
HandleException ==
  IF r.finished THEN SetException /\ r' = r /\ pc' = "loop"
  ELSE Resume([r EXCEPT !.exc = TRUE], "loop") /\ UNCHANGED future

OperationRaises ==
  /\ pc = "op" /\ inside' = FALSE /\ caller' = "loop"
  /\ IF inside THEN HandleException
               ELSE pc' = "loop" /\ UNCHANGED <<r, future>>
  /\ UNCHANGED <<active, fut, due, used, next>>

\* A wrapped callback that the generator or a Task calls raises: the coroutine
\* fails, and its generator runs on.
WrappedRaises ==
  /\ pc \in {"gen", "task"} /\ (pc = "gen" => next = 0) /\ SetException
  /\ UNCHANGED <<pc, caller, inside, r, active, fut, due, used, next>>

-----------------------------------------------------------------------------
Next == \/ Call \/ GeneratorReturns \/ GeneratorRaises \/ YieldBad \/ Yield
        \/ StartChild \/ TaskReturns \/ TaskRaises
        \/ \E k \in Keys : CallBack(k)
        \/ \E f \in Futures : Deliver(f) \/ \E o \in {"result", "error"} : Resolve(f, o)
        \/ OperationRuns \/ OperationReturns \/ OperationRaises \/ WrappedRaises

Spec == Init /\ [][Next]_vars

\* Operations that were started call their callbacks, futures are resolved and
\* their done callbacks run, each at some time, and code that the loop runs
\* returns.
Fairness ==
  /\ WF_vars(OperationReturns) /\ \A k \in Names \cup Tasks : []<>(k \notin r.given)
  /\ \A f \in Futures : []<>(fut[f] # "unresolved") /\ []<>(due[f] = 0)

FairSpec == Spec /\ Fairness

-----------------------------------------------------------------------------
(* Properties.                                                             *)

Waiting == pc \in {"loop", "op"} /\ ~r.finished

\* A result that comes while the generator runs, while its yield point starts
\* or while run() is on the stack already is not overlooked: when control is
\* back in the loop, something the generator waits for is outstanding.
NoLostResume == Waiting => ~r.running /\ ~r.exc /\ MayWait(r)

\* However the generator ends, whoever waits for the coroutine learns of it.
EndIsReported == pc \in {"loop", "op"} /\ r.finished => future # "unresolved"

\* The coroutine is resumed when the operations it waits for were started.
Underway(l) == /\ l.key \in r.pending
               /\ l.key \in r.results \cup r.given \cup Futures
WaitsEnd ==
  Waiting /\ (\A l \in Awaited(r) : Underway(l)) ~> pc = "gen" \/ r.finished
=============================================================================
