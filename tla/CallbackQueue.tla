--------------------------- MODULE CallbackQueue ---------------------------
(***************************************************************************)
(* What IOLoop.add_callback promises, with no threads, locks, wakeups or   *)
(* batches: a first-in-first-out queue whose entries are run one at a      *)
(* time, each exactly once.  IOLoop implements it (IOLoop!CQ).             *)
(***************************************************************************)
EXTENDS Sequences

CONSTANTS Callbacks, Nobody   \* Nobody is not one of the Callbacks

VARIABLES queue,   \* accepted and not yet started, oldest first
          runner   \* the callback that is running, or Nobody

vars == <<queue, runner>>

Init == queue = <<>> /\ runner = Nobody

Add(c) == queue' = Append(queue, c) /\ UNCHANGED runner

Start == /\ queue # <<>> /\ runner = Nobody
         /\ runner' = Head(queue) /\ queue' = Tail(queue)

Finish == runner # Nobody /\ runner' = Nobody /\ UNCHANGED queue

Next == Start \/ Finish \/ \E c \in Callbacks : Add(c)

Spec == Init /\ [][Next]_vars
=============================================================================
