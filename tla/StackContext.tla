---------------------------- MODULE StackContext ----------------------------
(***************************************************************************)
(* tornado.stack_context in one thread: code that opens contexts with      *)
(* `with`, wraps functions under them, calls wrapped functions later and   *)
(* elsewhere, deactivates contexts and fails.  The contexts of a moment    *)
(* are kept twice, as _state.contexts does: as those to enter (their order *)
(* is left out) and as the head of a chain, through old_contexts, that     *)
(* exceptions follow.                                                      *)
(*                                                                         *)
(* Each context is opened and each function wrapped at most once.          *)
(***************************************************************************)
EXTENDS Naturals, Sequences, FiniteSets

CONSTANTS StackContexts,     \* contexts that are entered and left
          ExceptionContexts, \* contexts that only see exceptions
          Consuming,         \* those whose handler returns True
          Functions_,        \* functions the code wraps
          DeactivateOpen,    \* contexts are deactivated while they are open
          MaxFrames          \* bound: `with` blocks and calls in progress

Contexts == StackContexts \union ExceptionContexts
NoContext == "none"

VARIABLES
  current,   \* _state.contexts
  old,       \* old_contexts of each context that has been opened
  active,    \* not deactivated
  depth,     \* how often each StackContext is entered: its list `contexts`
  captured,  \* cap_contexts of each wrapped function
  frames,    \* what is in progress, innermost last
  raising,   \* an exception is on its way out
  broken     \* a StackContextInconsistentError, or a pop of an empty list

sc == <<current, old, active, depth, captured, frames, raising, broken>>

Nothing == [stack |-> {}, head |-> NoContext]
Opened == DOMAIN old

Init ==
  /\ current = Nothing /\ old = <<>> /\ captured = <<>> /\ frames = <<>>
  /\ active = [c \in Contexts |-> TRUE] /\ depth = [c \in Contexts |-> 0]
  /\ raising = FALSE /\ broken = FALSE

Extend(f, x, v) == [y \in DOMAIN f \union {x} |-> IF y = x THEN v ELSE f[y]]

\* Nothing in S has an old_contexts outside of it.
Closed(o, S) == \A x \in S : o[x].head \in S \union {NoContext}

\* The chain of exception handlers from context c outwards: c, the head of its
\* old_contexts, and so on, which is the least set with c that is closed.
Chain(o, c) == {x \in DOMAIN o : \A S \in SUBSET DOMAIN o :
                  Closed(o, S) /\ c \in S \union {NoContext} => x \in S}

Frame(kind, what, contexts) ==
  [kind |-> kind, what |-> what, contexts |-> contexts, saved |-> current]

-----------------------------------------------------------------------------
\* A `with` block begins, under stack and c.
Begin(c, stack) ==
  LET new == [stack |-> stack, head |-> c]
  IN /\ ~raising /\ c \notin Opened /\ Len(frames) < MaxFrames
     /\ old' = Extend(old, c, current)
     /\ current' = new
     /\ frames' = Append(frames, Frame("with", c, new))
     /\ UNCHANGED <<active, captured, raising, broken>>

\* StackContext.__enter__
Enter(c) ==
  /\ c \in StackContexts /\ Begin(c, current.stack \union {c})
  /\ depth' = [depth EXCEPT ![c] = @ + 1]

\* ExceptionStackContext.__enter__
EnterException(c) ==
  c \in ExceptionContexts /\ Begin(c, current.stack) /\ UNCHANGED depth

\* NullContext.__enter__
EnterNull ==
  /\ ~raising /\ Len(frames) < MaxFrames
  /\ \A i \in DOMAIN frames : frames[i].kind # "null"
  /\ current' = Nothing
  /\ frames' = Append(frames, Frame("null", NoContext, Nothing))
  /\ UNCHANGED <<old, active, depth, captured, raising, broken>>

\* wrap: the contexts of this moment, for later.
Wrap(f) ==
  /\ ~raising /\ f \notin DOMAIN captured
  /\ captured' = Extend(captured, f, current)
  /\ UNCHANGED <<current, old, active, depth, frames, raising, broken>>

\* The deactivation callback.
Deactivate(c) ==
  /\ ~raising /\ c \in Opened /\ active[c]
  /\ DeactivateOpen \/ \A i \in DOMAIN frames :
       frames[i].kind = "null" \/ c \notin Chain(old, frames[i].contexts.head)
  /\ active' = [active EXCEPT ![c] = FALSE]
  /\ UNCHANGED <<current, old, depth, captured, frames, raising, broken>>

\* The first active context of the chain from c.
FirstActive(c) ==
  LET live == {x \in Chain(old, c) : active[x]}
  IN IF live = {} THEN NoContext ELSE CHOOSE x \in live : live \subseteq Chain(old, x)

\* A bug: only the deactivated contexts at the head leave the chain.
RemoveDeactivatedHead(contexts) ==
  [contexts |-> [stack |-> {c \in contexts.stack : active[c]},
                 head  |-> FirstActive(contexts.head)],
   old      |-> old]

\* _remove_deactivated: the contexts to enter without them, the first active one
\* of the chain, and each active one linked past the inactive ones behind it:
\* it gets the old_contexts of the last of these.
RemoveDeactivated(contexts) ==
  LET Last(c) == CHOOSE x \in Chain(old, c) : old[x].head = FirstActive(old[c].head)
  IN [contexts |-> [stack |-> {c \in contexts.stack : active[c]},
                    head  |-> FirstActive(contexts.head)],
      old      |-> [c \in Opened |-> IF active[c] /\ c \in Chain(old, contexts.head)
                                       THEN old[Last(c)] ELSE old[c]]]

\* wrapped(): whatever runs now is set aside and the contexts are entered.
Call(f) ==
  /\ ~raising /\ f \in DOMAIN captured /\ Len(frames) < MaxFrames
  /\ LET clean == RemoveDeactivated(captured[f]) IN
       /\ captured' = [captured EXCEPT ![f] = clean.contexts]
       /\ old' = clean.old
       /\ current' = clean.contexts
       /\ depth' = [c \in Contexts |->
            depth[c] + (IF c \in clean.contexts.stack THEN 1 ELSE 0)]
       /\ frames' = Append(frames, Frame("call", f, clean.contexts))
  /\ UNCHANGED <<active, raising, broken>>

\* context.exit() for each context of s; an empty list has nothing to pop.
Leave(s) ==
  /\ depth' = [c \in Contexts |-> IF c \in s /\ depth[c] > 0 THEN depth[c] - 1 ELSE depth[c]]
  /\ broken' = (broken \/ \E c \in s : depth[c] = 0)

-----------------------------------------------------------------------------
Top == frames[Len(frames)]
Pop == frames' = SubSeq(frames, 1, Len(frames) - 1)

\* A `with` block ends: restore what was before it, and complain if the
\* contexts are not the ones the block set up.
End ==
  /\ frames # <<>> /\ Top.kind = "with"
  /\ Pop
  /\ current' = old[Top.what]
  /\ broken' = (broken \/ current # Top.contexts)
  /\ UNCHANGED <<old, active, captured>>

\* StackContext.__exit__
ExitWith ==
  /\ End /\ Top.what \in StackContexts
  /\ depth' = [depth EXCEPT ![Top.what] = IF @ > 0 THEN @ - 1 ELSE @]
  /\ UNCHANGED raising

\* ExceptionStackContext.__exit__
ExitException ==
  /\ End /\ Top.what \in ExceptionContexts
  /\ raising' = (raising /\ Top.what \notin Consuming)
  /\ UNCHANGED depth

\* NullContext.__exit__
ExitNull ==
  /\ frames # <<>> /\ Top.kind = "null"
  /\ Pop
  /\ current' = Top.saved
  /\ UNCHANGED <<old, active, depth, captured, raising, broken>>

\* The wrapped function returns: its contexts are left one by one.
Return ==
  /\ ~raising /\ frames # <<>> /\ Top.kind = "call"
  /\ Pop
  /\ Leave(Top.contexts.stack)
  /\ current' = Top.saved
  /\ UNCHANGED <<old, active, captured, raising>>

\* The code that runs fails.
Fail ==
  /\ ~raising /\ frames # <<>> /\ raising' = TRUE
  /\ UNCHANGED <<current, old, active, depth, captured, frames, broken>>

\* The wrapped function failed: _handle_exception follows the chain, where
\* StackContexts are left and a handler may consume the exception.
HandleException ==
  /\ raising /\ frames # <<>> /\ Top.kind = "call"
  /\ Pop
  /\ LET chain == Chain(old, Top.contexts.head) IN
       /\ Leave(chain \intersect StackContexts)
       /\ raising' = (chain \intersect Consuming = {})
  /\ current' = Top.saved
  /\ UNCHANGED <<old, active, captured>>

\* Nobody caught it: the loop logs it.
Uncaught ==
  /\ raising /\ frames = <<>> /\ raising' = FALSE
  /\ UNCHANGED <<current, old, active, depth, captured, frames, broken>>

Next ==
  \/ \E c \in Contexts : Enter(c) \/ EnterException(c) \/ Deactivate(c)
  \/ \E f \in Functions_ : Wrap(f) \/ Call(f)
  \/ EnterNull \/ ExitWith \/ ExitException \/ ExitNull \/ Return \/ Fail \/ HandleException \/ Uncaught

Spec == Init /\ [][Next]_sc

-----------------------------------------------------------------------------
\* The contexts to enter and the chain say the same (stack_context.py:227-250), so that
\* whatever is entered is left, also when an exception goes by: every context
\* is entered exactly once for each block and each call in progress that
\* holds it, no block finds foreign contexts when it ends, and code outside of
\* everything runs under nothing.
ContextsAreLeft ==
  /\ ~broken
  /\ \A c \in StackContexts :
       depth[c] = Cardinality({ i \in DOMAIN frames :
                                  \/ frames[i].kind = "with" /\ frames[i].what = c
                                  \/ frames[i].kind = "call"
                                       /\ c \in frames[i].contexts.stack })
  /\ frames = <<>> => current = Nothing
=============================================================================
