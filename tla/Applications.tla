----------------------------- MODULE Applications -----------------------------
(***************************************************************************)
(* What an application is made of: the routing of a request to its handler *)
(* (module Routing), the handler (RequestHandler), files (StaticFile), the *)
(* parser of its templates (TemplateParser), what they compile to          *)
(* (TemplateInheritance), logins (Auth), and the contexts its callbacks    *)
(* run in (StackContext).  They share nothing and are checked side by      *)
(* side, as one specification.                                             *)
(***************************************************************************)
EXTENDS Integers, Sequences, FiniteSets

CONSTANTS Hosts, Paths, MaxGroups,
          Errors, MaxOps,
          MaxSize, MaxVersion, ChunkSize, MaxGets,
          MaxTags,
          Tabs, Mixins,
          StackContexts, ExceptionContexts, Consuming, Functions_, DeactivateOpen,
          MaxFrames

ASSUME HostsAssumption == "" \notin Hosts

ASSUME ContextsAssumption == "none" \notin StackContexts \union ExceptionContexts

ASSUME ApplicationsAssumption ==
  /\ MaxGroups \in Nat /\ MaxOps \in Nat
  /\ MaxSize \in Nat /\ MaxVersion \in Nat /\ ChunkSize \in Nat \ {0} /\ MaxGets \in Nat
  /\ MaxTags \in Nat /\ MaxFrames \in Nat
  /\ StackContexts \cap ExceptionContexts = {} /\ Consuming \subseteq ExceptionContexts
  /\ DeactivateOpen \in BOOLEAN
  /\ Mixins # {} /\ Mixins \subseteq {"openid", "oauth", "twitter", "friendfeed", "google",
                                     "facebook", "facebookgraph"}

VARIABLES
  part,   \* "routing", "handler", "file", "parser", "templates", "login", "contexts"
  groups, handlers, named, default_host, served,
  request, app, response, where, inExecute, autoFinish, awaiting, outcome, callbacks,
  closed, told, failed, ops,
  file, dates, hashes, debug, copy, get, at, stat, etag, range, pos, remaining, body,
  sources, status, contentRange, seen, gets,
  tags, parsing, parsed,
  files, templates, compiled,
  mixin, style, logs, jar, login,
  current, old, active, depth, captured, frames, raising, broken

Route       == INSTANCE Routing
Handler     == INSTANCE RequestHandler
Static      == INSTANCE StaticFile WITH told <- contentRange
Parser      == INSTANCE TemplateParser
Template    == INSTANCE TemplateInheritance
Mixin       == INSTANCE Auth
Context     == INSTANCE StackContext

routing == <<groups, handlers, named, default_host, served>>
handling == <<request, app, response, where, inExecute, autoFinish, awaiting, outcome,
              callbacks, closed, told, failed, ops>>
serving == <<file, dates, hashes, debug, copy, get, at, stat, etag, range, pos, remaining,
             body, sources, status, contentRange, seen, gets>>
reading == <<tags, parsing, parsed>>
compiling == <<files, templates, compiled>>
entering == <<mixin, style, logs, jar, login>>
wrapping == <<current, old, active, depth, captured, frames, raising, broken>>
vars == <<part, routing, handling, serving, reading, compiling, entering, wrapping>>

\* The parts that stand still begin in one way.
Init ==
  /\ part \in {"routing", "handler", "file", "parser", "templates", "login", "contexts"}
  /\ Route!Init /\ (part # "routing" => default_host = "")
  /\ Handler!Init
  /\ part # "handler" => /\ request.method = "GET" /\ request.client = "http10"
                         /\ request.etags = {} /\ app.asynchronous /\ app.pageFails
  /\ Static!Init /\ (part # "file" => file.size = 0 /\ ~debug)
  /\ Parser!Init
  /\ part # "templates" => files = [page |-> <<Template!Include>>, base |-> <<Template!Include>>,
                                    part |-> <<Template!Expression("part", {})>>]
  /\ Template!Init
  /\ Mixin!Init
  /\ part # "login" => mixin = (CHOOSE m \in Mixins : TRUE) /\ style = "callback" /\ ~logs
  /\ Context!Init

Next ==
  /\ UNCHANGED part
  /\ \/ /\ part = "routing" /\ Route!Next
        /\ UNCHANGED <<handling, serving, reading, compiling, entering, wrapping>>
     \/ /\ part = "handler" /\ Handler!Next
        /\ UNCHANGED <<routing, serving, reading, compiling, entering, wrapping>>
     \/ /\ part = "file" /\ Static!Next
        /\ UNCHANGED <<routing, handling, reading, compiling, entering, wrapping>>
     \/ /\ part = "parser" /\ Parser!Next
        /\ UNCHANGED <<routing, handling, serving, compiling, entering, wrapping>>
     \/ /\ part = "templates" /\ Template!Next
        /\ UNCHANGED <<routing, handling, serving, reading, entering, wrapping>>
     \/ /\ part = "login" /\ Mixin!Next
        /\ UNCHANGED <<routing, handling, serving, reading, compiling, wrapping>>
     \/ /\ part = "contexts" /\ Context!Next
        /\ UNCHANGED <<routing, handling, serving, reading, compiling, entering>>

\* The fairness of RequestHandler and Auth, for the part that runs.
Fairness == []<>(part = "handler" => Handler!Idle) /\ Mixin!Fairness

Spec == Init /\ [][Next]_vars /\ Fairness

-----------------------------------------------------------------------------
(* The parts' properties; the modules state them.                          *)

\* A request gets the most precise handler there is for it.
RoutesArePrecise == Route!RoutesArePrecise

\* A client can tell where each response ends.
ResponsesAreFramed == Handler!ResponsesAreFramed

\* A finished handler sends no more and is told no more.
EndedStaysEnded == Handler!EndedStaysEnded

\* Every request is answered, or its connection ends.
RequestsEnd == Handler!RequestsEnd

\* A partial response is the part of the file that was asked for.
RangesAreServed == Static!RangesAreServed

\* "Not Modified" is said of no copy older than what it is compared with.
NotModifiedIsTrue == Static!NotModifiedIsTrue

\* The parser takes exactly the templates that make sense.
ParserTakesTheRightTemplates == Parser!ParserTakesTheRightTemplates

\* An expression is escaped as its file says, and a page's blocks replace the base's.
TemplatesCompose == Template!TemplatesCompose

\* A login gives the user who logged in.
LoginsGiveTheirUser == Mixin!LoginsGiveTheirUser

\* No login hangs.
LoginsEnd == Mixin!LoginsEnd

\* Contexts are left as often as they are entered.
ContextsAreLeft == Context!ContextsAreLeft
=============================================================================
