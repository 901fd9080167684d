------------------------------- MODULE Routing -------------------------------
(***************************************************************************)
(* Which handler a request gets: Application of tornado.web, built with    *)
(* handlers or without, to which handlers for other hosts are added while  *)
(* it serves.  A host pattern is a host or "any", a path pattern a path or *)
(* "any"; a handler is named by its place: the group and the rule.         *)
(***************************************************************************)
EXTENDS Naturals, Sequences, FiniteSets, SequencesExt

CONSTANTS Hosts, Paths,
          MaxGroups \* bound: calls of add_handlers

VARIABLES
  groups,       \* what was given to each call of add_handlers: host, paths
  handlers,     \* Application.handlers: the groups' numbers, in order
  named,        \* named_handlers: the rule of each path that has its own name
  default_host,
  served        \* the last request since, and its handler

ro == <<groups, handlers, named, default_host, served>>

Wildcard == "any"
Matches(pattern, x) == pattern \in {Wildcard, x}

\* The paths of a group's rules.
Rules == { <<p>> : p \in Paths } \union { <<p, Wildcard>> : p \in Paths }

\* Rule j of group i.
Rule(i, j) == <<i, j>>
PathOf(rule) == groups[rule[1]].paths[rule[2]]

\* The rule at a place of the list: the number of the group in it, and of the rule.
RuleAt(place) == Rule(handlers[place[1]], place[2])
Before(p, q) == p[1] < q[1] \/ (p[1] = q[1] /\ p[2] <= q[2])

NotFound == <<0, 404>>
RedirectHandler == <<0, 302>>

Init ==
  /\ groups = <<>> /\ handlers = <<>> /\ named = [p \in Paths |-> <<>>]
  /\ default_host \in Hosts \union {""}
  /\ served = <<>>

-----------------------------------------------------------------------------
\* A bug: the order of the calls is the order of the groups.
InsertLast(i, host) == Append(handlers, i)

\* A new group comes last, or before the group for any host if that is last.
Insert(i, host) ==
  LET n == Len(handlers) IN
  IF n > 0 /\ groups[handlers[n]].host = Wildcard
    THEN SubSeq(handlers, 1, n - 1) \o <<i, handlers[n]>>
    ELSE Append(handlers, i)

\* add_handlers, by the constructor (for any host) or later.  A name means the
\* last rule that was given it.
AddHandlers(host, paths) ==
  LET i == Len(groups) + 1 IN
  /\ i <= MaxGroups
  /\ handlers' = Insert(i, host)
  /\ groups' = Append(groups, [host |-> host, paths |-> paths])
  /\ named' = [p \in Paths |->
       IF p \in Range(paths) THEN Rule(i, SelectInSeq(paths, LAMBDA q : q = p)) ELSE named[p]]
  /\ served' = <<>> /\ UNCHANGED default_host

\* _get_host_handlers: the places of all rules of all groups that match, or else of
\* those that match the default host, unless a proxy passed the request on.
GetHostHandlers(host, proxied) ==
  LET For(h) == UNION { {k} \X DOMAIN groups[handlers[k]].paths :
                        k \in { k \in DOMAIN handlers : Matches(groups[handlers[k]].host, h) } }
  IN IF For(host) = {} /\ ~proxied THEN For(default_host) ELSE For(host)

\* __call__: the first rule that matches.
Call(host, path, proxied) ==
  LET places == GetHostHandlers(host, proxied)
      matching == { p \in places : Matches(PathOf(RuleAt(p)), path) }
      first == CHOOSE p \in matching : \A q \in matching : Before(p, q)
  IN /\ served' = <<[host |-> host, path |-> path, proxied |-> proxied,
                     by |-> CASE places = {} -> RedirectHandler
                              [] places # {} /\ matching = {} -> NotFound
                              [] OTHER -> RuleAt(first)]>>
     /\ UNCHANGED <<groups, handlers, named, default_host>>

Next ==
  \/ \E host \in Hosts \union {Wildcard}, paths \in Rules : AddHandlers(host, paths)
  \/ \E host \in Hosts, path \in Paths, proxied \in BOOLEAN : Call(host, path, proxied)

Spec == Init /\ [][Next]_ro

-----------------------------------------------------------------------------
\* A request gets the most precise handler (web.py:1601-1648, 1693-1713,
\* 1746-1796): whatever order the groups were added in, the first matching rule
\* for its own host, else the first for any host, else of the default host if
\* nobody serves its own.  There is no handler only if there is no such rule.
\* (This takes a single group for any host: a second one hides the groups added
\* after it.)
RoutesArePrecise ==
  served # <<>> =>
    LET r == served[1]
        added == DOMAIN groups
        First(host) == \* the groups for this host before those for any
          LET Of(i) == { j \in DOMAIN groups[i].paths : Matches(groups[i].paths[j], r.path) }
              Least(S) == CHOOSE x \in S : \A y \in S : x <= y
              own == { i \in added : groups[i].host = host /\ Of(i) # {} }
              any == { i \in added : groups[i].host = Wildcard /\ Of(i) # {} }
              i == Least(IF own # {} THEN own ELSE any)
          IN IF own \union any = {} THEN NotFound ELSE <<i, Least(Of(i))>>
        Serves(host) == \E i \in added : Matches(groups[i].host, host)
    IN Cardinality({ i \in added : groups[i].host = Wildcard }) <= 1 =>
         r.by = (CASE Serves(r.host) -> First(r.host)
                   [] ~Serves(r.host) /\ ~r.proxied /\ Serves(default_host) -> First(default_host)
                   [] OTHER -> RedirectHandler)
=============================================================================
