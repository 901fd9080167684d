------------------------------ MODULE TCPServer ------------------------------
(***************************************************************************)
(* A server of several processes: TCPServer (tornado/tcpserver.py), the    *)
(* sockets it binds and accepts from (tornado/netutil.py), and             *)
(* fork_processes (tornado/process.py), whose parent starts a child for    *)
(* each task and starts it again when it dies.                             *)
(*                                                                         *)
(* The operating system is the table of processes, with pids that are used *)
(* again, and the listening sockets that they share.  Process 0 is the one *)
(* that starts the server.  Some of its children may be none of            *)
(* fork_processes'.  Whatever a process does may be cut short by its end.  *)
(***************************************************************************)
EXTENDS Integers, Sequences, FiniteSets

CONSTANTS Tasks,        \* range(num_processes)
          Pids,         \* of the children
          Sockets,      \* addresses that can be bound
          Conns,        \* connections that clients make
          MaxRestarts,  \* max_restarts
          MaxDeaths     \* ends of children

VARIABLES
  parent,    \* how far process 0 is
  server,    \* its TCPServer: _started, and its sockets _pending_sockets
  children,  \* task ids, by the pids of fork_processes' children
  restarts,  \* num_restarts
  proc,      \* the processes
  ended,     \* how the last process of each task ended
  backlog,   \* connections that wait at each socket
  conn       \* what became of each connection

vars == <<parent, server, children, restarts, proc, ended, backlog, conn>>

None == "none"
NoTask == -1
NoProc == [state |-> "free", status |-> None, task |-> NoTask, sockets |-> {},
           accepting |-> None]

TypeOK ==
  /\ parent \in {"setup", "forking", "waiting", "serving", "exited", "failed"}
  /\ server \in [started : BOOLEAN, pending : SUBSET Sockets]
  /\ children \in [Pids -> Tasks \cup {NoTask}] /\ restarts \in 0..MaxRestarts + 1
  /\ proc \in [Pids \cup {0} ->
       [state : {"free", "forked", "serving", "zombie"},
        status : {None, "zero", "nonzero", "signal"}, task : Tasks \cup {NoTask},
        sockets : SUBSET Sockets, accepting : Sockets \cup {None}]]
  /\ ended \in [Tasks -> {None, "zero", "nonzero", "signal"}]
  /\ backlog \in [Sockets -> Seq(Conns)]
  /\ conn \in [Conns -> {"new", "waiting", "aborted", "closed", "handled"}]

\* A child of the program's own may be there.
Init ==
  /\ parent = "setup" /\ server = [started |-> FALSE, pending |-> {}]
  /\ children = [p \in Pids |-> NoTask] /\ restarts = 0
  /\ \E strange \in {{}} \cup {{p} : p \in Pids} :
       proc = [p \in Pids \cup {0} |->
                 IF p = 0 THEN [NoProc EXCEPT !.state = "serving"]
                 ELSE IF p \in strange THEN [NoProc EXCEPT !.state = "serving"]
                 ELSE NoProc]
  /\ ended = [t \in Tasks |-> None]
  /\ backlog = [s \in Sockets |-> <<>>]
  /\ conn = [c \in Conns |-> "new"]

-----------------------------------------------------------------------------
(* Starting the server.                                                    *)

Bound == server.pending \cup UNION {proc[p].sockets : p \in DOMAIN proc}

\* bind_sockets: an address may have several, those of the families that the
\* host supports; one that is taken raises.
BindSockets == {some \in SUBSET Sockets : some # {} /\ some \cap Bound = {}}

\* bind(), before start() and after.
Bind(some) ==
  /\ parent \in {"setup", "serving"}
  /\ IF server.started
     THEN /\ proc' = [proc EXCEPT ![0].sockets = @ \cup some] /\ UNCHANGED server
     ELSE /\ server' = [server EXCEPT !.pending = @ \cup some] /\ UNCHANGED proc
  /\ UNCHANGED <<parent, children, restarts, ended, backlog, conn>>

\* listen(), add_sockets(): at once.
Listen(s) ==
  /\ parent = "setup" /\ s \notin Bound
  /\ proc' = [proc EXCEPT ![0].sockets = @ \cup {s}]
  /\ UNCHANGED <<parent, server, children, restarts, ended, backlog, conn>>

\* start() in this process, or with children, who must not share a loop.
Start ==
  /\ parent = "setup" /\ ~server.started
  /\ \/ /\ parent' = "serving" /\ server' = [started |-> TRUE, pending |-> {}]
        /\ proc' = [proc EXCEPT ![0].sockets = @ \cup server.pending]
     \/ /\ proc[0].sockets = {} /\ parent' = "forking"
        /\ server' = [server EXCEPT !.started = TRUE] /\ UNCHANGED proc
  /\ UNCHANGED <<children, restarts, ended, backlog, conn>>

-----------------------------------------------------------------------------
(* fork_processes.                                                         *)

\* start_child(t), in the parent, with what it knows of its children and the
\* processes at the time.
StartChild(t, known, table) ==
  \E p \in Pids :
    /\ table[p].state = "free"
    /\ proc' = [table EXCEPT ![p] = [NoProc EXCEPT !.state = "forked", !.task = t]]
    /\ children' = [known EXCEPT ![p] = t]

ForkFirst ==
  LET t == Cardinality({p \in Pids : children[p] # NoTask})
  IN  /\ parent = "forking"
      /\ IF t \in Tasks THEN StartChild(t, children, proc) /\ UNCHANGED parent
                        ELSE parent' = "waiting" /\ UNCHANGED <<proc, children>>
      /\ UNCHANGED <<server, restarts, ended, backlog, conn>>

\* The child returns from fork_processes, and its TCPServer adds the sockets.
ChildStarts(p) ==
  /\ proc[p].state = "forked"
  /\ proc' = [proc EXCEPT ![p].state = "serving", ![p].sockets = server.pending]
  /\ UNCHANGED <<parent, server, children, restarts, ended, backlog, conn>>

Deaths == Cardinality({p \in Pids : proc[p].state = "zombie"}) + restarts

Dies(p) ==
  /\ proc[p].state \in {"forked", "serving"} /\ Deaths < MaxDeaths
  /\ \E how \in {"zero", "nonzero", "signal"} :
       /\ proc' = [proc EXCEPT ![p] = [NoProc EXCEPT !.state = "zombie",
                                         !.status = how, !.task = proc[p].task]]
       /\ ended' = IF proc[p].task = NoTask THEN ended
                   ELSE [ended EXCEPT ![proc[p].task] = how]
  /\ UNCHANGED <<parent, server, children, restarts, backlog, conn>>

\* A bug: WEXITSTATUS is asked without WIFSIGNALED.
NormalUnlessNonzero(status) == status # "nonzero"

Normal(status) == status = "zero"

\* A bug: the child that ended is not taken out of children.
ReapKeeps(p) ==
  /\ parent = "waiting" /\ proc[p].state = "zombie"
  /\ IF children[p] = NoTask \/ Normal(proc[p].status)
     THEN proc' = [proc EXCEPT ![p] = NoProc] /\ UNCHANGED <<parent, restarts, children>>
     ELSE restarts' = restarts + 1 /\ UNCHANGED parent
          /\ StartChild(children[p], children, [proc EXCEPT ![p] = NoProc])
  /\ UNCHANGED <<server, ended, backlog, conn>>

\* os.wait() gives one of the children that ended.
Reap(p) ==
  /\ parent = "waiting" /\ \E q \in Pids : children[q] # NoTask
  /\ proc[p].state = "zombie"
  /\ LET t == children[p]
         table == [proc EXCEPT ![p] = NoProc]
         known == [children EXCEPT ![p] = NoTask]
     IN  IF t = NoTask \/ Normal(proc[p].status)
         THEN proc' = table /\ children' = known /\ UNCHANGED <<parent, restarts>>
         ELSE /\ restarts' = restarts + 1
              /\ IF restarts = MaxRestarts
                 THEN parent' = "failed" /\ proc' = table /\ children' = known
                 ELSE StartChild(t, known, table) /\ UNCHANGED parent
  /\ UNCHANGED <<server, ended, backlog, conn>>

ParentExits ==
  /\ parent = "waiting" /\ \A p \in Pids : children[p] = NoTask
  /\ parent' = "exited"
  /\ UNCHANGED <<server, children, restarts, proc, ended, backlog, conn>>

-----------------------------------------------------------------------------
(* Connections.                                                            *)

Connect(c, s) ==
  /\ conn[c] = "new" /\ s \in Bound
  /\ backlog' = [backlog EXCEPT ![s] = Append(@, c)]
  /\ conn' = [conn EXCEPT ![c] = "waiting"]
  /\ UNCHANGED <<parent, server, children, restarts, proc, ended>>

ClientAborts(c) ==
  /\ conn[c] = "waiting" /\ conn' = [conn EXCEPT ![c] = "aborted"]
  /\ UNCHANGED <<parent, server, children, restarts, proc, ended, backlog>>

Serves(p) == proc[p].state = "serving" /\ (p = 0 => parent = "serving")

\* The loop of p sees that s is readable: all who watch it may see it.
Wakes(p, s) ==
  /\ Serves(p) /\ s \in proc[p].sockets /\ proc[p].accepting = None
  /\ backlog[s] # <<>>
  /\ proc' = [proc EXCEPT ![p].accepting = s]
  /\ UNCHANGED <<parent, server, children, restarts, ended, backlog, conn>>

\* _handle_connection: an error of handle_stream is logged; the TLS wrapper may
\* find that the client has gone, or raise, which ends the accepting.
HandleConnection(c, raised) ==
  \/ /\ conn' \in {[conn EXCEPT ![c] = x] : x \in {"handled", "closed"}}
     /\ UNCHANGED proc
  \/ conn' = [conn EXCEPT ![c] = "closed"] /\ raised

\* accept() until there is none: another process may have been faster, or this
\* one stopped meanwhile, which raises.
Accept(p) ==
  LET s == proc[p].accepting
      done == proc' = [proc EXCEPT ![p].accepting = None]
      c == Head(backlog[s])
  IN  /\ Serves(p) /\ s # None
      /\ \/ /\ backlog[s] = <<>> \/ s \notin proc[p].sockets
            /\ done /\ UNCHANGED <<backlog, conn>>
         \/ /\ backlog[s] # <<>> /\ s \in proc[p].sockets
            /\ backlog' = [backlog EXCEPT ![s] = Tail(@)]
            /\ \/ conn[c] = "aborted" /\ UNCHANGED <<proc, conn>>
               \/ conn[c] = "waiting" /\ HandleConnection(c, done)
      /\ UNCHANGED <<parent, server, children, restarts, ended>>

Stop(p) ==
  /\ Serves(p) /\ proc[p].sockets # {}
  /\ proc' = [proc EXCEPT ![p].sockets = {}]
  /\ UNCHANGED <<parent, server, children, restarts, ended, backlog, conn>>

-----------------------------------------------------------------------------
Next ==
  \/ (\E some \in BindSockets : Bind(some)) \/ (\E s \in Sockets : Listen(s))
  \/ Start \/ ForkFirst \/ ParentExits
  \/ \E p \in Pids : ChildStarts(p) \/ Dies(p) \/ Reap(p)
  \/ \E c \in Conns : ClientAborts(c) \/ \E s \in Sockets : Connect(c, s)
  \/ \E p \in DOMAIN proc : Accept(p) \/ Stop(p) \/ \E s \in Sockets : Wakes(p, s)

Spec == Init /\ [][Next]_vars

\* The parent goes on, and children start.
Fairness == WF_vars(ForkFirst) /\ \A p \in Pids : WF_vars(ChildStarts(p)) /\ WF_vars(Reap(p))

FairSpec == Spec /\ Fairness

-----------------------------------------------------------------------------
(* Properties.                                                             *)

\* fork_processes ends without an error only when the last process of every
\* task ended by itself and well.
ExitMeansDone == parent = "exited" => \A t \in Tasks : ended[t] = "zero"

\* A task has one process, and the parent knows it, while there is a parent.
OneProcessEach ==
  parent \in {"forking", "waiting"} =>
    \A p \in Pids :
      /\ proc[p].task # NoTask => children[p] = proc[p].task
      /\ children[p] # NoTask => /\ proc[p].task = children[p]
                               /\ \A q \in Pids : children[q] = children[p] => q = p

\* A task whose process died badly gets another one, or the parent gives up,
\* or one that it started since ended well.
TasksComeBack ==
  \A t \in Tasks :
    (parent = "waiting" /\ ended[t] \in {"nonzero", "signal"}
       /\ \A p \in Pids : proc[p].task = t => proc[p].state = "zombie")
    ~> \/ parent = "failed" \/ ended[t] = "zero"
       \/ \E p \in Pids : proc[p].task = t /\ proc[p].state = "serving"
=============================================================================
