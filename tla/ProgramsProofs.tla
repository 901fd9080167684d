--------------------------- MODULE ProgramsProofs ---------------------------
(***************************************************************************)
(* Proofs about Programs, for any numbers of tasks, processes, callbacks   *)
(* and yield points.  Each of the programs has an invariant of its own,    *)
(* which the steps of the others leave alone.                              *)
(***************************************************************************)
EXTENDS Programs, FiniteSetTheorems, TLAPS

-----------------------------------------------------------------------------
(* The server of several processes.                                        *)

NoTask == Server!NoTask

Process ==
  [state : {"free", "forked", "serving", "zombie"},
   status : {"none", "zero", "nonzero", "signal"}, task : Tasks \cup {NoTask},
   sockets : SUBSET Sockets, accepting : Sockets \cup {"none"}]

\* Server!TypeOK, with its parts named, and the bound that makes it inductive.
ServerTypes ==
  /\ parent \in {"setup", "forking", "waiting", "serving", "exited", "failed"}
  /\ server \in [started : BOOLEAN, pending : SUBSET Sockets]
  /\ children \in [Pids -> Tasks \cup {NoTask}]
  /\ restarts \in 0..MaxRestarts + 1
  /\ parent # "failed" => restarts <= MaxRestarts
  /\ proc \in [Pids \cup {0} -> Process]
  /\ ended \in [Tasks -> {"none", "zero", "nonzero", "signal"}]
  /\ backlog \in [Sockets -> Seq(Conns)]
  /\ conn \in [Conns -> {"new", "waiting", "aborted", "closed", "handled"}]

\* The pids in fork_processes' children.
Known == {p \in Pids : children[p] # NoTask}

\* No process is of a task.
NoneForked == \A p \in Pids : children[p] = NoTask /\ proc[p].task = NoTask

\* What Server!OneProcessEach says, of a table of processes and what the parent
\* knows of its children; a pid that is free is of no task, and a zombie keeps the
\* last status of its task.
EachOK(table, known) ==
  \A p \in Pids :
    /\ table[p].task # NoTask => known[p] = table[p].task
    /\ known[p] # NoTask => /\ table[p].task = known[p]
                          /\ \A q \in Pids : known[q] = known[p] => q = p
    /\ table[p].state = "free" => table[p].task = NoTask
    /\ table[p].state = "zombie" /\ table[p].task # NoTask =>
         table[p].status = ended[table[p].task]

Tables == [Pids \cup {0} -> Process]
Childrens == [Pids -> Tasks \cup {NoTask}]

\* The tasks that have a process are those before the k-th.
ForkedSoFar ==
  \E k \in Nat : /\ IsFiniteSet(Known) /\ Cardinality(Known) = k
                 /\ \A t \in Tasks : t < k <=> \E p \in Pids : children[p] = t

\* No task is forgotten: it ended well, or has a process.
NoneForgotten ==
  \A t \in Tasks : ended[t] = "zero" \/ \E p \in Pids : children[p] = t

TasksOK ==
  /\ parent \in {"setup", "exited"} => NoneForked
  /\ parent \in {"forking", "waiting"} => EachOK(proc, children)
  /\ parent = "forking" => ForkedSoFar
  /\ parent = "waiting" => NoneForgotten
  /\ parent = "exited" => \A t \in Tasks : ended[t] = "zero"

\* Tasks are numbers from 0, and 0 is the parent's pid.
LEMMA TasksAreNumbers ==
  /\ Tasks \subseteq Nat /\ NoTask \notin Tasks /\ NoTask = -1 /\ 0 \notin Pids
  /\ IsFiniteSet(Tasks) /\ Cardinality(Tasks) \in Nat
  /\ \A t : t \in Tasks <=> t \in Nat /\ t < Cardinality(Tasks)
<1>1. IsFiniteSet(Tasks) /\ Cardinality(Tasks) \in Nat
  BY ProgramsAssumption, FS_CardinalityType
<1>2. Tasks = 0..(Cardinality(Tasks) - 1)
  BY ProgramsAssumption
<1>3. \A n \in Nat : \A t : t \in 0..(n - 1) <=> t \in Nat /\ t < n
  OBVIOUS
<1>4. \A t : t \in Tasks <=> t \in Nat /\ t < Cardinality(Tasks)
  BY <1>1, <1>2, <1>3
<1> QED
  BY <1>1, <1>4, ProgramsAssumption DEF NoTask, Server!NoTask

\* A process of no task.
LEMMA NoProcOK == Server!NoProc \in Process /\ Server!NoProc.task = NoTask
BY DEF Server!NoProc, Process, NoTask, Server!None

\* A step that only touches sockets leaves the tasks as they are.
LEMMA SocketStep ==
  ASSUME ServerTypes, TasksOK, UNCHANGED <<children, ended>>,
         \A p \in Pids : /\ proc'[p].state = proc[p].state
                         /\ proc'[p].status = proc[p].status
                         /\ proc'[p].task = proc[p].task,
         parent' \in {parent, "serving"}
  PROVE  TasksOK'
<1>1. CASE parent' = "serving"
  BY <1>1 DEF TasksOK
<1>2. CASE parent' = parent
  <2>1. NoneForked => NoneForked'
    BY DEF NoneForked
  <2>2. EachOK(proc, children) => EachOK(proc, children)'
    BY DEF EachOK
  <2>3. ForkedSoFar => ForkedSoFar'
    BY DEF ForkedSoFar, Known
  <2>4. NoneForgotten => NoneForgotten'
    BY DEF NoneForgotten
  <2> QED
    BY <1>2, <2>1, <2>2, <2>3, <2>4 DEF TasksOK
<1> QED
  BY <1>1, <1>2

\* Steps that touch sockets: bind(), listen(), start() in this process, stop(),
\* the clients and the accepting.
LEMMA SocketTypes ==
  ASSUME ServerTypes,
         \/ \E some \in Server!BindSockets : Server!Bind(some)
         \/ \E s \in Sockets : Server!Listen(s)
         \/ \E c \in Conns :
              Server!ClientAborts(c) \/ \E s \in Sockets : Server!Connect(c, s)
         \/ \E p \in DOMAIN proc :
              Server!Accept(p) \/ Server!Stop(p) \/ \E s \in Sockets : Server!Wakes(p, s)
  PROVE  /\ ServerTypes'
         /\ UNCHANGED <<parent, children, ended>>
         /\ \A p \in Pids : /\ proc'[p].state = proc[p].state
                            /\ proc'[p].status = proc[p].status
                            /\ proc'[p].task = proc[p].task
<1> DEFINE SameTasks == \A p \in Pids : /\ proc'[p].state = proc[p].state
                                        /\ proc'[p].status = proc[p].status
                                        /\ proc'[p].task = proc[p].task
<1>1. DOMAIN proc = Pids \cup {0} /\ 0 \in Pids \cup {0}
  BY DEF ServerTypes
<1>2. ASSUME NEW p \in Pids \cup {0}, NEW set \in SUBSET Sockets,
             proc' = [proc EXCEPT ![p].sockets = set]
      PROVE  proc' \in [Pids \cup {0} -> Process] /\ SameTasks
  <2> DEFINE q == [proc[p] EXCEPT !.sockets = set]
  <2>1. proc[p] \in Process /\ proc \in [Pids \cup {0} -> Process]
    BY DEF ServerTypes
  <2>2. /\ q \in Process /\ q.state = proc[p].state
        /\ q.status = proc[p].status /\ q.task = proc[p].task
    BY <2>1 DEF Process
  <2>3. proc' = [proc EXCEPT ![p] = q]
    BY <1>2
  <2> HIDE DEF q
  <2> QED
    BY <2>1, <2>2, <2>3
<1>3. ASSUME NEW p \in Pids \cup {0}, NEW s \in Sockets \cup {"none"},
             proc' = [proc EXCEPT ![p].accepting = s]
      PROVE  proc' \in [Pids \cup {0} -> Process] /\ SameTasks
  <2> DEFINE q == [proc[p] EXCEPT !.accepting = s]
  <2>1. proc[p] \in Process /\ proc \in [Pids \cup {0} -> Process]
    BY DEF ServerTypes
  <2>2. /\ q \in Process /\ q.state = proc[p].state
        /\ q.status = proc[p].status /\ q.task = proc[p].task
    BY <2>1 DEF Process
  <2>3. proc' = [proc EXCEPT ![p] = q]
    BY <1>3
  <2> HIDE DEF q
  <2> QED
    BY <2>1, <2>2, <2>3
<1>4. \A p \in Pids \cup {0} : /\ proc[p].sockets \in SUBSET Sockets
                               /\ proc[p].accepting \in Sockets \cup {"none"}
  BY DEF ServerTypes, Process
<1>5. ASSUME NEW some \in Server!BindSockets, Server!Bind(some)
      PROVE  ServerTypes' /\ UNCHANGED <<parent, children, ended>> /\ SameTasks
  <2>1. some \in SUBSET Sockets
    BY DEF Server!BindSockets
  <2>2. CASE server.started
    <3>1. proc' = [proc EXCEPT ![0].sockets = proc[0].sockets \cup some]
      BY <1>5, <2>2 DEF Server!Bind
    <3>2. proc' \in [Pids \cup {0} -> Process] /\ SameTasks
      <4>1. proc[0].sockets \cup some \in SUBSET Sockets
        BY <1>4, <2>1
      <4> HIDE DEF SameTasks
      <4> QED
        BY <1>1, <1>2, <3>1, <4>1
    <3> QED
      BY <1>5, <2>2, <3>2 DEF Server!Bind, ServerTypes
  <2>3. CASE ~server.started
    BY <1>5, <2>1, <2>3 DEF Server!Bind, ServerTypes
  <2> QED
    BY <2>2, <2>3
<1>6. ASSUME NEW s \in Sockets, Server!Listen(s)
      PROVE  ServerTypes' /\ UNCHANGED <<parent, children, ended>> /\ SameTasks
  <2>1. proc' = [proc EXCEPT ![0].sockets = proc[0].sockets \cup {s}]
    BY <1>6 DEF Server!Listen
  <2>2. proc' \in [Pids \cup {0} -> Process] /\ SameTasks
    <3>1. proc[0].sockets \cup {s} \in SUBSET Sockets
      BY <1>4
    <3> HIDE DEF SameTasks
    <3> QED
      BY <1>1, <1>2, <2>1, <3>1
  <2> QED
    BY <1>6, <2>2 DEF Server!Listen, ServerTypes
<1>7. ASSUME NEW c \in Conns, Server!ClientAborts(c)
      PROVE  ServerTypes' /\ UNCHANGED <<parent, children, ended>> /\ SameTasks
  BY <1>7 DEF Server!ClientAborts, ServerTypes
<1>8. ASSUME NEW c \in Conns, NEW s \in Sockets, Server!Connect(c, s)
      PROVE  ServerTypes' /\ UNCHANGED <<parent, children, ended>> /\ SameTasks
  <2>1. backlog' \in [Sockets -> Seq(Conns)]
    BY <1>8 DEF Server!Connect, ServerTypes
  <2> QED
    BY <1>8, <2>1 DEF Server!Connect, ServerTypes
<1>9. ASSUME NEW p \in Pids \cup {0}, Server!Accept(p)
      PROVE  ServerTypes' /\ UNCHANGED <<parent, children, ended>> /\ SameTasks
  <2> DEFINE s == proc[p].accepting
             c == Head(backlog[s])
             done == proc' = [proc EXCEPT ![p].accepting = "none"]
  <2>1. s \in Sockets
    BY <1>4, <1>9 DEF Server!Accept, Server!None
  <2>2. done => proc' \in [Pids \cup {0} -> Process] /\ SameTasks
    BY <1>3
  <2>3. UNCHANGED proc => proc' \in [Pids \cup {0} -> Process] /\ SameTasks
    BY DEF ServerTypes
  <2>4. CASE backlog[s] = <<>> \/ s \notin proc[p].sockets
    <3>1. done /\ UNCHANGED <<parent, server, children, restarts, ended, backlog, conn>>
      BY <1>9, <2>4 DEF Server!Accept, Server!None
    <3> QED
      BY <2>2, <3>1 DEF ServerTypes
  <2>5. CASE backlog[s] # <<>> /\ s \in proc[p].sockets
    <3>1. backlog[s] \in Seq(Conns) /\ c \in Conns /\ Tail(backlog[s]) \in Seq(Conns)
      BY <2>1, <2>5 DEF ServerTypes
    <3>2. /\ backlog' = [backlog EXCEPT ![s] = Tail(@)]
          /\ UNCHANGED <<parent, server, children, restarts, ended>>
          /\ \/ UNCHANGED <<proc, conn>>
             \/ Server!HandleConnection(c, done)
      BY <1>9, <2>5 DEF Server!Accept, Server!None
    <3>3. backlog' \in [Sockets -> Seq(Conns)]
      BY <2>1, <3>1, <3>2 DEF ServerTypes
    <3>4. /\ conn' \in [Conns -> {"new", "waiting", "aborted", "closed", "handled"}]
          /\ UNCHANGED proc \/ done
      BY <3>1, <3>2 DEF Server!HandleConnection, ServerTypes
    <3> QED
      BY <2>2, <2>3, <3>2, <3>3, <3>4 DEF ServerTypes
  <2> QED
    BY <2>4, <2>5
<1>10. ASSUME NEW p \in Pids \cup {0}, Server!Stop(p)
       PROVE  ServerTypes' /\ UNCHANGED <<parent, children, ended>> /\ SameTasks
  <2>1. proc' \in [Pids \cup {0} -> Process] /\ SameTasks
    <3>1. {} \in SUBSET Sockets /\ proc' = [proc EXCEPT ![p].sockets = {}]
      BY <1>10 DEF Server!Stop
    <3> HIDE DEF SameTasks
    <3> QED
      BY <1>2, <3>1
  <2> QED
    BY <1>10, <2>1 DEF Server!Stop, ServerTypes
<1>11. ASSUME NEW p \in Pids \cup {0}, NEW s \in Sockets, Server!Wakes(p, s)
       PROVE  ServerTypes' /\ UNCHANGED <<parent, children, ended>> /\ SameTasks
  <2>1. proc' \in [Pids \cup {0} -> Process] /\ SameTasks
    BY <1>3, <1>11 DEF Server!Wakes
  <2> QED
    BY <1>11, <2>1 DEF Server!Wakes, ServerTypes
<1> QED
  BY <1>1, <1>5, <1>6, <1>7, <1>8, <1>9, <1>10, <1>11

\* start_child gives a task that has no process one, under a pid that is free.
LEMMA StartChildOK ==
  ASSUME NEW table \in Tables, NEW known \in Childrens, NEW t \in Tasks,
         EachOK(table, known), \A q \in Pids : known[q] # t,
         Server!StartChild(t, known, table), ended' = ended
  PROVE  /\ proc' \in Tables /\ children' \in Childrens
         /\ EachOK(proc, children)'
         /\ \E p \in Pids : known[p] = NoTask /\ children' = [known EXCEPT ![p] = t]
<1>1. PICK p \in Pids :
        /\ table[p].state = "free"
        /\ proc' = [table EXCEPT ![p] =
                      [Server!NoProc EXCEPT !.state = "forked", !.task = t]]
        /\ children' = [known EXCEPT ![p] = t]
  BY DEF Server!StartChild
<1> DEFINE new == [Server!NoProc EXCEPT !.state = "forked", !.task = t]
<1>2. new \in Process /\ new.state = "forked" /\ new.task = t
  BY DEF Server!NoProc, Process, Server!None
<1> HIDE DEF new
<1>3. proc' = [table EXCEPT ![p] = new]
  BY <1>1 DEF new
<1>4. proc' \in Tables /\ children' \in Childrens
  BY <1>1, <1>2, <1>3 DEF Tables, Childrens
<1>5. /\ proc'[p] = new /\ children'[p] = t
      /\ \A q \in Pids \ {p} : proc'[q] = table[q] /\ children'[q] = known[q]
  BY <1>1, <1>3 DEF Tables, Childrens
<1>6. known[p] = NoTask /\ t # NoTask
  <2>1. known[p] = NoTask
    BY <1>1 DEF EachOK
  <2> QED
    BY <2>1, TasksAreNumbers
<1>7. EachOK(proc', children')
  <2> SUFFICES ASSUME NEW q \in Pids
      PROVE  /\ proc'[q].task # NoTask => children'[q] = proc'[q].task
             /\ children'[q] # NoTask =>
                  /\ proc'[q].task = children'[q]
                  /\ \A u \in Pids : children'[u] = children'[q] => u = q
             /\ proc'[q].state = "free" => proc'[q].task = NoTask
             /\ proc'[q].state = "zombie" /\ proc'[q].task # NoTask =>
                  proc'[q].status = ended[proc'[q].task]
    BY DEF EachOK
  <2>1. CASE q = p
    <3>1. \A u \in Pids : children'[u] = t => u = p
      BY <1>5
    <3> QED
      BY <1>2, <1>5, <2>1, <3>1
  <2>2. CASE q # p
    BY <1>5, <2>2 DEF EachOK
  <2> QED
    BY <2>1, <2>2
<1> QED
  BY <1>1, <1>4, <1>6, <1>7 DEF EachOK

\* start(): with no child yet, the first to fork is task 0.
LEMMA StartStep ==
  ASSUME ServerTypes, TasksOK, Server!Start
  PROVE  ServerTypes' /\ TasksOK'
<1>1. CASE parent' = "serving"
  <2> DEFINE set == proc[0].sockets \cup server.pending
             q == [proc[0] EXCEPT !.sockets = set]
  <2>1. /\ parent = "setup" /\ server' = [started |-> TRUE, pending |-> {}]
        /\ proc' = [proc EXCEPT ![0].sockets = set]
        /\ UNCHANGED <<children, restarts, ended, backlog, conn>>
    BY <1>1 DEF Server!Start
  <2>2. proc[0] \in Process /\ set \in SUBSET Sockets
    BY DEF ServerTypes, Process
  <2> HIDE DEF set
  <2>3. q \in Process /\ proc' = [proc EXCEPT ![0] = q]
    BY <2>1, <2>2 DEF Process
  <2> HIDE DEF q
  <2>4. proc' \in [Pids \cup {0} -> Process]
    BY <2>3 DEF ServerTypes
  <2> QED
    BY <1>1, <2>1, <2>4 DEF ServerTypes, TasksOK
<1>2. CASE parent' # "serving"
  <2>1. /\ parent = "setup" /\ parent' = "forking"
        /\ server' = [server EXCEPT !.started = TRUE]
        /\ UNCHANGED <<proc, children, restarts, ended, backlog, conn>>
    BY <1>2 DEF Server!Start
  <2>2. ServerTypes'
    BY <2>1 DEF ServerTypes
  <2>3. NoneForked
    BY <2>1 DEF TasksOK
  <2>4. EachOK(proc', children')
    BY <2>1, <2>3 DEF EachOK, NoneForked
  <2>5. ForkedSoFar'
    <3>1. Known' = {}
      BY <2>1, <2>3 DEF NoneForked, Known
    <3>2. IsFiniteSet(Known') /\ Cardinality(Known') = 0
      BY <3>1, FS_EmptySet
    <3>3. \A t \in Tasks : ~(t < 0) /\ ~\E p \in Pids : children'[p] = t
      BY <2>1, <2>3, TasksAreNumbers DEF NoneForked
    <3> QED
      BY <3>2, <3>3 DEF ForkedSoFar
  <2> QED
    BY <2>1, <2>2, <2>4, <2>5 DEF TasksOK, EachOK
<1> QED
  BY <1>1, <1>2

\* (An INSTANCE has a Cardinality of its own, defined as this one is.)
LEMMA ServerCardinality == \A S : Server!Cardinality(S) = Cardinality(S)
BY DEF Server!Cardinality, Cardinality

\* The parent starts a child for the next task, or has one for each.
LEMMA ForkStep ==
  ASSUME ServerTypes, TasksOK, Server!ForkFirst
  PROVE  ServerTypes' /\ TasksOK'
<1> DEFINE t == Cardinality(Known)
<1>1. /\ parent = "forking" /\ UNCHANGED <<server, restarts, ended, backlog, conn>>
      /\ IF t \in Tasks THEN Server!StartChild(t, children, proc) /\ UNCHANGED parent
                        ELSE parent' = "waiting" /\ UNCHANGED <<proc, children>>
  <2>1. Cardinality({p \in Pids : children[p] # Server!NoTask}) = t
    BY DEF Known, NoTask
  <2>2. Server!Cardinality({p \in Pids : children[p] # Server!NoTask}) = t
    BY <2>1, ServerCardinality
  <2> HIDE DEF t
  <2> QED
    BY <2>2 DEF Server!ForkFirst
<1>2. PICK k \in Nat : /\ IsFiniteSet(Known) /\ t = k
                       /\ \A u \in Tasks : u < k <=> \E p \in Pids : children[p] = u
  BY <1>1 DEF TasksOK, ForkedSoFar
<1>3. EachOK(proc, children) /\ proc \in Tables /\ children \in Childrens
  BY <1>1 DEF TasksOK, ServerTypes, Tables, Childrens
<1>4. CASE t \in Tasks
  <2>1. \A q \in Pids : children[q] # t
    BY <1>2, <1>4
  <2>2. PICK p \in Pids : children[p] = NoTask /\ children' = [children EXCEPT ![p] = t]
    BY <1>1, <1>3, <1>4, <2>1, StartChildOK
  <2>3. proc' \in Tables /\ children' \in Childrens /\ EachOK(proc, children)'
    BY <1>1, <1>3, <1>4, <2>1, StartChildOK
  <2>4. ServerTypes'
    BY <1>1, <1>4, <2>3 DEF ServerTypes, Tables, Childrens
  <2>5. ForkedSoFar'
    <3>1. Known' = Known \cup {p} /\ p \notin Known
      BY <1>3, <1>4, <2>2, TasksAreNumbers DEF Known, Childrens
    <3> HIDE DEF t
    <3>2. IsFiniteSet(Known') /\ Cardinality(Known') = k + 1
      BY <1>2, <3>1, FS_AddElement DEF t
    <3>3. ASSUME NEW u \in Tasks
          PROVE  u < k + 1 <=> \E q \in Pids : children'[q] = u
      <4>1. u \in Nat /\ (u < k + 1 <=> u < k \/ u = k)
        BY TasksAreNumbers
      <4>2. \A q \in Pids \ {p} : children'[q] = children[q]
        BY <1>3, <2>2 DEF Childrens
      <4>3. u # NoTask /\ children[p] = NoTask
        BY <2>2, TasksAreNumbers
      <4>4. children'[p] = k
        BY <1>2, <1>3, <2>2 DEF Childrens
      <4>5. ASSUME u < k + 1 PROVE \E q \in Pids : children'[q] = u
        <5>1. CASE u = k
          BY <4>4, <5>1
        <5>2. CASE u # k
          <6>1. PICK q \in Pids : children[q] = u
            BY <1>2, <4>1, <4>5, <5>2
          <6> QED
            BY <4>2, <4>3, <6>1
        <5> QED
          BY <5>1, <5>2
      <4>6. ASSUME NEW q \in Pids, children'[q] = u PROVE u < k + 1
        <5>1. CASE q = p
          BY <4>1, <4>4, <4>6, <5>1
        <5>2. CASE q # p
          BY <1>2, <4>1, <4>2, <4>6, <5>2
        <5> QED
          BY <5>1, <5>2
      <4> QED
        BY <4>5, <4>6
    <3> QED
      BY <3>2, <3>3 DEF ForkedSoFar
  <2> QED
    BY <1>1, <1>4, <2>3, <2>4, <2>5 DEF TasksOK, EachOK
<1>5. CASE t \notin Tasks
  <2>1. parent' = "waiting" /\ UNCHANGED <<proc, children, ended>>
    BY <1>1, <1>5
  <2>2. ServerTypes'
    BY <1>1, <2>1 DEF ServerTypes
  <2>3. \A u \in Tasks : u < k
    BY <1>2, <1>5, TasksAreNumbers
  <2>4. NoneForgotten'
    BY <1>2, <2>1, <2>3 DEF NoneForgotten
  <2>5. EachOK(proc, children)'
    BY <1>3, <2>1 DEF EachOK
  <2> QED
    BY <2>1, <2>2, <2>4, <2>5 DEF TasksOK
<1> QED
  BY <1>4, <1>5

\* A child returns from fork_processes.
LEMMA ChildStartsStep ==
  ASSUME ServerTypes, TasksOK, NEW p \in Pids, Server!ChildStarts(p)
  PROVE  ServerTypes' /\ TasksOK'
<1> DEFINE q == [proc[p] EXCEPT !.state = "serving", !.sockets = server.pending]
<1>1. proc[p] \in Process /\ server.pending \in SUBSET Sockets
  BY DEF ServerTypes
<1>2. /\ q \in Process /\ q.state = "serving"
      /\ q.status = proc[p].status /\ q.task = proc[p].task
  BY <1>1 DEF Process
<1>3. /\ proc' = [proc EXCEPT ![p] = q]
      /\ UNCHANGED <<parent, server, children, restarts, ended, backlog, conn>>
  BY DEF Server!ChildStarts
<1> HIDE DEF q
<1>4. proc' \in Tables
  BY <1>2, <1>3 DEF ServerTypes, Tables
<1>5. ServerTypes'
  BY <1>3, <1>4 DEF ServerTypes, Tables
<1>6. proc'[p] = q /\ \A u \in Pids \ {p} : proc'[u] = proc[u]
  BY <1>3 DEF ServerTypes
<1>7. NoneForked => NoneForked'
  BY <1>2, <1>3, <1>6 DEF NoneForked
<1>8. EachOK(proc, children) => EachOK(proc, children)'
  BY <1>2, <1>3, <1>6 DEF EachOK
<1>9. (ForkedSoFar => ForkedSoFar') /\ (NoneForgotten => NoneForgotten')
  BY <1>3 DEF ForkedSoFar, Known, NoneForgotten
<1> QED
  BY <1>3, <1>5, <1>7, <1>8, <1>9 DEF TasksOK

\* A child ends; only the last process of a task decides how the task ended.
LEMMA DiesStep ==
  ASSUME ServerTypes, TasksOK, NEW p \in Pids, Server!Dies(p)
  PROVE  ServerTypes' /\ TasksOK'
<1>1. PICK how \in {"zero", "nonzero", "signal"} :
        /\ proc' = [proc EXCEPT ![p] = [Server!NoProc EXCEPT !.state = "zombie",
                      !.status = how, !.task = proc[p].task]]
        /\ ended' = IF proc[p].task = NoTask THEN ended
                    ELSE [ended EXCEPT ![proc[p].task] = how]
  BY DEF Server!Dies, NoTask
<1> DEFINE t == proc[p].task
           q == [Server!NoProc EXCEPT !.state = "zombie", !.status = how, !.task = t]
<1>2. UNCHANGED <<parent, server, children, restarts, backlog, conn>>
  BY DEF Server!Dies
<1>3. t \in Tasks \cup {NoTask}
  BY DEF ServerTypes, Process
<1>4. proc' = [proc EXCEPT ![p] = q]
  BY <1>1
<1>5. q \in Process /\ q.state = "zombie" /\ q.status = how /\ q.task = t
  <2> HIDE DEF t
  <2> QED
    BY <1>3 DEF Server!NoProc, Process, Server!None
<1> HIDE DEF q
<1>6. proc' \in Tables
  BY <1>4, <1>5 DEF ServerTypes, Tables
<1>7. ended' \in [Tasks -> {"none", "zero", "nonzero", "signal"}]
  BY <1>1, <1>3 DEF ServerTypes
<1>8. ServerTypes'
  BY <1>2, <1>6, <1>7 DEF ServerTypes, Tables
<1>9. proc'[p] = q /\ \A u \in Pids \ {p} : proc'[u] = proc[u]
  BY <1>4 DEF ServerTypes
<1>10. CASE t = NoTask
  <2>1. ended' = ended
    BY <1>1, <1>10
  <2>2. NoneForked => NoneForked'
    BY <1>2, <1>5, <1>9, <1>10 DEF NoneForked
  <2>3. EachOK(proc, children) => EachOK(proc, children)'
    BY <1>2, <1>5, <1>9, <1>10, <2>1 DEF EachOK
  <2>4. (ForkedSoFar => ForkedSoFar') /\ (NoneForgotten => NoneForgotten')
    BY <1>2, <2>1 DEF ForkedSoFar, Known, NoneForgotten
  <2> QED
    BY <1>2, <1>8, <2>1, <2>2, <2>3, <2>4 DEF TasksOK
<1>11. CASE t # NoTask
  <2>1. ended' = [ended EXCEPT ![t] = how] /\ t \in Tasks
    BY <1>1, <1>3, <1>11
  <2>2. ended'[t] = how /\ \A u \in Tasks \ {t} : ended'[u] = ended[u]
    BY <2>1 DEF ServerTypes
  <2>3. ~NoneForked
    BY <1>11 DEF NoneForked
  <2>4. EachOK(proc, children) => EachOK(proc, children)' /\ children[p] = t
    <3> SUFFICES ASSUME EachOK(proc, children)
        PROVE  EachOK(proc, children)' /\ children[p] = t
      OBVIOUS
    <3>1. children[p] = t /\ \A u \in Pids : children[u] = t => u = p
      BY <1>11 DEF EachOK
    <3>2. \A u \in Pids \ {p} : proc[u].task # t
      BY <1>11, <3>1 DEF EachOK
    <3>3. \A u \in Pids \ {p} : proc[u].task # NoTask => proc[u].task \in Tasks \ {t}
      BY <3>2 DEF ServerTypes, Process
    <3> HIDE DEF t
    <3>4. ASSUME NEW u \in Pids
          PROVE  /\ proc'[u].task # NoTask => children'[u] = proc'[u].task
                 /\ children'[u] # NoTask =>
                      /\ proc'[u].task = children'[u]
                      /\ \A v \in Pids : children'[v] = children'[u] => v = u
                 /\ proc'[u].state = "free" => proc'[u].task = NoTask
                 /\ proc'[u].state = "zombie" /\ proc'[u].task # NoTask =>
                      proc'[u].status = ended'[proc'[u].task]
      <4>1. CASE u = p
        BY <1>2, <1>5, <1>9, <2>2, <3>1, <4>1
      <4>2. CASE u # p
        BY <1>2, <1>9, <2>2, <3>3, <4>2 DEF EachOK
      <4> QED
        BY <4>1, <4>2
    <3> QED
      BY <3>1, <3>4 DEF EachOK
  <2>5. EachOK(proc, children) /\ NoneForgotten => NoneForgotten'
    <3> HIDE DEF t
    <3> QED
      BY <1>2, <2>2, <2>4 DEF NoneForgotten
  <2>6. ForkedSoFar => ForkedSoFar'
    BY <1>2 DEF ForkedSoFar, Known
  <2> QED
    BY <1>2, <1>8, <2>3, <2>4, <2>5, <2>6 DEF TasksOK
<1> QED
  BY <1>10, <1>11

\* os.wait() tells of a child: its task is done, or starts again under another
\* pid, or the parent gives up.
LEMMA ReapStep ==
  ASSUME ServerTypes, TasksOK, NEW p \in Pids, Server!Reap(p)
  PROVE  ServerTypes' /\ TasksOK'
<1> DEFINE t == children[p]
           table == [proc EXCEPT ![p] = Server!NoProc]
           known == [children EXCEPT ![p] = NoTask]
           Done == t = NoTask \/ proc[p].status = "zero"
<1>1. /\ parent = "waiting" /\ proc[p].state = "zombie"
      /\ UNCHANGED <<server, ended, backlog, conn>>
      /\ \/ Done /\ proc' = table /\ children' = known /\ UNCHANGED <<parent, restarts>>
         \/ /\ ~Done /\ restarts' = restarts + 1 /\ restarts = MaxRestarts
            /\ parent' = "failed" /\ proc' = table /\ children' = known
         \/ /\ ~Done /\ restarts' = restarts + 1 /\ restarts # MaxRestarts
            /\ Server!StartChild(t, known, table) /\ UNCHANGED parent
  BY DEF Server!Reap, Server!Normal, NoTask
<1>2. EachOK(proc, children) /\ NoneForgotten
  BY <1>1 DEF TasksOK
<1>3. table \in Tables /\ known \in Childrens
  BY NoProcOK DEF ServerTypes, Tables, Childrens
<1>4. /\ table[p] = Server!NoProc /\ known[p] = NoTask
      /\ \A q \in Pids \ {p} : table[q] = proc[q] /\ known[q] = children[q]
  BY DEF ServerTypes
<1>5. t \in Tasks \cup {NoTask} /\ restarts \in 0..MaxRestarts
  BY <1>1, ProgramsAssumption DEF ServerTypes
<1> HIDE DEF table, known
<1>6. EachOK(table, known)
  <2> SUFFICES ASSUME NEW q \in Pids
      PROVE  /\ table[q].task # NoTask => known[q] = table[q].task
             /\ known[q] # NoTask =>
                  /\ table[q].task = known[q]
                  /\ \A u \in Pids : known[u] = known[q] => u = q
             /\ table[q].state = "free" => table[q].task = NoTask
             /\ table[q].state = "zombie" /\ table[q].task # NoTask =>
                  table[q].status = ended[table[q].task]
    BY DEF EachOK
  <2>1. CASE q = p
    BY <1>4, <2>1, NoProcOK
  <2>2. CASE q # p
    BY <1>2, <1>4, <2>2 DEF EachOK
  <2> QED
    BY <2>1, <2>2
<1>7. \A q \in Pids : t # NoTask => known[q] # t
  BY <1>2, <1>4 DEF EachOK
<1>8. proc[p].task = t
  BY <1>2 DEF EachOK
<1>9. CASE Done /\ proc' = table /\ children' = known /\ UNCHANGED <<parent, restarts>>
  <2>1. t # NoTask => ended[t] = "zero"
    BY <1>1, <1>2, <1>8, <1>9 DEF EachOK
  <2>2. NoneForgotten'
    <3> SUFFICES ASSUME NEW u \in Tasks, ended'[u] # "zero"
        PROVE  \E q \in Pids : children'[q] = u
      BY DEF NoneForgotten
    <3>1. PICK q \in Pids : children[q] = u
      BY <1>1, <1>2 DEF NoneForgotten
    <3>2. q # p
      BY <1>1, <2>1, <3>1, TasksAreNumbers
    <3> QED
      BY <1>4, <1>9, <3>1, <3>2
  <2>3. ServerTypes'
    BY <1>1, <1>3, <1>9 DEF ServerTypes, Tables, Childrens
  <2>4. EachOK(proc, children)'
    BY <1>1, <1>6, <1>9 DEF EachOK
  <2> QED
    BY <1>1, <1>9, <2>2, <2>3, <2>4 DEF TasksOK
<1>10. CASE /\ restarts' = restarts + 1 /\ restarts = MaxRestarts
            /\ parent' = "failed" /\ proc' = table /\ children' = known
  <2>1. restarts' \in 0..MaxRestarts + 1
    BY <1>5, <1>10
  <2> QED
    BY <1>1, <1>3, <1>10, <2>1 DEF TasksOK, ServerTypes, Tables, Childrens
<1>11. CASE /\ ~Done /\ restarts' = restarts + 1 /\ restarts # MaxRestarts
            /\ Server!StartChild(t, known, table) /\ UNCHANGED parent
  <2>1. t \in Tasks /\ t # NoTask
    BY <1>5, <1>11
  <2>2. PICK q \in Pids : known[q] = NoTask /\ children' = [known EXCEPT ![q] = t]
    BY <1>1, <1>3, <1>6, <1>7, <1>11, <2>1, StartChildOK
  <2>3. proc' \in Tables /\ children' \in Childrens /\ EachOK(proc, children)'
    BY <1>1, <1>3, <1>6, <1>7, <1>11, <2>1, StartChildOK
  <2>4. restarts' \in 0..MaxRestarts + 1 /\ restarts' <= MaxRestarts
    BY <1>5, <1>11, ProgramsAssumption
  <2>5. ServerTypes'
    BY <1>1, <1>11, <2>3, <2>4 DEF ServerTypes, Tables, Childrens
  <2>6. NoneForgotten'
    <3> SUFFICES ASSUME NEW u \in Tasks, ended'[u] # "zero"
        PROVE  \E v \in Pids : children'[v] = u
      BY DEF NoneForgotten
    <3>1. PICK v \in Pids : children[v] = u
      BY <1>1, <1>2 DEF NoneForgotten
    <3>2. children'[q] = t /\ \A w \in Pids \ {q} : children'[w] = known[w]
      BY <1>3, <2>2 DEF Childrens
    <3>3. CASE v = p
      BY <3>1, <3>2, <3>3
    <3>4. CASE v # p
      <4>1. known[v] = u /\ u # NoTask
        BY <1>4, <3>1, <3>4, TasksAreNumbers
      <4> QED
        BY <2>2, <3>2, <4>1
    <3> QED
      BY <3>3, <3>4
  <2> QED
    BY <1>1, <1>11, <2>3, <2>5, <2>6 DEF TasksOK
<1> QED
  BY <1>1, <1>9, <1>10, <1>11

\* fork_processes returns when no child is left.
LEMMA ExitStep ==
  ASSUME ServerTypes, TasksOK, Server!ParentExits
  PROVE  ServerTypes' /\ TasksOK'
<1>1. /\ parent = "waiting" /\ parent' = "exited"
      /\ \A p \in Pids : children[p] = NoTask
      /\ UNCHANGED <<server, children, restarts, proc, ended, backlog, conn>>
  BY DEF Server!ParentExits, NoTask
<1>2. EachOK(proc, children) /\ NoneForgotten
  BY <1>1 DEF TasksOK
<1>3. NoneForked'
  BY <1>1, <1>2 DEF NoneForked, EachOK
<1>4. \A t \in Tasks : ended'[t] = "zero"
  BY <1>1, <1>2, TasksAreNumbers DEF NoneForgotten
<1>5. ServerTypes'
  BY <1>1 DEF ServerTypes
<1> QED
  BY <1>1, <1>3, <1>4, <1>5 DEF TasksOK

ServerInv == ServerTypes /\ TasksOK

\* The other programs leave the server alone.
LEMMA ServerElse ==
  ASSUME ServerInv, UNCHANGED serverVars
  PROVE  ServerInv'
<1>1. UNCHANGED <<parent, server, children, restarts, proc, ended, backlog, conn>>
  BY DEF serverVars
<1>2. ServerTypes'
  BY <1>1 DEF ServerInv, ServerTypes
<1>3. TasksOK'
  BY <1>1, SocketStep DEF ServerInv
<1> QED
  BY <1>2, <1>3 DEF ServerInv

\* Every step of the server keeps its invariant.
LEMMA ServerStep ==
  ASSUME ServerInv, Server!Next
  PROVE  ServerInv'
<1> USE DEF ServerInv
<1>1. CASE \/ \E some \in Server!BindSockets : Server!Bind(some)
           \/ \E s_ \in Sockets : Server!Listen(s_)
           \/ \E c \in Conns :
                Server!ClientAborts(c) \/ \E s_ \in Sockets : Server!Connect(c, s_)
           \/ \E p \in DOMAIN proc :
                \/ Server!Accept(p) \/ Server!Stop(p)
                \/ \E s_ \in Sockets : Server!Wakes(p, s_)
  BY <1>1, SocketTypes, SocketStep
<1>2. CASE Server!Start
  BY <1>2, StartStep
<1>3. CASE Server!ForkFirst
  BY <1>3, ForkStep
<1>4. CASE Server!ParentExits
  BY <1>4, ExitStep
<1>5. ASSUME NEW p \in Pids,
             Server!ChildStarts(p) \/ Server!Dies(p) \/ Server!Reap(p)
      PROVE  ServerInv'
  BY <1>5, ChildStartsStep, DiesStep, ReapStep
<1> QED
  BY <1>1, <1>2, <1>3, <1>4, <1>5 DEF Server!Next

\* The server's invariant, in every program.
THEOREM ServerInvariant == Spec => []ServerInv
<1>1. Init => ServerInv
  <2> SUFFICES ASSUME Init PROVE ServerInv
    OBVIOUS
  <2> USE DEF NoTask
  <2>1. Server!Init
    BY DEF Init
  <2>2. PICK strange \in {{}} \cup {{p} : p \in Pids} :
          proc = [p \in Pids \cup {0} |->
                    IF p = 0 THEN [Server!NoProc EXCEPT !.state = "serving"]
                    ELSE IF p \in strange THEN [Server!NoProc EXCEPT !.state = "serving"]
                    ELSE Server!NoProc]
    BY <2>1 DEF Server!Init
  <2>3. /\ [Server!NoProc EXCEPT !.state = "serving"] \in Process
        /\ [Server!NoProc EXCEPT !.state = "serving"].task = NoTask
    BY DEF Server!NoProc, Process, Server!None
  <2>4. proc \in [Pids \cup {0} -> Process] /\ \A p \in Pids : proc[p].task = NoTask
    BY <2>2, <2>3, NoProcOK
  <2>5. ServerTypes
    BY <2>1, <2>4, ProgramsAssumption DEF Server!Init, ServerTypes, Server!None
  <2>6. NoneForked
    BY <2>1, <2>4 DEF Server!Init, NoneForked
  <2>7. parent = "setup"
    BY <2>1 DEF Server!Init
  <2> QED
    BY <2>5, <2>6, <2>7 DEF TasksOK, ServerInv
<1>2. ServerInv /\ [Next]_vars => ServerInv'
  <2> SUFFICES ASSUME ServerInv, [Next]_vars PROVE ServerInv'
    OBVIOUS
  <2>1. Server!Next \/ UNCHANGED serverVars
    BY DEF Next, vars
  <2> QED
    BY <2>1, ServerStep, ServerElse
<1> QED
  BY <1>1, <1>2, PTL DEF Spec

\* Each task has at most one process, and the parent knows it, while it forks and
\* while it waits: no task is run twice, and none is counted as done by mistake.
THEOREM OneProcessEachHolds == Spec => []Server!OneProcessEach
<1>1. ServerInv => Server!OneProcessEach
  BY DEF ServerInv, TasksOK, EachOK, Server!OneProcessEach, NoTask
<1> QED
  BY <1>1, ServerInvariant, PTL

\* fork_processes leaves its loop without an error ("while children:") only when
\* the last process of every task ended by itself and well.
THEOREM ExitMeansDoneHolds == Spec => []ExitMeansDone
<1>1. ServerInv => ExitMeansDone
  BY DEF ServerInv, TasksOK, ExitMeansDone, Server!ExitMeansDone
<1> QED
  BY <1>1, ServerInvariant, PTL

-----------------------------------------------------------------------------
(* The calls that start and stop the loop, and PeriodicCallback.           *)

\* The PeriodicCallback keeps its three attributes, whatever they hold.
PeriodicIsRecord ==
  periodic = [running |-> periodic.running, next |-> periodic.next,
              timeout |-> periodic.timeout]

CallsInv == PeriodicIsRecord /\ RunningMeansScheduled

\* start() sets one attribute.
LEMMA SetField ==
  ASSUME NEW q, NEW b, q = [running |-> q.running, next |-> q.next, timeout |-> q.timeout]
  PROVE  [q EXCEPT !.running = b] = [running |-> b, next |-> q.next, timeout |-> q.timeout]
OBVIOUS

\* What is removed for run_sync or wait() is not the PeriodicCallback's.
LEMMA OthersKeepTicks ==
  ASSUME NEW owner, owner[1] # "tick", CallsInv,
         at' # "tick" => at # "tick",
         periodic' = periodic, timers' = Calls!Remove(owner)
  PROVE  CallsInv'
<1>1. \A n : <<"tick", n>> # owner
  OBVIOUS
<1> QED
  BY <1>1 DEF CallsInv, PeriodicIsRecord, RunningMeansScheduled,
     Calls!RunningMeansScheduled, Calls!Remove

\* _schedule_next: a PeriodicCallback that runs gets a timeout that it knows.
LEMMA ScheduleNextOK ==
  ASSUME NEW p, p = [running |-> p.running, next |-> p.next, timeout |-> p.timeout],
         NEW left, Calls!ScheduleNext(p, left)
  PROVE  CallsInv'
<1>1. CASE ~p.running /\ periodic' = p /\ timers' = left
  BY <1>1 DEF CallsInv, PeriodicIsRecord, RunningMeansScheduled,
     Calls!RunningMeansScheduled
<1>2. CASE ~(~p.running /\ periodic' = p /\ timers' = left)
  <2>1. PICK n \in Calls!FreeTicks :
          LET time == IF p.next <= now THEN Calls!After(p.next) ELSE p.next
          IN  /\ periodic' = [p EXCEPT !.next = time, !.timeout = n]
              /\ timers' = left \cup {[owner |-> <<"tick", n>>, at |-> time]}
    BY <1>2 DEF Calls!ScheduleNext
  <2> DEFINE time == IF p.next <= now THEN Calls!After(p.next) ELSE p.next
             t == [owner |-> <<"tick", n>>, at |-> time]
  <2>2. periodic' = [p EXCEPT !.next = time, !.timeout = n] /\ t \in timers'
    BY <2>1
  <2>3. t.owner = <<"tick", n>>
    OBVIOUS
  <2> HIDE DEF time, t
  <2>4. periodic' = [running |-> p.running, next |-> time, timeout |-> n]
    BY <2>2
  <2>5. \E u \in timers' : u.owner = <<"tick", periodic'.timeout>>
    BY <2>2, <2>3, <2>4
  <2> QED
    BY <2>4, <2>5 DEF CallsInv, PeriodicIsRecord, RunningMeansScheduled,
       Calls!RunningMeansScheduled
<1> QED
  BY <1>1, <1>2 DEF Calls!ScheduleNext

\* What neither touches the PeriodicCallback nor takes a timeout away.
LEMMA TimersStay ==
  ASSUME CallsInv, periodic' = periodic, timers \subseteq timers',
         at' # "tick" => at # "tick"
  PROVE  CallsInv'
BY DEF CallsInv, PeriodicIsRecord, RunningMeansScheduled, Calls!RunningMeansScheduled

\* Every step of the loop and of those who use it keeps the invariant.
LEMMA CallsStep ==
  ASSUME CallsInv, Calls!Next
  PROVE  CallsInv'
<1>1. CASE Calls!EndOfBatch \/ Calls!EndOfTimeouts \/ Calls!Poll \/ Calls!RunCallback
  BY <1>1, TimersStay DEF Calls!EndOfBatch, Calls!EndOfTimeouts, Calls!Poll,
     Calls!RunCallback
<1>2. ASSUME NEW i \in Syncs, Calls!SyncTimesOut(i) \/ Calls!RunSyncReturns(i)
      PROVE  CallsInv'
  <2>1. <<"sync", i>>[1] # "tick"
    OBVIOUS
  <2>2. /\ UNCHANGED <<at, periodic>>
        /\ timers' = Calls!Remove(<<"sync", i>>)
    BY <1>2 DEF Calls!SyncTimesOut, Calls!RunSyncReturns
  <2> QED
    BY <2>1, <2>2, OthersKeepTicks
<1>3. ASSUME NEW w \in 1..MaxWaits, Calls!WaitTimesOut(w)
      PROVE  CallsInv'
  <2>1. <<"wait", w>>[1] # "tick"
    OBVIOUS
  <2>2. /\ UNCHANGED <<at, periodic>>
        /\ timers' = Calls!Remove(<<"wait", w>>)
    BY <1>3 DEF Calls!WaitTimesOut
  <2> QED
    BY <2>1, <2>2, OthersKeepTicks
<1>4. ASSUME NEW n \in 1..MaxTicks, Calls!TickRuns(n)
      PROVE  CallsInv'
  BY <1>4 DEF Calls!TickRuns, CallsInv, PeriodicIsRecord, RunningMeansScheduled,
     Calls!RunningMeansScheduled
<1>5. CASE Calls!TickReturns
  <2>1. Calls!ScheduleNext(periodic, timers)
    BY <1>5 DEF Calls!TickReturns
  <2> QED
    BY <2>1, ScheduleNextOK DEF CallsInv, PeriodicIsRecord
<1>6. CASE Calls!WaitReturns
  <2>1. /\ UNCHANGED <<at, periodic>> /\ call[1] = "wait"
        /\ timers' = Calls!Remove(call)
    BY <1>6 DEF Calls!WaitReturns
  <2> QED
    BY <2>1, OthersKeepTicks
<1>7. CASE Calls!Elapse \/ Calls!TestStops
  BY <1>7, TimersStay DEF Calls!Elapse, Calls!TestStops
<1>8. CASE Calls!Wait
  <2>1. at = "main" /\ UNCHANGED periodic
    BY <1>8 DEF Calls!Wait
  <2>2. timers \subseteq timers'
    BY <1>8 DEF Calls!Wait
  <2> QED
    BY <2>1, <2>2, TimersStay
<1>9. CASE Calls!WaitAgain
  BY <1>9, TimersStay DEF Calls!WaitAgain
<1>10. ASSUME NEW i \in Syncs, Calls!RunSync(i) \/ Calls!ResolveFuture(i)
       PROVE  CallsInv'
  BY <1>10, TimersStay DEF Calls!RunSync, Calls!ResolveFuture
<1>11. CASE Calls!PeriodicStart
  <2> DEFINE p == [periodic EXCEPT !.running = TRUE, !.next = now]
  <2>1. Calls!ScheduleNext(p, timers)
    BY <1>11 DEF Calls!PeriodicStart
  <2> DEFINE started == [periodic EXCEPT !.running = TRUE]
  <2>2. started = [running |-> TRUE, next |-> periodic.next, timeout |-> periodic.timeout]
    BY SetField DEF CallsInv, PeriodicIsRecord
  <2>3. p = [started EXCEPT !.next = now]
    OBVIOUS
  <2> HIDE DEF started, p
  <2>4. p = [running |-> TRUE, next |-> now, timeout |-> periodic.timeout]
    BY <2>2, <2>3
  <2>5. p = [running |-> p.running, next |-> p.next, timeout |-> p.timeout]
    BY <2>4
  <2> QED
    BY <2>1, <2>5, ScheduleNextOK
<1>12. CASE Calls!PeriodicStop
  <2>1. periodic' = [periodic EXCEPT !.running = FALSE, !.timeout = 0]
    BY <1>12 DEF Calls!PeriodicStop
  <2>2. periodic' = [running |-> FALSE, next |-> periodic.next, timeout |-> 0]
    BY <2>1 DEF CallsInv, PeriodicIsRecord
  <2> QED
    BY <2>2 DEF CallsInv, PeriodicIsRecord, RunningMeansScheduled,
       Calls!RunningMeansScheduled
<1> QED
  BY <1>1, <1>2, <1>3, <1>4, <1>5, <1>6, <1>7, <1>8, <1>9, <1>10, <1>11, <1>12
     DEF Calls!Next, Calls!LoopStep

\* "Starts the timer": a PeriodicCallback that was started, however often, and
\* whatever its callback did, has its next timeout set; no step of the calls that
\* share its loop takes it away.
THEOREM RunningMeansScheduledHolds == Spec => []RunningMeansScheduled
<1>1. Init => CallsInv
  BY DEF Init, Calls!Init, CallsInv, PeriodicIsRecord, RunningMeansScheduled,
     Calls!RunningMeansScheduled
<1>2. CallsInv /\ [Next]_vars => CallsInv'
  <2> SUFFICES ASSUME CallsInv, [Next]_vars PROVE CallsInv'
    OBVIOUS
  <2>1. CASE Calls!Next
    BY <2>1, CallsStep
  <2>2. CASE UNCHANGED callsVars
    BY <2>2, TimersStay DEF callsVars
  <2> QED
    BY <2>1, <2>2 DEF Next, vars
<1>3. CallsInv => RunningMeansScheduled
  BY DEF CallsInv
<1> QED
  BY <1>1, <1>2, <1>3, PTL DEF Spec

-----------------------------------------------------------------------------
(* The coroutine.                                                          *)

\* A Runner has the eight attributes of the code's, whatever they hold.
IsRunner(q) ==
  q = [pending |-> q.pending, results |-> q.results, given |-> q.given,
       running |-> q.running, finished |-> q.finished, exc |-> q.exc,
       had |-> q.had, yp |-> q.yp]

CoroutineInv ==
  /\ IsRunner(r)
  /\ NoLostResume
  /\ r.finished => future # "unresolved"

\* The loop's turn resumes the generator, or leaves at a yield point that waits
\* for a result and that raised nothing.
LEMMA RunsOnOK ==
  ASSUME NEW q, IsRunner(q), q.running = TRUE, NEW p \in Gen!RunsOn(q)
  PROVE  /\ IsRunner(p) /\ p.finished = q.finished
         /\ p.running \/ (~p.running /\ ~p.exc /\ Gen!MayWait(p))
<1>1. CASE p = Gen!Thrown(q)
  BY <1>1 DEF Gen!Thrown, IsRunner
<1>2. CASE ~q.exc /\ Gen!MayWait(q) /\ p = [q EXCEPT !.running = FALSE]
  <2>1. /\ IsRunner(p) /\ p.finished = q.finished /\ p.running = FALSE /\ p.exc = q.exc
        /\ p.pending = q.pending /\ p.results = q.results /\ p.yp = q.yp
    BY <1>2 DEF IsRunner
  <2> QED
    BY <1>2, <2>1 DEF Gen!MayWait, Gen!Awaited
<1>3. ASSUME NEW given, NEW pending, NEW results,
             p = LET s == [q EXCEPT !.given = given, !.pending = pending,
                                    !.results = results]
                 IN  [s EXCEPT !.yp = <<>>]
      PROVE  IsRunner(p) /\ p.finished = q.finished /\ p.running
  BY <1>3 DEF IsRunner
<1>4. ASSUME NEW given, NEW pending, NEW results,
             p = Gen!Thrown([q EXCEPT !.given = given, !.pending = pending,
                                      !.results = results])
      PROVE  IsRunner(p) /\ p.finished = q.finished /\ p.running
  BY <1>4 DEF IsRunner, Gen!Thrown
<1>5. CASE ~q.exc /\ LET got == Gen!GetResults(q)
                     IN  p = IF got.ok THEN [got.q EXCEPT !.yp = <<>>]
                                       ELSE Gen!Thrown(got.q)
  <2>1. PICK given, pending, results :
          Gen!GetResults(q).q = [q EXCEPT !.given = given, !.pending = pending,
                                          !.results = results]
    BY DEF Gen!GetResults
  <2> DEFINE s == [q EXCEPT !.given = given, !.pending = pending, !.results = results]
  <2>2. p = [s EXCEPT !.yp = <<>>] \/ p = Gen!Thrown(s)
    BY <1>5, <2>1
  <2>3. CASE p = [s EXCEPT !.yp = <<>>]
    BY <1>3, <2>3
  <2>4. CASE p = Gen!Thrown(s)
    BY <1>4, <2>4
  <2> QED
    BY <2>2, <2>3, <2>4
<1> QED
  BY <1>1, <1>2, <1>5 DEF Gen!RunsOn

\* run() sets one attribute before its loop.
LEMMA SetRunning ==
  ASSUME NEW q, IsRunner(q), NEW b
  PROVE  /\ IsRunner([q EXCEPT !.running = b])
         /\ [q EXCEPT !.running = b].running = b
         /\ [q EXCEPT !.running = b].finished = q.finished
BY DEF IsRunner

\* An exception of a yield point or an operation sets another.
LEMMA SetExc ==
  ASSUME NEW q, IsRunner(q), NEW b
  PROVE  /\ IsRunner([q EXCEPT !.exc = b])
         /\ [q EXCEPT !.exc = b].finished = q.finished
BY DEF IsRunner

\* Results come and callbacks are called.
LEMMA SetResults ==
  ASSUME NEW q, IsRunner(q), NEW given, NEW results
  PROVE  LET p == [q EXCEPT !.given = given, !.results = results]
         IN  IsRunner(p) /\ p.running = q.running /\ p.finished = q.finished
<1> DEFINE s == [q EXCEPT !.given = given]
           p == [s EXCEPT !.results = results]
<1>1. IsRunner(s) /\ s.running = q.running /\ s.finished = q.finished
  BY DEF IsRunner
<1> HIDE DEF s
<1>2. IsRunner(p) /\ p.running = s.running /\ p.finished = s.finished
  BY <1>1 DEF IsRunner
<1> QED
  BY <1>1, <1>2 DEF s

\* Control is where nothing waits for the Runner, or it comes back there with a
\* result still to come: a resumed coroutine that has an ending has not ended.
LEMMA ResumeOK ==
  ASSUME NEW q, IsRunner(q), q.finished => future' # "unresolved",
         NEW from, Gen!Resume(q, from)
  PROVE  CoroutineInv'
<1> DEFINE s == [q EXCEPT !.running = TRUE]
<1>1. IsRunner(s) /\ s.running = TRUE /\ s.finished = q.finished
  BY SetRunning
<1>2. r' \in Gen!RunsOn(s) /\ pc' = IF r'.running THEN "gen" ELSE from
  BY DEF Gen!Resume
<1> HIDE DEF s
<1>3. /\ IsRunner(r') /\ r'.finished = q.finished
      /\ r'.running \/ (~r'.running /\ ~r'.exc /\ Gen!MayWait(r'))
  BY <1>1, <1>2, RunsOnOK
<1>4. Gen!MayWait(r') => Gen!MayWait(r)'
  BY DEF Gen!MayWait, Gen!Awaited
<1>5. NoLostResume'
  BY <1>2, <1>3, <1>4 DEF NoLostResume, Gen!NoLostResume, Gen!Waiting
<1>6. IsRunner(r)'
  BY <1>3 DEF IsRunner
<1> QED
  BY <1>3, <1>5, <1>6 DEF CoroutineInv

\* A coroutine that has control is not one that waits.
LEMMA ElsewhereOK ==
  ASSUME IsRunner(r)', r'.finished => future' # "unresolved",
         pc' \notin {"loop", "op"} \/ r'.finished
  PROVE  CoroutineInv'
BY DEF CoroutineInv, NoLostResume, Gen!NoLostResume, Gen!Waiting

\* A coroutine that waited and that nothing was done to waits on.
LEMMA WaitsOn ==
  ASSUME CoroutineInv, r' = r, future # "unresolved" => future' # "unresolved",
         pc' = pc \/ pc' \notin {"loop", "op"} \/ pc \in {"loop", "op"}
  PROVE  CoroutineInv'
<1>1. CASE pc' = pc \/ pc \in {"loop", "op"}
  <2>1. IsRunner(r)' /\ (r'.finished => future' # "unresolved")
    BY DEF CoroutineInv, IsRunner
  <2>2. NoLostResume'
    BY <1>1 DEF CoroutineInv, NoLostResume, Gen!NoLostResume, Gen!Waiting, Gen!MayWait,
       Gen!Awaited
  <2> QED
    BY <2>1, <2>2 DEF CoroutineInv
<1>2. CASE pc' \notin {"loop", "op"}
  BY <1>2, ElsewhereOK DEF CoroutineInv, IsRunner
<1> QED
  BY <1>1, <1>2

\* run() called from where the control is.
LEMMA RunOK ==
  ASSUME CoroutineInv, NEW q, IsRunner(q), q.running = r.running,
         q.finished = r.finished, future' = future, Gen!Run(q, pc)
  PROVE  CoroutineInv'
<1>1. CASE q.finished
  <2>1. IsRunner(r)' /\ r'.finished
    BY <1>1 DEF Gen!Run, IsRunner
  <2> QED
    BY <1>1, <2>1, ElsewhereOK DEF CoroutineInv
<1>2. CASE ~q.finished /\ q.running
  <2>1. r' = q /\ pc' = pc
    BY <1>2 DEF Gen!Run
  <2>2. pc \notin {"loop", "op"}
    BY <1>2 DEF CoroutineInv, NoLostResume, Gen!NoLostResume, Gen!Waiting
  <2>3. IsRunner(r)'
    BY <2>1 DEF IsRunner
  <2> QED
    BY <1>2, <2>1, <2>2, <2>3, ElsewhereOK
<1>3. CASE ~(q.running \/ q.finished)
  BY <1>3, ResumeOK DEF Gen!Run
<1> QED
  BY <1>1, <1>2, <1>3

\* A child was started: another one does, or the loop goes on.
LEMMA AfterStartOK ==
  ASSUME NEW q, IsRunner(q), q.finished => future' # "unresolved",
         NEW n, Gen!AfterStart(q, n)
  PROVE  CoroutineInv'
<1>1. CASE q.exc \/ n > Len(q.yp)
  BY <1>1, ResumeOK DEF Gen!AfterStart
<1>2. CASE ~(q.exc \/ n > Len(q.yp))
  <2>1. r' = q /\ pc' = "gen"
    BY <1>2 DEF Gen!AfterStart
  <2>2. IsRunner(r)'
    BY <2>1 DEF IsRunner
  <2> QED
    BY <2>1, <2>2, ElsewhereOK
<1> QED
  BY <1>1, <1>2

\* The attributes that the steps change, and the two they leave alone.
LEMMA Registers ==
  ASSUME IsRunner(r), NEW k
  PROVE  LET q == Gen!Registered(k)
         IN  IsRunner(q) /\ q.running = r.running /\ q.finished = r.finished
BY DEF IsRunner, Gen!Registered

\* SetException and SetResult resolve the coroutine's future.
LEMMA Resolves ==
  ASSUME Gen!SetException \/ Gen!SetResult \/ Gen!Returns
  PROVE  future' # "unresolved"
BY DEF Gen!SetException, Gen!SetResult, Gen!Returns

\* Every step of the coroutine and of those it waits for keeps the invariant.
LEMMA CoroutineStep ==
  ASSUME CoroutineInv, Gen!Next
  PROVE  CoroutineInv'
<1> USE DEF CoroutineInv
<1>1. CASE Gen!Call
  <2>1. CASE Gen!Resume(r, "loop") /\ UNCHANGED future
    BY <2>1, ResumeOK
  <2>2. CASE /\ Gen!SetResult \/ Gen!SetException
             /\ r' = [r EXCEPT !.finished = TRUE]
    <3>1. IsRunner(r)' /\ r'.finished
      BY <2>2 DEF IsRunner
    <3> QED
      BY <2>2, <3>1, Resolves, ElsewhereOK
  <2> QED
    BY <1>1, <2>1, <2>2 DEF Gen!Call
<1>2. CASE Gen!GeneratorReturns \/ Gen!GeneratorRaises
  <2>1. Gen!Leave /\ (Gen!Returns \/ Gen!SetException)
    BY <1>2 DEF Gen!GeneratorReturns, Gen!GeneratorRaises
  <2>2. IsRunner(r)' /\ r'.finished
    BY <2>1 DEF IsRunner, Gen!Leave
  <2> QED
    BY <2>1, <2>2, Resolves, ElsewhereOK
<1>3. CASE Gen!YieldBad
  <2>1. IsRunner(r)' /\ r'.finished = r.finished
    BY <1>3 DEF IsRunner, Gen!YieldBad, Gen!Thrown
  <2> QED
    BY <1>3, <2>1, ElsewhereOK DEF Gen!YieldBad
<1>4. CASE Gen!Yield
  <2>1. PICK yp : r' = [r EXCEPT !.yp = yp]
    BY <1>4 DEF Gen!Yield
  <2>2. IsRunner(r)' /\ r'.finished = r.finished
    BY <2>1 DEF IsRunner
  <2>3. pc' = "gen" /\ future' = future
    BY <1>4 DEF Gen!Yield
  <2> QED
    BY <2>2, <2>3, ElsewhereOK
<1>5. CASE Gen!StartChild
  <2> DEFINE l == r.yp[next]
  <2>1. /\ IsRunner([r EXCEPT !.exc = TRUE])
        /\ [r EXCEPT !.exc = TRUE].finished = r.finished
    BY SetExc
  <2>2. UNCHANGED future
    BY <1>5 DEF Gen!StartChild
  <2>3. CASE \/ Gen!AfterStart([r EXCEPT !.exc = TRUE], next + 1)
             \/ Gen!AfterStart(Gen!Registered(l.key), next + 1)
             \/ Gen!AfterStart(r, next + 1)
    BY <2>1, <2>2, <2>3, Registers, AfterStartOK
  <2>4. CASE /\ r' = [Gen!Registered(l.key) EXCEPT !.given = @ \cup {l.key}]
             /\ pc' = "task"
    <3>1. IsRunner(r)' /\ r'.finished = r.finished
      BY <2>4, Registers DEF IsRunner
    <3> QED
      BY <2>2, <2>4, <3>1, ElsewhereOK
  <2>5. \/ Gen!AfterStart([r EXCEPT !.exc = TRUE], next + 1)
        \/ Gen!AfterStart(Gen!Registered(l.key), next + 1)
        \/ Gen!AfterStart(r, next + 1)
        \/ /\ r' = [Gen!Registered(l.key) EXCEPT !.given = @ \cup {l.key}]
           /\ pc' = "task"
    <3>1. CASE l.kind = "callback"
      BY <1>5, <3>1 DEF Gen!StartChild
    <3>2. CASE l.kind = "wait"
      BY <1>5, <3>2 DEF Gen!StartChild
    <3>3. CASE l.kind = "future"
      BY <1>5, <3>3 DEF Gen!StartChild
    <3>4. CASE l.kind \notin {"callback", "wait", "future"}
      BY <1>5, <3>4 DEF Gen!StartChild
    <3> QED
      BY <3>1, <3>2, <3>3, <3>4
  <2> QED
    BY <2>3, <2>4, <2>5
<1>6. CASE Gen!TaskReturns \/ Gen!TaskRaises
  <2>1. /\ IsRunner([r EXCEPT !.exc = TRUE])
        /\ [r EXCEPT !.exc = TRUE].finished = r.finished
    BY SetExc
  <2>2. /\ UNCHANGED future
        /\ \/ Gen!AfterStart(r, next + 1)
           \/ Gen!AfterStart([r EXCEPT !.exc = TRUE], next + 1)
    BY <1>6 DEF Gen!TaskReturns, Gen!TaskRaises
  <2> QED
    BY <2>1, <2>2, AfterStartOK
<1>7. ASSUME NEW k, Gen!CallBack(k)
      PROVE  CoroutineInv'
  <2> DEFINE q == [r EXCEPT !.given = @ \ {k}, !.results = @ \cup {k}]
  <2>1. IsRunner(q) /\ q.running = r.running /\ q.finished = r.finished
    BY SetResults
  <2>2. Gen!Run(q, pc) /\ future' = future
    BY <1>7 DEF Gen!CallBack
  <2> HIDE DEF q
  <2> QED
    BY <2>1, <2>2, RunOK
<1>8. ASSUME NEW f, Gen!Deliver(f)
      PROVE  CoroutineInv'
  <2> DEFINE q == [r EXCEPT !.results = @ \cup {f}]
  <2>1. IsRunner(q) /\ q.running = r.running /\ q.finished = r.finished
    BY DEF IsRunner
  <2>2. Gen!Run(q, pc) /\ future' = future
    BY <1>8 DEF Gen!Deliver
  <2> HIDE DEF q
  <2> QED
    BY <2>1, <2>2, RunOK
<1>9. ASSUME NEW f, NEW o, Gen!Resolve(f, o)
      PROVE  CoroutineInv'
  BY <1>9, WaitsOn DEF Gen!Resolve
<1>10. CASE Gen!OperationRuns \/ Gen!OperationReturns
  BY <1>10, WaitsOn DEF Gen!OperationRuns, Gen!OperationReturns
<1>11. CASE Gen!OperationRaises
  <2>1. CASE ~inside
    BY <1>11, <2>1, WaitsOn DEF Gen!OperationRaises
  <2>2. CASE inside /\ r.finished
    <3>1. r' = r /\ Gen!SetException
      BY <1>11, <2>2 DEF Gen!OperationRaises, Gen!HandleException
    <3>2. IsRunner(r)' /\ r'.finished
      BY <2>2, <3>1 DEF IsRunner
    <3> QED
      BY <3>1, <3>2, Resolves, ElsewhereOK
  <2>3. CASE inside /\ ~r.finished
    <3>1. Gen!Resume([r EXCEPT !.exc = TRUE], "loop") /\ UNCHANGED future
      BY <1>11, <2>3 DEF Gen!OperationRaises, Gen!HandleException
    <3>2. /\ IsRunner([r EXCEPT !.exc = TRUE])
          /\ [r EXCEPT !.exc = TRUE].finished = r.finished
      BY SetExc
    <3> QED
      BY <2>3, <3>1, <3>2, ResumeOK
  <2> QED
    BY <2>1, <2>2, <2>3
<1>12. CASE Gen!WrappedRaises
  BY <1>12, Resolves, WaitsOn DEF Gen!WrappedRaises
<1> QED
  BY <1>1, <1>2, <1>3, <1>4, <1>5, <1>6, <1>7, <1>8, <1>9, <1>10, <1>11, <1>12
     DEF Gen!Next

\* The coroutine's invariant, in every program.
THEOREM CoroutineInvariant == Spec => []CoroutineInv
<1>1. Init => CoroutineInv
  BY DEF Init, Gen!Init, CoroutineInv, IsRunner, NoLostResume, Gen!NoLostResume,
     Gen!Waiting
<1>2. CoroutineInv /\ [Next]_vars => CoroutineInv'
  <2> SUFFICES ASSUME CoroutineInv, [Next]_vars PROVE CoroutineInv'
    OBVIOUS
  <2>1. CASE Gen!Next
    BY <2>1, CoroutineStep
  <2>2. CASE UNCHANGED genVars
    BY <2>2, WaitsOn DEF genVars
  <2> QED
    BY <2>1, <2>2 DEF Next, vars
<1> QED
  BY <1>1, <1>2, PTL DEF Spec

\* run() clears its flag and leaves only at a yield point that has an operation
\* outstanding: a result that comes while the generator runs, while its yield
\* point starts or from within an operation still resumes the coroutine.
THEOREM NoLostResumeHolds == Spec => []NoLostResume
<1>1. CoroutineInv => NoLostResume
  BY DEF CoroutineInv
<1> QED
  BY <1>1, CoroutineInvariant, PTL

\* However the generator ends, the coroutine's future is resolved by then.
THEOREM EndIsReportedHolds == Spec => []Gen!EndIsReported
<1>1. CoroutineInv => Gen!EndIsReported
  BY DEF CoroutineInv, Gen!EndIsReported
<1> QED
  BY <1>1, CoroutineInvariant, PTL
=============================================================================
