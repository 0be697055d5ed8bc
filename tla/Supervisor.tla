----------------------------- MODULE Supervisor ------------------------------
(***************************************************************************)
(* exec_management: the process that starts the applications, waits for    *)
(* one of them to end and starts it again.                                 *)
(***************************************************************************)
EXTENDS Naturals, Sequences, Functions

CONSTANTS
  user_app,      \* sequence of the applications, in the order they are started
  Pids,          \* the process ids; one is used again after its process was reaped
  Nil,
  ForkMayFail    \* bound: TRUE if fork() may fail

Apps == Range(user_app)
Children == [app : Apps, status : {"forked", "running", "zombie"}]

ASSUME SupervisorAssumption ==
  /\ user_app \in Seq(STRING)
  /\ Nil \notin Children
  /\ ForkMayFail \in BOOLEAN

VARIABLES
  em,            \* "run", or "exited" after a failing fork
  to_fork,       \* applications that are still to be started before the next wait()
  pid_list,      \* partial function from Pids to applications
  child          \* child[p] is Nil or the application and the state of process p

emVars == <<em, to_fork, pid_list, child>>

Processes(app) == {p \in Pids : child[p] # Nil /\ child[p].app = app}
Zombies == {p \in Pids : child[p] # Nil /\ child[p].status = "zombie"}

SupervisorInit ==
  /\ em = "run"
  /\ to_fork = user_app
  /\ pid_list = [p \in {} |-> ""]
  /\ child = [p \in Pids |-> Nil]

\* The parent's side of fork(): the process is recorded under its id.
Fork ==
  /\ em = "run" /\ to_fork # <<>>
  /\ \E p \in {q \in Pids : child[q] = Nil} :
       /\ child' = [child EXCEPT ![p] = [app |-> Head(to_fork), status |-> "forked"]]
       /\ pid_list' = [q \in DOMAIN pid_list \union {p} |->
                         IF q = p THEN Head(to_fork) ELSE pid_list[q]]
  /\ to_fork' = Tail(to_fork)
  /\ UNCHANGED em

\* exit(1): the children live on and nobody waits for them any more.
ForkFails ==
  /\ em = "run" /\ to_fork # <<>> /\ ForkMayFail
  /\ em' = "exited"
  /\ UNCHANGED <<to_fork, pid_list, child>>

\* Seeded fault: only the death of the application started last is noticed.
WaitForLast ==
  /\ em = "run" /\ to_fork = <<>>
  /\ \E p \in Zombies :
       /\ child[p].app = user_app[Len(user_app)]
       /\ to_fork' = <<pid_list[p]>>
       /\ pid_list' = [q \in DOMAIN pid_list \ {p} |-> pid_list[q]]
       /\ child' = [child EXCEPT ![p] = Nil]
  /\ UNCHANGED em

\* Seeded fault: the entry of the process that ended stays in the list.
WaitKeepsEntry ==
  /\ em = "run" /\ to_fork = <<>>
  /\ \E p \in Zombies :
       /\ to_fork' = <<pid_list[p]>>
       /\ child' = [child EXCEPT ![p] = Nil]
  /\ UNCHANGED <<em, pid_list>>

\* Seeded fault: the name is read after the entry was erased.
WaitErasesFirst ==
  /\ em = "run" /\ to_fork = <<>>
  /\ \E p \in Zombies :
       /\ to_fork' = <<"">>
       /\ pid_list' = [q \in DOMAIN pid_list \ {p} |-> pid_list[q]]
       /\ child' = [child EXCEPT ![p] = Nil]
  /\ UNCHANGED em

\* wait() reaps a process.  The log line evaluates pid_list[pid], which inserts
\* an empty name for an id that is not there, so the search finds every id.
\* That wait() finds no child at all and returns -1 is OneProcessEach violated.
Wait ==
  /\ em = "run" /\ to_fork = <<>>
  /\ \E p \in Zombies :
       /\ to_fork' = <<IF p \in DOMAIN pid_list THEN pid_list[p] ELSE "">>
       /\ pid_list' = [q \in DOMAIN pid_list \ {p} |-> pid_list[q]]
       /\ child' = [child EXCEPT ![p] = Nil]
  /\ UNCHANGED em

\* The child's side: execl() replaces it, or fails and it exits at once.
Exec(p) ==
  /\ child[p] # Nil /\ child[p].status = "forked"
  /\ child' = [child EXCEPT ![p].status = "running"]
  /\ UNCHANGED <<em, to_fork, pid_list>>

ExecFails(p) ==
  /\ child[p] # Nil /\ child[p].status = "forked"
  /\ child' = [child EXCEPT ![p].status = "zombie"]
  /\ UNCHANGED <<em, to_fork, pid_list>>

\* Process p ends, for whatever reason.
Exits(p) ==
  /\ child[p] # Nil /\ child[p].status = "running"
  /\ child' = [child EXCEPT ![p].status = "zombie"]
  /\ UNCHANGED <<em, to_fork, pid_list>>

SupervisorTypeOK ==
  /\ em \in {"run", "exited"}
  /\ to_fork \in Seq(Apps)
  /\ DOMAIN pid_list \subseteq Pids /\ Range(pid_list) \subseteq Apps
  /\ child \in [Pids -> {Nil} \union Children]
=============================================================================
