------------------------------ MODULE Processes ------------------------------
(***************************************************************************)
(* The gateway as a set of processes: the supervisor, device_control with  *)
(* the two clients of its Source, pressure_test with its client, and the   *)
(* operators who publish to the IN queue.  A message is only its effect on *)
(* device_control here; what devices do with events is module Gateway.     *)
(***************************************************************************)
EXTENDS Supervisor, RabbitMqClient, Counting

CONSTANTS
  Script,        \* sequence of the messages that pressure_test publishes
  Foreign,       \* messages of operators, each published once
  MaxForeign,    \* bound on how many of them are published
  Kind,          \* Kind[e]: "good", "malformed", "garbled" or "unknown"
  MaxFaults      \* bound on failing calls, crashes and ends of pressure_test together

ASSUME ProcessesAssumption ==
  /\ user_app = <<"device_control", "pressure_test">>
  /\ Messages = ToSet(Script) \union Foreign
  /\ Script \in Seq(Messages) /\ ToSet(Script) \intersect Foreign = {}
  /\ Kind \in [Messages -> {"good", "malformed", "garbled", "unknown"}]
  /\ MaxFaults \in Nat /\ MaxForeign \in Nat

VARIABLES
  stage,         \* stage[a]: the last call of application a, "down" without a process
  sent,          \* messages of the script the running pressure_test has published
  tasks,         \* bag of the events the pool of device_control has
  published,     \* bag of the messages given to publish()
  fate,          \* bag of <<message, what became of it>>
  crashes,       \* deaths for no cause in the model
  tests          \* times pressure_test has come to its end

vars == <<emVars, clientVars, stage, sent, tasks, published, fate, crashes, tests>>

\* The stage that follows the connect() of each client.
Connected == [in |-> "connect in", out |-> "connect out", test |-> "connect test"]

DC == "device_control"
PT == "pressure_test"

Init ==
  /\ SupervisorInit /\ ClientInit
  /\ stage = [a \in Apps |-> "down"]
  /\ sent = 0 /\ tasks = EmptyBag
  /\ published = EmptyBag /\ fate = EmptyBag
  /\ crashes = 0 /\ tests = 0

-----------------------------------------------------------------------------
(* The life of a process.                                                  *)

Started(p) ==
  /\ Exec(p)
  /\ stage' = [stage EXCEPT ![child[p].app] = "main"]
  /\ UNCHANGED <<clientVars, sent, tasks, published, fate, crashes, tests>>

NotStarted(p) ==
  /\ ExecFails(p) /\ IoError
  /\ UNCHANGED <<conn, declared, inqueue, consumer, r_store,
                 stage, sent, tasks, published, fate, crashes, tests>>

Exit(a) ==
  /\ \E p \in Processes(a) : Exits(p)
  /\ stage' = [stage EXCEPT ![a] = "down"]

\* The fates of the messages of r, a sequence, and t, a bag, that nobody will take.
Perish(r, t) ==
  LET held == t (+) [e \in ToSet(r) |-> Times(e, r)]
  IN  [x \in {<<e, "perished">> : e \in BagToSet(held)} |-> held[x[1]]]

\* device_control ends, with what it holds in memory and in its socket; r and t
\* are what is left of r_store and tasks, and end is what becomes of the message
\* it died of.
ControlEnds(r, t, end) ==
  /\ Exit(DC)
  /\ conn' = [conn EXCEPT !["in"] = "none", !["out"] = "none"]
  /\ consumer' = "none" /\ r_store' = <<>> /\ tasks' = EmptyBag
  /\ \E n \in Prefetched :
       /\ SocketLost(n)
       /\ fate' = fate (+) end (+) Perish(r, t) (+) Perish(InSocket(n), EmptyBag)
  /\ UNCHANGED <<declared, sent, published, tests>>

TestEnds ==
  /\ Exit(PT)
  /\ conn' = [conn EXCEPT !["test"] = "none"]
  /\ sent' = 0
  /\ UNCHANGED <<declared, inqueue, consumer, r_store, tasks, published, fate>>

Ends(a) == IF a = DC THEN ControlEnds(r_store, tasks, EmptyBag) ELSE TestEnds /\ UNCHANGED tests

Crash(a) ==
  /\ crashes' = crashes + 1
  /\ Ends(a)
  /\ UNCHANGED ioErrs

\* main() ignores that the configuration cannot be read; both applications then
\* call a client through a null pointer.
ConfigFails(a) == stage[a] = "main" /\ IoError /\ Ends(a) /\ UNCHANGED crashes

\* The first call after a connect() that left m_conn null.
UsesNoConnection(a) ==
  /\ \E c \in Clients : stage[a] = Connected[c] /\ conn[c] = "none"
  /\ Ends(a)
  /\ UNCHANGED <<ioErrs, crashes>>

-----------------------------------------------------------------------------
(* device_control.                                                         *)

Call(from, to, Operation) ==
  /\ stage[DC] = from
  /\ stage' = [stage EXCEPT ![DC] = to]
  /\ Operation
  /\ UNCHANGED <<emVars, sent, tasks, published, fate, crashes, tests>>

\* Seeded fault: the thread that consumes is started before the queue is declared.
SourceListensFirst ==
  \/ Call("main", "connect in", Connect("in"))
  \/ Call("connect in", "exchange in", Declare("in", "nothing", "exchange"))
  \/ Call("exchange in", "queue in", ConsumeListen)
  \/ Call("queue in", "listen in", Declare("in", "exchange", "bound"))
  \/ Call("listen in", "connect out", Connect("out"))
  \/ Call("connect out", "exchange out", Declare("out", "nothing", "exchange"))
  \/ Call("exchange out", "ready", Declare("out", "exchange", "bound"))

\* The constructor of Source, call by call; Reactor::listen comes after it.
Source ==
  \/ Call("main", "connect in", Connect("in"))
  \/ Call("connect in", "exchange in", Declare("in", "nothing", "exchange"))
  \/ Call("exchange in", "queue in", Declare("in", "exchange", "bound"))
  \/ Call("queue in", "listen in", ConsumeListen)
  \/ Call("listen in", "connect out", Connect("out"))
  \/ Call("connect out", "exchange out", Declare("out", "nothing", "exchange"))
  \/ Call("exchange out", "ready", Declare("out", "exchange", "bound"))

\* Reactor::listen: pop_in, then parse(), which refuses a message without the
\* six words, and throws where a number is expected and none is found.  Nobody
\* catches it.
Dispatch ==
  /\ stage[DC] = "ready" /\ r_store # <<>>
  /\ LET e == Head(r_store) IN
     \/ /\ Kind[e] = "garbled"
        /\ ControlEnds(Tail(r_store), tasks, SetToBag({<<e, "killed">>}))
     \/ /\ Kind[e] # "garbled"
        /\ IF Kind[e] = "malformed"
           THEN fate' = fate (+) SetToBag({<<e, "dropped">>}) /\ UNCHANGED tasks
           ELSE tasks' = tasks (+) SetToBag({e}) /\ UNCHANGED fate
        /\ r_store' = Tail(r_store)
        /\ UNCHANGED <<emVars, conn, declared, inqueue, consumer, stage, sent, published, tests>>
  /\ UNCHANGED <<ioErrs, crashes>>

\* A pool thread: the device is not in m_devicelist, so operator[] inserts a
\* null pointer and the call through it ends the process.
UnknownDevice(e) ==
  /\ BagIn(e, tasks) /\ Kind[e] = "unknown"
  /\ ControlEnds(r_store, tasks (-) SetToBag({e}), SetToBag({<<e, "killed">>}))
  /\ UNCHANGED <<ioErrs, crashes>>

\* A pool thread: handleEvent and push_out, which ignores what publish() returns.
Answer(e) ==
  /\ BagIn(e, tasks) /\ Kind[e] # "unknown"
  /\ tasks' = tasks (-) SetToBag({e})
  /\ Publish("out", fate' = fate (+) SetToBag({<<e, "answered">>}),
                    fate' = fate (+) SetToBag({<<e, "unanswered">>}))
  /\ UNCHANGED <<emVars, inqueue, stage, sent, published, crashes, tests>>

-----------------------------------------------------------------------------
(* pressure_test and the operators.                                        *)

ConnectTest ==
  /\ stage[PT] = "main"
  /\ stage' = [stage EXCEPT ![PT] = "connect test"]
  /\ Connect("test")
  /\ UNCHANGED <<emVars, sent, tasks, published, fate, crashes, tests>>

PublishTest ==
  /\ stage[PT] = "connect test" /\ conn["test"] # "none" /\ sent < Len(Script)
  /\ sent' = sent + 1
  /\ LET e == Script[sent + 1]
     IN  /\ published' = published (+) SetToBag({e})
         /\ Publish("test", inqueue' = Append(inqueue, e) /\ UNCHANGED fate,
                            fate' = fate (+) SetToBag({<<e, "unrouted">>}) /\ UNCHANGED inqueue)
  /\ UNCHANGED <<emVars, stage, tasks, crashes, tests>>

\* The end of main(); to the supervisor it is a death like any other.
TestOver ==
  /\ sent = Len(Script) /\ tests' = tests + 1
  /\ TestEnds
  /\ UNCHANGED <<ioErrs, crashes>>

PublishForeign(e) ==
  /\ e \in Foreign /\ ~BagIn(e, published)
  /\ Cardinality(BagToSet(published) \intersect Foreign) < MaxForeign
  /\ published' = published (+) SetToBag({e})
  /\ IF declared["IN"] = "bound"
     THEN inqueue' = Append(inqueue, e) /\ UNCHANGED fate
     ELSE fate' = fate (+) SetToBag({<<e, "unrouted">>}) /\ UNCHANGED inqueue
  /\ UNCHANGED <<emVars, conn, declared, consumer, r_store, ioErrs, stage, sent, tasks,
                 crashes, tests>>

-----------------------------------------------------------------------------
SupervisorStep ==
  /\ Fork \/ ForkFails \/ Wait
  /\ UNCHANGED <<clientVars, stage, sent, tasks, published, fate, crashes, tests>>

ConsumerStep ==
  /\ BasicConsume \/ Deliver
  /\ UNCHANGED <<emVars, stage, sent, tasks, published, fate, crashes, tests>>

ConnectionStep ==
  /\ \E c \in Clients, n \in 0 .. Len(inqueue) :
       ConnectionLost(c, n) /\ fate' = fate (+) Perish(InSocket(n), EmptyBag)
  /\ UNCHANGED <<emVars, stage, sent, tasks, published, crashes, tests>>

Step ==
  \/ SupervisorStep
  \/ \E p \in Pids : Started(p) \/ NotStarted(p)
  \/ \E a \in Apps : Crash(a) \/ ConfigFails(a) \/ UsesNoConnection(a)
  \/ ConsumerStep \/ ConnectionStep
  \/ Source \/ Dispatch
  \/ \E e \in Messages : UnknownDevice(e) \/ Answer(e)
  \/ ConnectTest \/ PublishTest \/ TestOver
  \/ \E e \in Foreign : PublishForeign(e)

WithinBounds == ioErrs + crashes + tests <= MaxFaults

Next == Step /\ WithinBounds'

\* A process and each of its threads goes on when it can, the supervisor as
\* well.  Nobody has to publish, to fail or to die of itself.
Fairness ==
  /\ WF_vars(SupervisorStep) /\ WF_vars(ConsumerStep)
  /\ \A p \in Pids : WF_vars(Started(p) \/ NotStarted(p))
  /\ WF_vars(Source) /\ WF_vars(Dispatch)
  /\ \A a \in Apps : WF_vars(UsesNoConnection(a))
  /\ \A e \in Messages : WF_vars(UnknownDevice(e) \/ Answer(e))

Spec == Init /\ [][Next]_vars /\ Fairness

-----------------------------------------------------------------------------
Stages == {"down", "main", "exchange in", "queue in", "listen in", "exchange out", "ready"}
            \union {Connected[c] : c \in Clients}
Outcomes == {"answered", "unanswered", "dropped", "killed", "perished", "unrouted"}

\* Type invariant.
TypeOK ==
  /\ SupervisorTypeOK /\ ClientTypeOK
  /\ stage \in [Apps -> Stages]
  /\ sent \in 0 .. Len(Script)
  /\ IsABag(tasks) /\ BagToSet(tasks) \subseteq Messages
  /\ IsABag(published) /\ BagToSet(published) \subseteq Messages
  /\ IsABag(fate) /\ BagToSet(fate) \subseteq Messages \X Outcomes
  /\ crashes \in Nat /\ tests \in Nat /\ WithinBounds

\* While the supervisor runs, each application has one process or is about to
\* get one, and pid_list names exactly the processes: whatever ids the system
\* hands out, no application is started twice or forgotten, no id is searched
\* in vain (exec_management.cpp:107), wait() never runs out of children (:74).
OneProcessEach ==
  em = "run" =>
    /\ DOMAIN pid_list = {p \in Pids : child[p] # Nil}
    /\ \A p \in DOMAIN pid_list : pid_list[p] = child[p].app
    /\ \A a \in Apps : Cardinality(Processes(a)) + Times(a, to_fork) = 1

\* How often message e has met fate o.
Met(e, o) == Copies(<<e, o>>, fate)

\* A message given to publish() is in one place or has met one fate, across all
\* deaths of the processes: it is answered at most once, and one that kills
\* device_control (event.cpp:81, reactor.cpp:77) kills it once, not each time it
\* is started again, as no_ack has removed it from the queue
\* (rabbitmqclient.h:101).
AccountedFor ==
  \A e \in Messages :
    Copies(e, published) =
      Times(e, inqueue) + Times(e, r_store) + Copies(e, tasks)
        + Met(e, "answered") + Met(e, "unanswered") + Met(e, "dropped")
        + Met(e, "killed") + Met(e, "perished") + Met(e, "unrouted")

\* device_control is up and will never hear of a message again.
Deaf == stage[DC] = "ready" /\ consumer = "ended"

\* It takes a failing call to make it deaf: the consumer thread, which runs
\* beside the rest of the constructor, always finds what it consumes from
\* declared (source.cpp:40-44), in every life of the process.
DeafOnlyAfterFailure == Deaf => ioErrs > 0

\* An application that is down comes back, after whatever end, unless the
\* supervisor has given up at a failing fork (exec_management.cpp:69-114).
Restarted ==
  \A a \in Apps : (stage[a] = "down") ~> (stage[a] # "down" \/ em = "exited")

\* What the broker or device_control holds is settled in the end, over all its
\* restarts, unless it is deaf, which no restart cures as nobody notices, or
\* the supervisor has given up.
MessagesSettle ==
  (inqueue # <<>> \/ r_store # <<>> \/ tasks # EmptyBag)
    ~> (\/ inqueue = <<>> /\ r_store = <<>> /\ tasks = EmptyBag
        \/ Deaf \/ em = "exited")
=============================================================================
