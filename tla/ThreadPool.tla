----------------------------- MODULE ThreadPool -----------------------------
(***************************************************************************)
(* utility::ThreadPool, the pool in which Processor runs the tasks of      *)
(* Reactor: submit() from any thread, the loop of the workers, shutdown(). *)
(* m_lock guards m_taskqueue but not f_shutdown, an atomic that shutdown() *)
(* sets without the lock.                                                  *)
(***************************************************************************)
EXTENDS Naturals, SequencesExt

CONSTANTS
  Workers,       \* the threads of m_threadpool
  Tasks,         \* the tasks, each passed to submit() by a thread of its own
  Nil            \* no thread, no task

ASSUME ThreadPoolAssumption ==
  /\ Workers # {}
  /\ Nil \notin Workers \union Tasks
  /\ Workers \intersect Tasks = {}

VARIABLES
  m_taskqueue,   \* FIFO of accepted tasks
  m_lock,        \* the thread that holds the mutex across steps, or Nil
  f_shutdown,
  worker,        \* where each worker is
  current,       \* the task a worker runs, or Nil
  submit,        \* where the submit() of each task is
  finished,      \* the tasks that have run
  closing        \* where shutdown() is

vars == <<m_taskqueue, m_lock, f_shutdown, worker, current, submit, finished, closing>>

Init ==
  /\ m_taskqueue = <<>>
  /\ m_lock = Nil
  /\ f_shutdown = FALSE
  /\ worker = [w \in Workers |-> "lock"]
  /\ current = [w \in Workers |-> Nil]
  /\ submit = [t \in Tasks |-> "idle"]
  /\ finished = {}
  /\ closing = "no"

-----------------------------------------------------------------------------
(* submit() *)

\* Seeded fault: a pool that is shut down still takes tasks.
EnterUnchecked(t) ==
  /\ submit[t] = "idle"
  /\ m_lock = Nil
  /\ submit' = [submit EXCEPT ![t] = "emplace"] /\ m_lock' = t
  /\ UNCHANGED <<m_taskqueue, f_shutdown, worker, current, finished, closing>>

\* Lock and look at f_shutdown: a pool that is shut down throws.
Enter(t) ==
  /\ submit[t] = "idle"
  /\ m_lock = Nil
  /\ IF f_shutdown
     THEN submit' = [submit EXCEPT ![t] = "rejected"] /\ UNCHANGED m_lock
     ELSE submit' = [submit EXCEPT ![t] = "emplace"] /\ m_lock' = t
  /\ UNCHANGED <<m_taskqueue, f_shutdown, worker, current, finished, closing>>

Emplace(t) ==
  /\ submit[t] = "emplace"
  /\ m_taskqueue' = Append(m_taskqueue, t)
  /\ m_lock' = Nil
  /\ submit' = [submit EXCEPT ![t] = "notify"]
  /\ UNCHANGED <<f_shutdown, worker, current, finished, closing>>

Parked == {w \in Workers : worker[w] = "waiting"}

\* Seeded fault: no notification.
NotifyNobody(t) ==
  /\ submit[t] = "notify"
  /\ submit' = [submit EXCEPT ![t] = "accepted"]
  /\ UNCHANGED <<m_taskqueue, m_lock, f_shutdown, worker, current, finished, closing>>

\* notify_one, after the lock is released, wakes some waiting worker if any.
NotifyOne(t) ==
  /\ submit[t] = "notify"
  /\ submit' = [submit EXCEPT ![t] = "accepted"]
  /\ \/ \E w \in Parked : worker' = [worker EXCEPT ![w] = "lock"]
     \/ Parked = {} /\ UNCHANGED worker
  /\ UNCHANGED <<m_taskqueue, m_lock, f_shutdown, current, finished, closing>>

-----------------------------------------------------------------------------
(* The loop of a worker *)

\* Seeded fault: the task is moved out of the front, which is not popped.
DequeueWithoutPop(w) ==
  /\ m_taskqueue # <<>>
  /\ current' = [current EXCEPT ![w] = Head(m_taskqueue)]
  /\ worker' = [worker EXCEPT ![w] = "run"]
  /\ UNCHANGED <<m_taskqueue, m_lock>>

Dequeue(w) ==
  /\ m_taskqueue # <<>>
  /\ current' = [current EXCEPT ![w] = Head(m_taskqueue)]
  /\ m_taskqueue' = Tail(m_taskqueue)
  /\ worker' = [worker EXCEPT ![w] = "run"]
  /\ UNCHANGED m_lock

\* Lock and evaluate the predicate of m_cond.wait: a task is taken, shut down or
\* not; an empty queue ends the worker once the pool is shut down; else the
\* worker is about to wait, still holding the lock.
Take(w) ==
  /\ worker[w] = "lock"
  /\ m_lock = Nil
  /\ \/ Dequeue(w)
     \/ /\ m_taskqueue = <<>> /\ f_shutdown
        /\ worker' = [worker EXCEPT ![w] = "exited"]
        /\ UNCHANGED <<m_taskqueue, current, m_lock>>
     \/ /\ m_taskqueue = <<>> /\ ~f_shutdown
        /\ worker' = [worker EXCEPT ![w] = "park"]
        /\ m_lock' = w
        /\ UNCHANGED <<m_taskqueue, current>>
  /\ UNCHANGED <<f_shutdown, submit, finished, closing>>

\* The condition variable releases the lock and joins its queue in one step.
Park(w) ==
  /\ worker[w] = "park"
  /\ worker' = [worker EXCEPT ![w] = "waiting"]
  /\ m_lock' = Nil
  /\ UNCHANGED <<m_taskqueue, f_shutdown, current, submit, finished, closing>>

SpuriousWakeup(w) ==
  /\ worker[w] = "waiting"
  /\ worker' = [worker EXCEPT ![w] = "lock"]
  /\ UNCHANGED <<m_taskqueue, m_lock, f_shutdown, current, submit, finished, closing>>

\* Seeded fault: the task is cleared before it is recorded.
FinishAfterReset(w) ==
  /\ worker[w] = "run"
  /\ current' = [current EXCEPT ![w] = Nil]
  /\ finished' = finished \union {current'[w]}
  /\ worker' = [worker EXCEPT ![w] = "lock"]
  /\ UNCHANGED <<m_taskqueue, m_lock, f_shutdown, submit, closing>>

\* The task returns, or throws into its future.
Finish(w) ==
  /\ worker[w] = "run"
  /\ finished' = finished \union {current[w]}
  /\ current' = [current EXCEPT ![w] = Nil]
  /\ worker' = [worker EXCEPT ![w] = "lock"]
  /\ UNCHANGED <<m_taskqueue, m_lock, f_shutdown, submit, closing>>

-----------------------------------------------------------------------------
(* shutdown() *)

SetShutdown ==
  /\ closing = "no"
  /\ f_shutdown' = TRUE
  /\ closing' = "notify"
  /\ UNCHANGED <<m_taskqueue, m_lock, worker, current, submit, finished>>

\* Seeded fault: notify_one in place of notify_all.
NotifyOneOfAll ==
  /\ closing = "notify"
  /\ \/ \E w \in Parked : worker' = [worker EXCEPT ![w] = "lock"]
     \/ Parked = {} /\ UNCHANGED worker
  /\ closing' = "join"
  /\ UNCHANGED <<m_taskqueue, m_lock, f_shutdown, current, submit, finished>>

NotifyAll ==
  /\ closing = "notify"
  /\ worker' = [w \in Workers |-> IF w \in Parked THEN "lock" ELSE worker[w]]
  /\ closing' = "join"
  /\ UNCHANGED <<m_taskqueue, m_lock, f_shutdown, current, submit, finished>>

Join ==
  /\ closing = "join"
  /\ \A w \in Workers : worker[w] = "exited"
  /\ closing' = "joined"
  /\ UNCHANGED <<m_taskqueue, m_lock, f_shutdown, worker, current, submit, finished>>

-----------------------------------------------------------------------------
SubmitStep(t) == Emplace(t) \/ NotifyOne(t)
WorkerStep(w) == Take(w) \/ Park(w) \/ Finish(w)
CloseStep == NotifyAll \/ Join

Next ==
  \/ \E t \in Tasks : Enter(t) \/ SubmitStep(t)
  \/ \E w \in Workers : WorkerStep(w) \/ SpuriousWakeup(w)
  \/ SetShutdown \/ CloseStep

\* Threads that can run do, and every task ends; nobody has to submit, to shut
\* the pool down, or to wake up for no reason.
Fairness ==
  /\ \A t \in Tasks : WF_vars(SubmitStep(t))
  /\ \A w \in Workers : WF_vars(WorkerStep(w))
  /\ WF_vars(CloseStep)

Spec == Init /\ [][Next]_vars /\ Fairness

-----------------------------------------------------------------------------
Queued == ToSet(m_taskqueue)
Running == {current[w] : w \in Workers} \ {Nil}
Accepted == {t \in Tasks : submit[t] \in {"notify", "accepted"}}

\* Type invariant.
TypeOK ==
  /\ m_taskqueue \in Seq(Tasks)
  /\ m_lock \in Workers \union Tasks \union {Nil}
  /\ f_shutdown \in BOOLEAN
  /\ worker \in [Workers -> {"lock", "park", "waiting", "run", "exited"}]
  /\ current \in [Workers -> Tasks \union {Nil}]
  /\ submit \in [Tasks -> {"idle", "emplace", "notify", "accepted", "rejected"}]
  /\ finished \in SUBSET Tasks
  /\ closing \in {"no", "notify", "join", "joined"}

\* A task that submit() has accepted is in exactly one place: waiting in the
\* queue once, run by one worker, or run to its end.  No task is dropped, run
\* twice or run without having been accepted.
AcceptedOnce ==
  /\ Accepted = Queued \union Running \union finished
  /\ Queued \intersect Running = {}
  /\ finished \intersect (Queued \union Running) = {}
  /\ IsInjective(m_taskqueue)
  /\ \A v, w \in Workers : current[v] = current[w] /\ current[v] # Nil => v = w

\* shutdown() returns only when every task ever accepted has run, although
\* submit() tests f_shutdown while shutdown() sets it.
JoinedMeansDrained == closing = "joined" => Accepted = finished

\* A task that submit() has accepted is run.
AcceptedRuns == \A t \in Tasks : (t \in Accepted) ~> (t \in finished)

\* shutdown() returns if at some moment between its setting f_shutdown and its
\* notify_all no worker is about to wait, having seen f_shutdown still false.
ClosesUnlessParking ==
  (closing = "notify" /\ \A w \in Workers : worker[w] # "park") ~> (closing = "joined")
=============================================================================
