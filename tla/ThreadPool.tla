----------------------------- MODULE ThreadPool -----------------------------
(***************************************************************************)
(* The pool of worker threads that serve accepted connections: class       *)
(* ThreadPool (include/server/ThreadPool.h, server/src/ThreadPool.cpp).    *)
(*                                                                         *)
(* submit and the worker loop change m_tasks only under m_mutex, so each   *)
(* critical section is one action.  What is not covered by the mutex is    *)
(* split: submit notifies after it has unlocked, stop stores m_stopping    *)
(* and notifies without locking at all, and condition_variable::wait tests *)
(* its predicate and goes to sleep in two steps, holding the mutex between *)
(* them.  A waiting worker may also wake up for no reason.                 *)
(*                                                                         *)
(* A definition named X_slip, just before X, is a plausible slip in the    *)
(* code X models; no specification uses it.                                *)
(***************************************************************************)
EXTENDS Integers, Sequences, FiniteSets

CONSTANTS
  Workers,        \* m_workers
  Callers,        \* the threads that call submit
  Conns,          \* accepted connections, each submitted at most once
  NoThread,       \* m_mutex is free
  NoTask

ASSUME WorkersAssumption ==
  /\ IsFiniteSet(Workers) /\ Workers # {} /\ NoThread \notin Workers

ASSUME CallersAssumption == IsFiniteSet(Callers)

ASSUME ConnsAssumption == NoTask \notin Conns

VARIABLES
  m_tasks,        \* the queue of connections
  m_stopping,
  m_activeTasks,
  m_mutex,        \* the worker inside wait() that holds the mutex, or NoThread
  pc,             \* where each worker is in workerLoop
  task,           \* task[w]: the connection worker w popped last
  caller,         \* "notify": between submit's unlock and its notify_one
  stopper,        \* where the thread that calls stop() is
  fd              \* fd[c]: what has become of connection c's socket

poolVars == <<m_tasks, m_stopping, m_activeTasks, m_mutex, pc, task, caller,
              stopper, fd>>

(***************************************************************************)
(* loop      about to lock m_mutex: at the top of the loop, or woken up    *)
(* blocking  holds m_mutex, found the wait predicate false                 *)
(* waiting   asleep on m_cv, m_mutex released                              *)
(* taken     popped a task, unlocked, has not counted it yet               *)
(* handler   inside m_handler                                              *)
(* ended     m_handler is over, the task still counts as active            *)
(* exited    has returned from workerLoop                                  *)
(***************************************************************************)
WorkerPc == {"loop", "blocking", "waiting", "taken", "handler", "ended", "exited"}

Waiting == {w \in Workers : pc[w] = "waiting"}
Looping == {w \in Workers : pc[w] = "loop"}
Serving == {w \in Workers : pc[w] \in {"taken", "handler"}}
Notifying == {c \in Callers : caller[c] = "notify"}
Queued == {m_tasks[i] : i \in 1..Len(m_tasks)}

Goto(w, l) == pc' = [pc EXCEPT ![w] = l]

-----------------------------------------------------------------------------
(* submit *)

\* The pool is shutting down: submit closes the socket itself.
SubmitRefused(c, conn) ==
  /\ m_mutex = NoThread /\ caller[c] = "idle" /\ fd[conn] = "new"
  /\ m_stopping
  /\ fd' = [fd EXCEPT ![conn] = "closed"]
  /\ UNCHANGED <<m_tasks, m_stopping, m_activeTasks, m_mutex, pc, task, caller, stopper>>

SubmitTask_unchecked(c, conn) ==
  /\ m_mutex = NoThread /\ caller[c] = "idle" /\ fd[conn] = "new"
  /\ m_tasks' = Append(m_tasks, conn)
  /\ fd' = [fd EXCEPT ![conn] = "open"]
  /\ caller' = [caller EXCEPT ![c] = "notify"]
  /\ UNCHANGED <<m_stopping, m_activeTasks, m_mutex, pc, task, stopper>>

SubmitTask_silent(c, conn) ==
  /\ m_mutex = NoThread /\ caller[c] = "idle" /\ fd[conn] = "new"
  /\ ~m_stopping
  /\ m_tasks' = Append(m_tasks, conn)
  /\ fd' = [fd EXCEPT ![conn] = "open"]
  /\ UNCHANGED <<m_stopping, m_activeTasks, m_mutex, pc, task, caller, stopper>>

SubmitTask(c, conn) ==
  /\ m_mutex = NoThread /\ caller[c] = "idle" /\ fd[conn] = "new"
  /\ ~m_stopping
  /\ m_tasks' = Append(m_tasks, conn)
  /\ fd' = [fd EXCEPT ![conn] = "open"]
  /\ caller' = [caller EXCEPT ![c] = "notify"]
  /\ UNCHANGED <<m_stopping, m_activeTasks, m_mutex, pc, task, stopper>>

\* m_cv.notify_one: wakes one waiting worker, nobody if there is none.
NotifyOne(c) ==
  /\ caller[c] = "notify"
  /\ caller' = [caller EXCEPT ![c] = "idle"]
  /\ \/ \E w \in Waiting : Goto(w, "loop")
     \/ Waiting = {} /\ UNCHANGED pc
  /\ UNCHANGED <<m_tasks, m_stopping, m_activeTasks, m_mutex, task, stopper, fd>>

-----------------------------------------------------------------------------
(* workerLoop *)

StartWait_deaf(w) ==
  /\ pc[w] = "loop" /\ m_mutex = NoThread
  /\ m_tasks = <<>>
  /\ m_mutex' = w
  /\ Goto(w, "blocking")
  /\ UNCHANGED <<m_tasks, m_stopping, m_activeTasks, task, caller, stopper, fd>>

\* The predicate of m_cv.wait is false.
StartWait(w) ==
  /\ pc[w] = "loop" /\ m_mutex = NoThread
  /\ m_tasks = <<>> /\ ~m_stopping
  /\ m_mutex' = w
  /\ Goto(w, "blocking")
  /\ UNCHANGED <<m_tasks, m_stopping, m_activeTasks, task, caller, stopper, fd>>

\* m_cv.wait releases the mutex and sleeps, as one step.
Block(w) ==
  /\ pc[w] = "blocking"
  /\ m_mutex' = NoThread
  /\ Goto(w, "waiting")
  /\ UNCHANGED <<m_tasks, m_stopping, m_activeTasks, task, caller, stopper, fd>>

SpuriousWakeup(w) ==
  /\ pc[w] = "waiting"
  /\ Goto(w, "loop")
  /\ UNCHANGED <<m_tasks, m_stopping, m_activeTasks, m_mutex, task, caller, stopper, fd>>

\* Stopping and nothing left to do.
Exit(w) ==
  /\ pc[w] = "loop" /\ m_mutex = NoThread
  /\ m_stopping /\ m_tasks = <<>>
  /\ Goto(w, "exited")
  /\ UNCHANGED <<m_tasks, m_stopping, m_activeTasks, m_mutex, task, caller, stopper, fd>>

TakeTask_peek(w) ==
  /\ pc[w] = "loop" /\ m_mutex = NoThread
  /\ m_tasks # <<>>
  /\ task' = [task EXCEPT ![w] = Head(m_tasks)]
  /\ Goto(w, "taken")
  /\ UNCHANGED <<m_tasks, m_stopping, m_activeTasks, m_mutex, caller, stopper, fd>>

\* There is work, whether or not the pool is stopping.
TakeTask(w) ==
  /\ pc[w] = "loop" /\ m_mutex = NoThread
  /\ m_tasks # <<>>
  /\ task' = [task EXCEPT ![w] = Head(m_tasks)]
  /\ m_tasks' = Tail(m_tasks)
  /\ Goto(w, "taken")
  /\ UNCHANGED <<m_stopping, m_activeTasks, m_mutex, caller, stopper, fd>>

BeginTask(w) ==
  /\ pc[w] = "taken"
  /\ m_activeTasks' = m_activeTasks + 1
  /\ Goto(w, "handler")
  /\ UNCHANGED <<m_tasks, m_stopping, m_mutex, task, caller, stopper, fd>>

\* The handler (Server::handleClient) closes the socket before it returns.
HandlerReturns(w) ==
  /\ pc[w] = "handler"
  /\ fd' = [fd EXCEPT ![task[w]] = "closed"]
  /\ Goto(w, "ended")
  /\ UNCHANGED <<m_tasks, m_stopping, m_activeTasks, m_mutex, task, caller, stopper>>

HandlerThrows_dies(w) ==
  /\ pc[w] = "handler"
  /\ fd' = [fd EXCEPT ![task[w]] = "leaked"]
  /\ Goto(w, "exited")
  /\ UNCHANGED <<m_tasks, m_stopping, m_activeTasks, m_mutex, task, caller, stopper>>

HandlerThrows_uncounted(w) ==
  /\ pc[w] = "handler"
  /\ fd' = [fd EXCEPT ![task[w]] = "leaked"]
  /\ Goto(w, "loop")
  /\ UNCHANGED <<m_tasks, m_stopping, m_activeTasks, m_mutex, task, caller, stopper>>

\* An exception is caught and logged.  It skipped the handler's close, and
\* nobody else closes the socket.
HandlerThrows(w) ==
  /\ pc[w] = "handler"
  /\ fd' = [fd EXCEPT ![task[w]] = "leaked"]
  /\ Goto(w, "ended")
  /\ UNCHANGED <<m_tasks, m_stopping, m_activeTasks, m_mutex, task, caller, stopper>>

EndTask(w) ==
  /\ pc[w] = "ended"
  /\ m_activeTasks' = m_activeTasks - 1
  /\ Goto(w, "loop")
  /\ UNCHANGED <<m_tasks, m_stopping, m_mutex, task, caller, stopper, fd>>

-----------------------------------------------------------------------------
(* stop, called once: a second call, from a destructor, finds no worker to join *)

StopStore ==
  /\ stopper = "running"
  /\ m_stopping' = TRUE
  /\ stopper' = "stored"
  /\ UNCHANGED <<m_tasks, m_activeTasks, m_mutex, pc, task, caller, fd>>

StopNotifyAll_one ==
  /\ stopper = "stored"
  /\ IF Waiting = {} THEN UNCHANGED pc ELSE \E w \in Waiting : Goto(w, "loop")
  /\ stopper' = "joining"
  /\ UNCHANGED <<m_tasks, m_stopping, m_activeTasks, m_mutex, task, caller, fd>>

\* m_cv.notify_all wakes the workers that wait now.
StopNotifyAll ==
  /\ stopper = "stored"
  /\ pc' = [w \in Workers |-> IF pc[w] = "waiting" THEN "loop" ELSE pc[w]]
  /\ stopper' = "joining"
  /\ UNCHANGED <<m_tasks, m_stopping, m_activeTasks, m_mutex, task, caller, fd>>

\* Every join returns, and m_workers is cleared.
StopJoin ==
  /\ stopper = "joining"
  /\ \A w \in Workers : pc[w] = "exited"
  /\ stopper' = "joined"
  /\ UNCHANGED <<m_tasks, m_stopping, m_activeTasks, m_mutex, pc, task, caller, fd>>

-----------------------------------------------------------------------------
PoolInit ==
  /\ m_tasks = <<>>
  /\ m_stopping = FALSE
  /\ m_activeTasks = 0
  /\ m_mutex = NoThread
  /\ pc = [w \in Workers |-> "loop"]
  /\ task = [w \in Workers |-> NoTask]
  /\ caller = [c \in Callers |-> "idle"]
  /\ stopper = "running"
  /\ fd = [c \in Conns |-> "new"]

HandlerEnds(w) == HandlerReturns(w) \/ HandlerThrows(w)

\* What worker w does of its own accord.
WorkerStep(w) ==
  \/ StartWait(w)
  \/ Block(w)
  \/ Exit(w)
  \/ TakeTask(w)
  \/ BeginTask(w)
  \/ HandlerEnds(w)
  \/ EndTask(w)

Submit(c, conn) == SubmitTask(c, conn) \/ SubmitRefused(c, conn)

StopNext == StopStore \/ StopNotifyAll \/ StopJoin

PoolNext ==
  \/ \E c \in Callers : NotifyOne(c) \/ \E conn \in Conns : Submit(c, conn)
  \/ \E w \in Workers : WorkerStep(w) \/ SpuriousWakeup(w)
  \/ StopNext

PoolSpec == PoolInit /\ [][PoolNext]_poolVars

(***************************************************************************)
(* The scheduler runs every thread that can run, and a caller of submit or *)
(* stop goes on once it is inside.  Weak fairness of HandlerEnds says that *)
(* every client disconnects in the end.  No fairness for spurious wakeups, *)
(* and nobody has to call submit or stop.                                  *)
(***************************************************************************)
PoolFairness ==
  /\ \A w \in Workers : WF_poolVars(WorkerStep(w))
  /\ \A c \in Callers : WF_poolVars(NotifyOne(c))
  /\ WF_poolVars(StopNotifyAll) /\ WF_poolVars(StopJoin)

FairPoolSpec == PoolSpec /\ PoolFairness

-----------------------------------------------------------------------------
(* Properties *)

PoolTypeOK ==
  /\ m_tasks \in Seq(Conns)
  /\ m_stopping \in BOOLEAN
  /\ m_activeTasks \in Nat
  /\ m_mutex \in Workers \cup {NoThread}
  /\ pc \in [Workers -> WorkerPc]
  /\ task \in [Workers -> Conns \cup {NoTask}]
  /\ caller \in [Callers -> {"idle", "notify"}]
  /\ stopper \in {"running", "stored", "joining", "joined"}
  /\ fd \in [Conns -> {"new", "open", "closed", "leaked"}]

\* Each open connection has exactly one owner, the queue or the worker that
\* serves it: none is dropped, queued twice or handed to two workers
\* (submit, and the pop in workerLoop).
OneOwner ==
  /\ \A i, j \in 1..Len(m_tasks) : i # j => m_tasks[i] # m_tasks[j]
  /\ \A v, w \in Serving : v # w => task[v] # task[w]
  /\ \A w \in Serving : task[w] \notin Queued
  /\ \A c \in Conns :
       fd[c] = "open" <=> c \in Queued \/ \E w \in Serving : task[w] = c

\* No queued connection waits for a wakeup that is not on its way: while a
\* worker sleeps, each queued connection has a notify_one still to come or a
\* worker already on its way to the queue (submit notifies after unlocking, and
\* workers pop without having been notified).
WorkConserving ==
  Waiting # {} =>
    Len(m_tasks) <= Cardinality(Notifying) + Cardinality(Looping)

\* m_activeTasks is the number of workers between its two updates, through
\* handlers that return and handlers that throw.
ActiveTasksCount ==
  m_activeTasks = Cardinality({w \in Workers : pc[w] \in {"handler", "ended"}})

\* A worker gives up only for good, and no exception of a handler makes it: once
\* one has left workerLoop the pool is stopping, the queue is empty, and (submit
\* refuses) stays so.
ExitedDrained ==
  (\E w \in Workers : pc[w] = "exited") => m_stopping /\ m_tasks = <<>>

\* When stop() returns nothing is queued or in a worker's hands, also when submit
\* ran concurrently: each connection was served, or refused, and its socket closed.
\* The exception are the sockets of handlers that threw: the exception skips
\* handleClient's close, and they stay open ("leaked").
StopLeavesNone ==
  stopper = "joined" =>
    /\ m_tasks = <<>> /\ m_activeTasks = 0
    /\ \A c \in Conns : fd[c] \in {"new", "closed", "leaked"}

\* stop() stores m_stopping and notifies without the mutex, so a worker that has
\* just found the wait predicate false can sleep through the notify_all.  The
\* mutex limits the damage: at most one worker is ever left asleep.
AtMostOneAsleep ==
  stopper \in {"joining", "joined"} =>
    \A v, w \in Workers :
      pc[v] \in {"blocking", "waiting"} /\ pc[w] \in {"blocking", "waiting"} => v = w

\* Every queued connection is served in the end, if clients disconnect, also
\* when the pool is stopping meanwhile: workers drain the queue before they exit.
\* ThreadPool.h says that stop() discards it, see QueuedDiscarded.
TaskServed == \A c \in Conns : c \in Queued ~> fd[c] \in {"closed", "leaked"}

\* "In-progress tasks complete normally; queued tasks are discarded (clients will
\* see a disconnect)": once the pool is stopping no worker takes a connection from
\* the queue to serve it (stop, and the exit test in workerLoop).
QueuedDiscarded ==
  [][m_stopping => \A w \in Workers : pc[w] = "loop" => pc'[w] # "taken"]_poolVars

\* "Graceful shutdown: stop() sets m_stopping, notifies all workers via
\* notify_all(), then joins each thread": stop() returns.
StopCompletes == stopper = "stored" ~> stopper = "joined"

\* stop() returns when its notify_all has reached everybody: no worker was
\* between the test of its wait predicate and sleep.
JoinReturns ==
  stopper = "joining" /\ (\A w \in Workers : pc[w] \notin {"blocking", "waiting"})
    ~> stopper = "joined"
=============================================================================
