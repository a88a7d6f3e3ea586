---------------------------- MODULE ServerProofs ----------------------------
(***************************************************************************)
(* Proofs about ThreadPool, for any number of workers, of threads that     *)
(* call submit, and of connections, and about Server, for any number of    *)
(* workers, connections and signals.                                       *)
(*                                                                         *)
(* The pool's properties rest on two facts the code never states: who      *)
(* holds the mutex is who is inside wait(), and nothing is queued while    *)
(* somebody is.  Nothing here uses MainAssumption before the part on the   *)
(* server: the pool is proved for any set of callers.                      *)
(*                                                                         *)
(* The server uses the pool as ThreadPool allows, so what is proved of the *)
(* pool holds of the server.  MetricsAlive and CleanExit rest on Life, an  *)
(* invariant that says for each moment of start-up and of stop() what is   *)
(* known of the metrics server and of the pool.                            *)
(***************************************************************************)
EXTENDS Server, FiniteSetTheorems, TLAPS

-----------------------------------------------------------------------------
(* The pool *)

\* The mutex is held across two steps only by the worker inside wait(), so the
\* queue it found empty stays empty until it sleeps.
WaitHoldsMutex ==
  /\ \A w \in Workers : m_mutex = w <=> pc[w] = "blocking"
  /\ m_mutex # NoThread => m_tasks = <<>>

\* m_stopping is set by stop() alone, and stop() returns after every worker.
StopProgress ==
  /\ m_stopping <=> stopper # "running"
  /\ stopper = "joined" => \A w \in Workers : pc[w] = "exited"

\* What a worker serves is a connection.
ServesConn == \A w \in Serving : task[w] \in Conns

Base == PoolTypeOK /\ WaitHoldsMutex /\ StopProgress /\ ServesConn

\* One case per action: what a step of the pool is.
LEMMA StepCases ==
  ASSUME [PoolNext]_poolVars
  PROVE  \/ \E c \in Callers, conn \in Conns : SubmitTask(c, conn)
         \/ \E c \in Callers, conn \in Conns : SubmitRefused(c, conn)
         \/ \E c \in Callers : NotifyOne(c)
         \/ \E w \in Workers : StartWait(w)
         \/ \E w \in Workers : Block(w)
         \/ \E w \in Workers : SpuriousWakeup(w)
         \/ \E w \in Workers : Exit(w)
         \/ \E w \in Workers : TakeTask(w)
         \/ \E w \in Workers : BeginTask(w)
         \/ \E w \in Workers : HandlerReturns(w)
         \/ \E w \in Workers : HandlerThrows(w)
         \/ \E w \in Workers : EndTask(w)
         \/ StopStore
         \/ StopNotifyAll
         \/ StopJoin
         \/ UNCHANGED poolVars
  BY DEF PoolNext, Submit, WorkerStep, HandlerEnds, StopNext

-----------------------------------------------------------------------------
(* The base: types, who holds the mutex, where stop() is *)

LEMMA ActiveNat ==
  ASSUME PoolTypeOK, ActiveTasksCount, NEW w \in Workers, pc[w] = "ended"
  PROVE  m_activeTasks \in Nat \ {0}
<1> DEFINE A == {v \in Workers : pc[v] \in {"handler", "ended"}}
<1>1. IsFiniteSet(A) /\ w \in A
  BY WorkersAssumption, FS_Subset
<1>2. Cardinality(A) # 0
  BY <1>1, FS_EmptySet
<1> QED BY <1>1, <1>2, FS_CardinalityType DEF ActiveTasksCount

LEMMA BaseStep ==
  ASSUME Base, ActiveTasksCount, [PoolNext]_poolVars
  PROVE  Base'
<1> USE DEF Goto, PoolTypeOK, WorkerPc, WaitHoldsMutex, StopProgress, ServesConn,
            Serving, Base
<1> USE WorkersAssumption
<1>1. ASSUME NEW c \in Callers, NEW conn \in Conns, SubmitTask(c, conn) PROVE Base'
  BY <1>1 DEF SubmitTask
<1>2. ASSUME NEW c \in Callers, NEW conn \in Conns, SubmitRefused(c, conn)
      PROVE Base'
  BY <1>2 DEF SubmitRefused
<1>3. ASSUME NEW c \in Callers, NotifyOne(c) PROVE Base'
  <2>1. CASE Waiting = {} /\ UNCHANGED pc
    BY <1>3, <2>1 DEF NotifyOne
  <2>2. ASSUME NEW w \in Waiting, Goto(w, "loop") PROVE Base'
    BY <1>3, <2>2 DEF NotifyOne, Waiting
  <2> QED BY <1>3, <2>1, <2>2 DEF NotifyOne
<1>4. ASSUME NEW w \in Workers, StartWait(w) PROVE Base'
  BY <1>4 DEF StartWait
<1>5. ASSUME NEW w \in Workers, Block(w) PROVE Base'
  BY <1>5 DEF Block
<1>6. ASSUME NEW w \in Workers, SpuriousWakeup(w) PROVE Base'
  BY <1>6 DEF SpuriousWakeup
<1>7. ASSUME NEW w \in Workers, Exit(w) PROVE Base'
  BY <1>7 DEF Exit
<1>8. ASSUME NEW w \in Workers, TakeTask(w) PROVE Base'
  <2>1. Head(m_tasks) \in Conns /\ Tail(m_tasks) \in Seq(Conns)
    BY <1>8 DEF TakeTask
  <2> QED BY <1>8, <2>1 DEF TakeTask
<1>9. ASSUME NEW w \in Workers, BeginTask(w) PROVE Base'
  BY <1>9 DEF BeginTask
<1>10. ASSUME NEW w \in Workers, HandlerReturns(w) PROVE Base'
  BY <1>10 DEF HandlerReturns
<1>11. ASSUME NEW w \in Workers, HandlerThrows(w) PROVE Base'
  BY <1>11 DEF HandlerThrows
<1>12. ASSUME NEW w \in Workers, EndTask(w) PROVE Base'
  <2>1. m_activeTasks - 1 \in Nat
    BY <1>12, ActiveNat DEF EndTask
  <2> QED BY <1>12, <2>1 DEF EndTask
<1>13. CASE StopStore
  BY <1>13 DEF StopStore
<1>14. CASE StopNotifyAll
  BY <1>14 DEF StopNotifyAll
<1>15. CASE StopJoin
  BY <1>15 DEF StopJoin
<1>16. CASE UNCHANGED poolVars
  BY <1>16 DEF poolVars
<1> QED BY StepCases, <1>1, <1>2, <1>3, <1>4, <1>5, <1>6, <1>7, <1>8, <1>9, <1>10,
           <1>11, <1>12, <1>13, <1>14, <1>15, <1>16

-----------------------------------------------------------------------------
(* m_activeTasks *)

LEMMA ActiveStep ==
  ASSUME Base, ActiveTasksCount, [PoolNext]_poolVars
  PROVE  ActiveTasksCount'
<1> DEFINE A == {w \in Workers : pc[w] \in {"handler", "ended"}}
<1> USE DEF Goto, Base, PoolTypeOK, WorkerPc
<1>0. IsFiniteSet(A) /\ Cardinality(A) \in Nat /\ m_activeTasks = Cardinality(A)
  BY WorkersAssumption, FS_Subset, FS_CardinalityType DEF ActiveTasksCount
<1>1. ASSUME NEW w \in Workers, BeginTask(w) PROVE ActiveTasksCount'
  <2>1. w \notin A /\ A' = A \cup {w}
    BY <1>1 DEF BeginTask
  <2>2. Cardinality(A') = Cardinality(A) + 1
    BY <1>0, <2>1, FS_AddElement
  <2> QED BY <1>0, <1>1, <2>2 DEF BeginTask, ActiveTasksCount
<1>2. ASSUME NEW w \in Workers, EndTask(w) PROVE ActiveTasksCount'
  <2>1. w \in A /\ A' = A \ {w}
    BY <1>2 DEF EndTask
  <2>2. Cardinality(A') = Cardinality(A) - 1
    <3> HIDE DEF A
    <3> QED BY <1>0, <2>1, FS_RemoveElement
  <2> QED BY <1>0, <1>2, <2>2 DEF EndTask, ActiveTasksCount
<1>3. CASE A' = A /\ UNCHANGED m_activeTasks
  BY <1>3 DEF ActiveTasksCount
<1>4. ASSUME NEW c \in Callers, NotifyOne(c) PROVE A' = A /\ UNCHANGED m_activeTasks
  BY <1>4 DEF NotifyOne, Waiting
<1>5. ASSUME NEW w \in Workers,
             \/ StartWait(w) \/ Block(w) \/ SpuriousWakeup(w) \/ Exit(w)
             \/ TakeTask(w) \/ HandlerReturns(w) \/ HandlerThrows(w)
      PROVE A' = A /\ UNCHANGED m_activeTasks
  BY <1>5 DEF StartWait, Block, SpuriousWakeup, Exit, TakeTask, HandlerReturns,
              HandlerThrows
<1>6. CASE StopNotifyAll
  BY <1>3, <1>6 DEF StopNotifyAll
<1>7. ASSUME NEW c \in Callers, NEW conn \in Conns,
             SubmitTask(c, conn) \/ SubmitRefused(c, conn)
      PROVE ActiveTasksCount'
  BY <1>3, <1>7 DEF SubmitTask, SubmitRefused
<1>8. CASE StopStore \/ StopJoin \/ UNCHANGED poolVars
  BY <1>3, <1>8 DEF StopStore, StopJoin, poolVars
<1> QED BY StepCases, <1>1, <1>2, <1>3, <1>4, <1>5, <1>6, <1>7, <1>8

\* Types are kept by every step, m_activeTasks never goes below zero, the mutex
\* is held only by the worker inside wait(); m_activeTasks counts the workers
\* that are running a handler.
THEOREM BaseCorrect == PoolSpec => [](Base /\ ActiveTasksCount)
<1>1. PoolInit => Base /\ ActiveTasksCount
  <2> SUFFICES ASSUME PoolInit PROVE Base /\ ActiveTasksCount
    OBVIOUS
  <2>1. Base
    <3>1. PoolTypeOK
      <4>1. m_tasks \in Seq(Conns) /\ m_activeTasks \in Nat
        BY DEF PoolInit
      <4>2. m_stopping \in BOOLEAN
        BY DEF PoolInit
      <4>3. task \in [Workers -> Conns \cup {NoTask}] /\ m_mutex = NoThread
        BY DEF PoolInit
      <4>4. /\ pc \in [Workers -> WorkerPc] /\ caller \in [Callers -> {"idle", "notify"}]
            /\ stopper = "running" /\ fd \in [Conns -> {"new", "open", "closed", "leaked"}]
        BY DEF PoolInit, WorkerPc
      <4> QED BY <4>1, <4>2, <4>3, <4>4 DEF PoolTypeOK
    <3>2. WaitHoldsMutex
      BY WorkersAssumption DEF PoolInit, WaitHoldsMutex
    <3>3. StopProgress /\ ServesConn
      BY DEF PoolInit, StopProgress, ServesConn, Serving
    <3> QED BY <3>1, <3>2, <3>3 DEF Base
  <2>2. {w \in Workers : pc[w] \in {"handler", "ended"}} = {}
    BY DEF PoolInit
  <2> QED BY <2>1, <2>2, FS_EmptySet DEF PoolInit, ActiveTasksCount
<1>2. Base /\ ActiveTasksCount /\ [PoolNext]_poolVars => (Base /\ ActiveTasksCount)'
  BY BaseStep, ActiveStep
<1> QED BY <1>1, <1>2, PTL DEF PoolSpec

\* The pool's type invariant.
THEOREM PoolTypeCorrect == PoolSpec => []PoolTypeOK
<1>1. Base => PoolTypeOK
  BY DEF Base
<1> QED BY <1>1, BaseCorrect, PTL

\* m_activeTasks is what its comment says: the number of workers in the handler.
THEOREM ActiveTasksCorrect == PoolSpec => []ActiveTasksCount
  BY BaseCorrect, PTL

-----------------------------------------------------------------------------
(* Ownership of connections *)

\* Appending a connection adds it to the connections of the queue.
LEMMA QueuedAppended ==
  ASSUME NEW conn, Len(m_tasks) \in Nat, Len(m_tasks') = Len(m_tasks) + 1,
         \A i \in 1..Len(m_tasks) : m_tasks'[i] = m_tasks[i], m_tasks'[Len(m_tasks')] = conn
  PROVE  Queued' = Queued \cup {conn}
<1>1. ASSUME NEW q \in Queued' PROVE q \in Queued \cup {conn}
  <2>1. PICK i \in 1..Len(m_tasks') : q = m_tasks'[i]
    BY <1>1 DEF Queued
  <2>2. CASE i = Len(m_tasks')
    BY <2>1, <2>2
  <2>3. CASE i # Len(m_tasks')
    <3>1. i \in 1..Len(m_tasks)
      BY <2>3
    <3> QED BY <2>1, <3>1 DEF Queued
  <2> QED BY <2>2, <2>3
<1>2. ASSUME NEW q \in Queued PROVE q \in Queued'
  <2>1. PICK i \in 1..Len(m_tasks) : q = m_tasks[i]
    BY <1>2 DEF Queued
  <2>2. i \in 1..Len(m_tasks') /\ q = m_tasks'[i]
    BY <2>1
  <2> QED BY <2>2 DEF Queued
<1>3. conn \in Queued'
  <2>1. Len(m_tasks') \in 1..Len(m_tasks')
    OBVIOUS
  <2> QED BY <2>1 DEF Queued
<1> QED BY <1>1, <1>2, <1>3, Zenon

LEMMA OwnerStep ==
  ASSUME Base, OneOwner, [PoolNext]_poolVars
  PROVE  OneOwner'
<1> USE DEF Goto, Base, PoolTypeOK, WorkerPc, ServesConn
<1>0. /\ Len(m_tasks) \in Nat
      /\ \A i \in 1..Len(m_tasks) : m_tasks[i] \in Conns
  OBVIOUS
<1>1. ASSUME NEW c \in Callers, NEW conn \in Conns, SubmitTask(c, conn)
      PROVE OneOwner'
  <2>1. conn \notin Queued /\ (\A w \in Serving : task[w] # conn)
    BY <1>1 DEF SubmitTask, OneOwner
  <2>2. /\ Len(m_tasks') = Len(m_tasks) + 1
        /\ \A i \in 1..Len(m_tasks) : m_tasks'[i] = m_tasks[i]
        /\ m_tasks'[Len(m_tasks')] = conn
    BY <1>1 DEF SubmitTask
  <2>3. Queued' = Queued \cup {conn}
    BY <1>0, <2>2, QueuedAppended, Zenon
  <2>4. Serving' = Serving /\ task' = task
    BY <1>1 DEF SubmitTask, Serving
  <2>5. (\A i, j \in 1..Len(m_tasks) : i # j => m_tasks[i] # m_tasks[j])'
    <3>1. \A i \in 1..Len(m_tasks') : i \in 1..Len(m_tasks) \/ i = Len(m_tasks')
      BY <1>0, <2>2
    <3> QED BY <2>1, <2>2, <3>1 DEF OneOwner, Queued
  <2>6. (\A x \in Conns : fd[x] = "open" <=>
                            x \in Queued \/ \E w \in Serving : task[w] = x)'
    BY <1>1, <2>3, <2>4 DEF SubmitTask, OneOwner
  <2> QED BY <2>1, <2>3, <2>4, <2>5, <2>6 DEF OneOwner
<1>2. ASSUME NEW c \in Callers, NEW conn \in Conns, SubmitRefused(c, conn)
      PROVE OneOwner'
  BY <1>2 DEF SubmitRefused, OneOwner, Queued, Serving
<1>3. ASSUME NEW w \in Workers, TakeTask(w) PROVE OneOwner'
  <2>1. /\ Len(m_tasks') = Len(m_tasks) - 1 /\ Len(m_tasks) > 0
        /\ \A i \in 1..Len(m_tasks') : m_tasks'[i] = m_tasks[i + 1]
        /\ Head(m_tasks) = m_tasks[1]
    BY <1>3 DEF TakeTask
  <2>2. /\ Serving' = Serving \cup {w} /\ w \notin Serving
        /\ task'[w] = m_tasks[1] /\ \A v \in Serving : task'[v] = task[v]
        /\ fd' = fd
    BY <1>3, <2>1 DEF TakeTask, Serving
  <2>3. (\A i, j \in 1..Len(m_tasks) : i # j => m_tasks[i] # m_tasks[j])'
    BY <1>0, <2>1 DEF OneOwner
  <2>4. m_tasks[1] \in Queued /\ m_tasks[1] \notin Queued'
    BY <1>0, <2>1 DEF OneOwner, Queued
  <2>5. Queued = Queued' \cup {m_tasks[1]}
    <3>1. \A i \in 2..Len(m_tasks) : i - 1 \in 1..Len(m_tasks')
                                      /\ m_tasks'[i - 1] = m_tasks[i]
      BY <1>0, <2>1
    <3> QED BY <1>0, <2>1, <3>1 DEF Queued
  <2>6. (\A v \in Serving : task[v] \notin Queued)'
    BY <2>2, <2>4, <2>5 DEF OneOwner
  <2>7. (\A u, v \in Serving : u # v => task[u] # task[v])'
    BY <2>2, <2>4 DEF OneOwner
  <2>8. (\A x \in Conns : fd[x] = "open" <=>
                            x \in Queued \/ \E v \in Serving : task[v] = x)'
    BY <2>2, <2>5 DEF OneOwner
  <2> QED BY <2>3, <2>6, <2>7, <2>8 DEF OneOwner
<1>4. ASSUME NEW w \in Workers, HandlerReturns(w) \/ HandlerThrows(w)
      PROVE OneOwner'
  <2>1. w \in Serving /\ Serving' = Serving \ {w} /\ UNCHANGED <<m_tasks, task>>
    BY <1>4 DEF HandlerReturns, HandlerThrows, Serving
  <2>2. Queued' = Queued
    BY <2>1 DEF Queued
  <2>3. \A x \in Conns : fd'[x] = "open" <=> fd[x] = "open" /\ x # task[w]
    BY <1>4 DEF HandlerReturns, HandlerThrows
  <2> QED BY <2>1, <2>2, <2>3 DEF OneOwner
<1>5. CASE UNCHANGED <<m_tasks, task, fd>> /\ Serving' = Serving
  BY <1>5 DEF OneOwner, Queued
<1>6. ASSUME NEW c \in Callers, NotifyOne(c) PROVE OneOwner'
  BY <1>5, <1>6 DEF NotifyOne, Waiting, Serving
<1>7. ASSUME NEW w \in Workers,
             \/ StartWait(w) \/ Block(w) \/ SpuriousWakeup(w) \/ Exit(w)
             \/ BeginTask(w) \/ EndTask(w)
      PROVE OneOwner'
  BY <1>5, <1>7 DEF StartWait, Block, SpuriousWakeup, Exit, BeginTask, EndTask,
                    Serving
<1>8. CASE StopStore \/ StopNotifyAll \/ StopJoin \/ UNCHANGED poolVars
  BY <1>5, <1>8 DEF StopStore, StopNotifyAll, StopJoin, poolVars, Serving
<1> QED BY StepCases, <1>1, <1>2, <1>3, <1>4, <1>6, <1>7, <1>8

\* No connection is ever lost, queued twice or served by two workers.
THEOREM OwnerCorrect == PoolSpec => []OneOwner
<1>1. PoolInit => OneOwner
  BY DEF PoolInit, OneOwner, Queued, Serving
<1>2. Base /\ OneOwner /\ [PoolNext]_poolVars => OneOwner'
  BY OwnerStep
<1> QED BY <1>1, <1>2, BaseCorrect, PTL DEF PoolSpec

-----------------------------------------------------------------------------
(* Wakeups *)

LEMMA WorkStep ==
  ASSUME Base, WorkConserving, [PoolNext]_poolVars
  PROVE  WorkConserving'
<1> DEFINE nn == Cardinality(Notifying)
           nl == Cardinality(Looping)
<1> USE DEF Goto, Base, PoolTypeOK, WorkerPc
<1>0. /\ IsFiniteSet(Notifying) /\ IsFiniteSet(Looping)
      /\ nn \in Nat /\ nl \in Nat /\ Len(m_tasks) \in Nat
      /\ IsFiniteSet(Notifying') /\ IsFiniteSet(Looping')
      /\ nn' \in Nat /\ nl' \in Nat
  <2>1. IsFiniteSet(Notifying) /\ IsFiniteSet(Looping)
    BY WorkersAssumption, CallersAssumption, FS_Subset DEF Notifying, Looping
  <2>2. IsFiniteSet(Notifying') /\ IsFiniteSet(Looping')
    BY WorkersAssumption, CallersAssumption, FS_Subset DEF Notifying, Looping
  <2> QED BY <2>1, <2>2, FS_CardinalityType
\* A step that queues nothing, cancels no notification and takes no worker off
\* the loop.
<1>1. ASSUME UNCHANGED m_tasks, Notifying' = Notifying, Looping \subseteq Looping',
             Waiting' # {} => Waiting # {}
      PROVE WorkConserving'
  <2>1. nl <= nl'
    BY <1>0, <1>1, FS_Subset
  <2> QED BY <1>0, <1>1, <2>1 DEF WorkConserving
<1>2. ASSUME NEW c \in Callers, NEW conn \in Conns, SubmitTask(c, conn)
      PROVE WorkConserving'
  <2>1. Notifying' = Notifying \cup {c} /\ c \notin Notifying
    BY <1>2 DEF SubmitTask, Notifying
  <2>2. nn' = nn + 1
    BY <1>0, <2>1, FS_AddElement
  <2>3. Looping' = Looping /\ Waiting' = Waiting /\ Len(m_tasks') = Len(m_tasks) + 1
    BY <1>2 DEF SubmitTask, Looping, Waiting
  <2> QED BY <1>0, <2>2, <2>3 DEF WorkConserving
<1>3. ASSUME NEW c \in Callers, NotifyOne(c) PROVE WorkConserving'
  <2>1. Notifying' = Notifying \ {c} /\ c \in Notifying /\ m_tasks' = m_tasks
    BY <1>3 DEF NotifyOne, Notifying
  <2>2. nn' = nn - 1
    BY <1>0, <2>1, FS_RemoveElement
  <2>3. CASE Waiting = {} /\ UNCHANGED pc
    BY <2>3 DEF WorkConserving, Waiting
  <2>4. ASSUME NEW w \in Waiting, Goto(w, "loop") PROVE WorkConserving'
    <3>1. Looping' = Looping \cup {w} /\ w \notin Looping
      BY <2>4 DEF Looping, Waiting
    <3>2. nl' = nl + 1
      BY <1>0, <3>1, FS_AddElement
    <3> QED BY <1>0, <2>1, <2>2, <2>4, <3>2 DEF WorkConserving
  <2> QED BY <1>3, <2>3, <2>4 DEF NotifyOne
<1>4. ASSUME NEW w \in Workers, StartWait(w) \/ Block(w) \/ Exit(w)
      PROVE WorkConserving'
  \* The queue is empty: the mutex kept submit out since the test.
  <2>1. m_tasks' = <<>>
    BY <1>4, WorkersAssumption DEF StartWait, Block, Exit, WaitHoldsMutex
  <2> QED BY <1>0, <2>1 DEF WorkConserving
<1>5. ASSUME NEW w \in Workers, TakeTask(w) PROVE WorkConserving'
  <2>1. Looping' = Looping \ {w} /\ w \in Looping
    BY <1>5 DEF TakeTask, Looping
  <2>2. nl' = nl - 1
    BY <1>0, <2>1, FS_RemoveElement
  <2>3. /\ Notifying' = Notifying /\ Waiting' = Waiting
        /\ Len(m_tasks') = Len(m_tasks) - 1
    BY <1>5 DEF TakeTask, Notifying, Waiting
  <2> QED BY <1>0, <2>2, <2>3 DEF WorkConserving
<1>6. ASSUME NEW w \in Workers,
             \/ SpuriousWakeup(w) \/ BeginTask(w) \/ HandlerReturns(w)
             \/ HandlerThrows(w) \/ EndTask(w)
      PROVE WorkConserving'
  <2>1. /\ UNCHANGED m_tasks /\ Notifying' = Notifying /\ Looping \subseteq Looping'
        /\ Waiting' # {} => Waiting # {}
    BY <1>6 DEF SpuriousWakeup, BeginTask, HandlerReturns, HandlerThrows, EndTask,
                Looping, Waiting, Notifying
  <2> QED BY <1>1, <2>1
<1>7. ASSUME NEW c \in Callers, NEW conn \in Conns, SubmitRefused(c, conn)
      PROVE WorkConserving'
  BY <1>7 DEF SubmitRefused, WorkConserving, Waiting, Looping, Notifying
<1>8. CASE StopNotifyAll
  BY <1>8 DEF StopNotifyAll, WorkConserving, Waiting
<1>9. CASE StopStore \/ StopJoin \/ UNCHANGED poolVars
  BY <1>9 DEF StopStore, StopJoin, poolVars, WorkConserving, Waiting, Looping,
              Notifying
<1> QED BY StepCases, <1>2, <1>3, <1>4, <1>5, <1>6, <1>7, <1>8, <1>9

\* Although submit notifies after it has released the mutex, no queued
\* connection is left without a wakeup while a worker sleeps.
THEOREM WorkCorrect == PoolSpec => []WorkConserving
<1>1. PoolInit => WorkConserving
  BY DEF PoolInit, WorkConserving, Waiting
<1>2. Base /\ WorkConserving /\ [PoolNext]_poolVars => WorkConserving'
  BY WorkStep
<1> QED BY <1>1, <1>2, BaseCorrect, PTL DEF PoolSpec

-----------------------------------------------------------------------------
(* Shutdown *)

LEMMA ExitStep ==
  ASSUME Base, ExitedDrained, AtMostOneAsleep, [PoolNext]_poolVars
  PROVE  ExitedDrained' /\ AtMostOneAsleep'
<1> USE DEF Goto, Base, PoolTypeOK, WorkerPc, ExitedDrained, AtMostOneAsleep
<1>1. ASSUME NEW c \in Callers, NEW conn \in Conns,
             SubmitTask(c, conn) \/ SubmitRefused(c, conn)
      PROVE ExitedDrained' /\ AtMostOneAsleep'
  BY <1>1 DEF SubmitTask, SubmitRefused
<1>2. ASSUME NEW c \in Callers, NotifyOne(c)
      PROVE ExitedDrained' /\ AtMostOneAsleep'
  BY <1>2 DEF NotifyOne, Waiting
<1>3. ASSUME NEW w \in Workers, StartWait(w)
      PROVE ExitedDrained' /\ AtMostOneAsleep'
  BY <1>3 DEF StartWait, StopProgress
<1>4. ASSUME NEW w \in Workers, Block(w) \/ SpuriousWakeup(w) \/ Exit(w)
      PROVE ExitedDrained' /\ AtMostOneAsleep'
  BY <1>4 DEF Block, SpuriousWakeup, Exit
<1>5. ASSUME NEW w \in Workers, TakeTask(w) \/ BeginTask(w) \/ EndTask(w)
      PROVE ExitedDrained' /\ AtMostOneAsleep'
  BY <1>5 DEF TakeTask, BeginTask, EndTask
<1>6. ASSUME NEW w \in Workers, HandlerReturns(w) \/ HandlerThrows(w)
      PROVE ExitedDrained' /\ AtMostOneAsleep'
  BY <1>6 DEF HandlerReturns, HandlerThrows
<1>7. CASE StopNotifyAll
  \* Nobody waits any more, and one worker at most holds the mutex.
  BY <1>7 DEF StopNotifyAll, WaitHoldsMutex
<1>8. CASE StopStore \/ StopJoin \/ UNCHANGED poolVars
  BY <1>8 DEF StopStore, StopJoin, poolVars
<1> QED BY StepCases, <1>1, <1>2, <1>3, <1>4, <1>5, <1>6, <1>7, <1>8

LEMMA ExitCorrect == PoolSpec => [](ExitedDrained /\ AtMostOneAsleep)
<1>1. PoolInit => ExitedDrained /\ AtMostOneAsleep
  BY DEF PoolInit, ExitedDrained, AtMostOneAsleep
<1>2. Base /\ ExitedDrained /\ AtMostOneAsleep /\ [PoolNext]_poolVars
        => (ExitedDrained /\ AtMostOneAsleep)'
  BY ExitStep
<1> QED BY <1>1, <1>2, BaseCorrect, PTL DEF PoolSpec

\* A worker leaves only when the pool is stopping and the queue is empty, for
\* good.
THEOREM DrainedCorrect == PoolSpec => []ExitedDrained
  BY ExitCorrect, PTL

\* The race between stop() and wait() strands one worker at most.
THEOREM AsleepCorrect == PoolSpec => []AtMostOneAsleep
  BY ExitCorrect, PTL

\* When stop() has returned nothing is queued or counted as active, and every
\* connection that was submitted is closed, or was leaked by a handler that threw.
THEOREM StopCorrect == PoolSpec => []StopLeavesNone
<1>1. Base /\ ActiveTasksCount /\ OneOwner /\ ExitedDrained => StopLeavesNone
  <2> SUFFICES ASSUME Base, ActiveTasksCount, OneOwner, ExitedDrained, stopper = "joined"
               PROVE  /\ m_tasks = <<>> /\ m_activeTasks = 0
                      /\ \A c \in Conns : fd[c] \in {"new", "closed", "leaked"}
    BY DEF StopLeavesNone
  <2>1. \A w \in Workers : pc[w] = "exited"
    BY DEF Base, StopProgress
  <2>2. Serving = {}
    BY <2>1 DEF Serving
  <2>3. m_tasks = <<>>
    BY <2>1, WorkersAssumption DEF ExitedDrained
  <2>4. Queued = {}
    BY <2>3 DEF Queued
  <2>5. \A c \in Conns : fd[c] # "open"
    BY <2>2, <2>4 DEF OneOwner
  <2>6. {w \in Workers : pc[w] \in {"handler", "ended"}} = {}
    BY <2>1
  <2>7. m_activeTasks = 0
    BY <2>6, FS_EmptySet DEF ActiveTasksCount
  <2> QED BY <2>3, <2>5, <2>7 DEF Base, PoolTypeOK
<1> QED BY <1>1, BaseCorrect, OwnerCorrect, DrainedCorrect, PTL

-----------------------------------------------------------------------------
(* The server *)

\* One case per action: what a step of the server is.
LEMMA ServerCases ==
  ASSUME [ServerNext]_serverVars
  PROVE  \/ SetupListenSocket \/ MakeMetrics \/ BindMetrics \/ FlagMetrics
         \/ SpawnMetrics \/ MakePool \/ StoreRunning \/ TestRunning
         \/ AcceptShut \/ AcceptError \/ TestAfterFailure
         \/ \E conn \in Conns : AcceptClient(conn)
         \/ HandOff \/ NotifyPool \/ DrainPool \/ Destroy \/ CloseListener
         \/ StopFlag \/ StopTestHttp \/ StopUnflagHttp \/ StopCloseHttp
         \/ StopJoinHttp \/ ShutListener
         \/ HttpTest \/ HttpAccept \/ HttpAcceptError \/ HttpAcceptClosed
         \/ HttpAfterFailure \/ HttpServe
         \/ Signal
         \/ \E w \in Workers : PoolWorker(w)
         \/ \E w \in Workers : PoolWakeup(w)
         \/ UNCHANGED serverVars
  BY DEF ServerNext, MainStep, StopStep, HttpOwnStep

-----------------------------------------------------------------------------
(* The server uses the pool as ThreadPool says *)

\* What the main thread has accepted is a connection.
AcceptedConn == main = "submit" => accepted \in Conns

LEMMA AcceptedCorrect == ServerSpec => []AcceptedConn
<1>1. ServerInit => AcceptedConn
  BY DEF ServerInit, AcceptedConn
<1>2. AcceptedConn /\ [ServerNext]_serverVars => AcceptedConn'
  <2> SUFFICES ASSUME AcceptedConn, [ServerNext]_serverVars PROVE AcceptedConn'
    OBVIOUS
  <2> USE DEF AcceptedConn, MainAt
  <2>1. ASSUME NEW conn \in Conns, AcceptClient(conn) PROVE AcceptedConn'
    BY <2>1 DEF AcceptClient
  <2>2. CASE SetupListenSocket \/ MakeMetrics \/ BindMetrics \/ FlagMetrics
             \/ SpawnMetrics \/ MakePool \/ StoreRunning
    BY <2>2 DEF SetupListenSocket, MakeMetrics, BindMetrics, FlagMetrics,
                SpawnMetrics, MakePool, StoreRunning
  <2>3. CASE TestRunning \/ AcceptShut \/ AcceptError \/ TestAfterFailure \/ HandOff
             \/ NotifyPool \/ DrainPool \/ Destroy \/ CloseListener
    BY <2>3 DEF TestRunning, AcceptShut, AcceptError, TestAfterFailure, HandOff,
                NotifyPool, DrainPool, Destroy, CloseListener
  <2>4. CASE StopFlag \/ StopTestHttp \/ StopUnflagHttp \/ StopCloseHttp
             \/ StopJoinHttp \/ ShutListener
    BY <2>4 DEF StopFlag, StopTestHttp, StopUnflagHttp, StopCloseHttp,
                StopJoinHttp, ShutListener
  <2>5. CASE HttpTest \/ HttpAccept \/ HttpAcceptError \/ HttpAcceptClosed
             \/ HttpAfterFailure \/ HttpServe \/ Signal
    BY <2>5 DEF HttpTest, HttpAccept, HttpAcceptError, HttpAcceptClosed,
                HttpAfterFailure, HttpServe, HttpMoves, Signal
  <2>6. ASSUME NEW w \in Workers, PoolWorker(w) \/ PoolWakeup(w) PROVE AcceptedConn'
    BY <2>6 DEF PoolWorker, PoolWakeup, srvVars
  <2>7. CASE UNCHANGED serverVars
    BY <2>7 DEF serverVars, srvVars
  <2> QED BY <2>1, <2>2, <2>3, <2>4, <2>5, <2>6, <2>7, ServerCases
<1> QED BY <1>1, <1>2, PTL DEF ServerSpec

LEMMA PoolStep ==
  ASSUME AcceptedConn, [ServerNext]_serverVars
  PROVE  [PoolNext]_poolVars
<1> USE DEF AcceptedConn, MainAt
<1>1. ASSUME HandOff PROVE PoolNext
  BY <1>1, MainAssumption DEF HandOff, PoolNext
<1>2. ASSUME NotifyPool PROVE PoolNext
  BY <1>2, MainAssumption DEF NotifyPool, PoolNext
<1>3. ASSUME DrainPool PROVE PoolNext
  BY <1>3 DEF DrainPool, PoolNext
<1>4. ASSUME NEW w \in Workers, PoolWorker(w) \/ PoolWakeup(w) PROVE PoolNext
  BY <1>4 DEF PoolWorker, PoolWakeup, PoolNext
<1>5. CASE SetupListenSocket \/ MakeMetrics \/ BindMetrics \/ FlagMetrics
           \/ SpawnMetrics \/ MakePool \/ StoreRunning
  BY <1>5 DEF SetupListenSocket, MakeMetrics, BindMetrics, FlagMetrics,
              SpawnMetrics, MakePool, StoreRunning
<1>6. CASE TestRunning \/ AcceptShut \/ AcceptError \/ TestAfterFailure \/ Destroy
           \/ CloseListener \/ \E conn \in Conns : AcceptClient(conn)
  BY <1>6 DEF TestRunning, AcceptShut, AcceptError, TestAfterFailure, Destroy,
              CloseListener, AcceptClient
<1>7. CASE StopFlag \/ StopTestHttp \/ StopUnflagHttp \/ StopCloseHttp
           \/ StopJoinHttp \/ ShutListener
  BY <1>7 DEF StopFlag, StopTestHttp, StopUnflagHttp, StopCloseHttp,
              StopJoinHttp, ShutListener
<1>8. CASE HttpTest \/ HttpAccept \/ HttpAcceptError \/ HttpAcceptClosed
           \/ HttpAfterFailure \/ HttpServe \/ Signal
  BY <1>8 DEF HttpTest, HttpAccept, HttpAcceptError, HttpAcceptClosed,
              HttpAfterFailure, HttpServe, HttpMoves, Signal
<1>9. CASE UNCHANGED serverVars
  BY <1>9 DEF serverVars
<1> QED BY <1>1, <1>2, <1>3, <1>4, <1>5, <1>6, <1>7, <1>8, <1>9, ServerCases

\* Whatever signals arrive, the main thread and the workers use the pool as
\* ThreadPool specifies: one submit per accepted connection, one stop.
THEOREM ServerUsesPool == ServerSpec => PoolSpec
<1>1. ServerInit => PoolInit
  BY DEF ServerInit
<1>2. AcceptedConn /\ [ServerNext]_serverVars => [PoolNext]_poolVars
  BY PoolStep
<1> QED BY <1>1, <1>2, AcceptedCorrect, PTL DEF ServerSpec, PoolSpec

\* What is proved of the pool holds of the whole server: no connection is lost or
\* served twice, none waits for a wakeup that is not on its way, and none is left
\* when run() returns.
THEOREM PoolSafe ==
  ServerSpec => [](OneOwner /\ WorkConserving /\ ActiveTasksCount /\ StopLeavesNone)
  BY ServerUsesPool, OwnerCorrect, WorkCorrect, ActiveTasksCorrect, StopCorrect, PTL

-----------------------------------------------------------------------------
(* The metrics server and the end of the process *)

HttpStates == [made : BOOLEAN, running : BOOLEAN, fd : {"none", "open", "closed"},
               joinable : BOOLEAN,
               at : {"none", "loop", "accept", "failed", "recv", "exited"}]

HttpLive == {"loop", "accept", "failed", "recv"}

\* Where start-up is, what start() has done; where stop() is, what it knows.
Metrics ==
  /\ http \in HttpStates
  /\ main \in {"setup", "metrics", "bind"} =>
       ~http.running /\ ~http.joinable /\ http.fd = "none" /\ http.at = "none"
  /\ main = "flag" =>
       ~http.running /\ ~http.joinable /\ http.fd = "open" /\ http.at = "none"
  /\ main = "spawn" => ~http.joinable /\ http.at = "none"
  /\ main \in {"bind", "flag", "spawn"} => http.made
  /\ http.running => http.made
  /\ stopAt = "test" => http.made
  /\ stopAt = "unflag" => http.running
  /\ stopAt \in {"close", "join"} =>
       ~http.running /\ main \notin {"setup", "metrics", "bind", "flag"}

\* What holds as well when no signal interrupts start-up: the thread is joinable
\* and the socket open until the stop() that cleared m_running sees to them.
Orderly ==
  /\ main \in StartUp => stopAt = "none"
  /\ main = "spawn" => http.running
  /\ http.joinable => http.running \/ stopAt \in {"close", "join"}
  /\ http.at \in HttpLive => http.joinable
  /\ http.fd = "open" => http.running \/ stopAt = "close" \/ main = "flag"
  /\ main = "closing" /\ stopAt \in {"none", "shut"} => ~http.running
  /\ main = "exited" => ~http.running /\ stopAt = "none"
                        /\ m_listenFd \in {"none", "closed"}
  /\ main # "aborted"

\* The pool exists from MakePool on, and main leaves run() after its stop().
PoolLife ==
  /\ m_pool \in BOOLEAN
  /\ main \in StartUp \ {"store"} => ~m_pool
  /\ main \in {"store", "drain"} \cup AcceptLoop => m_pool
  /\ ~m_pool => \A c \in Conns : fd[c] = "new"
  /\ m_pool /\ main \notin InRun => stopper = "joined"

Life == Metrics /\ MetricsAlive /\ PoolLife /\ (EarlySignals \/ Orderly)

LEMMA LifeStep ==
  ASSUME Life, AcceptedConn, [ServerNext]_serverVars
  PROVE  Life'
<1> USE DEF Life, Metrics, HttpStates, HttpLive, MetricsAlive, PoolLife, Orderly,
            MainAt, StartUp, AcceptLoop, InRun, poolVars
<1>1. CASE SetupListenSocket BY <1>1 DEF SetupListenSocket
<1>2. CASE MakeMetrics BY <1>2 DEF MakeMetrics
<1>3. CASE BindMetrics BY <1>3 DEF BindMetrics
<1>4. CASE FlagMetrics BY <1>4 DEF FlagMetrics
<1>5. CASE SpawnMetrics BY <1>5 DEF SpawnMetrics
<1>6. CASE MakePool BY <1>6 DEF MakePool
<1>7. CASE StoreRunning BY <1>7 DEF StoreRunning
<1>8. CASE TestRunning BY <1>8 DEF TestRunning
<1>9. CASE AcceptShut \/ AcceptError \/ TestAfterFailure
  BY <1>9 DEF AcceptShut, AcceptError, TestAfterFailure
<1>10. CASE \E conn \in Conns : AcceptClient(conn) BY <1>10 DEF AcceptClient
<1>11. CASE HandOff BY <1>11 DEF HandOff
<1>12. CASE NotifyPool BY <1>12 DEF NotifyPool
<1>13. CASE DrainPool
  BY <1>13 DEF DrainPool, StopNext, StopStore, StopNotifyAll, StopJoin
<1>14. CASE Destroy BY <1>14 DEF Destroy
<1>15. CASE CloseListener BY <1>15 DEF CloseListener
<1>16. CASE StopFlag BY <1>16 DEF StopFlag
<1>17. CASE StopTestHttp BY <1>17 DEF StopTestHttp
<1>18. CASE StopUnflagHttp BY <1>18 DEF StopUnflagHttp
<1>19. CASE StopCloseHttp BY <1>19 DEF StopCloseHttp
<1>20. CASE StopJoinHttp BY <1>20 DEF StopJoinHttp
<1>21. CASE ShutListener BY <1>21 DEF ShutListener
<1>22. CASE HttpTest BY <1>22 DEF HttpTest, HttpMoves
<1>23. CASE HttpAccept \/ HttpAcceptError \/ HttpAcceptClosed
  BY <1>23 DEF HttpAccept, HttpAcceptError, HttpAcceptClosed, HttpMoves
<1>24. CASE HttpAfterFailure BY <1>24 DEF HttpAfterFailure, HttpMoves
<1>25. CASE HttpServe BY <1>25 DEF HttpServe, HttpMoves
<1>26. CASE Signal BY <1>26, SignalsAssumption DEF Signal
<1>27. ASSUME NEW w \in Workers, PoolWorker(w) \/ PoolWakeup(w) PROVE Life'
  <2>1. m_pool /\ stopper' = stopper /\ UNCHANGED srvVars
    BY <1>27 DEF PoolWorker, PoolWakeup, WorkerStep, StartWait, Block, Exit,
                 TakeTask, BeginTask, HandlerEnds, HandlerReturns, HandlerThrows,
                 EndTask, SpuriousWakeup
  <2> QED BY <2>1 DEF srvVars
<1>28. CASE UNCHANGED serverVars BY <1>28 DEF serverVars, srvVars
<1> QED BY <1>1, <1>2, <1>3, <1>4, <1>5, <1>6, <1>7, <1>8, <1>9, <1>10, <1>11,
           <1>12, <1>13, <1>14, <1>15, <1>16, <1>17, <1>18, <1>19, <1>20, <1>21,
           <1>22, <1>23, <1>24, <1>25, <1>26, <1>27, <1>28, ServerCases

LEMMA LifeCorrect == ServerSpec => []Life
<1>1. ServerInit => Life
  <2> SUFFICES ASSUME ServerInit PROVE Life
    OBVIOUS
  <2> USE DEF ServerInit, NoHttp
  <2>1. Metrics /\ MetricsAlive
    BY DEF Metrics, HttpStates, MetricsAlive
  <2>2. PoolLife
    BY DEF PoolInit, PoolLife, StartUp, AcceptLoop, InRun
  <2>3. Orderly
    BY DEF Orderly, StartUp, HttpLive
  <2> QED BY <2>1, <2>2, <2>3, Zenon DEF Life
<1>2. Life /\ AcceptedConn /\ [ServerNext]_serverVars => Life'
  BY LifeStep
<1> QED BY <1>1, <1>2, AcceptedCorrect, PTL DEF ServerSpec

LEMMA ServerTypeStep ==
  ASSUME ServerTypeOK, Life, AcceptedConn, Life', [ServerNext]_serverVars
  PROVE  ServerTypeOK'
<1> USE DEF ServerTypeOK, Life, Metrics, HttpStates, PoolLife, MainAt, StartUp,
            AcceptLoop, InRun, AcceptedConn
<1>1. CASE SetupListenSocket BY <1>1 DEF SetupListenSocket
<1>2. CASE MakeMetrics BY <1>2 DEF MakeMetrics
<1>3. CASE BindMetrics BY <1>3 DEF BindMetrics
<1>4. CASE FlagMetrics BY <1>4 DEF FlagMetrics
<1>5. CASE SpawnMetrics BY <1>5 DEF SpawnMetrics
<1>6. CASE MakePool BY <1>6 DEF MakePool
<1>7. CASE StoreRunning BY <1>7 DEF StoreRunning
<1>8. CASE TestRunning BY <1>8 DEF TestRunning
<1>9. CASE AcceptShut \/ AcceptError \/ TestAfterFailure
  BY <1>9 DEF AcceptShut, AcceptError, TestAfterFailure
<1>10. CASE \E conn \in Conns : AcceptClient(conn) BY <1>10 DEF AcceptClient
<1>11. CASE HandOff BY <1>11 DEF HandOff
<1>12. CASE NotifyPool BY <1>12 DEF NotifyPool
<1>13. CASE DrainPool
  BY <1>13 DEF DrainPool, StopNext, StopStore, StopNotifyAll, StopJoin
<1>14. CASE Destroy BY <1>14 DEF Destroy
<1>15. CASE CloseListener BY <1>15 DEF CloseListener
<1>16. CASE StopFlag BY <1>16 DEF StopFlag
<1>17. CASE StopTestHttp BY <1>17 DEF StopTestHttp
<1>18. CASE StopUnflagHttp BY <1>18 DEF StopUnflagHttp
<1>19. CASE StopCloseHttp BY <1>19 DEF StopCloseHttp
<1>20. CASE StopJoinHttp BY <1>20 DEF StopJoinHttp
<1>21. CASE ShutListener BY <1>21 DEF ShutListener
<1>22. CASE HttpTest BY <1>22 DEF HttpTest, HttpMoves
<1>23. CASE HttpAccept \/ HttpAcceptError \/ HttpAcceptClosed
  BY <1>23 DEF HttpAccept, HttpAcceptError, HttpAcceptClosed, HttpMoves
<1>24. CASE HttpAfterFailure BY <1>24 DEF HttpAfterFailure, HttpMoves
<1>25. CASE HttpServe BY <1>25 DEF HttpServe, HttpMoves
<1>26. CASE Signal BY <1>26, SignalsAssumption DEF Signal
<1>27. ASSUME NEW w \in Workers, PoolWorker(w) \/ PoolWakeup(w) PROVE ServerTypeOK'
  BY <1>27 DEF PoolWorker, PoolWakeup, srvVars
<1>28. CASE UNCHANGED serverVars BY <1>28 DEF serverVars, srvVars
<1> QED BY <1>1, <1>2, <1>3, <1>4, <1>5, <1>6, <1>7, <1>8, <1>9, <1>10, <1>11,
           <1>12, <1>13, <1>14, <1>15, <1>16, <1>17, <1>18, <1>19, <1>20, <1>21,
           <1>22, <1>23, <1>24, <1>25, <1>26, <1>27, <1>28, ServerCases

\* Types of the process: in particular a connection is in hand between accept and
\* submit, and only there.
THEOREM ServerTypeCorrect == ServerSpec => []ServerTypeOK
<1>1. ServerInit => ServerTypeOK
  <2> SUFFICES ASSUME ServerInit PROVE ServerTypeOK
    OBVIOUS
  <2>1. main \in InRun /\ main # "submit"
    BY DEF ServerInit, InRun, StartUp
  <2>2. m_running \in BOOLEAN /\ m_pool \in BOOLEAN
    BY Zenon DEF ServerInit
  <2>3. http \in HttpStates
    BY DEF ServerInit, NoHttp, HttpStates
  <2>4. stopAt = "none" /\ m_listenFd = "none" /\ accepted = NoTask
    BY DEF ServerInit
  <2>5. signals \in 0..MaxSignals
    BY SignalsAssumption DEF ServerInit
  <2> QED BY <2>1, <2>2, <2>3, <2>4, <2>5 DEF ServerTypeOK, HttpStates
<1>2. ServerTypeOK /\ Life /\ AcceptedConn /\ Life' /\ [ServerNext]_serverVars
        => ServerTypeOK'
  BY ServerTypeStep
<1> QED BY <1>1, <1>2, LifeCorrect, AcceptedCorrect, PTL DEF ServerSpec

\* The thread that serves /metrics lives, and its socket listens, as long as its
\* m_running holds, wherever a signal interrupts start-up or run().
THEOREM MetricsCorrect == ServerSpec => []MetricsAlive
<1>1. Life => MetricsAlive
  BY DEF Life
<1> QED BY <1>1, LifeCorrect, PTL

\* If no signal arrives during start-up the process never terminates abnormally,
\* and when it ends it leaves no thread and no listening socket behind, and no
\* connection but those of handlers that threw.
THEOREM CleanExitCorrect == ServerSpec => [](~EarlySignals => CleanExit)
<1>1. Life /\ Base /\ StopLeavesNone => (~EarlySignals => CleanExit)
  BY DEF Life, Metrics, HttpStates, HttpLive, Orderly, PoolLife, Base, StopProgress,
         StopLeavesNone, CleanExit, InRun, StartUp, AcceptLoop
<1> QED BY <1>1, LifeCorrect, ServerUsesPool, BaseCorrect, StopCorrect, PTL
=============================================================================
