-------------------------- MODULE ThreadPool_proofs --------------------------
(***************************************************************************)
(* Proofs about ThreadPool for every number of workers, callers and tasks. *)
(***************************************************************************)
EXTENDS ThreadPool, TLAPS, SequenceTheorems

\* The queue and the tasks taken from it are consecutive.
QueueOK ==
    /\ Len(started) + Len(tasks) = submitted
    /\ \A i \in DOMAIN started : started[i] = i
    /\ \A j \in DOMAIN tasks : tasks[j] = Len(started) + j

\* A task that was taken has ended or is in the hands of a worker.
TasksOK ==
    /\ \A w \in Workers :
          task[w] # 0 <=> pc[w] \in {"run", "notify", "notifyAll"}
    /\ \A i \in 1 .. Len(started) :
          \/ \E k \in DOMAIN finished : finished[k] = i
          \/ \E w \in Workers : task[w] = i

\* Where the threads can be.
ThreadsOK ==
    /\ \A w \in Workers :
          pc[w] \in {"check", "run", "notify", "notifyAll", "exited"}
    /\ \A c \in Callers :
          pc[c] \in {"idle", "notify", "notifyAll", "rejoin", "gone"} \cup Awaiting
    /\ \A w \in Workers \cap waiting : pc[w] = "check"
    /\ \A c \in Callers \cap waiting : pc[c] = "poll"
    /\ \A c, d \in Callers :
          pc[c] \in Awaiting /\ pc[d] \in Awaiting => c = d
    /\ \A c \in owner : \A d \in Callers : d # c => pc[d] = "idle"
    /\ \A c \in Callers : pc[c] \in {"rejoin", "gone"} => c \in owner

\* What awaitTermination has done so far.
JoinOK ==
    /\ \A w \in joined : pc[w] = "exited"
    /\ \A c \in Callers :
          /\ pc[c] \in Awaiting => \A w \in Workers : w < loop => w \in joined
          /\ pc[c] \in {"poll", "join"} => loop \in Workers
    /\ answer = "true" => joined = Workers
    /\ \A c \in Callers : pc[c] = "gone" => joined = Workers

Inv == TypeOK /\ QueueOK /\ TasksOK /\ ThreadsOK /\ JoinOK /\ DrainedBeforeExit

\* The constants: at least one worker, and no caller is one.
LEMMA PoolFacts ==
    /\ PoolSize \in Nat \ {0}
    /\ Workers = 1 .. PoolSize
    /\ Threads = Workers \cup Callers
    /\ Workers \subseteq Nat
    /\ \A w \in Workers : w \notin Callers
BY PoolAssumption DEF PoolSize, Workers, Threads

\* Moving one thread.
LEMMA GotoOK ==
    ASSUME TypeOK, NEW t \in Threads, NEW where, Goto(t, where)
    PROVE  /\ pc'[t] = where
           /\ \A s \in Threads : s # t => pc'[s] = pc[s]
           /\ DOMAIN pc' = Threads
BY DEF TypeOK, Goto

LEMMA InitInv == Init => Inv
<1> SUFFICES ASSUME Init PROVE Inv
  OBVIOUS
<1> USE PoolFacts, PoolAssumption
<1>1. TypeOK
  <2>1. /\ tasks \in Seq(1 .. MaxTasks) /\ started \in Seq(1 .. MaxTasks)
        /\ finished \in Seq(1 .. MaxTasks)
    BY DEF Init
  <2>2. /\ pc \in [Threads -> {"check", "idle"}]
        /\ task \in [Workers -> 0 .. MaxTasks]
    BY DEF Init
  <2>3. /\ shutdown \in BOOLEAN /\ expired \in BOOLEAN
        /\ answer = "none" /\ waiting = {} /\ joined = {}
        /\ owner = {} /\ late = {}
    BY DEF Init
  <2>4. submitted \in 0 .. MaxTasks /\ loop \in 1 .. PoolSize + 1
    BY DEF Init
  <2> QED BY <2>1, <2>2, <2>3, <2>4 DEF TypeOK
<1>2. QueueOK /\ TasksOK
  BY DEF Init, QueueOK, TasksOK
<1>3. ThreadsOK /\ JoinOK /\ DrainedBeforeExit
  BY DEF Init, ThreadsOK, JoinOK, DrainedBeforeExit, Awaiting
<1> QED BY <1>1, <1>2, <1>3 DEF Inv

(***************************************************************************)
(* Types.                                                                  *)
(***************************************************************************)
LEMMA TypeStep == Inv /\ [Next]_vars => TypeOK'
<1> SUFFICES ASSUME Inv, [Next]_vars PROVE TypeOK'
  OBVIOUS
<1> USE PoolFacts, PoolAssumption DEF queue, work, await
<1>0. TypeOK
  BY DEF Inv
<1>1. ASSUME NEW w \in Workers, Sleep(w) PROVE TypeOK'
  BY <1>0, <1>1 DEF TypeOK, Sleep
<1>2. ASSUME NEW w \in Workers, Take(w) PROVE TypeOK'
  <2>1. Head(tasks) \in 1 .. MaxTasks /\ Tail(tasks) \in Seq(1 .. MaxTasks)
    BY <1>0, <1>2 DEF TypeOK, Take
  <2>2. tasks' \in Seq(1 .. MaxTasks) /\ started' \in Seq(1 .. MaxTasks)
    BY <1>0, <1>2, <2>1 DEF TypeOK, Take
  <2>3. task' \in [Workers -> 0 .. MaxTasks]
    BY <1>0, <1>2, <2>1 DEF TypeOK, Take
  <2> QED BY <1>0, <1>2, <2>2, <2>3 DEF TypeOK, Take, Goto
<1>3. ASSUME NEW w \in Workers, Exit(w) PROVE TypeOK'
  BY <1>0, <1>3 DEF TypeOK, Exit, Goto
<1>4. ASSUME NEW w \in Workers, RunTask(w) PROVE TypeOK'
  <2>1. task[w] \in 1 .. MaxTasks
    BY <1>0, <1>4 DEF TypeOK, RunTask, TasksOK, Inv
  <2>2. finished' \in Seq(1 .. MaxTasks)
    BY <1>0, <1>4, <2>1 DEF TypeOK, RunTask
  <2> QED BY <1>0, <1>4, <2>2 DEF TypeOK, RunTask, Goto, AfterThrow
<1>5. ASSUME NEW t \in Threads, Execute(t) PROVE TypeOK'
  <2>1. submitted' \in 0 .. MaxTasks /\ tasks' \in Seq(1 .. MaxTasks)
    BY <1>0, <1>5 DEF TypeOK, Execute
  <2> QED BY <1>0, <1>5, <2>1 DEF TypeOK, Execute, Goto
<1>6. ASSUME NEW t \in Threads, Shutdown(t) PROVE TypeOK'
  BY <1>0, <1>6 DEF TypeOK, Shutdown, Goto
<1>7. ASSUME NEW t \in Threads, NotifyOne(t) PROVE TypeOK'
  BY <1>0, <1>7 DEF TypeOK, NotifyOne, Goto, Home
<1>8. ASSUME NEW t \in Threads, NotifyAll(t) PROVE TypeOK'
  <2>1. pc' \in [Threads -> {"check", "run", "exited", "idle", "notify",
                             "notifyAll", "rejoin", "gone"} \cup Awaiting]
    BY <1>0, <1>8 DEF TypeOK, NotifyAll, Goto, Home, Awaiting
  <2>2. loop' \in 1 .. PoolSize + 1
    BY <1>0, <1>8 DEF TypeOK, NotifyAll
  <2>3. expired' \in BOOLEAN
    BY <1>0, <1>8 DEF TypeOK, NotifyAll
  <2>4. /\ answer' \in {"none", "true", "false"}
        /\ late' \subseteq Workers /\ joined' = joined /\ owner' = owner
    BY <1>0, <1>8 DEF TypeOK, NotifyAll
  <2> QED BY <1>0, <1>8, <2>1, <2>2, <2>3, <2>4 DEF TypeOK, NotifyAll
<1>9. ASSUME NEW t \in Threads, SpuriousWakeup(t) PROVE TypeOK'
  BY <1>0, <1>9 DEF TypeOK, SpuriousWakeup
<1>10. ASSUME NEW c \in Callers, BeginAwait(c) PROVE TypeOK'
  <2>1. loop' \in 1 .. PoolSize + 1 /\ late' \subseteq Workers
        /\ answer' \in {"none", "true", "false"}
    BY <1>0, <1>10 DEF TypeOK, BeginAwait
  <2>2. expired' \in BOOLEAN
    BY <1>10 DEF BeginAwait
  <2> QED BY <1>0, <1>10, <2>1, <2>2 DEF TypeOK, BeginAwait, Goto, Awaiting
<1>11. ASSUME NEW c \in Callers, BeginDestroy(c) PROVE TypeOK'
  BY <1>0, <1>11 DEF TypeOK, BeginDestroy, Goto
<1>12. ASSUME NEW c \in Callers, AwaitNext(c) PROVE TypeOK'
  <2>1. loop' \in 1 .. PoolSize + 1
    BY <1>0, <1>12 DEF TypeOK, AwaitNext
  <2>2. pc' \in [Threads -> {"check", "run", "exited", "idle", "notify",
                             "notifyAll", "rejoin", "gone"} \cup Awaiting]
    BY <1>0, <1>12 DEF TypeOK, AwaitNext, Goto, Awaiting
  <2>3. answer' \in {"none", "true", "false"}
    BY <1>0, <1>12 DEF TypeOK, AwaitNext
  <2> QED BY <1>0, <1>12, <2>1, <2>2, <2>3 DEF TypeOK, AwaitNext
<1>13. ASSUME NEW c \in Callers, Poll(c) \/ PollTimeout(c) PROVE TypeOK'
  BY <1>0, <1>13 DEF TypeOK, Poll, PollTimeout, Goto, Awaiting
<1>14. ASSUME NEW c \in Callers, Join(c) PROVE TypeOK'
  <2>1. loop \in Workers
    BY <1>14 DEF Join, JoinOK, Inv
  <2> QED BY <1>0, <1>14, <2>1 DEF TypeOK, Join, Goto, Awaiting
<1>15. ASSUME NEW c \in Callers, Rejoin(c) PROVE TypeOK'
  BY <1>0, <1>15 DEF TypeOK, Rejoin, Goto
<1>16. CASE Expire
  BY <1>0, <1>16 DEF TypeOK, Expire
<1>17. CASE UNCHANGED vars
  BY <1>0, <1>17 DEF TypeOK, vars
<1> QED BY <1>1, <1>2, <1>3, <1>4, <1>5, <1>6, <1>7, <1>8, <1>9, <1>10, <1>11,
           <1>12, <1>13, <1>14, <1>15, <1>16, <1>17
        DEF Next, WorkerStep, Notify, AwaitStep

(***************************************************************************)
(* The queue.                                                              *)
(***************************************************************************)
LEMMA QueueStep == Inv /\ [Next]_vars => QueueOK'
<1> SUFFICES ASSUME Inv, [Next]_vars PROVE QueueOK'
  OBVIOUS
<1> USE PoolFacts
<1>0. /\ tasks \in Seq(1 .. MaxTasks) /\ started \in Seq(1 .. MaxTasks)
      /\ submitted \in Nat /\ QueueOK
  BY PoolAssumption DEF Inv, TypeOK
<1>1. ASSUME NEW w \in Workers, Take(w) PROVE QueueOK'
  <2>1. /\ tasks # <<>> /\ tasks' = Tail(tasks) /\ submitted' = submitted
        /\ started' = Append(started, Head(tasks))
    BY <1>1 DEF Take
  <2>2. /\ Len(tasks') = Len(tasks) - 1 /\ DOMAIN tasks' = 1 .. Len(tasks) - 1
        /\ \A j \in DOMAIN tasks' : tasks'[j] = tasks[j + 1]
    BY <1>0, <2>1
  <2>3. Head(tasks) = Len(started) + 1
    BY <1>0, <2>1 DEF QueueOK
  <2>4. /\ Len(started') = Len(started) + 1
        /\ DOMAIN started' = 1 .. Len(started) + 1
        /\ \A i \in 1 .. Len(started) : started'[i] = started[i]
        /\ started'[Len(started) + 1] = Len(started) + 1
    BY <1>0, <2>1, <2>3
  <2> HIDE PoolFacts
  <2>5. Len(started') + Len(tasks') = submitted'
    <3>1. Len(started) \in Nat /\ Len(tasks) \in Nat
      BY <1>0
    <3>2. Len(started) + Len(tasks) = submitted
      BY <1>0 DEF QueueOK
    <3> QED BY <2>1, <2>2, <2>4, <3>1, <3>2
  <2>6. \A i \in DOMAIN started' : started'[i] = i
    BY <1>0, <2>4 DEF QueueOK
  <2>7. ASSUME NEW j \in DOMAIN tasks' PROVE tasks'[j] = Len(started') + j
    <3>1. /\ Len(started) \in Nat /\ Len(tasks) \in Nat /\ j \in Nat
          /\ j + 1 \in DOMAIN tasks
      BY <1>0, <2>2
    <3>2. tasks[j + 1] = Len(started) + (j + 1)
      BY <1>0, <3>1 DEF QueueOK
    <3> QED BY <2>2, <2>4, <3>1, <3>2
  <2> QED BY <2>5, <2>6, <2>7 DEF QueueOK
<1>2. ASSUME NEW t \in Threads, Execute(t) PROVE QueueOK'
  <2>1. /\ tasks' = Append(tasks, submitted + 1) /\ started' = started
        /\ submitted' = submitted + 1
    BY <1>2 DEF Execute, work
  <2>2. /\ Len(tasks') = Len(tasks) + 1 /\ DOMAIN tasks' = 1 .. Len(tasks) + 1
        /\ \A j \in 1 .. Len(tasks) : tasks'[j] = tasks[j]
        /\ tasks'[Len(tasks) + 1] = submitted + 1
    BY <1>0, <2>1
  <2> QED BY <1>0, <2>1, <2>2 DEF QueueOK
<1>3. CASE UNCHANGED <<tasks, started, submitted>>
  BY <1>0, <1>3 DEF QueueOK
<1>4. ASSUME NEW w \in Workers, Sleep(w) \/ Exit(w) \/ RunTask(w)
      PROVE  UNCHANGED <<tasks, started, submitted>>
  BY <1>4 DEF Sleep, Exit, RunTask, queue, work
<1>5. ASSUME NEW t \in Threads, Shutdown(t) \/ Notify(t) \/ SpuriousWakeup(t)
      PROVE  UNCHANGED <<tasks, started, submitted>>
  BY <1>5 DEF Shutdown, Notify, NotifyOne, NotifyAll, SpuriousWakeup, queue, work
<1>6. ASSUME NEW c \in Callers, BeginAwait(c) \/ BeginDestroy(c) \/ AwaitStep(c)
      PROVE  UNCHANGED <<tasks, started, submitted>>
  BY <1>6 DEF BeginAwait, BeginDestroy, AwaitStep, AwaitNext, Poll, PollTimeout,
     Join, Rejoin, queue, work
<1>7. Expire \/ UNCHANGED vars => UNCHANGED <<tasks, started, submitted>>
  BY DEF Expire, vars, queue, work
<1> QED BY <1>1, <1>2, <1>3, <1>4, <1>5, <1>6, <1>7 DEF Next, WorkerStep

(***************************************************************************)
(* The tasks in the hands of workers.                                      *)
(***************************************************************************)
LEMMA TasksStep == Inv /\ [Next]_vars => TasksOK'
<1> SUFFICES ASSUME Inv, [Next]_vars PROVE TasksOK'
  OBVIOUS
<1> USE PoolFacts
<1> DEFINE Busy == {"run", "notify", "notifyAll"}
<1>0. TypeOK /\ QueueOK /\ TasksOK /\ ThreadsOK
  BY DEF Inv
<1>1. ASSUME NEW w \in Workers, Take(w) PROVE TasksOK'
  <2>1. /\ Head(tasks) = Len(started) + 1 /\ started \in Seq(1 .. MaxTasks)
        /\ Len(started) \in Nat
    BY <1>0, <1>1 DEF Take, QueueOK, TypeOK
  <2>2. /\ task' = [task EXCEPT ![w] = Len(started) + 1]
        /\ started' = Append(started, Len(started) + 1)
        /\ finished' = finished
    BY <1>1, <2>1 DEF Take
  <2>3. task[w] = 0
    BY <1>0, <1>1 DEF TasksOK, Take
  <2> HIDE PoolFacts
  <2>4. Len(started') = Len(started) + 1
    BY <2>1, <2>2
  <2>5. \A v \in Workers : task'[v] # 0 <=> pc'[v] \in Busy
    BY <1>0, <1>1, <2>1, <2>2, PoolFacts DEF TasksOK, TypeOK, Take, Goto
  <2>6. ASSUME NEW i \in 1 .. Len(started')
        PROVE  \/ \E k \in DOMAIN finished' : finished'[k] = i
               \/ \E v \in Workers : task'[v] = i
    <3>1. CASE i = Len(started) + 1
      BY <1>0, <2>2, <3>1 DEF TypeOK
    <3>2. CASE i \in 1 .. Len(started)
      <4>1. \A v \in Workers : task[v] = i => v # w
        BY <2>3, <3>2
      <4> QED BY <1>0, <2>2, <3>2, <4>1 DEF TasksOK, TypeOK
    <3> QED BY <2>1, <2>4, <3>1, <3>2
  <2> QED BY <2>5, <2>6 DEF TasksOK
<1>2. ASSUME NEW w \in Workers, RunTask(w) PROVE TasksOK'
  <2>1. /\ finished' = Append(finished, task[w])
        /\ task' = [task EXCEPT ![w] = 0]
        /\ Goto(w, "check") /\ started' = started
    BY <1>2 DEF RunTask, AfterThrow
  <2>2. /\ DOMAIN finished' = 1 .. Len(finished) + 1
        /\ \A k \in DOMAIN finished : k \in DOMAIN finished' /\ finished'[k] = finished[k]
        /\ finished'[Len(finished) + 1] = task[w]
        /\ Len(finished) + 1 \in DOMAIN finished'
    <3>1. task[w] \in 1 .. MaxTasks /\ finished \in Seq(1 .. MaxTasks)
      BY <1>0, <1>2 DEF TypeOK, TasksOK, RunTask
    <3> QED BY <2>1, <3>1
  <2>3. \A v \in Workers : task'[v] # 0 <=> pc'[v] \in Busy
    BY <1>0, <2>1 DEF TasksOK, TypeOK, Goto
  <2>4. ASSUME NEW i \in 1 .. Len(started)
        PROVE  \/ \E k \in DOMAIN finished' : finished'[k] = i
               \/ \E v \in Workers : task'[v] = i
    <3>1. CASE \E k \in DOMAIN finished : finished[k] = i
      BY <2>2, <3>1
    <3>2. CASE task[w] = i
      BY <2>2, <3>2
    <3>3. CASE \E v \in Workers : v # w /\ task[v] = i
      BY <1>0, <2>1, <3>3 DEF TypeOK
    <3> QED BY <1>0, <3>1, <3>2, <3>3 DEF TasksOK
  <2> QED BY <2>1, <2>3, <2>4 DEF TasksOK
<1>3. ASSUME UNCHANGED <<task, finished, started>>,
             \A w \in Workers : pc'[w] \in Busy <=> pc[w] \in Busy
      PROVE  TasksOK'
  BY <1>0, <1>3 DEF TasksOK
<1>4. ASSUME NEW w \in Workers, Sleep(w) \/ Exit(w)
      PROVE  /\ UNCHANGED <<task, finished, started>>
             /\ \A v \in Workers : pc'[v] \in Busy <=> pc[v] \in Busy
  BY <1>0, <1>4 DEF Sleep, Exit, Goto, work, TypeOK
<1>5. ASSUME NEW t \in Threads,
             Execute(t) \/ Shutdown(t) \/ NotifyOne(t) \/ SpuriousWakeup(t)
      PROVE  /\ UNCHANGED <<task, finished, started>>
             /\ \A v \in Workers : pc'[v] \in Busy <=> pc[v] \in Busy
  BY <1>0, <1>5 DEF Execute, Shutdown, NotifyOne, SpuriousWakeup, MayCall,
     Home, Goto, work, TypeOK
<1>6. ASSUME NEW t \in Threads, NotifyAll(t)
      PROVE  /\ UNCHANGED <<task, finished, started>>
             /\ \A v \in Workers : pc'[v] \in Busy <=> pc[v] \in Busy
  BY <1>0, <1>6 DEF NotifyAll, Home, Goto, work, TypeOK
<1>7. ASSUME NEW c \in Callers, BeginAwait(c) \/ BeginDestroy(c) \/ AwaitStep(c)
      PROVE  /\ UNCHANGED <<task, finished, started>>
             /\ \A v \in Workers : pc'[v] = pc[v]
  BY <1>0, <1>7 DEF BeginAwait, BeginDestroy, AwaitStep, AwaitNext, Poll,
     PollTimeout, Join, Rejoin, Goto, work, TypeOK
<1>8. CASE Expire \/ UNCHANGED vars
  BY <1>0, <1>8 DEF Expire, vars, work, TasksOK
<1> QED
  <2>1. ASSUME NEW c \in Callers, BeginAwait(c) \/ BeginDestroy(c) \/ AwaitStep(c)
        PROVE  TasksOK'
    BY <1>3, <1>7, <2>1
  <2>2. ASSUME NEW t \in Threads,
               Execute(t) \/ Shutdown(t) \/ Notify(t) \/ SpuriousWakeup(t)
        PROVE  TasksOK'
    BY <1>3, <1>5, <1>6, <2>2 DEF Notify
  <2>3. ASSUME NEW w \in Workers, WorkerStep(w) PROVE TasksOK'
    BY <1>1, <1>2, <1>3, <1>4, <2>3 DEF WorkerStep
  <2> QED BY <1>8, <2>1, <2>2, <2>3 DEF Next

(***************************************************************************)
(* The threads.                                                            *)
(***************************************************************************)
\* A worker moves: it stays among its own places, and nobody else moves.
LEMMA WorkerMoves ==
    ASSUME ThreadsOK, NEW w \in Workers,
           \A d \in Callers : pc'[d] = pc[d],
           \A v \in Workers : v # w => pc'[v] = pc[v],
           pc'[w] \in {"check", "run", "notify", "notifyAll", "exited"},
           waiting' \subseteq waiting \cup {w}, w \notin Callers,
           w \in waiting' => pc'[w] = "check",
           owner' = owner
    PROVE  ThreadsOK'
<1> USE DEF ThreadsOK
<1>1. \A v \in Workers :
          pc'[v] \in {"check", "run", "notify", "notifyAll", "exited"}
  OBVIOUS
<1>2. \A v \in Workers \cap waiting' : pc'[v] = "check"
  OBVIOUS
<1>3. \A d \in Callers \cap waiting' : pc'[d] = "poll"
  OBVIOUS
<1> QED BY <1>1, <1>2, <1>3

\* A caller moves: it is alone in awaitTermination, and destroys the pool
\* only when the others have nothing to do with it.
LEMMA CallerMoves ==
    ASSUME ThreadsOK, NEW c \in Callers,
           \A v \in Workers : pc'[v] = pc[v],
           \A d \in Callers : d # c => pc'[d] = pc[d],
           pc'[c] \in {"idle", "notify", "notifyAll", "rejoin", "gone"} \cup Awaiting,
           pc'[c] \in Awaiting =>
               \A d \in Callers : d # c => pc[d] \notin Awaiting,
           waiting' \subseteq waiting \cup {c}, c \notin Workers,
           c \in waiting' => pc'[c] = "poll",
           \/ owner' = owner
           \/ owner' = {c} /\ \A d \in Callers : d # c => pc[d] = "idle",
           \A e \in owner' : e # c => pc'[c] = "idle",
           pc'[c] \in {"rejoin", "gone"} => c \in owner'
    PROVE  ThreadsOK'
<1> USE DEF ThreadsOK
<1>1. \A v \in Workers :
          pc'[v] \in {"check", "run", "notify", "notifyAll", "exited"}
  OBVIOUS
<1>2. \A d \in Callers :
          pc'[d] \in {"idle", "notify", "notifyAll", "rejoin", "gone"} \cup Awaiting
  OBVIOUS
<1>3. \A v \in Workers \cap waiting' : pc'[v] = "check"
  OBVIOUS
<1>4. \A d \in Callers \cap waiting' : pc'[d] = "poll"
  OBVIOUS
<1>5. \A d, e \in Callers : pc'[d] \in Awaiting /\ pc'[e] \in Awaiting => d = e
  <2> HIDE DEF Awaiting
  <2> QED OBVIOUS
<1>6. \A e \in owner' : \A d \in Callers : d # e => pc'[d] = "idle"
  OBVIOUS
<1>7. \A d \in Callers : pc'[d] \in {"rejoin", "gone"} => d \in owner'
  BY DEF Awaiting
<1> QED BY <1>1, <1>2, <1>3, <1>4, <1>5, <1>6, <1>7

LEMMA ThreadsStep == Inv /\ [Next]_vars => ThreadsOK'
<1> SUFFICES ASSUME Inv, [Next]_vars PROVE ThreadsOK'
  OBVIOUS
<1>0. TypeOK /\ ThreadsOK
  BY DEF Inv
<1>1. ASSUME NEW w \in Workers, WorkerStep(w) PROVE ThreadsOK'
  <2>1. /\ pc'[w] \in {"check", "run", "exited"}
        /\ waiting' \subseteq waiting \cup {w}
        /\ w \in waiting' => pc'[w] = "check"
        /\ owner' = owner
        /\ \A t \in Threads : t # w => pc'[t] = pc[t]
    BY <1>0, <1>1, PoolFacts DEF WorkerStep, Sleep, Take, Exit, RunTask, Goto,
       AfterThrow, await, TypeOK, ThreadsOK
  <2>2. w \notin Callers /\ Workers \subseteq Threads /\ Callers \subseteq Threads
    BY PoolFacts
  <2> QED BY <1>0, <2>1, <2>2, WorkerMoves
<1>2. ASSUME NEW w \in Workers,
             Execute(w) \/ Shutdown(w) \/ NotifyOne(w) \/ NotifyAll(w)
      PROVE  ThreadsOK'
  <2>1. w \notin Callers /\ Workers \subseteq Threads /\ Callers \subseteq Threads
    BY PoolFacts
  <2>2. /\ pc'[w] \in {"run", "notify", "notifyAll"}
        /\ pc[w] \in {"run", "notify", "notifyAll"}
        /\ waiting' \subseteq waiting /\ owner' = owner
        /\ \A t \in Threads : t # w => pc'[t] = pc[t]
    BY <1>0, <1>2, <2>1 DEF Execute, Shutdown, MayCall, NotifyOne, NotifyAll, Home,
       Goto, await, TypeOK
  <2>3. w \notin waiting
    BY <1>0, <2>2 DEF ThreadsOK
  <2> QED BY <1>0, <2>1, <2>2, <2>3, WorkerMoves
<1>3. ASSUME NEW c \in Callers,
             \/ Execute(c) \/ Shutdown(c) \/ NotifyOne(c) \/ NotifyAll(c)
             \/ BeginAwait(c) \/ BeginDestroy(c) \/ AwaitStep(c)
      PROVE  ThreadsOK'
  <2>0. c \notin Workers /\ Workers \subseteq Threads /\ Callers \subseteq Threads
    BY PoolFacts
  <2>1. CASE Execute(c) \/ Shutdown(c)
    <3>1. /\ pc'[c] \in {"notify", "notifyAll"} /\ pc[c] = "idle" /\ owner = {}
          /\ waiting' = waiting /\ owner' = owner
          /\ \A t \in Threads : t # c => pc'[t] = pc[t]
      BY <1>0, <2>0, <2>1 DEF Execute, Shutdown, MayCall, Goto, await, TypeOK
    <3>2. c \notin waiting
      BY <1>0, <3>1 DEF ThreadsOK
    <3> QED BY <1>0, <2>0, <3>1, <3>2, CallerMoves DEF Awaiting
  <2>2. CASE NotifyOne(c)
    <3>1. /\ pc'[c] = "idle" /\ pc[c] = "notify"
          /\ waiting' \subseteq waiting /\ owner' = owner
          /\ \A t \in Threads : t # c => pc'[t] = pc[t]
      BY <1>0, <2>0, <2>2 DEF NotifyOne, Home, Goto, await, TypeOK
    <3>2. c \notin waiting
      BY <1>0, <3>1 DEF ThreadsOK
    <3> QED BY <1>0, <2>0, <3>1, <3>2, CallerMoves DEF Awaiting
  <2>3. CASE NotifyAll(c)
    <3>1. /\ pc'[c] = IF c \in owner THEN "await" ELSE "idle"
          /\ pc[c] = "notifyAll" /\ waiting' = {} /\ owner' = owner
          /\ \A t \in Threads : t # c => pc'[t] = pc[t]
      BY <1>0, <2>0, <2>3 DEF NotifyAll, Home, Goto, await, TypeOK
    <3>2. c \in owner => \A d \in Callers : d # c => pc[d] = "idle"
      BY <1>0 DEF ThreadsOK
    <3>3. \A e \in owner : e = c
      BY <1>0, <3>1 DEF ThreadsOK
    <3> QED BY <1>0, <2>0, <3>1, <3>2, <3>3, CallerMoves DEF Awaiting
  <2>4. CASE BeginAwait(c)
    <3>1. /\ pc[c] = "idle" /\ pc'[c] = "await" /\ owner = {} /\ owner' = owner
          /\ waiting' = waiting
          /\ \A d \in Callers : pc[d] \notin Awaiting
          /\ \A t \in Threads : t # c => pc'[t] = pc[t]
      BY <1>0, <2>0, <2>4 DEF BeginAwait, MayCall, Goto, TypeOK
    <3>2. c \notin waiting
      BY <1>0, <3>1 DEF ThreadsOK
    <3> QED BY <1>0, <2>0, <3>1, <3>2, CallerMoves DEF Awaiting
  <2>5. CASE BeginDestroy(c)
    <3>1. /\ pc'[c] = "notifyAll" /\ owner' = {c} /\ waiting' = waiting
          /\ \A d \in Callers : pc[d] = "idle"
          /\ \A t \in Threads : t # c => pc'[t] = pc[t]
      BY <1>0, <2>0, <2>5 DEF BeginDestroy, Goto, TypeOK
    <3>2. c \notin waiting
      BY <1>0, <3>1 DEF ThreadsOK
    <3> QED BY <1>0, <2>0, <3>1, <3>2, CallerMoves DEF Awaiting
  <2>6. CASE AwaitStep(c)
    <3>1. /\ pc[c] \in Awaiting \cup {"rejoin"}
          /\ pc'[c] \in Awaiting \cup {"rejoin", "gone", "idle"}
          /\ pc'[c] \in Awaiting => pc[c] \in Awaiting
          /\ pc'[c] \in {"rejoin", "gone"} => c \in owner
          /\ waiting' \subseteq waiting \cup {c}
          /\ c \in waiting' => pc'[c] = "poll"
          /\ owner' = owner
          /\ \A t \in Threads : t # c => pc'[t] = pc[t]
      <4> USE DEF Awaiting
      <4>1. CASE AwaitNext(c)
        BY <1>0, <2>0, <4>1 DEF AwaitNext, Goto, TypeOK, ThreadsOK
      <4>2. CASE Poll(c) \/ PollTimeout(c)
        BY <1>0, <2>0, <4>2 DEF Poll, PollTimeout, Goto, TypeOK, await
      <4>3. CASE Join(c) \/ Rejoin(c)
        BY <1>0, <2>0, <4>3 DEF Join, Rejoin, Goto, TypeOK, ThreadsOK
      <4> QED BY <2>6, <4>1, <4>2, <4>3 DEF AwaitStep
    <3>2. \A d \in Callers : pc[c] \in Awaiting /\ d # c => pc[d] \notin Awaiting
      BY <1>0 DEF ThreadsOK
    <3>3. \A e \in owner : e = c
      BY <1>0, <3>1 DEF ThreadsOK, Awaiting
    <3> QED BY <1>0, <2>0, <3>1, <3>2, <3>3, CallerMoves
  <2> QED BY <1>3, <2>1, <2>2, <2>3, <2>4, <2>5, <2>6
<1>4. ASSUME NEW t \in Threads, SpuriousWakeup(t) PROVE ThreadsOK'
  BY <1>0, <1>4 DEF SpuriousWakeup, await, ThreadsOK
<1>5. CASE Expire \/ UNCHANGED vars
  BY <1>0, <1>5 DEF Expire, vars, await, ThreadsOK
<1>6. \A t \in Threads : t \in Workers \/ t \in Callers
  BY PoolFacts
<1> QED BY <1>1, <1>2, <1>3, <1>4, <1>5, <1>6 DEF Next, Notify

(***************************************************************************)
(* The joins.                                                              *)
(***************************************************************************)
\* A worker that has exited stays where it is.
LEMMA ExitedStays ==
    ASSUME Inv, [Next]_vars, NEW w \in Workers, pc[w] = "exited"
    PROVE  pc'[w] = "exited"
<1> USE PoolFacts
<1>0. TypeOK
  BY DEF Inv
<1>1. ASSUME NEW v \in Workers, WorkerStep(v) PROVE pc'[w] = "exited"
  BY <1>0, <1>1 DEF WorkerStep, Sleep, Take, Exit, RunTask, Goto, TypeOK
<1>2. ASSUME NEW t \in Threads,
             Execute(t) \/ Shutdown(t) \/ Notify(t) \/ SpuriousWakeup(t)
      PROVE  pc'[w] = "exited"
  BY <1>0, <1>2 DEF Execute, Shutdown, Notify, NotifyOne, NotifyAll,
     SpuriousWakeup, MayCall, Goto, TypeOK
<1>3. ASSUME NEW c \in Callers, BeginAwait(c) \/ BeginDestroy(c) \/ AwaitStep(c)
      PROVE  pc'[w] = "exited"
  BY <1>0, <1>3 DEF BeginAwait, BeginDestroy, AwaitStep, AwaitNext, Poll,
     PollTimeout, Join, Rejoin, Goto, TypeOK
<1>4. CASE Expire \/ UNCHANGED vars
  BY <1>4 DEF Expire, vars
<1> QED BY <1>1, <1>2, <1>3, <1>4 DEF Next

LEMMA JoinStep == Inv /\ [Next]_vars => JoinOK'
<1> SUFFICES ASSUME Inv, [Next]_vars PROVE JoinOK'
  OBVIOUS
<1> USE PoolFacts
<1>0. TypeOK /\ ThreadsOK /\ JoinOK
  BY DEF Inv
<1>a. \A w \in joined : pc'[w] = "exited"
  BY <1>0, ExitedStays DEF JoinOK, TypeOK
\* Steps that leave awaitTermination alone.
<1>b. ASSUME joined' = joined, loop' = loop, answer' = answer,
             \A c \in Callers :
                pc'[c] \in Awaiting \cup {"gone"} => pc'[c] = pc[c]
      PROVE  JoinOK'
  <2>1. \A c \in Callers :
           /\ pc'[c] \in Awaiting => \A w \in Workers : w < loop => w \in joined
           /\ pc'[c] \in {"poll", "join"} => loop \in Workers
    BY <1>0, <1>b DEF JoinOK, Awaiting
  <2>2. /\ answer = "true" => joined = Workers
        /\ \A c \in Callers : pc'[c] = "gone" => joined = Workers
    BY <1>0, <1>b DEF JoinOK
  <2> QED BY <1>a, <1>b, <2>1, <2>2 DEF JoinOK
<1>1. ASSUME NEW w \in Workers, WorkerStep(w) PROVE JoinOK'
  <2>1. /\ UNCHANGED await
        /\ \A t \in Threads : t # w => pc'[t] = pc[t]
    BY <1>0, <1>1 DEF WorkerStep, Sleep, Take, Exit, RunTask, Goto, TypeOK
  <2> QED BY <1>b, <2>1 DEF await
<1>2. ASSUME NEW t \in Threads,
             Execute(t) \/ Shutdown(t) \/ NotifyOne(t) \/ SpuriousWakeup(t)
      PROVE  JoinOK'
  <2>1. /\ UNCHANGED await
        /\ pc'[t] = pc[t] \/ pc'[t] \in {"notify", "notifyAll", "run", "idle"}
        /\ \A s \in Threads : s # t => pc'[s] = pc[s]
    BY <1>0, <1>2 DEF Execute, Shutdown, NotifyOne, SpuriousWakeup, Goto, Home,
       TypeOK
  <2> QED BY <1>b, <2>1 DEF await, Awaiting
\* A caller begins awaitTermination.
<1>c. ASSUME NEW t \in Callers, pc'[t] = "await", joined' = joined,
             loop' = 1, answer' = "none",
             \A c \in Callers \ {t} : pc[c] \notin Awaiting /\ pc'[c] = pc[c]
      PROVE  JoinOK'
  <2>1. \A w \in Workers : ~(w < 1)
    OBVIOUS
  <2>2. \A c \in Callers : /\ pc'[c] \notin {"poll", "join"}
                           /\ pc'[c] = "gone" => pc[c] = "gone"
    BY <1>c DEF Awaiting
  <2>3. \A c \in Callers : pc'[c] = "gone" => joined = Workers
    BY <1>0, <2>2 DEF JoinOK
  <2> QED BY <1>a, <1>c, <2>1, <2>2, <2>3 DEF JoinOK
<1>3. ASSUME NEW t \in Threads, NotifyAll(t) PROVE JoinOK'
  <2>1. CASE t \in owner
    <3>1. t \in Callers /\ \A c \in Callers : c # t => pc[c] = "idle"
      BY <1>0, <2>1 DEF ThreadsOK, TypeOK
    <3>2. /\ pc'[t] = "await" /\ joined' = joined /\ loop' = 1 /\ answer' = "none"
          /\ \A c \in Callers : c # t => pc'[c] = pc[c]
      BY <1>0, <1>3, <2>1 DEF NotifyAll, Goto, TypeOK
    <3> QED BY <1>c, <3>1, <3>2 DEF Awaiting
  <2>2. CASE t \notin owner
    <3>1. /\ UNCHANGED await /\ pc'[t] \in {"run", "idle"}
          /\ \A s \in Threads : s # t => pc'[s] = pc[s]
      BY <1>0, <1>3, <2>2 DEF NotifyAll, Goto, Home, TypeOK
    <3> QED BY <1>b, <3>1 DEF await, Awaiting
  <2> QED BY <2>1, <2>2
<1>4. ASSUME NEW t \in Callers, BeginAwait(t) PROVE JoinOK'
  <2>1. /\ pc'[t] = "await" /\ joined' = joined /\ loop' = 1 /\ answer' = "none"
        /\ \A c \in Callers : c # t => pc'[c] = pc[c]
        /\ \A c \in Callers : pc[c] \notin Awaiting
    BY <1>0, <1>4 DEF BeginAwait, Goto, TypeOK
  <2> QED BY <1>c, <2>1
<1>5. ASSUME NEW c \in Callers, BeginDestroy(c) PROVE JoinOK'
  <2>1. /\ joined' = joined /\ loop' = loop /\ answer' = answer
        /\ pc'[c] = "notifyAll"
        /\ \A s \in Threads : s # c => pc'[s] = pc[s]
    BY <1>0, <1>5 DEF BeginDestroy, Goto, TypeOK
  <2> QED BY <1>b, <2>1 DEF Awaiting
<1>6. ASSUME NEW c \in Callers, AwaitNext(c) PROVE JoinOK'
  <2>0. /\ pc[c] = "await" /\ joined' = joined
        /\ loop \in 1 .. PoolSize + 1
        /\ \A s \in Threads : s # c => pc'[s] = pc[s]
    BY <1>0, <1>6 DEF AwaitNext, Goto, TypeOK
  <2>1. CASE loop \in joined /\ loop' = loop + 1 /\ UNCHANGED <<pc, answer>>
    <3>1. \A w \in Workers : w < loop + 1 => w < loop \/ w = loop
      BY <2>0
    <3>2. \A w \in Workers : w < loop + 1 => w \in joined
      BY <1>0, <2>0, <2>1, <3>1 DEF JoinOK, Awaiting
    <3>3. \A d \in Callers : pc[d] \in Awaiting => d = c
      BY <1>0, <2>0 DEF ThreadsOK, Awaiting
    <3>4. \A d \in Callers : pc[d] \notin {"poll", "join"}
      BY <2>0, <3>3 DEF Awaiting
    <3> QED BY <1>0, <1>a, <2>0, <2>1, <3>2, <3>4 DEF JoinOK
  <2>2. CASE loop \in Workers \ joined /\ Goto(c, "poll") /\ UNCHANGED <<loop, answer>>
    <3>1. pc'[c] = "poll"
      BY <1>0, <2>2 DEF Goto, TypeOK
    <3>2. \A d \in Callers : pc'[d] \in Awaiting => pc[d] \in Awaiting
      BY <2>0, <3>1 DEF Awaiting
    <3>3. \A d \in Callers :
             pc'[d] \in Awaiting => \A w \in Workers : w < loop => w \in joined
      BY <1>0, <3>2 DEF JoinOK
    <3>4. \A d \in Callers : pc'[d] = "gone" => joined = Workers
      BY <1>0, <2>0, <3>1 DEF JoinOK
    <3> QED BY <1>0, <1>a, <2>0, <2>2, <3>3, <3>4 DEF JoinOK
  <2>3. CASE /\ answer' = IF loop > PoolSize THEN "true" ELSE "false"
             /\ Goto(c, IF c \in owner THEN "rejoin" ELSE "idle")
             /\ UNCHANGED loop
    <3>1. pc'[c] \in {"rejoin", "idle"}
      BY <1>0, <2>3 DEF Goto, TypeOK
    <3>2. \A d \in Callers :
             pc'[d] \in Awaiting \cup {"gone"} => pc'[d] = pc[d]
      BY <2>0, <3>1 DEF Awaiting
    <3>3. answer' = "true" => joined = Workers
      <4>1. CASE loop > PoolSize
        <5>1. \A w \in Workers : w < loop
          BY <2>0, <4>1
        <5>2. Workers \subseteq joined
          BY <1>0, <2>0, <5>1 DEF JoinOK, Awaiting
        <5> QED BY <1>0, <5>2 DEF TypeOK
      <4>2. CASE ~(loop > PoolSize)
        BY <2>3, <4>2
      <4> QED BY <4>1, <4>2
    <3>4. \A d \in Callers :
             /\ pc'[d] \in Awaiting => \A w \in Workers : w < loop => w \in joined
             /\ pc'[d] \in {"poll", "join"} => loop \in Workers
             /\ pc'[d] = "gone" => joined = Workers
      BY <1>0, <3>2 DEF JoinOK, Awaiting
    <3> QED BY <1>a, <2>0, <2>3, <3>3, <3>4 DEF JoinOK
  <2> QED BY <1>6, <2>1, <2>2, <2>3 DEF AwaitNext
<1>7. ASSUME NEW c \in Callers, Poll(c) \/ PollTimeout(c) PROVE JoinOK'
  <2>1. /\ UNCHANGED await /\ pc[c] = "poll" /\ pc'[c] \in {"poll", "join"}
        /\ \A s \in Threads : s # c => pc'[s] = pc[s]
    BY <1>0, <1>7 DEF Poll, PollTimeout, Goto, TypeOK
  <2>2. \A d \in Callers :
           /\ pc'[d] \in Awaiting => pc[d] \in Awaiting
           /\ pc'[d] \in {"poll", "join"} => pc[d] \in {"poll", "join"}
           /\ pc'[d] = "gone" => pc[d] = "gone"
    BY <2>1 DEF Awaiting
  <2>3. \A d \in Callers :
           /\ pc'[d] \in Awaiting => \A w \in Workers : w < loop => w \in joined
           /\ pc'[d] \in {"poll", "join"} => loop \in Workers
           /\ pc'[d] = "gone" => joined = Workers
    BY <1>0, <2>2 DEF JoinOK
  <2> QED BY <1>0, <1>a, <2>1, <2>3 DEF JoinOK, await
<1>8. ASSUME NEW c \in Callers, Join(c) PROVE JoinOK'
  <2>1. /\ pc[c] = "join" /\ pc[loop] = "exited" /\ pc'[c] = "await"
        /\ joined' = joined \cup {loop} /\ loop' = loop + 1 /\ answer' = answer
        /\ \A s \in Threads : s # c => pc'[s] = pc[s]
    BY <1>0, <1>8 DEF Join, Goto, TypeOK
  <2>2. loop \in Workers /\ loop \in Nat
    BY <1>0, <2>1 DEF JoinOK
  <2>3. \A w \in joined' : pc'[w] = "exited"
    BY <1>a, <2>1, <2>2
  <2>4. \A w \in Workers : w < loop' => w \in joined'
    <3>1. \A w \in Workers : w < loop + 1 => w < loop \/ w = loop
      BY <2>2
    <3> QED BY <1>0, <2>1, <3>1 DEF JoinOK, Awaiting
  <2>5. \A d \in Callers : pc'[d] \notin {"poll", "join"}
    <3>1. \A d \in Callers : pc[d] \in Awaiting => d = c
      BY <1>0, <2>1 DEF ThreadsOK, Awaiting
    <3> QED BY <2>1, <3>1 DEF Awaiting
  <2>6. joined = Workers => joined' = Workers
    BY <2>1, <2>2
  <2>7. \A d \in Callers : pc'[d] = "gone" => joined' = Workers
    BY <1>0, <2>1, <2>6 DEF JoinOK
  <2>8. answer' = "true" => joined' = Workers
    BY <1>0, <2>1, <2>6 DEF JoinOK
  <2> QED BY <2>3, <2>4, <2>5, <2>7, <2>8 DEF JoinOK
<1>9. ASSUME NEW c \in Callers, Rejoin(c) PROVE JoinOK'
  <2>1. /\ joined' = Workers /\ loop' = loop /\ answer' = answer
        /\ pc'[c] = "gone"
        /\ \A w \in Workers \ joined : pc[w] = "exited"
        /\ \A s \in Threads : s # c => pc'[s] = pc[s]
    BY <1>0, <1>9 DEF Rejoin, Goto, TypeOK
  <2>2. \A w \in Workers : pc'[w] = "exited"
    BY <1>0, <1>a, <2>1
  <2>3. \A d \in Callers :
           /\ pc'[d] \in Awaiting => pc[d] \in Awaiting
           /\ pc'[d] \in {"poll", "join"} => pc[d] \in {"poll", "join"}
    BY <2>1 DEF Awaiting
  <2>4. \A d \in Callers : pc'[d] \in {"poll", "join"} => loop \in Workers
    BY <1>0, <2>3 DEF JoinOK
  <2> QED BY <2>1, <2>2, <2>4 DEF JoinOK
<1>10. CASE Expire \/ UNCHANGED vars
  <2>1. UNCHANGED <<pc, joined, loop, answer>>
    BY <1>10 DEF Expire, vars, await
  <2> QED BY <1>b, <2>1
<1> QED
  <2>1. ASSUME NEW t \in Threads,
               Execute(t) \/ Shutdown(t) \/ Notify(t) \/ SpuriousWakeup(t)
        PROVE  JoinOK'
    BY <1>2, <1>3, <2>1 DEF Notify
  <2>2. ASSUME NEW c \in Callers, BeginAwait(c) \/ BeginDestroy(c) \/ AwaitStep(c)
        PROVE  JoinOK'
    BY <1>4, <1>5, <1>6, <1>7, <1>8, <1>9, <2>2 DEF AwaitStep
  <2> QED BY <1>1, <1>10, <2>1, <2>2 DEF Next

(***************************************************************************)
(* Nothing is queued once a worker has exited.                             *)
(***************************************************************************)
LEMMA DrainedStep == Inv /\ [Next]_vars => DrainedBeforeExit'
<1> SUFFICES ASSUME Inv, [Next]_vars PROVE DrainedBeforeExit'
  OBVIOUS
<1> USE PoolFacts
<1>0. TypeOK /\ DrainedBeforeExit
  BY DEF Inv
\* Steps that move no worker to the end and add no task.
<1>a. ASSUME \A w \in Workers : pc'[w] = "exited" => pc[w] = "exited",
             shutdown /\ tasks = <<>> => shutdown' /\ tasks' = <<>>
      PROVE  DrainedBeforeExit'
  BY <1>0, <1>a DEF DrainedBeforeExit
<1>1. ASSUME NEW w \in Workers, Sleep(w) \/ Take(w) \/ RunTask(w)
      PROVE  DrainedBeforeExit'
  <2>1. /\ \A v \in Workers : pc'[v] = "exited" => pc[v] = "exited"
        /\ shutdown' = shutdown /\ (tasks = <<>> => tasks' = <<>>)
    BY <1>0, <1>1 DEF Sleep, Take, RunTask, AfterThrow, Goto, TypeOK, queue
  <2> QED BY <1>a, <2>1
<1>2. ASSUME NEW w \in Workers, Exit(w) PROVE DrainedBeforeExit'
  BY <1>2 DEF Exit, DrainedBeforeExit, queue
<1>3. ASSUME NEW t \in Threads,
             Execute(t) \/ Shutdown(t) \/ Notify(t) \/ SpuriousWakeup(t)
      PROVE  DrainedBeforeExit'
  <2>1. \A v \in Workers : pc'[v] = "exited" => pc[v] = "exited"
    BY <1>0, <1>3 DEF Execute, Shutdown, Notify, NotifyOne, NotifyAll, Home,
       SpuriousWakeup, Goto, TypeOK
  <2>2. shutdown /\ tasks = <<>> => shutdown' /\ tasks' = <<>>
    BY <1>3 DEF Execute, Shutdown, Notify, NotifyOne, NotifyAll,
       SpuriousWakeup, queue
  <2> QED BY <1>a, <2>1, <2>2
<1>4. ASSUME NEW c \in Callers, BeginAwait(c) \/ BeginDestroy(c) \/ AwaitStep(c)
      PROVE  DrainedBeforeExit'
  <2>1. \A v \in Workers : pc'[v] = pc[v]
    BY <1>0, <1>4 DEF BeginAwait, BeginDestroy, AwaitStep, AwaitNext, Poll,
       PollTimeout, Join, Rejoin, Goto, TypeOK
  <2>2. tasks' = tasks /\ (shutdown => shutdown')
    BY <1>4 DEF BeginAwait, BeginDestroy, AwaitStep, AwaitNext, Poll,
       PollTimeout, Join, Rejoin, queue
  <2> QED BY <1>a, <2>1, <2>2
<1>5. CASE Expire \/ UNCHANGED vars
  BY <1>0, <1>5 DEF Expire, vars, queue, DrainedBeforeExit
<1> QED BY <1>1, <1>2, <1>3, <1>4, <1>5 DEF Next, WorkerStep

(***************************************************************************)
(* Wake-ups and the order on one worker, on top of the invariant above.    *)
(***************************************************************************)
\* No wake-up is lost: until notifyAll has run a thread is about to call it,
\* afterwards no worker sleeps any more, and awaitTermination only waits on a
\* pool that is being shut down.
WakeOK ==
    /\ \A t \in Threads : pc[t] = "notifyAll" => shutdown
    /\ ~EagerAwait => \A c \in Callers : pc[c] \in Awaiting => shutdown
    /\ shutdown => \/ \A w \in Workers : w \notin waiting
                   \/ \E t \in Threads : pc[t] = "notifyAll"

\* An awaitTermination that sleeps has a worker left that will wake it.
NoAwaiterForgotten ==
    (\E c \in Callers : c \in waiting) => \E w \in Workers : pc[w] # "exited"

\* A task is in one place: queued, with one worker, or over.
OnceOK ==
    /\ \A w \in Workers : task[w] <= Len(started)
    /\ \A v, w \in Workers : v # w /\ task[v] # 0 => task[v] # task[w]
    /\ \A k \in DOMAIN finished :
          /\ finished[k] \in 1 .. Len(started)
          /\ \A w \in Workers : task[w] # finished[k]
    /\ \A i, j \in DOMAIN finished : i # j => finished[i] # finished[j]

\* The single worker has ended all it has taken but the task it runs.
SingleOK ==
    PoolSize = 1 =>
        /\ Len(started) = Len(finished) + (IF task[1] = 0 THEN 0 ELSE 1)
        /\ task[1] # 0 => task[1] = Len(started)
        /\ \A k \in DOMAIN finished : finished[k] = k

WakeInv == WakeOK /\ NoAwaiterForgotten /\ (~EagerAwait => NoTaskForgotten)

\* The threads of the pool and the callers are threads; somebody works.
LEMMA SomeWorker == Workers \subseteq Threads /\ Callers \subseteq Threads /\ 1 \in Workers
BY PoolFacts

LEMMA WakeInit == Init => WakeInv
BY PoolFacts DEF Init, WakeInv, WakeOK, NoAwaiterForgotten, NoTaskForgotten, Awaiting

\* Every step that leaves the notifications and the sleepers alone and sends
\* nobody to await: what is left to see is that the workers that do not sleep
\* stay awake while something is queued.
LEMMA WakeFrame ==
    ASSUME Inv, WakeInv,
           \A t \in Threads : pc'[t] = "notifyAll" <=> pc[t] = "notifyAll",
           \A t \in Threads : pc[t] = "notify" => pc'[t] = "notify",
           \A c \in Callers : pc'[c] \in Awaiting => pc[c] \in Awaiting,
           \A w \in Workers : pc'[w] = "exited" => pc[w] = "exited",
           shutdown' = shutdown, tasks' = tasks \/ tasks' = <<>>,
           waiting' \subseteq waiting
    PROVE  WakeInv'
<1>1. WakeOK'
  BY DEF WakeInv, WakeOK
<1>2. NoAwaiterForgotten'
  BY DEF WakeInv, NoAwaiterForgotten
<1>3. ASSUME ~EagerAwait, tasks' # <<>>,
             \A w \in Workers : w \in waiting' \/ pc'[w] = "exited"
      PROVE  \E t \in Threads : pc'[t] \in {"notify", "notifyAll"}
  <2>1. \A w \in Workers : w \in waiting \/ pc[w] = "exited"
    BY <1>3
  <2>2. \E t \in Threads : pc[t] \in {"notify", "notifyAll"}
    BY <1>3, <2>1 DEF WakeInv, NoTaskForgotten
  <2> QED BY <2>2
<1> QED BY <1>1, <1>2, <1>3 DEF WakeInv, NoTaskForgotten

\* Whatever else it does, a step that leaves a worker awake, or the queue
\* empty, or a notification to be made, forgets no task.
LEMMA AwakeEnough ==
    ASSUME \/ \E w \in Workers : w \notin waiting' /\ pc'[w] # "exited"
           \/ tasks' = <<>>
           \/ \E t \in Threads : pc'[t] \in {"notify", "notifyAll"}
    PROVE  NoTaskForgotten'
BY DEF NoTaskForgotten

LEMMA WakeWorker ==
    ASSUME Inv, WakeInv, NEW w \in Workers, WorkerStep(w)
    PROVE  WakeInv'
<1> USE SomeWorker
<1>0. TypeOK /\ ThreadsOK /\ DrainedBeforeExit
  BY DEF Inv
<1>1. CASE Sleep(w)
  <2>1. /\ tasks' = <<>> /\ ~shutdown /\ ~shutdown' /\ pc' = pc
        /\ waiting' = waiting \cup {w} /\ w \notin Callers
    BY <1>1, PoolFacts DEF Sleep, queue
  <2>2. WakeOK'
    BY <2>1 DEF WakeInv, WakeOK
  <2>3. NoAwaiterForgotten'
    BY <2>1 DEF WakeInv, NoAwaiterForgotten
  <2> QED BY <2>1, <2>2, <2>3, AwakeEnough DEF WakeInv
<1>2. CASE Take(w)
  <2>1. /\ pc'[w] = "run" /\ pc[w] = "check" /\ waiting' = waiting /\ w \notin waiting
        /\ shutdown' = shutdown
        /\ \A t \in Threads : t # w => pc'[t] = pc[t]
    BY <1>0, <1>2 DEF Take, Goto, TypeOK
  <2>2. WakeOK'
    BY <2>1, PoolFacts DEF WakeInv, WakeOK
  <2>3. NoAwaiterForgotten'
    BY <2>1 DEF NoAwaiterForgotten
  <2> QED BY <2>1, <2>2, <2>3, AwakeEnough DEF WakeInv
<1>3. CASE Exit(w)
  <2>1. /\ tasks' = <<>> /\ waiting' = {} /\ shutdown' = shutdown
        /\ \A t \in Threads : t # w => pc'[t] = pc[t]
        /\ pc'[w] = "exited"
    BY <1>0, <1>3 DEF Exit, Goto, TypeOK, queue
  <2>2. WakeOK'
    BY <2>1, PoolFacts DEF WakeInv, WakeOK
  <2>3. NoAwaiterForgotten'
    BY <2>1 DEF NoAwaiterForgotten
  <2> QED BY <2>1, <2>2, <2>3, AwakeEnough DEF WakeInv
<1>4. CASE RunTask(w)
  <2>1. /\ pc'[w] = "check" /\ pc[w] = "run" /\ waiting' = waiting
        /\ shutdown' = shutdown
        /\ \A t \in Threads : t # w => pc'[t] = pc[t]
    BY <1>0, <1>4 DEF RunTask, AfterThrow, Goto, TypeOK, queue
  <2>2. w \notin waiting
    BY <1>0, <2>1 DEF ThreadsOK
  <2>3. WakeOK'
    BY <2>1, PoolFacts DEF WakeInv, WakeOK
  <2>4. NoAwaiterForgotten'
    BY <2>1 DEF NoAwaiterForgotten
  <2> QED BY <2>1, <2>2, <2>3, <2>4, AwakeEnough DEF WakeInv
<1> QED BY <1>1, <1>2, <1>3, <1>4 DEF WorkerStep

\* A call of the pool ends in a notification.
LEMMA WakeCall ==
    ASSUME Inv, WakeInv, NEW t \in Threads,
           pc'[t] \in {"notify", "notifyAll"}, pc[t] \in {"idle", "run"},
           \A s \in Threads : s # t => pc'[s] = pc[s],
           waiting' = waiting,
           pc'[t] = "notify" => shutdown' = shutdown,
           pc'[t] = "notifyAll" => shutdown' = TRUE
    PROVE  WakeInv'
<1> USE SomeWorker
<1>1. WakeOK'
  <2>1. /\ \A s \in Threads : pc'[s] = "notifyAll" => shutdown'
        /\ shutdown => shutdown'
    BY DEF WakeInv, WakeOK
  <2>2. \A c \in Callers : pc'[c] \in Awaiting => pc[c] \in Awaiting
    BY DEF Awaiting
  <2>3. ASSUME shutdown'
        PROVE  \/ \A w \in Workers : w \notin waiting'
               \/ \E s \in Threads : pc'[s] = "notifyAll"
    BY <2>3 DEF WakeInv, WakeOK
  <2> QED BY <2>1, <2>2, <2>3 DEF WakeInv, WakeOK
<1>2. NoAwaiterForgotten'
  BY PoolFacts DEF WakeInv, NoAwaiterForgotten
<1> QED BY <1>1, <1>2, AwakeEnough DEF WakeInv

\* Waking one thread: when it is not a worker, awaitTermination sleeps, the
\* pool is being shut down, and either notifyAll is still to come or every
\* worker has exited.
LEMMA WakeNotifyOne ==
    ASSUME Inv, WakeInv, NEW t \in Threads, NotifyOne(t)
    PROVE  WakeInv'
<1> USE SomeWorker
<1>0. TypeOK /\ ThreadsOK /\ DrainedBeforeExit
  BY DEF Inv
<1>1. /\ pc[t] = "notify" /\ pc'[t] \in {"run", "idle"}
      /\ \A s \in Threads : s # t => pc'[s] = pc[s]
      /\ shutdown' = shutdown /\ tasks' = tasks /\ waiting' \subseteq waiting
  BY <1>0 DEF NotifyOne, Goto, Home, TypeOK, queue
<1>2. WakeOK'
  BY <1>1 DEF WakeInv, WakeOK, Awaiting
<1>3. NoAwaiterForgotten'
  BY <1>1 DEF WakeInv, NoAwaiterForgotten
<1>4. ASSUME ~EagerAwait PROVE NoTaskForgotten'
  <2>1. CASE tasks = <<>>
    BY <1>1, <2>1, AwakeEnough
  <2>2. CASE tasks # <<>> /\ waiting = {}
    <3>1. pc[1] # "exited"
      BY <1>0, <2>2 DEF DrainedBeforeExit
    <3>2. pc'[1] # "exited" /\ 1 \notin waiting'
      BY <1>1, <2>2, <3>1
    <3> QED BY <3>2, AwakeEnough
  <2>3. ASSUME tasks # <<>>, NEW s \in waiting, waiting' = waiting \ {s}
        PROVE  NoTaskForgotten'
    <3>1. CASE s \in Workers
      <4>1. pc[s] = "check"
        BY <1>0, <3>1 DEF ThreadsOK
      <4>2. pc'[s] # "exited"
        BY <1>1, <3>1, <4>1
      <4> QED BY <2>3, <3>1, <4>2, AwakeEnough
    <3>2. CASE s \in Callers
      <4>1. pc[s] = "poll"
        BY <1>0, <3>2 DEF ThreadsOK
      <4>2. shutdown
        BY <1>4, <3>2, <4>1 DEF WakeInv, WakeOK, Awaiting
      <4>3. CASE \E u \in Threads : pc[u] = "notifyAll"
        <5>1. \E u \in Threads : pc'[u] = "notifyAll"
          BY <1>1, <4>3
        <5> QED BY <5>1, AwakeEnough
      <4>4. CASE \A w \in Workers : w \notin waiting
        <5>1. pc[1] # "exited"
          BY <1>0, <2>3 DEF DrainedBeforeExit
        <5>2. pc'[1] # "exited" /\ 1 \notin waiting'
          BY <1>1, <4>4, <5>1
        <5> QED BY <5>2, AwakeEnough
      <4> QED BY <4>2, <4>3, <4>4 DEF WakeInv, WakeOK
    <3> QED BY <1>0, <3>1, <3>2, PoolFacts DEF TypeOK
  <2> QED BY <2>1, <2>2, <2>3 DEF NotifyOne
<1> QED BY <1>2, <1>3, <1>4 DEF WakeInv

LEMMA WakeNotifyAll ==
    ASSUME Inv, WakeInv, NEW t \in Threads, NotifyAll(t)
    PROVE  WakeInv'
<1> USE SomeWorker
<1>0. TypeOK /\ ThreadsOK /\ DrainedBeforeExit
  BY DEF Inv
<1>1. /\ pc[t] = "notifyAll" /\ pc'[t] \in {"run", "idle", "await"}
      /\ \A s \in Threads : s # t => pc'[s] = pc[s]
      /\ shutdown' = shutdown /\ tasks' = tasks /\ waiting' = {}
  BY <1>0 DEF NotifyAll, Goto, Home, TypeOK, queue
<1>2. WakeOK'
  BY <1>1 DEF WakeInv, WakeOK
<1>3. NoAwaiterForgotten'
  BY <1>1 DEF NoAwaiterForgotten
<1>4. NoTaskForgotten'
  <2>1. CASE tasks = <<>>
    BY <1>1, <2>1, AwakeEnough
  <2>2. CASE tasks # <<>>
    <3>1. pc[1] # "exited"
      BY <1>0, <2>2 DEF DrainedBeforeExit
    <3>2. pc'[1] # "exited" /\ 1 \notin waiting'
      BY <1>1, <3>1
    <3> QED BY <3>2, AwakeEnough
  <2> QED BY <2>1, <2>2
<1> QED BY <1>2, <1>3, <1>4 DEF WakeInv

\* awaitTermination sleeps only while a worker is left.
LEMMA WakePoll ==
    ASSUME Inv, WakeInv, NEW c \in Callers, Poll(c)
    PROVE  WakeInv'
<1> USE SomeWorker
<1>0. TypeOK /\ DrainedBeforeExit
  BY DEF Inv
<1>1. CASE (tasks = <<>> /\ shutdown) \/ expired
  <2>1. /\ pc'[c] = "join" /\ pc[c] = "poll" /\ UNCHANGED <<waiting, tasks, shutdown>>
        /\ \A s \in Threads : s # c => pc'[s] = pc[s]
    BY <1>0, <1>1 DEF Poll, Goto, TypeOK, queue
  <2> QED BY <2>1, WakeFrame DEF Awaiting
<1>2. CASE ~((tasks = <<>> /\ shutdown) \/ expired)
  <2>1. waiting' = waiting \cup {c} /\ UNCHANGED <<pc, tasks, shutdown>>
    BY <1>2 DEF Poll, queue
  <2>2. \A w \in Workers : w \in waiting' <=> w \in waiting
    BY <2>1, PoolFacts
  <2>3. WakeOK'
    BY <2>1, <2>2 DEF WakeInv, WakeOK
  <2>4. pc'[1] # "exited"
    BY <1>0, <1>2, <2>1 DEF DrainedBeforeExit
  <2>5. ~EagerAwait => NoTaskForgotten'
    BY <2>1, <2>2 DEF WakeInv, NoTaskForgotten
  <2> QED BY <2>3, <2>4, <2>5 DEF WakeInv, NoAwaiterForgotten
<1> QED BY <1>1, <1>2

\* The other steps of a caller.
LEMMA WakeCaller ==
    ASSUME Inv, WakeInv, NEW c \in Callers,
           \/ BeginAwait(c) \/ AwaitNext(c) \/ PollTimeout(c)
           \/ Join(c) \/ Rejoin(c)
    PROVE  WakeInv'
<1> USE SomeWorker
<1>0. TypeOK
  BY DEF Inv
<1>1. CASE AwaitNext(c) \/ PollTimeout(c) \/ Join(c) \/ Rejoin(c)
  <2>1. /\ pc[c] \in {"await", "poll", "join", "rejoin"}
        /\ pc'[c] = pc[c] \/ pc'[c] \in {"idle", "poll", "await", "rejoin", "gone"}
        /\ \A s \in Threads : s # c => pc'[s] = pc[s]
        /\ waiting' \subseteq waiting /\ tasks' = tasks /\ shutdown' = shutdown
        /\ pc'[c] \in Awaiting => pc[c] \in Awaiting
    BY <1>0, <1>1 DEF AwaitNext, PollTimeout, Join, Rejoin, Goto, TypeOK, queue,
       Awaiting
  <2>2. /\ \A t \in Threads : pc'[t] = "notifyAll" <=> pc[t] = "notifyAll"
        /\ \A t \in Threads : pc[t] = "notify" => pc'[t] = "notify"
        /\ \A w \in Workers : pc'[w] = "exited" => pc[w] = "exited"
        /\ \A d \in Callers : pc'[d] \in Awaiting => pc[d] \in Awaiting
    BY <2>1, PoolFacts
  <2> QED BY <2>1, <2>2, WakeFrame
<1>2. CASE BeginAwait(c)
  <2>1. /\ pc[c] = "idle" /\ pc'[c] = "await" /\ (shutdown \/ EagerAwait)
        /\ \A s \in Threads : s # c => pc'[s] = pc[s]
        /\ UNCHANGED <<waiting, tasks, shutdown>>
    BY <1>0, <1>2, PoolFacts DEF BeginAwait, MayCall, Goto, TypeOK, queue
  <2>2. WakeOK'
    BY <2>1 DEF WakeInv, WakeOK
  <2>3. \A w \in Workers : pc'[w] = pc[w]
    BY <2>1, PoolFacts
  <2>4. NoAwaiterForgotten'
    BY <2>1, <2>3 DEF WakeInv, NoAwaiterForgotten
  <2>5. \A t \in Threads : pc[t] \in {"notify", "notifyAll"} => pc'[t] = pc[t]
    BY <2>1
  <2>6. ~EagerAwait => NoTaskForgotten'
    BY <2>1, <2>3, <2>5 DEF WakeInv, NoTaskForgotten
  <2> QED BY <2>2, <2>4, <2>6 DEF WakeInv
<1> QED BY <1>1, <1>2

LEMMA WakeStep == Inv /\ WakeInv /\ [Next]_vars => WakeInv'
<1> SUFFICES ASSUME Inv, WakeInv, [Next]_vars PROVE WakeInv'
  OBVIOUS
<1> USE SomeWorker
<1>0. TypeOK
  BY DEF Inv
<1>1. ASSUME NEW t \in Threads, Execute(t) \/ Shutdown(t) PROVE WakeInv'
  <2>1. /\ pc'[t] \in {"notify", "notifyAll"} /\ pc[t] \in {"idle", "run"}
        /\ \A s \in Threads : s # t => pc'[s] = pc[s]
        /\ waiting' = waiting
        /\ pc'[t] = "notify" => shutdown' = shutdown
        /\ pc'[t] = "notifyAll" => shutdown' = TRUE
    BY <1>0, <1>1 DEF Execute, Shutdown, MayCall, Goto, TypeOK
  <2> QED BY <2>1, WakeCall
<1>2. ASSUME NEW t \in Threads, SpuriousWakeup(t) PROVE WakeInv'
  <2>1. UNCHANGED <<pc, tasks, shutdown>> /\ waiting' \subseteq waiting
    BY <1>2 DEF SpuriousWakeup, queue
  <2> QED BY <2>1, WakeFrame
<1>3. ASSUME NEW c \in Callers, BeginDestroy(c) PROVE WakeInv'
  <2>1. /\ pc'[c] = "notifyAll" /\ pc[c] \in {"idle", "run"}
        /\ \A s \in Threads : s # c => pc'[s] = pc[s]
        /\ waiting' = waiting /\ shutdown' = TRUE
    BY <1>0, <1>3 DEF BeginDestroy, MayCall, Goto, TypeOK
  <2> QED BY <2>1, WakeCall
<1>4. CASE Expire \/ UNCHANGED vars
  <2>1. UNCHANGED <<pc, tasks, shutdown, waiting>>
    BY <1>4 DEF Expire, vars, queue
  <2> QED BY <2>1, WakeFrame
<1> QED BY <1>1, <1>2, <1>3, <1>4, WakeWorker, WakeNotifyOne, WakeNotifyAll,
           WakePoll, WakeCaller DEF Next, Notify, AwaitStep

(***************************************************************************)
(* Every task is run once, and on one worker in the order of submission.   *)
(***************************************************************************)
PlaceInv == OnceOK /\ SingleOK

LEMMA PlaceInit == Init => PlaceInv
BY PoolFacts DEF Init, PlaceInv, OnceOK, SingleOK

\* Only taking a task and ending one change where tasks are.
LEMMA OtherStepsKeepWork ==
    ASSUME Inv, [Next]_vars,
           ~ \E w \in Workers : Take(w) \/ RunTask(w)
    PROVE  UNCHANGED work
<1>1. ASSUME NEW t \in Threads,
             Execute(t) \/ Shutdown(t) \/ Notify(t) \/ SpuriousWakeup(t)
      PROVE  UNCHANGED work
  BY <1>1 DEF Execute, Shutdown, Notify, NotifyOne, NotifyAll, SpuriousWakeup
<1>2. ASSUME NEW c \in Callers, BeginAwait(c) \/ BeginDestroy(c) \/ AwaitStep(c)
      PROVE  UNCHANGED work
  BY <1>2 DEF BeginAwait, BeginDestroy, AwaitStep, AwaitNext, Poll, PollTimeout,
     Join, Rejoin
<1>3. ASSUME NEW w \in Workers, Sleep(w) \/ Exit(w) PROVE UNCHANGED work
  BY <1>3 DEF Sleep, Exit
<1>4. Expire \/ UNCHANGED vars => UNCHANGED work
  BY DEF Expire, vars
<1> QED BY <1>1, <1>2, <1>3, <1>4 DEF Next, WorkerStep

LEMMA PlaceTake ==
    ASSUME Inv, PlaceInv, NEW w \in Workers, Take(w)
    PROVE  PlaceInv'
<1> DEFINE n == Len(started)
<1>1. /\ started \in Seq(1 .. MaxTasks) /\ n \in Nat
      /\ Head(tasks) = n + 1 /\ task \in [Workers -> 0 .. MaxTasks]
      /\ finished \in Seq(1 .. MaxTasks) /\ Len(finished) \in Nat
      /\ task[w] = 0
  <2>1. TypeOK /\ QueueOK /\ TasksOK /\ tasks # <<>> /\ pc[w] = "check"
    BY DEF Inv, Take
  <2>2. /\ started \in Seq(1 .. MaxTasks) /\ tasks \in Seq(1 .. MaxTasks)
        /\ task \in [Workers -> 0 .. MaxTasks]
        /\ finished \in Seq(1 .. MaxTasks)
    BY <2>1 DEF TypeOK
  <2>3. Head(tasks) = Len(started) + 1
    BY <2>1, <2>2 DEF QueueOK
  <2>4. task[w] = 0
    BY <2>1 DEF TasksOK
  <2> QED BY <2>2, <2>3, <2>4
<1>2. /\ task' = [task EXCEPT ![w] = n + 1] /\ started' = Append(started, n + 1)
      /\ finished' = finished
  BY <1>1 DEF Take
<1>3. Len(started') = n + 1
  BY <1>1, <1>2
<1>4. task'[w] = n + 1 /\ \A v \in Workers : v # w => task'[v] = task[v]
  BY <1>1, <1>2
<1>5. /\ \A v \in Workers : task[v] <= n /\ task[v] \in Nat
      /\ \A k \in DOMAIN finished : finished[k] \in 1 .. n
  BY <1>1 DEF PlaceInv, OnceOK
<1> HIDE DEF n
<1>6. OnceOK'
  <2>1. \A v \in Workers : task'[v] <= n + 1
    BY <1>1, <1>4, <1>5
  <2>2. \A u, v \in Workers : u # v /\ task'[u] # 0 => task'[u] # task'[v]
    <3>1. \A v \in Workers : task[v] # n + 1
      BY <1>1, <1>5
    <3> QED BY <1>4, <3>1 DEF PlaceInv, OnceOK
  <2>3. \A k \in DOMAIN finished : finished[k] \in 1 .. n + 1 /\ finished[k] # n + 1
    BY <1>1, <1>5
  <2>4. \A k \in DOMAIN finished, v \in Workers : task'[v] # finished[k]
    BY <1>4, <2>3 DEF PlaceInv, OnceOK
  <2> QED BY <1>2, <1>3, <2>1, <2>2, <2>3, <2>4 DEF PlaceInv, OnceOK
<1>7. SingleOK'
  <2> SUFFICES ASSUME PoolSize = 1
               PROVE  /\ Len(started') = Len(finished') + (IF task'[1] = 0 THEN 0 ELSE 1)
                      /\ task'[1] # 0 => task'[1] = Len(started')
                      /\ \A k \in DOMAIN finished' : finished'[k] = k
    BY DEF SingleOK
  <2>1. w = 1
    BY PoolFacts
  <2>2. n = Len(finished) /\ \A k \in DOMAIN finished : finished[k] = k
    BY <1>1, <2>1 DEF PlaceInv, SingleOK, n
  <2> QED BY <1>1, <1>2, <1>3, <1>4, <2>1, <2>2
<1> QED BY <1>6, <1>7 DEF PlaceInv

LEMMA PlaceRunTask ==
    ASSUME Inv, PlaceInv, NEW w \in Workers, RunTask(w)
    PROVE  PlaceInv'
<1> DEFINE n == Len(finished)
<1>1. /\ task \in [Workers -> 0 .. MaxTasks] /\ task[w] # 0
      /\ started \in Seq(1 .. MaxTasks) /\ Len(started) \in Nat
      /\ finished \in Seq(1 .. MaxTasks) /\ n \in Nat
  BY PoolFacts DEF Inv, TypeOK, TasksOK, RunTask
<1>2. /\ task' = [task EXCEPT ![w] = 0] /\ started' = started
      /\ finished' = Append(finished, task[w])
  BY DEF RunTask
<1>3. task'[w] = 0 /\ \A v \in Workers : v # w => task'[v] = task[v]
  BY <1>1, <1>2
<1>4. /\ DOMAIN finished = 1 .. n /\ DOMAIN finished' = 1 .. n + 1
      /\ Len(finished') = n + 1
      /\ \A k \in 1 .. n : finished'[k] = finished[k]
      /\ finished'[n + 1] = task[w]
  BY <1>1, <1>2
<1>5. task[w] \in 1 .. Len(started)
  BY <1>1 DEF PlaceInv, OnceOK
<1> HIDE DEF n
<1>6. OnceOK'
  <2>1. \A v \in Workers : task'[v] <= Len(started)
    BY <1>1, <1>3 DEF PlaceInv, OnceOK
  <2>2. \A u, v \in Workers : u # v /\ task'[u] # 0 => task'[u] # task'[v]
    BY <1>3 DEF PlaceInv, OnceOK
  <2>3. ASSUME NEW k \in 1 .. n + 1
        PROVE  finished'[k] \in 1 .. Len(started) /\ \A v \in Workers : task'[v] # finished'[k]
    <3>1. CASE k = n + 1
      BY <1>1, <1>3, <1>4, <1>5, <3>1 DEF PlaceInv, OnceOK
    <3>2. CASE k \in 1 .. n
      <4>1. /\ finished[k] \in 1 .. Len(started)
            /\ \A v \in Workers : task[v] # finished[k]
        BY <1>4, <3>2 DEF PlaceInv, OnceOK
      <4> QED BY <1>1, <1>3, <1>4, <3>2, <4>1
    <3> QED BY <1>1, <3>1, <3>2
  <2>4. ASSUME NEW i \in 1 .. n + 1, NEW j \in 1 .. n + 1, i # j
        PROVE  finished'[i] # finished'[j]
    <3>1. \A k \in 1 .. n : finished[k] # task[w]
      BY <1>4 DEF PlaceInv, OnceOK
    <3>2. i \in 1 .. n \/ j \in 1 .. n
      BY <1>1, <2>4
    <3>3. CASE i \in 1 .. n /\ j \in 1 .. n
      BY <1>4, <2>4, <3>3 DEF PlaceInv, OnceOK
    <3>4. CASE i \notin 1 .. n \/ j \notin 1 .. n
      <4>1. i = n + 1 \/ j = n + 1
        BY <1>1, <3>4
      <4> QED BY <1>4, <3>1, <3>2, <4>1, <2>4
    <3> QED BY <3>3, <3>4
  <2> QED BY <1>2, <1>4, <2>1, <2>2, <2>3, <2>4 DEF OnceOK
<1>7. SingleOK'
  <2> SUFFICES ASSUME PoolSize = 1
               PROVE  /\ Len(started') = Len(finished') + (IF task'[1] = 0 THEN 0 ELSE 1)
                      /\ task'[1] # 0 => task'[1] = Len(started')
                      /\ \A k \in DOMAIN finished' : finished'[k] = k
    BY DEF SingleOK
  <2>1. w = 1
    BY PoolFacts
  <2>2. /\ Len(started) = n + 1 /\ task[w] = n + 1
        /\ \A k \in DOMAIN finished : finished[k] = k
    BY <1>1, <2>1 DEF PlaceInv, SingleOK, n
  <2>3. \A k \in 1 .. n + 1 : finished'[k] = k
    BY <1>1, <1>4, <2>2
  <2> QED BY <1>1, <1>2, <1>3, <1>4, <2>1, <2>2, <2>3
<1> QED BY <1>6, <1>7 DEF PlaceInv

LEMMA PlaceStep == Inv /\ PlaceInv /\ [Next]_vars => PlaceInv'
<1> SUFFICES ASSUME Inv, PlaceInv, [Next]_vars PROVE PlaceInv'
  OBVIOUS
<1>1. CASE \E w \in Workers : Take(w) \/ RunTask(w)
  BY <1>1, PlaceTake, PlaceRunTask
<1>2. CASE ~ \E w \in Workers : Take(w) \/ RunTask(w)
  BY <1>2, OtherStepsKeepWork DEF work, PlaceInv, OnceOK, SingleOK
<1> QED BY <1>1, <1>2

(***************************************************************************)
(* The theorems.                                                           *)
(***************************************************************************)
\* The inductive invariant: the queue and what was taken from it are
\* consecutive, every task taken is with a worker or over, and whatever
\* awaitTermination has counted as joined has exited.
THEOREM Invariant == Spec => []Inv
<1>1. Inv /\ [Next]_vars => Inv'
  BY TypeStep, QueueStep, TasksStep, ThreadsStep, JoinStep, DrainedStep DEF Inv
<1> QED BY InitInv, <1>1, PTL DEF Spec

\* ThreadPool.hpp: every variable keeps its type, whatever the pool's size.
THEOREM TypeCorrect == Spec => []TypeOK
BY Invariant, PTL DEF Inv

\* ThreadPool.hpp:78 and workerLoop: no worker exits before the queue is
\* drained, and execute adds nothing afterwards.
THEOREM DrainedFirst == Spec => []DrainedBeforeExit
BY Invariant, PTL DEF Inv

\* Statechart.cpp:52: the queue is first-in first-out, loses nothing and
\* repeats nothing, for every number of workers, callers and tasks.
THEOREM FifoAlways == Spec => []FirstInFirstOut
<1>1. Inv => FirstInFirstOut
  <2> SUFFICES ASSUME Inv PROVE FirstInFirstOut
    OBVIOUS
  <2> DEFINE m == Len(started)
             n == Len(tasks)
  <2>1. /\ started \in Seq(1 .. MaxTasks) /\ tasks \in Seq(1 .. MaxTasks)
        /\ m + n = submitted
        /\ \A i \in 1 .. m : started[i] = i
        /\ \A j \in 1 .. n : tasks[j] = m + j
    BY DEF Inv, TypeOK, QueueOK
  <2>2. m \in Nat /\ n \in Nat /\ submitted \in Nat
    BY <2>1
  <2>3. /\ started \o tasks \in Seq(1 .. MaxTasks)
        /\ Len(started \o tasks) = m + n
        /\ \A i \in 1 .. m + n : (started \o tasks)[i] =
              IF i <= m THEN started[i] ELSE tasks[i - m]
    BY <2>1, ConcatProperties
  <2>4. ASSUME NEW i \in 1 .. m + n
        PROVE  (IF i <= m THEN started[i] ELSE tasks[i - m]) = i
    <3>1. CASE i <= m
      BY <2>1, <2>2, <3>1
    <3>2. CASE ~(i <= m)
      <4>1. i - m \in 1 .. n /\ m + (i - m) = i
        BY <2>2, <3>2
      <4> QED BY <2>1, <3>2, <4>1
    <3> QED BY <3>1, <3>2
  <2> HIDE DEF m, n
  <2>5. started \o tasks = [i \in 1 .. m + n |-> i]
    <3> DEFINE q == started \o tasks
    <3>1. q \in Seq(1 .. MaxTasks) /\ Len(q) = m + n
      BY <2>3
    <3>2. \A i \in 1 .. m + n : q[i] = i
      BY <2>3, <2>4
    <3> HIDE DEF q
    <3>3. q = [i \in 1 .. Len(q) |-> q[i]]
      BY <3>1
    <3> QED BY <3>1, <3>2, <3>3 DEF q
  <2> QED BY <2>1, <2>5 DEF FirstInFirstOut
<1> QED BY Invariant, <1>1, PTL

\* ThreadPool.hpp:89 and the destructor: when awaitTermination has answered
\* true, or the pool is gone, every accepted task has ended.
THEOREM TerminationMeansDone == Spec => []TerminatedMeansDone
<1>1. Inv => TerminatedMeansDone
  <2> SUFFICES ASSUME Inv, answer = "true" \/ \E c \in Callers : pc[c] = "gone"
               PROVE  /\ \A i \in 1 .. submitted :
                            \E k \in DOMAIN finished : finished[k] = i
                      /\ \A w \in Workers : pc[w] = "exited"
    BY DEF TerminatedMeansDone
  <2>1. \A w \in Workers : pc[w] = "exited"
    BY DEF Inv, JoinOK
  <2>2. tasks = <<>>
    BY <2>1, PoolFacts DEF Inv, DrainedBeforeExit
  <2>3. Len(started) = submitted
    BY <2>2 DEF Inv, TypeOK, QueueOK
  <2>4. \A w \in Workers : task[w] = 0
    BY <2>1 DEF Inv, TasksOK
  <2>5. ASSUME NEW i \in 1 .. submitted
        PROVE  \E k \in DOMAIN finished : finished[k] = i
    <3>1. i # 0
      OBVIOUS
    <3> QED BY <2>3, <2>4, <3>1 DEF Inv, TasksOK
  <2> QED BY <2>1, <2>5
<1> QED BY Invariant, <1>1, PTL

\* ThreadPool.hpp:99: while a task is queued some worker is awake or about to
\* be woken, for every number of workers and callers, provided that nobody
\* calls awaitTermination before shutdown: an awaiter sleeps in the same
\* condition variable, and notify_one could wake it instead of a worker.
THEOREM TasksAreNoticed == ~EagerAwait => (Spec => []NoTaskForgotten)
<1> SUFFICES ASSUME ~EagerAwait PROVE Spec => []NoTaskForgotten
  OBVIOUS
<1>1. Spec => []WakeInv
  BY Invariant, WakeInit, WakeStep, PTL DEF Spec
<1>2. WakeInv => NoTaskForgotten
  BY DEF WakeInv
<1> QED BY <1>1, <1>2, PTL

\* workerLoop's notify_all before it returns: awaitTermination never sleeps
\* when all workers have exited, whether or not the pool was shut down first.
THEOREM AwaitersAreNoticed == Spec => []NoAwaiterForgotten
<1>1. Spec => []WakeInv
  BY Invariant, WakeInit, WakeStep, PTL DEF Spec
<1>2. WakeInv => NoAwaiterForgotten
  BY DEF WakeInv
<1> QED BY <1>1, <1>2, PTL

\* Statechart.cpp:52: on the single worker of a Statechart the tasks end in
\* the order of their submission, also when they throw or submit others.
THEOREM SingleWorkerKeepsOrder == Spec => []SubmissionOrder
<1>1. Spec => []PlaceInv
  BY Invariant, PlaceInit, PlaceStep, PTL DEF Spec
<1>2. PlaceInv => SubmissionOrder
  BY DEF PlaceInv, SingleOK, SubmissionOrder
<1> QED BY <1>1, <1>2, PTL

\* workerLoop moves a task out of the queue and calls it once: no task ends
\* twice, and none is in two hands, on any number of workers.
THEOREM EveryTaskRunsOnce == Spec => []OnceOK
<1>1. Spec => []PlaceInv
  BY Invariant, PlaceInit, PlaceStep, PTL DEF Spec
<1> QED BY <1>1, PTL DEF PlaceInv
=============================================================================
