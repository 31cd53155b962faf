----------------------------- MODULE ThreadPool -----------------------------
(***************************************************************************)
(* class ThreadPool: the worker loop, execute, shutdown, awaitTermination  *)
(* and the destructor, with the mutex and the one condition variable that  *)
(* workers and a waiting awaitTermination share.                           *)
(*                                                                         *)
(* A block that holds m_mutex is one step: the tests of a predicate and    *)
(* the release of the mutex by wait() are atomic, a notification after the *)
(* block is a step of its own.  `waiting' is the set of threads blocked in *)
(* the condition variable; waking up may be spurious.                      *)
(***************************************************************************)
EXTENDS Naturals, Sequences, FiniteSets

CONSTANTS
    Requested,      \* p_threads
    Callers,        \* threads outside the pool
    MaxTasks,       \* bound: tasks accepted in one behaviour
    EagerAwait      \* may awaitTermination be called before shutdown?

PoolSize == IF Requested < 1 THEN 1 ELSE Requested
Workers == 1 .. PoolSize            \* m_workers, in the order of the vector
Threads == Workers \cup Callers

ASSUME PoolAssumption ==
    /\ Requested \in Nat
    /\ Callers \cap Nat = {}
    /\ MaxTasks \in Nat
    /\ EagerAwait \in BOOLEAN

VARIABLES
    tasks,          \* m_tasks; a task is named by its rank of acceptance
    shutdown,       \* m_shutdown
    pc,             \* what each thread is about to do
    waiting,        \* threads blocked in m_condition
    task,           \* the task a worker has taken
    joined,         \* workers that are no longer joinable
    loop,           \* the worker awaitTermination has come to
    expired,        \* the deadline of awaitTermination has passed
    answer,         \* what the last awaitTermination returned
    owner,          \* the callers that run the destructor: none or one
    submitted,      \* ghost: number of tasks accepted
    started,        \* ghost: tasks in the order they were taken
    finished,       \* ghost: tasks in the order they ended
    late            \* ghost: workers alive when the deadline passed

queue == <<tasks, shutdown, submitted>>
work == <<task, started, finished>>
await == <<joined, loop, expired, answer, owner, late>>
vars == <<queue, pc, waiting, work, await>>

Awaiting == {"await", "poll", "join"}
TypeOK ==
    /\ tasks \in Seq(1 .. MaxTasks)
    /\ shutdown \in BOOLEAN
    /\ pc \in [Threads -> {"check", "run", "exited", "idle", "notify",
                           "notifyAll", "rejoin", "gone"} \cup Awaiting]
    /\ waiting \subseteq Threads
    /\ task \in [Workers -> 0 .. MaxTasks]
    /\ joined \subseteq Workers
    /\ loop \in 1 .. PoolSize + 1
    /\ expired \in BOOLEAN
    /\ answer \in {"none", "true", "false"}
    /\ owner \subseteq Callers
    /\ submitted \in 0 .. MaxTasks
    /\ started \in Seq(1 .. MaxTasks)
    /\ finished \in Seq(1 .. MaxTasks)
    /\ late \subseteq Workers

Goto(t, where) == pc' = [pc EXCEPT ![t] = where]

\* Threads that may call the pool: callers between two calls while the pool
\* lives, and the task a worker runs.
MayCall(t) == \/ t \in Callers /\ pc[t] = "idle" /\ owner = {}
              \/ t \in Workers /\ pc[t] = "run"
Home(t) == IF t \in Workers THEN "run" ELSE "idle"

(***************************************************************************)
(* workerLoop                                                              *)
(***************************************************************************)
\* wait() finds its predicate false.
Sleep(w) ==
    /\ pc[w] = "check" /\ w \notin waiting
    /\ tasks = <<>> /\ ~shutdown
    /\ waiting' = waiting \cup {w}
    /\ UNCHANGED <<queue, pc, work, await>>

\* Mutant: a stack instead of a queue.
TakeNewest(w) ==
    /\ pc[w] = "check" /\ w \notin waiting
    /\ tasks # <<>>
    /\ task' = [task EXCEPT ![w] = tasks[Len(tasks)]]
    /\ started' = Append(started, tasks[Len(tasks)])
    /\ tasks' = SubSeq(tasks, 1, Len(tasks) - 1)
    /\ Goto(w, "run")
    /\ UNCHANGED <<shutdown, submitted, waiting, finished, await>>

Take(w) ==
    /\ pc[w] = "check" /\ w \notin waiting
    /\ tasks # <<>>
    /\ task' = [task EXCEPT ![w] = Head(tasks)]
    /\ started' = Append(started, Head(tasks))
    /\ tasks' = Tail(tasks)
    /\ Goto(w, "run")
    /\ UNCHANGED <<shutdown, submitted, waiting, finished, await>>

\* Mutant: a worker exits without waking the others.
ExitSilently(w) ==
    /\ pc[w] = "check" /\ w \notin waiting
    /\ tasks = <<>> /\ shutdown
    /\ Goto(w, "exited")
    /\ UNCHANGED <<queue, work, await, waiting>>

Exit(w) ==
    /\ pc[w] = "check" /\ w \notin waiting
    /\ tasks = <<>> /\ shutdown
    /\ waiting' = {}
    /\ Goto(w, "exited")
    /\ UNCHANGED <<queue, work, await>>

AfterThrowDies == "exited"      \* mutant: nothing catches the exception
AfterThrowAgain == "run"        \* mutant: the moved-out task is called again
AfterThrow == "check"

\* The task returns or throws; either way the worker goes on.
RunTask(w) ==
    /\ pc[w] = "run"
    /\ finished' = Append(finished, task[w])
    /\ task' = [task EXCEPT ![w] = 0]
    /\ \E next \in {"check", AfterThrow} : Goto(w, next)
    /\ UNCHANGED <<queue, waiting, started, await>>

(***************************************************************************)
(* execute and shutdown; a refused or empty task changes nothing, and      *)
(* neither does a second shutdown but for a wake-up, which may be spurious *)
(* anyway.                                                                 *)
(***************************************************************************)
\* Mutant: the flag is not looked at under the lock.
ExecuteAnyway(t) ==
    /\ MayCall(t)
    /\ submitted < MaxTasks
    /\ submitted' = submitted + 1
    /\ tasks' = Append(tasks, submitted + 1)
    /\ Goto(t, "notify")
    /\ UNCHANGED <<shutdown, waiting, work, await>>

Execute(t) ==
    /\ MayCall(t)
    /\ ~shutdown
    /\ submitted < MaxTasks
    /\ submitted' = submitted + 1
    /\ tasks' = Append(tasks, submitted + 1)
    /\ Goto(t, "notify")
    /\ UNCHANGED <<shutdown, waiting, work, await>>

\* Mutant: nobody is notified.
NotifyNobody(t) ==
    /\ pc[t] = "notify"
    /\ Goto(t, Home(t))
    /\ UNCHANGED <<queue, waiting, work, await>>

NotifyOne(t) ==
    /\ pc[t] = "notify"
    /\ \/ waiting = {} /\ waiting' = {}
       \/ \E s \in waiting : waiting' = waiting \ {s}
    /\ Goto(t, Home(t))
    /\ UNCHANGED <<queue, work, await>>

Shutdown(t) ==
    /\ MayCall(t)
    /\ ~shutdown
    /\ shutdown' = TRUE
    /\ Goto(t, "notifyAll")
    /\ UNCHANGED <<tasks, submitted, waiting, work, await>>

\* The destructor goes on with awaitTermination.
NotifyAll(t) ==
    /\ pc[t] = "notifyAll"
    /\ waiting' = {}
    /\ IF t \in owner
       THEN /\ Goto(t, "await")
            /\ loop' = 1 /\ expired' = FALSE /\ late' = {} /\ answer' = "none"
            /\ UNCHANGED <<joined, owner>>
       ELSE Goto(t, Home(t)) /\ UNCHANGED await
    /\ UNCHANGED <<queue, work>>

SpuriousWakeup(t) ==
    /\ t \in waiting
    /\ waiting' = waiting \ {t}
    /\ UNCHANGED <<queue, pc, work, await>>

(***************************************************************************)
(* awaitTermination, by one caller at a time: it joins the workers.        *)
(***************************************************************************)
BeginAwait(c) ==
    /\ MayCall(c)
    /\ \A d \in Callers : pc[d] \notin Awaiting
    /\ shutdown \/ EagerAwait
    /\ Goto(c, "await")
    /\ loop' = 1 /\ expired' = FALSE /\ late' = {} /\ answer' = "none"
    /\ UNCHANGED <<queue, waiting, work, joined, owner>>

\* The head of the loop over m_workers, and the return after it.
AwaitNext(c) ==
    /\ pc[c] = "await"
    /\ \/ /\ loop \in joined
          /\ loop' = loop + 1
          /\ UNCHANGED <<pc, answer>>
       \/ /\ loop \in Workers \ joined /\ ~expired
          /\ Goto(c, "poll")
          /\ UNCHANGED <<loop, answer>>
       \/ /\ loop > PoolSize \/ (loop \notin joined /\ expired)
          /\ answer' = IF loop > PoolSize THEN "true" ELSE "false"
          /\ Goto(c, IF c \in owner THEN "rejoin" ELSE "idle")
          /\ UNCHANGED loop
    /\ UNCHANGED <<queue, waiting, work, joined, expired, owner, late>>

\* wait_until: blocked until the predicate holds or the deadline has passed.
Poll(c) ==
    /\ pc[c] = "poll" /\ c \notin waiting
    /\ IF (tasks = <<>> /\ shutdown) \/ expired
       THEN Goto(c, "join") /\ UNCHANGED waiting
       ELSE waiting' = waiting \cup {c} /\ UNCHANGED pc
    /\ UNCHANGED <<queue, work, await>>

PollTimeout(c) ==
    /\ pc[c] = "poll" /\ c \in waiting /\ expired
    /\ waiting' = waiting \ {c}
    /\ UNCHANGED <<queue, pc, work, await>>

\* Mutant: join() does not wait for a thread that is still running a task.
JoinBusy(c) ==
    /\ pc[c] = "join"
    /\ joined' = joined \cup {loop}
    /\ loop' = loop + 1
    /\ Goto(c, "await")
    /\ UNCHANGED <<queue, waiting, work, expired, answer, owner, late>>

Join(c) ==
    /\ pc[c] = "join" /\ pc[loop] = "exited"
    /\ joined' = joined \cup {loop}
    /\ loop' = loop + 1
    /\ Goto(c, "await")
    /\ UNCHANGED <<queue, waiting, work, expired, answer, owner, late>>

\* The clock reaches the deadline.
Expire ==
    /\ \E c \in Callers : pc[c] \in Awaiting
    /\ ~expired
    /\ expired' = TRUE
    /\ late' = {w \in Workers : pc[w] # "exited"}
    /\ UNCHANGED <<queue, pc, waiting, work, joined, loop, answer, owner>>

(***************************************************************************)
(* ~ThreadPool, when no other caller uses the pool any more: shutdown,     *)
(* awaitTermination, and a join of whatever that left joinable.            *)
(***************************************************************************)
BeginDestroy(c) ==
    /\ MayCall(c)
    /\ \A d \in Callers : pc[d] = "idle"
    /\ owner' = {c}
    /\ shutdown' = TRUE
    /\ Goto(c, "notifyAll")
    /\ UNCHANGED <<tasks, submitted, waiting, work, joined, loop, expired,
                   answer, late>>

Rejoin(c) ==
    /\ pc[c] = "rejoin"
    /\ \A w \in Workers \ joined : pc[w] = "exited"
    /\ joined' = Workers
    /\ Goto(c, "gone")
    /\ UNCHANGED <<queue, waiting, work, loop, expired, answer, owner, late>>

WorkerStep(w) == Sleep(w) \/ Take(w) \/ Exit(w) \/ RunTask(w)
Notify(t) == NotifyOne(t) \/ NotifyAll(t)
AwaitStep(c) == AwaitNext(c) \/ Poll(c) \/ PollTimeout(c) \/ Join(c) \/ Rejoin(c)

Next ==
    \/ \E w \in Workers : WorkerStep(w)
    \/ \E t \in Threads : Execute(t) \/ Shutdown(t) \/ Notify(t)
                          \/ SpuriousWakeup(t)
    \/ \E c \in Callers : BeginAwait(c) \/ BeginDestroy(c) \/ AwaitStep(c)
    \/ Expire

Init ==
    /\ tasks = <<>> /\ shutdown = FALSE /\ submitted = 0
    /\ pc = [t \in Threads |-> IF t \in Workers THEN "check" ELSE "idle"]
    /\ waiting = {}
    /\ task = [w \in Workers |-> 0] /\ started = <<>> /\ finished = <<>>
    /\ joined = {} /\ loop = 1 /\ expired = FALSE /\ answer = "none"
    /\ owner = {} /\ late = {}

Spec == Init /\ [][Next]_vars

\* Threads that are not blocked run, and tasks end.  Nothing makes a caller
\* call, a wake-up spurious or the clock reach the deadline.
FairSpec ==
    /\ Spec
    /\ \A w \in Workers : WF_vars(WorkerStep(w))
    /\ \A t \in Threads : WF_vars(Notify(t))
    /\ \A c \in Callers : WF_vars(AwaitStep(c))

(***************************************************************************)
(* Properties                                                              *)
(***************************************************************************)
\* Statechart.cpp:52: tasks are taken in the order they were accepted, each
\* once, and none is dropped, whoever submits them and whenever.
FirstInFirstOut == started \o tasks = [i \in 1 .. submitted |-> i]

\* Statechart.cpp:52: on the single worker of a Statechart the events are
\* also processed in the order of their submission.
SubmissionOrder ==
    PoolSize = 1 => \A i \in DOMAIN finished : finished[i] = i

\* ThreadPool.hpp:78: workers exit only once the queue is drained, and nothing
\* is accepted after the first of them has.
DrainedBeforeExit ==
    \A w \in Workers : pc[w] = "exited" => shutdown /\ tasks = <<>>

\* ThreadPool.hpp:89 and the destructor: when awaitTermination answers true,
\* and when the pool is gone, every accepted task has ended and no worker runs.
TerminatedMeansDone ==
    (answer = "true" \/ \E c \in Callers : pc[c] = "gone") =>
        /\ \A i \in 1 .. submitted : \E k \in DOMAIN finished : finished[k] = i
        /\ \A w \in Workers : pc[w] = "exited"

\* ThreadPool.hpp:99: the condition variable notifies workers of new tasks:
\* while a task is queued the workers do not all sleep, unless a thread is
\* just about to wake one.
NoTaskForgotten ==
    (tasks # <<>> /\ \A w \in Workers : w \in waiting \/ pc[w] = "exited") =>
        \E t \in Threads : pc[t] \in {"notify", "notifyAll"}

\* ThreadPool.hpp:89: true means that all workers terminated within the
\* timeout, so none was alive when the deadline passed.
TrueMeansInTime == answer = "true" => late = {}

\* Every accepted task is run to its end.
EveryTaskEnds ==
    \A i \in 1 .. MaxTasks :
        (submitted >= i) ~> (\E k \in DOMAIN finished : finished[k] = i)

\* Once the pool is shut down awaitTermination and the destructor return,
\* however far away the deadline is: a sleeping awaiter is woken.
AwaitReturns ==
    \A c \in Callers :
        (shutdown /\ pc[c] \in Awaiting \cup {"rejoin"})
            ~> (pc[c] \in {"idle", "gone"})
=============================================================================
