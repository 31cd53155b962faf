---------------------------- MODULE AsyncEngine ----------------------------
(***************************************************************************)
(* One Statechart with its threads: clients that call it, the timeout      *)
(* thread that moves due entries from m_timeoutQueue to the pool, and the  *)
(* pool's one worker that runs them.  The chart is flat, Moves are its     *)
(* transitions; what dispatch does inside deeper charts is the subject of  *)
(* Interpreter.  The pool is a FIFO of accepted tasks (ThreadPool) and the *)
(* delay queue the set of its pending elements (TimedQueue), where any     *)
(* element may be the next one due: deadlines are not compared.            *)
(*                                                                         *)
(* Each step is one block under one mutex, or the work between two of      *)
(* them that no other thread sees.                                         *)
(***************************************************************************)
EXTENDS Naturals, Sequences, FiniteSets, SequencesExt, FiniteSetsExt

CONSTANTS
    Runs,           \* Metadata objects
    Clients,        \* threads of the user that start and dispatch
    Owners,         \* threads of the user that shut the Statechart down
    Worker, Timer,  \* the pool's worker, m_timeoutThread
    Moves,          \* transitions, as records [from, on, to]
    StartState,     \* m_startState
    Timed,          \* the TimeoutEvents among the events
    Sendable,       \* events the user dispatches
    Root,           \* the Statechart as the state an entry is bound to
    Null,           \* nullptr, no thread
    User, Local,    \* a Parameter the user keeps; one on a caller's stack
    Direct,         \* synchronous calls the user makes: "start", "dispatch"
    Lent,           \* Parameters passed to them: User, Local or both
    Restart,        \* does the user start a Metadata again?
    MaxCalls        \* bound: calls of the user that start or dispatch

Threads == Clients \cup Owners \cup {Worker, Timer}
ChartStates == {mv.from : mv \in Moves} \cup {mv.to : mv \in Moves}
Timeouts(s) == {mv.on : mv \in {v \in Moves : v.from = s /\ v.on \in Timed}}

ASSUME AsyncAssumption ==
    /\ Worker # Timer /\ {Worker, Timer} \cap (Clients \cup Owners) = {}
    /\ Clients \cap Owners = {} /\ Null \notin Threads
    /\ StartState \in ChartStates /\ {Root, Null} \cap ChartStates = {}
    /\ Null \notin Timed
    /\ Lent \subseteq {User, Local} /\ MaxCalls \in Nat

VARIABLES
    running,        \* m_running
    queue,          \* entries in m_timeoutQueue
    queueStopped,   \* DelayQueue::m_stop
    pool,           \* entries whose run() the pool has accepted
    poolShut,       \* ThreadPool::m_shutdown
    pending,        \* entries in m_pendingEntries
    released,       \* shutdown() has cleared m_pendingEntries
    entries,        \* every entry made, in the order of their ids
    invalid,        \* entries marked invalid
    md,             \* the Metadata objects
    holder,         \* who holds each Metadata's mutex
    pc,             \* where each thread is
    job,            \* its local variables
    calls,          \* calls of the user so far
    ran             \* ghost: entries whose run() has returned

engine == <<running, queueStopped, poolShut, released>>
store == <<queue, pool, pending, entries, invalid>>
vars == <<engine, store, md, holder, pc, job, calls, ran>>

Ids == 1 .. Len(entries)

\* A Parameter lives as long as the user, the call on whose stack it lies, or
\* the entry (its id) that shares its ownership.
Params == Nat \cup {User, Local}
EventsOrNull == Timed \cup Sendable \cup {Null}
StatesOrNull == ChartStates \cup {Null}
Entry == [state : ChartStates \cup {Root}, run : Runs, event : EventsOrNull,
          param : Params, activation : Nat]

\* What a thread works on: the dispatch it is in (run, event, param, the
\* target of the transition, timeouts still to schedule), the entry it has in
\* hand, the event it sends and the entry it has made.
Job == [run : Runs \cup {Null}, event : EventsOrNull, param : Params,
        to : StatesOrNull, todo : SUBSET Timed, entry : Nat,
        sent : EventsOrNull, made : Nat]
NoJob == [run |-> Null, event |-> Null, param |-> User, to |-> Null,
          todo |-> {}, entry |-> 0, sent |-> Null, made |-> 0]

Dispatching == {"react", "leave", "act", "enter", "schedule", "arm"}
Sending == {"send", "push", "submit"}
Stopping == {"clear", "stop", "poolDown", "joinTimer", "joinWorker", "release"}

TypeOK ==
    /\ engine \in BOOLEAN \X BOOLEAN \X BOOLEAN \X BOOLEAN
    /\ queue \cup pending \cup invalid \cup ran \subseteq Ids
    /\ pool \in Seq(Ids)
    /\ entries \in Seq(Entry)
    /\ md \in [Runs -> [current : StatesOrNull, active : BOOLEAN,
                        alarms : SUBSET Ids, activation : Nat]]
    /\ holder \in [Runs -> Threads \cup {Null}]
    /\ pc \in [Threads -> Dispatching \cup Sending \cup Stopping \cup
                  {"idle", "lock", "take", "valid", "bound", "loop", "check",
                   "execute", "exited"}]
    /\ job \in [Threads -> Job]
    /\ calls \in 0 .. MaxCalls

Goto(t, where) == pc' = [pc EXCEPT ![t] = where]
Assign(t, field, value) == job' = [job EXCEPT ![t][field] = value]
Run(t) == job[t].run
Record(t) == md[Run(t)]

\* make_shared<EventQueueEntry>, kept alive in m_pendingEntries.
Make(t, state, event, param, activation) ==
    /\ entries' = Append(entries, [state |-> state, run |-> Run(t),
                      event |-> event, param |-> param,
                      activation |-> activation])
    /\ pending' = pending \cup {Len(entries) + 1}
    /\ Assign(t, "made", Len(entries) + 1)

(***************************************************************************)
(* dispatchAsynchron, called by clients and by actions                     *)
(***************************************************************************)
InAction(t) == \E m \in Runs : holder[m] = t
SendReturns(t) ==
    /\ Goto(t, IF InAction(t) THEN "enter" ELSE "idle")
    /\ job' = [job EXCEPT ![t] = IF InAction(t)
                  THEN [@ EXCEPT !.sent = Null, !.made = 0] ELSE NoJob]

SendCheck(t) ==
    /\ pc[t] = "send"
    /\ IF poolShut THEN SendReturns(t) ELSE Goto(t, "push") /\ UNCHANGED job
    /\ UNCHANGED <<engine, store, md, holder, calls, ran>>

SendPush(t) ==
    /\ pc[t] = "push"
    /\ Make(t, Root, job[t].sent, Len(entries) + 1, 0)
    /\ Goto(t, "submit")
    /\ UNCHANGED <<engine, queue, pool, invalid, md, holder, calls, ran>>

\* ThreadPool::execute: a task is dropped once the pool is shut down.
Accept(id) == pool' = IF poolShut THEN pool ELSE Append(pool, id)

SendSubmit(t) ==
    /\ pc[t] = "submit"
    /\ IF job[t].sent \in Timed
       THEN queue' = queue \cup {job[t].made} /\ UNCHANGED pool
       ELSE Accept(job[t].made) /\ UNCHANGED queue
    /\ SendReturns(t)
    /\ UNCHANGED <<engine, pending, entries, invalid, md, holder, calls, ran>>

(***************************************************************************)
(* dispatch                                                                *)
(***************************************************************************)
Lock(t) ==
    /\ pc[t] = "lock" /\ holder[Run(t)] = Null
    /\ holder' = [holder EXCEPT ![Run(t)] = t]
    /\ Goto(t, "react")
    /\ UNCHANGED <<engine, store, md, job, calls, ran>>

Fires(t) == {mv \in Moves : /\ mv.from = Record(t).current
                            /\ mv.on # Null => mv.on = job[t].event}

\* Mutant: an entry is released once it has run.
FinishReleasing(t) ==
    /\ holder' = [holder EXCEPT ![Run(t)] = Null]
    /\ ran' = IF t = Worker THEN ran \cup {job[t].entry} ELSE ran
    /\ pending' = pending \ {job[t].entry}
    /\ job' = [job EXCEPT ![t] = NoJob]
    /\ Goto(t, IF t = Worker THEN "take" ELSE "idle")

\* dispatch returns and releases the mutex.
Finish(t) ==
    /\ holder' = [holder EXCEPT ![Run(t)] = Null]
    /\ ran' = IF t = Worker THEN ran \cup {job[t].entry} ELSE ran
    /\ job' = [job EXCEPT ![t] = NoJob]
    /\ Goto(t, IF t = Worker THEN "take" ELSE "idle")
    /\ UNCHANGED pending

\* The event and then nullptr, until no transition fires anymore, go to the
\* current state.
React(t) ==
    /\ pc[t] = "react"
    /\ \/ \E mv \in Fires(t) :
             /\ Assign(t, "to", mv.to)
             /\ Goto(t, "leave")
             /\ UNCHANGED <<holder, pending, ran>>
       \/ /\ Fires(t) = {} /\ job[t].event # Null
          /\ Assign(t, "event", Null)
          /\ UNCHANGED <<holder, pc, pending, ran>>
       \/ Fires(t) = {} /\ job[t].event = Null /\ Finish(t)
    /\ UNCHANGED <<engine, queue, pool, entries, invalid, md, calls>>

\* Mutant: an entry is cancelled without being marked.
CancelUnmarked(t, id) ==
    /\ queue' = IF id \in pending THEN queue \ {id} ELSE queue
    /\ pending' = pending \ {id}
    /\ UNCHANGED invalid

\* markInvalid and cancelTimeout: the order in which the timeout thread sees
\* the mark and the removal makes no difference to it.
Cancel(t, id) ==
    /\ invalid' = invalid \cup {id}
    /\ queue' = IF id \in pending THEN queue \ {id} ELSE queue
    /\ pending' = pending \ {id}

\* State::deactivate: the timeouts one after the other, then the record.
CancelNext(t) ==
    /\ pc[t] = "leave" /\ Record(t).alarms # {}
    /\ LET id == Min(Record(t).alarms) IN
         /\ Cancel(t, id)
         /\ md' = [md EXCEPT ![Run(t)].alarms = @ \ {id}]
    /\ UNCHANGED <<engine, pool, entries, holder, pc, job, calls, ran>>

Leave(t) ==
    /\ pc[t] = "leave" /\ Record(t).alarms = {}
    /\ md' = [md EXCEPT ![Run(t)].active = FALSE]
    /\ Goto(t, "act")
    /\ UNCHANGED <<engine, store, holder, job, calls, ran>>

\* The transition's action, which may dispatch asynchronously.
Act(t) ==
    /\ pc[t] = "act"
    /\ \/ Goto(t, "enter") /\ UNCHANGED <<job, calls>>
       \/ /\ calls < MaxCalls
          /\ \E e \in Sendable : Assign(t, "sent", e)
          /\ calls' = calls + 1
          /\ Goto(t, "send")
    /\ UNCHANGED <<engine, store, md, holder, ran>>

\* State::activate: the record, then each timeout of the state.
EnterState(t) ==
    /\ pc[t] = "enter"
    /\ md' = [md EXCEPT ![Run(t)] =
                 [current |-> job[t].to, active |-> TRUE, alarms |-> {},
                  activation |-> @.activation + 1]]
    /\ Assign(t, "todo", Timeouts(job[t].to))
    /\ Goto(t, "schedule")
    /\ UNCHANGED <<engine, store, holder, calls, ran>>

\* enqueueTimeout up to the entry; the loop of dispatch goes on afterwards.
Schedule(t) ==
    /\ pc[t] = "schedule"
    /\ \/ \E e \in job[t].todo :
             /\ running
             /\ Make(t, job[t].to, e, job[t].param, Record(t).activation)
             /\ Goto(t, "arm")
       \/ /\ job[t].todo = {} \/ ~running
          /\ job' = [job EXCEPT ![t].event = Null, ![t].todo = {}]
          /\ Goto(t, "react")
          /\ UNCHANGED <<entries, pending>>
    /\ UNCHANGED <<engine, queue, pool, invalid, md, holder, calls, ran>>

\* Mutant: the state does not remember its timeout.
ArmOnly(t) ==
    /\ pc[t] = "arm"
    /\ queue' = queue \cup {job[t].made}
    /\ job' = [job EXCEPT ![t].made = 0,
                  ![t].todo = @ \ {entries[job[t].made].event}]
    /\ Goto(t, "schedule")
    /\ UNCHANGED <<engine, pool, pending, entries, invalid, md, holder, calls, ran>>

Arm(t) ==
    /\ pc[t] = "arm"
    /\ queue' = queue \cup {job[t].made}
    /\ md' = [md EXCEPT ![Run(t)].alarms = @ \cup {job[t].made}]
    /\ job' = [job EXCEPT ![t].made = 0,
                  ![t].todo = @ \ {entries[job[t].made].event}]
    /\ Goto(t, "schedule")
    /\ UNCHANGED <<engine, pool, pending, entries, invalid, holder, calls, ran>>

(***************************************************************************)
(* The timeout thread                                                      *)
(***************************************************************************)
TimerLoop ==
    /\ pc[Timer] = "loop"
    /\ Goto(Timer, IF running THEN "take" ELSE "exited")
    /\ UNCHANGED <<engine, store, md, holder, job, calls, ran>>

TimerTake ==
    /\ pc[Timer] = "take"
    /\ \/ /\ queueStopped
          /\ Goto(Timer, "exited") /\ UNCHANGED <<queue, job>>
       \/ /\ ~queueStopped
          /\ \E id \in queue : queue' = queue \ {id} /\ Assign(Timer, "entry", id)
          /\ Goto(Timer, "check")
    /\ UNCHANGED <<engine, pool, pending, entries, invalid, md, holder, calls, ran>>

TimerCheck ==
    /\ pc[Timer] = "check"
    /\ IF job[Timer].entry \in invalid
       THEN Goto(Timer, "loop") /\ Assign(Timer, "entry", 0)
       ELSE Goto(Timer, "execute") /\ UNCHANGED job
    /\ UNCHANGED <<engine, store, md, holder, calls, ran>>

\* isShutdown and execute: a pool shut down in between refuses the task, and
\* the loop ends as well.
TimerExecute ==
    /\ pc[Timer] = "execute"
    /\ Accept(job[Timer].entry)
    /\ Assign(Timer, "entry", 0)
    /\ Goto(Timer, IF poolShut THEN "exited" ELSE "loop")
    /\ UNCHANGED <<engine, queue, pending, entries, invalid, md, holder, calls, ran>>

(***************************************************************************)
(* The worker: EventQueueEntry::run of the first entry in the pool         *)
(***************************************************************************)
\* Mutant: the worker exits at shutdown, whatever is left in the pool.
WorkerTakeUnlessShut ==
    /\ pc[Worker] = "take"
    /\ \/ /\ pool # <<>> /\ ~poolShut
          /\ pool' = Tail(pool)
          /\ Assign(Worker, "entry", Head(pool))
          /\ Goto(Worker, "valid")
       \/ /\ poolShut
          /\ Goto(Worker, "exited") /\ UNCHANGED <<pool, job>>
    /\ UNCHANGED <<engine, queue, pending, entries, invalid, md, holder, calls, ran>>

WorkerTake ==
    /\ pc[Worker] = "take"
    /\ \/ /\ pool # <<>>
          /\ pool' = Tail(pool)
          /\ Assign(Worker, "entry", Head(pool))
          /\ Goto(Worker, "valid")
       \/ /\ pool = <<>> /\ poolShut
          /\ Goto(Worker, "exited") /\ UNCHANGED <<pool, job>>
    /\ UNCHANGED <<engine, queue, pending, entries, invalid, md, holder, calls, ran>>

\* run() returns without a dispatch.
Skip ==
    /\ ran' = ran \cup {job[Worker].entry}
    /\ Assign(Worker, "entry", 0)
    /\ Goto(Worker, "take")

WorkerValid ==
    /\ pc[Worker] = "valid"
    /\ IF job[Worker].entry \in invalid
       THEN Skip
       ELSE Goto(Worker, "bound") /\ UNCHANGED <<job, ran>>
    /\ UNCHANGED <<engine, store, md, holder, calls>>

StateActive(m, s) == /\ md[m].current # Null
                     /\ s # Root => md[m].current = s /\ md[m].active

\* isActive reads the map without the mutex: while another thread takes a
\* record out or puts one in, the search may find it or miss it.
MapChanging(m) == holder[m] # Null /\ pc[holder[m]] \in {"leave", "enter"}
WorkerBound ==
    /\ pc[Worker] = "bound"
    /\ LET e == entries[job[Worker].entry]
           raced == MapChanging(e.run)
       IN \/ /\ StateActive(e.run, e.state) \/ raced
             /\ job' = [job EXCEPT ![Worker].run = e.run,
                            ![Worker].event = e.event, ![Worker].param = e.param]
             /\ Goto(Worker, "lock") /\ UNCHANGED ran
          \/ /\ ~StateActive(e.run, e.state) \/ raced
             /\ Skip
    /\ UNCHANGED <<engine, store, md, holder, calls>>

(***************************************************************************)
(* Calls of the user.  A Metadata is started while nothing uses it: its    *)
(* reset and first activations are not under its mutex.                    *)
(***************************************************************************)
Unused(m) ==
    /\ holder[m] = Null
    /\ \A t \in Threads : Run(t) # m
    /\ \A id \in ToSet(pool) \cup {job[t].entry : t \in Threads} :
          id # 0 => entries[id].run # m

Started(m) == [current |-> StartState, active |-> TRUE, alarms |-> {},
               activation |-> md[m].activation + 1]

Called(c, m, e, p, next) ==
    /\ pc[c] = "idle" /\ calls < MaxCalls
    /\ calls' = calls + 1
    /\ job' = [job EXCEPT ![c] = [NoJob EXCEPT !.run = m, !.event = e,
                                     !.param = p, !.sent = e]]
    /\ Goto(c, next)
    /\ UNCHANGED <<engine, store, holder, ran>>

\* startAsynchron and start: the Metadata is reset, the start state activated.
StartRun(c, m) ==
    /\ Unused(m)
    /\ md[m].current # Null => Restart
    /\ md' = [md EXCEPT ![m] = Started(m)]
    /\ \/ Called(c, m, Null, User, "send")
       \/ /\ "start" \in Direct
          /\ \E p \in Lent : Called(c, m, Null, p, "lock")

\* dispatchAsynchron and dispatch.
DispatchRun(c, m, e) ==
    /\ md[m].current # Null
    /\ UNCHANGED md
    /\ \/ Called(c, m, e, User, "send")
       \/ /\ "dispatch" \in Direct
          /\ \E p \in Lent : Called(c, m, e, p, "lock")

(***************************************************************************)
(* shutdown: a second call returns at once.                                *)
(***************************************************************************)
Shutdown(c) ==
    /\ pc[c] = "idle" /\ running
    /\ running' = FALSE
    /\ Goto(c, "clear")
    /\ UNCHANGED <<queueStopped, poolShut, released, store, md, holder, job, calls, ran>>

QueueClear(c) ==
    /\ pc[c] = "clear"
    /\ queue' = {}
    /\ Goto(c, "stop")
    /\ UNCHANGED <<engine, pool, pending, entries, invalid, md, holder, job, calls, ran>>

\* Mutant: the delay queue is not stopped.
QueueStopForgotten(c) ==
    /\ pc[c] = "stop"
    /\ Goto(c, "poolDown")
    /\ UNCHANGED <<engine, store, md, holder, job, calls, ran>>

QueueStop(c) ==
    /\ pc[c] = "stop"
    /\ queueStopped' = TRUE
    /\ Goto(c, "poolDown")
    /\ UNCHANGED <<running, poolShut, released, store, md, holder, job, calls, ran>>

PoolDown(c) ==
    /\ pc[c] = "poolDown"
    /\ poolShut' = TRUE
    /\ Goto(c, "joinTimer")
    /\ UNCHANGED <<running, queueStopped, released, store, md, holder, job, calls, ran>>

JoinTimer(c) ==
    /\ pc[c] = "joinTimer" /\ pc[Timer] = "exited"
    /\ Goto(c, "joinWorker")
    /\ UNCHANGED <<engine, store, md, holder, job, calls, ran>>

\* Mutant: the entries are cleared while the worker may still run one.
JoinNobody(c) ==
    /\ pc[c] = "joinWorker"
    /\ Goto(c, "release")
    /\ UNCHANGED <<engine, store, md, holder, job, calls, ran>>

\* awaitTermination
JoinWorker(c) ==
    /\ pc[c] = "joinWorker" /\ pc[Worker] = "exited"
    /\ Goto(c, "release")
    /\ UNCHANGED <<engine, store, md, holder, job, calls, ran>>

Release(c) ==
    /\ pc[c] = "release"
    /\ pending' = {} /\ released' = TRUE
    /\ Goto(c, "idle")
    /\ UNCHANGED <<running, queueStopped, poolShut, queue, pool, entries,
                   invalid, md, holder, job, calls, ran>>

ShutdownStep(c) == QueueClear(c) \/ QueueStop(c) \/ PoolDown(c) \/ JoinTimer(c)
                   \/ JoinWorker(c) \/ Release(c)
CallStep(t) == SendCheck(t) \/ SendPush(t) \/ SendSubmit(t) \/ Lock(t)
               \/ React(t) \/ CancelNext(t) \/ Leave(t) \/ Act(t)
               \/ EnterState(t) \/ Schedule(t) \/ Arm(t)
TimerStep == TimerLoop \/ TimerTake \/ TimerCheck \/ TimerExecute
WorkerStep == WorkerTake \/ WorkerValid \/ WorkerBound \/ CallStep(Worker)

Next ==
    \/ \E c \in Owners : Shutdown(c) \/ ShutdownStep(c)
    \/ \E c \in Clients :
          \/ CallStep(c)
          \/ \E m \in Runs : \/ StartRun(c, m)
                             \/ \E e \in Sendable : DispatchRun(c, m, e)
    \/ TimerStep \/ WorkerStep

Init ==
    /\ running = TRUE /\ queueStopped = FALSE /\ poolShut = FALSE
    /\ released = FALSE
    /\ queue = {} /\ pool = <<>> /\ pending = {} /\ entries = <<>>
    /\ invalid = {} /\ ran = {} /\ calls = 0
    /\ md = [m \in Runs |-> [current |-> Null, active |-> FALSE,
                             alarms |-> {}, activation |-> 0]]
    /\ holder = [m \in Runs |-> Null]
    /\ pc = [t \in Threads |-> CASE t = Worker -> "take" [] t = Timer -> "loop"
                                 [] OTHER -> "idle"]
    /\ job = [t \in Threads |-> NoJob]

Spec == Init /\ [][Next]_vars

\* Every thread that is not blocked goes on; users need not call.
FairSpec ==
    /\ Spec
    /\ WF_vars(TimerStep) /\ WF_vars(WorkerStep)
    /\ \A c \in Clients : WF_vars(CallStep(c))
    /\ \A c \in Owners : WF_vars(ShutdownStep(c))

(***************************************************************************)
(* Properties                                                              *)
(***************************************************************************)
Bound(id) == entries[id].state # Root
InHand == {job[t].entry : t \in {Worker, Timer}} \ {0}

\* TimeoutEvent.hpp:33: a timeout fires relative to the activation of its
\* source state: what it makes fire is a transition of the activation that
\* scheduled it, not of a later one, and never after it was cancelled.
TimeoutOfThisActivation ==
    LET id == job[Worker].entry IN
    (pc[Worker] = "react" /\ job[Worker].event \in Timed
        /\ Bound(id) /\ Fires(Worker) # {}) =>
            /\ entries[id].activation = Record(Worker).activation
            /\ id \notin invalid

\* getting-started.md:90: activating a state schedules its timeouts: until it
\* is left or shutdown begins, each is in the queue or on its way to the worker.
NoTimeoutLost ==
    \A m \in Runs : (holder[m] = Null /\ running) =>
        \A e \in Timeouts(md[m].current) : \E id \in md[m].alarms :
            /\ entries[id].event = e /\ id \notin invalid
            /\ entries[id].activation = md[m].activation
            /\ id \in queue \cup ToSet(pool) \cup InHand

\* EventQueueEntry.hpp:57: the Parameter an entry hands to the user's guards
\* and actions exists while they run.
Retained == pending \cup queue \cup ToSet(pool) \cup InHand
ParameterAlive ==
    \A t \in Threads : pc[t] \in Dispatching =>
        LET p == job[t].param IN
        p = User \/ p \in Retained \/ (p = Local /\ t \in Clients)

\* Statechart.hpp:209: the pointers in timeoutEvents, which deactivate follows,
\* name entries that exist.
AlarmsAlive ==
    \A t \in Threads : pc[t] = "leave" => Record(t).alarms \subseteq Retained

\* Statechart.hpp:202: when shutdown() has returned nothing runs and nothing
\* accepted by the pool is left.
QuietAfterShutdown ==
    released => /\ pc[Worker] = "exited" /\ pc[Timer] = "exited"
                /\ pool = <<>> /\ \A m \in Runs : holder[m] # Worker

\* Every event the pool has accepted is handled, also while shutting down:
\* the worker catches up with what it was given.
Accepted == (ToSet(pool) \cup {job[Worker].entry}) \ {0}
AcceptedIsHandled == (Accepted # {}) ~> (Accepted = {})

\* Every timeout a state has scheduled fires, is cancelled, or meets the
\* shutdown.
Unsettled == {id \in Ids : Bound(id) /\ id \notin ran \cup invalid}
TimeoutsSettle == (Unsettled # {}) ~> (Unsettled = {} \/ ~running)

\* shutdown() returns, whatever the other threads are doing.
ShutdownReturns ==
    \A c \in Owners : (pc[c] \in Stopping) ~> (pc[c] = "idle")
=============================================================================
