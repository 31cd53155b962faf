------------------------ MODULE AsyncTimeouts_proofs ------------------------
(***************************************************************************)
(* Proofs about the entries of AsyncEngine: that Parameters and the        *)
(* pointers to timeouts stay alive, that a timeout fires in the activation *)
(* that scheduled it, and that none is lost.  Each stands on the invariant *)
(* of AsyncEngine_proofs and on one of its own, Held, ParamsOK, Alone,     *)
(* Activations, WorkerOK, RunningOK, Where and Scheduled.                  *)
(***************************************************************************)
EXTENDS AsyncEngine_proofs

\* Entries exist until shutdown releases them, but for timeouts: those exist
\* while a state remembers them or a thread is about to arm them.
Held ==
    /\ \A id \in Ids : Bound(id) \/ released \/ id \in pending
    /\ \A m \in Runs : \A id \in md[m].alarms :
          /\ Bound(id) /\ entries[id].run = m /\ id \notin invalid
          /\ released \/ id \in pending
    /\ \A u \in Threads : pc[u] = "arm" =>
          /\ Bound(job[u].made) /\ entries[job[u].made].run = Run(u)
          /\ job[u].made \notin invalid
          /\ released \/ job[u].made \in pending

\* If the user keeps what it passes to synchronous calls, a Parameter is the
\* user's or one that an entry of dispatchAsynchron shares.
Kept(p) == p = User \/ (p \in Ids /\ ~Bound(p))
ParamsOK ==
    /\ \A id \in Ids : Kept(entries[id].param)
    /\ \A u \in Threads : Kept(job[u].param)
    /\ \A u \in Clients : job[u].param = User

\* Without synchronous calls clients never work on a Metadata.
Alone ==
    /\ \A c \in Clients : pc[c] \notin {"lock"} \cup Dispatching
    /\ \A m \in Runs : holder[m] \notin Clients

\* A timeout that is not cancelled belongs to the activation its Metadata is in.
Valid(id) == Bound(id) /\ id \notin invalid
Arming(id) == \E u \in Threads : pc[u] = "arm" /\ job[u].made = id
ValidOK ==
    \A id \in Ids : Valid(id) =>
        LET r == md[entries[id].run] IN
        /\ entries[id].activation = r.activation
        /\ entries[id].state = r.current /\ r.active
        /\ id \in r.alarms \/ Arming(id)
        /\ entries[id].event \in Timeouts(entries[id].state)

\* Between leaving a state and entering the next no timeout is remembered; after
\* it the timeouts still to schedule are those of the state entered.
TransitionOf(u) ==
    /\ pc[u] \in {"act", "enter"} => Record(u).alarms = {}
    /\ pc[u] \in Sending /\ InAction(u) => Record(u).alarms = {}
    /\ pc[u] \in {"schedule", "arm"} =>
          /\ Record(u).current = job[u].to /\ Record(u).active
          /\ job[u].todo \subseteq Timeouts(job[u].to)
TransitionOK == \A u \in Threads : TransitionOf(u)
Activations == ValidOK /\ TransitionOK

\* What the worker runs: an entry bound to a state is either valid, and its
\* event about to make a transition fire, or cancelled by that transition.
WorkerOK ==
    LET j == job[Worker] IN
    /\ pc[Worker] = "take" => j.entry = 0
    /\ pc[Worker] = "bound" => j.entry \notin invalid
    /\ pc[Worker] \in Calling => j.run = entries[j.entry].run
    /\ pc[Worker] \in Calling /\ Bound(j.entry) =>
          /\ pc[Worker] = "lock" => j.event # Null
          /\ pc[Worker] \in {"lock", "react"} /\ j.event # Null =>
                j.entry \notin invalid /\ j.event = entries[j.entry].event
          /\ pc[Worker] = "react" /\ j.event = Null => j.entry \in invalid
          /\ pc[Worker] \notin {"lock", "react", "leave"} => j.entry \in invalid

\* Nothing is stopped before shutdown begins.
RunningOK ==
    running => /\ ~poolShut /\ ~queueStopped
               /\ \A c \in Owners : pc[c] \notin Stopping
               /\ pc[Timer] \in {"loop", "take"} => job[Timer].entry = 0

\* Until then a valid timeout is on its way.
Where ==
    running => \A id \in Ids : Valid(id) =>
                  id \in queue \cup ToSet(pool) \cup InHand \/ Arming(id)

\* Thread u is between two states, or has yet to schedule e.
Busy(u, e) == \/ pc[u] \in {"leave", "act", "enter"} \cup Sending
              \/ pc[u] \in {"schedule", "arm"} /\ e \in job[u].todo
Remembered(m, e) == \E id \in md[m].alarms : entries[id].event = e

\* Until then every timeout of the current state is remembered or about to be.
Scheduled ==
    running => \A m \in Runs : \A e \in Timeouts(md[m].current) :
        Remembered(m, e) \/ \E u \in Threads : holder[m] = u /\ Busy(u, e)

(***************************************************************************)
(* What each step changes, thread by thread                                *)
(***************************************************************************)
\* The threads other than t stand still.
Others(t) == \A u \in Threads \ {t} : pc'[u] = pc[u] /\ job'[u] = job[u]

\* t goes from v to w; its call stays what it is.
Step(t, v, w) == pc[t] = v /\ pc'[t] = w /\ Others(t)
SameCall(t) == /\ job'[t].run = job[t].run /\ job'[t].event = job[t].event
               /\ job'[t].param = job[t].param /\ job'[t].to = job[t].to
               /\ job'[t].todo = job[t].todo /\ job'[t].entry = job[t].entry

\* Nobody's record changes but that of t's Metadata, whose alarms become a.
Alarms(t, a) ==
    /\ \A m \in Runs \ {Run(t)} : md'[m] = md[m]
    /\ md'[Run(t)].current = Record(t).current
    /\ md'[Run(t)].active = Record(t).active
    /\ md'[Run(t)].activation = Record(t).activation
    /\ md'[Run(t)].alarms = a

\* The call of dispatchAsynchron of t is over.
Returned(t) ==
    /\ Others(t)
    /\ \/ InAction(t) /\ pc'[t] = "enter" /\ SameCall(t)
       \/ ~InAction(t) /\ pc'[t] = "idle" /\ job'[t] = NoJob

LEMMA SendReturnsEffect ==
    ASSUME Inv, NEW t \in Threads, SendReturns(t) PROVE Returned(t)
<1>1. ThreadType
  BY DEF Inv
<1> QED BY <1>1 DEF SendReturns, Returned, ThreadType, Goto, Others, SameCall, Job

LEMMA SendCheckEffect ==
    ASSUME Inv, NEW t \in Threads, SendCheck(t)
    PROVE  /\ pc[t] = "send" /\ UNCHANGED <<engine, store, md, holder, calls, ran>>
           /\ \/ Step(t, "send", "push") /\ UNCHANGED job
              \/ poolShut /\ Returned(t)
<1>1. ThreadType
  BY DEF Inv
<1>2. poolShut \in BOOLEAN
  BY DEF Inv, EngineType, engine
<1> QED BY <1>1, <1>2, SendReturnsEffect DEF SendCheck, ThreadType, Goto, Others, Step

\* The entry t makes is e.
Made(t, e) == /\ entries' = Append(entries, e)
              /\ pending' = pending \cup {Len(entries) + 1}
              /\ job'[t].made = Len(entries) + 1 /\ SameCall(t)
              /\ UNCHANGED <<queue, pool, invalid>>

LEMMA SendPushEffect ==
    ASSUME Inv, NEW t \in Threads, SendPush(t)
    PROVE  /\ Step(t, "push", "submit")
           /\ UNCHANGED <<engine, md, holder, calls, ran>>
           /\ \E e : /\ e.state = Root /\ e.param = Len(entries) + 1
                     /\ Made(t, e)
<1>1. ThreadType
  BY DEF Inv
<1> DEFINE e == [state |-> Root, run |-> Run(t), event |-> job[t].sent,
                 param |-> Len(entries) + 1, activation |-> 0]
<1>2. e.state = Root /\ e.param = Len(entries) + 1
  OBVIOUS
<1>3. Made(t, e)
  BY <1>1 DEF SendPush, Make, Made, SameCall, Assign, ThreadType, Job
<1>4. Step(t, "push", "submit")
  BY <1>1 DEF SendPush, Make, Step, Others, Goto, Assign, ThreadType
<1>5. UNCHANGED <<engine, md, holder, calls, ran>>
  BY DEF SendPush
<1> HIDE DEF e
<1> QED BY <1>2, <1>3, <1>4, <1>5

LEMMA SendSubmitEffect ==
    ASSUME Inv, NEW t \in Threads, SendSubmit(t)
    PROVE  /\ pc[t] = "submit" /\ Returned(t)
           /\ UNCHANGED <<engine, pending, entries, invalid, md, holder, calls, ran>>
           /\ queue \subseteq queue'
           /\ \/ pool' = pool
              \/ pool' = Append(pool, job[t].made)
BY SendReturnsEffect DEF SendSubmit, Accept

LEMMA LockEffect ==
    ASSUME Inv, NEW t \in Threads, Lock(t)
    PROVE  /\ Step(t, "lock", "react") /\ holder[Run(t)] = Null
           /\ holder' = [holder EXCEPT ![Run(t)] = t]
           /\ UNCHANGED <<engine, store, md, job, calls, ran>>
BY DEF Inv, Lock, ThreadType, Goto, Step, Others

LEMMA ReactEffect ==
    ASSUME Inv, NEW t \in Threads, React(t)
    PROVE  /\ pc[t] = "react" /\ Others(t)
           /\ UNCHANGED <<engine, store, md, calls>>
           /\ \/ /\ pc'[t] = "leave" /\ UNCHANGED <<holder, ran>>
                 /\ job'[t].run = job[t].run /\ job'[t].event = job[t].event
                 /\ job'[t].param = job[t].param /\ job'[t].entry = job[t].entry
              \/ /\ pc' = pc /\ UNCHANGED <<holder, ran>>
                 /\ Fires(t) = {} /\ job[t].event # Null
                 /\ job'[t].run = job[t].run /\ job'[t].event = Null
                 /\ job'[t].param = job[t].param /\ job'[t].entry = job[t].entry
              \/ /\ Fires(t) = {} /\ job[t].event = Null
                 /\ pc'[t] = (IF t = Worker THEN "take" ELSE "idle")
                 /\ job'[t] = NoJob
                 /\ holder' = [holder EXCEPT ![Run(t)] = Null]
<1>1. ThreadType
  BY DEF Inv
<1>2. UNCHANGED <<engine, store, md, calls>> /\ pc[t] = "react"
  BY DEF React, Finish, store
<1>3. ASSUME NEW mv \in Fires(t), Assign(t, "to", mv.to), Goto(t, "leave")
      PROVE  /\ pc'[t] = "leave" /\ Others(t)
             /\ job'[t].run = job[t].run /\ job'[t].event = job[t].event
             /\ job'[t].param = job[t].param /\ job'[t].entry = job[t].entry
  BY <1>1, <1>3 DEF Assign, Goto, ThreadType, Job, Others
<1>4. ASSUME Assign(t, "event", Null), UNCHANGED pc
      PROVE  /\ Others(t)
             /\ job'[t].run = job[t].run /\ job'[t].event = Null
             /\ job'[t].param = job[t].param /\ job'[t].entry = job[t].entry
  BY <1>1, <1>4 DEF Assign, Goto, ThreadType, Job, Others
<1>5. ASSUME Finish(t)
      PROVE  /\ pc'[t] = (IF t = Worker THEN "take" ELSE "idle")
             /\ job'[t] = NoJob /\ Others(t)
             /\ holder' = [holder EXCEPT ![Run(t)] = Null]
  BY <1>1, <1>5 DEF Finish, Goto, ThreadType, Others
<1> QED BY <1>2, <1>3, <1>4, <1>5 DEF React

LEMMA CancelNextEffect ==
    ASSUME Inv, NEW t \in Threads, CancelNext(t)
    PROVE  /\ pc[t] = "leave"
           /\ UNCHANGED <<engine, pool, entries, holder, pc, job, calls, ran>>
           /\ \E id \in Record(t).alarms :
                 /\ id \in Ids /\ invalid' = invalid \cup {id}
                 /\ queue \ {id} \subseteq queue' /\ queue' \subseteq queue
                 /\ pending' = pending \ {id}
                 /\ Alarms(t, Record(t).alarms \ {id})
<1>1. MdType /\ Fits(t, pc[t], job[t])
  BY DEF Inv, ThreadsOK
<1>2. Run(t) \in Runs
  BY <1>1 DEF CancelNext, Fits, Run, Calling, Dispatching
<1>3. Record(t).alarms \in SUBSET Ids /\ Ids \in SUBSET Nat
  BY <1>1, <1>2 DEF MdType, MdRecord, Record, Ids
<1>4. Record(t).alarms # {}
  BY DEF CancelNext
<1> DEFINE id == Min(Record(t).alarms)
<1>5. id \in Record(t).alarms
  BY <1>3, <1>4, LeastAlarm
<1>6. /\ pc[t] = "leave"
      /\ UNCHANGED <<engine, pool, entries, holder, pc, job, calls, ran>>
      /\ invalid' = invalid \cup {id}
      /\ queue \ {id} \subseteq queue' /\ queue' \subseteq queue
      /\ pending' = pending \ {id}
  BY DEF CancelNext, Cancel
<1>7. Alarms(t, Record(t).alarms \ {id})
  <2> DEFINE r == [md[Run(t)] EXCEPT !.alarms = md[Run(t)].alarms \ {id}]
  <2>1. md' = [md EXCEPT ![Run(t)] = r]
    BY DEF CancelNext, Record
  <2>2. md \in [Runs -> MdRecord]
    BY <1>1 DEF MdType
  <2> QED BY <1>2, <2>1, <2>2 DEF Alarms, Record, MdRecord
<1> HIDE DEF id
<1> QED BY <1>3, <1>5, <1>6, <1>7

LEMMA LeaveEffect ==
    ASSUME Inv, NEW t \in Threads, Leave(t)
    PROVE  /\ Step(t, "leave", "act") /\ Record(t).alarms = {} /\ md'[Run(t)].alarms = {}
           /\ \A m \in Runs \ {Run(t)} : md'[m] = md[m]
           /\ md'[Run(t)].current = Record(t).current
           /\ UNCHANGED <<engine, store, holder, job, calls, ran>>
<1>1. Fits(t, pc[t], job[t]) /\ md \in [Runs -> MdRecord] /\ ThreadType
  BY DEF Inv, ThreadsOK, MdType
<1>2. Step(t, "leave", "act")
  BY <1>1 DEF Leave, ThreadType, Goto, Step, Others
<1> DEFINE r == [md[Run(t)] EXCEPT !.active = FALSE]
<1>3. md' = [md EXCEPT ![Run(t)] = r]
  BY DEF Leave
<1>4. Run(t) \in Runs
  BY <1>1, <1>2 DEF Step, Fits, Run, Calling, Dispatching
<1> QED BY <1>1, <1>2, <1>3, <1>4 DEF Leave, Record, MdRecord

LEMMA ActEffect ==
    ASSUME Inv, NEW t \in Threads, Act(t)
    PROVE  /\ Others(t) /\ SameCall(t) /\ pc[t] = "act" /\ pc'[t] \in {"enter", "send"}
           /\ UNCHANGED <<engine, store, md, holder, ran>>
<1>1. ThreadType
  BY DEF Inv
<1>2. CASE Goto(t, "enter") /\ UNCHANGED job
  BY <1>1, <1>2 DEF Act, ThreadType, Goto, Others, SameCall
<1>3. ASSUME NEW e \in Sendable, Assign(t, "sent", e), Goto(t, "send")
      PROVE  Others(t) /\ SameCall(t) /\ pc'[t] = "send"
  BY <1>1, <1>3 DEF Assign, ThreadType, Job, Goto, Others, SameCall
<1> QED BY <1>2, <1>3 DEF Act

LEMMA EnterStateEffect ==
    ASSUME Inv, NEW t \in Threads, EnterState(t)
    PROVE  /\ Step(t, "enter", "schedule")
           /\ job'[t] = [job[t] EXCEPT !.todo = Timeouts(job[t].to)]
           /\ md'[Run(t)].current = job[t].to /\ md'[Run(t)].active
           /\ md'[Run(t)].alarms = {} /\ \A m \in Runs \ {Run(t)} : md'[m] = md[m]
           /\ UNCHANGED <<engine, store, holder, calls, ran>>
<1>1. Fits(t, pc[t], job[t]) /\ md \in [Runs -> MdRecord] /\ ThreadType
  BY DEF Inv, ThreadsOK, MdType
<1>2. /\ Step(t, "enter", "schedule")
      /\ job'[t] = [job[t] EXCEPT !.todo = Timeouts(job[t].to)]
  BY <1>1 DEF EnterState, ThreadType, Goto, Assign, Step, Others
<1>3. Run(t) \in Runs
  BY <1>1, <1>2 DEF Step, Fits, Run, Calling, Dispatching
<1> QED BY <1>1, <1>2, <1>3 DEF EnterState

LEMMA ScheduleEffect ==
    ASSUME Inv, NEW t \in Threads, Schedule(t)
    PROVE  /\ pc[t] = "schedule" /\ Others(t)
           /\ UNCHANGED <<engine, queue, pool, invalid, md, holder, calls, ran>>
           /\ \/ /\ running /\ pc'[t] = "arm"
                 /\ \E e \in job[t].todo :
                       Made(t, [state |-> job[t].to, run |-> Run(t), event |-> e,
                                param |-> job[t].param,
                                activation |-> Record(t).activation])
              \/ /\ job[t].todo = {} \/ ~running
                 /\ pc'[t] = "react" /\ UNCHANGED <<entries, pending>>
                 /\ job'[t] = [job[t] EXCEPT !.event = Null, !.todo = {}]
<1>1. ThreadType
  BY DEF Inv
<1>2. ASSUME NEW e \in job[t].todo, NEW x,
             /\ entries' = Append(entries, x)
             /\ pending' = pending \cup {Len(entries) + 1}
             /\ Assign(t, "made", Len(entries) + 1),
             Goto(t, "arm")
      PROVE  Others(t) /\ pc'[t] = "arm" /\ Made(t, x)
  BY <1>1, <1>2 DEF Schedule, Assign, Made, SameCall, Goto, ThreadType, Job, Others
<1>3. ASSUME job' = [job EXCEPT ![t].event = Null, ![t].todo = {}], Goto(t, "react")
      PROVE  /\ Others(t) /\ pc'[t] = "react"
             /\ job'[t] = [job[t] EXCEPT !.event = Null, !.todo = {}]
  BY <1>1, <1>3 DEF Goto, ThreadType, Others
<1> QED BY <1>2, <1>3 DEF Schedule, Make

LEMMA ArmEffect ==
    ASSUME Inv, NEW t \in Threads, Arm(t)
    PROVE  /\ Step(t, "arm", "schedule")
           /\ queue' = queue \cup {job[t].made}
           /\ job'[t] = [job[t] EXCEPT !.made = 0,
                            !.todo = @ \ {entries[job[t].made].event}]
           /\ Alarms(t, Record(t).alarms \cup {job[t].made})
           /\ UNCHANGED <<engine, pool, pending, entries, invalid, holder, calls, ran>>
<1>1. ThreadType
  BY DEF Inv
<1>2. job'[t] = [job[t] EXCEPT !.made = 0, !.todo = @ \ {entries[job[t].made].event}]
  BY <1>1 DEF Arm, ThreadType
<1>3. Step(t, "arm", "schedule")
  BY <1>1 DEF Arm, ThreadType, Goto, Step, Others
<1>4. Alarms(t, Record(t).alarms \cup {job[t].made})
  <2> DEFINE r == [md[Run(t)] EXCEPT !.alarms = md[Run(t)].alarms \cup {job[t].made}]
  <2>1. md' = [md EXCEPT ![Run(t)] = r]
    BY DEF Arm, Record
  <2>2. md \in [Runs -> MdRecord] /\ Run(t) \in Runs
    <3>1. Fits(t, pc[t], job[t]) /\ pc[t] = "arm"
      BY DEF Inv, ThreadsOK, Arm
    <3> QED BY <3>1 DEF Inv, MdType, Fits, Run, Calling, Dispatching
  <2> QED BY <2>1, <2>2 DEF Alarms, Record, MdRecord
<1> QED BY <1>2, <1>3, <1>4 DEF Arm

LEMMA TimerEffect ==
    ASSUME Inv, TimerStep
    PROVE  /\ Others(Timer) /\ pc'[Timer] \in {"loop", "take", "check", "execute", "exited"}
           /\ UNCHANGED <<engine, pending, entries, invalid, md, holder, calls, ran>>
           /\ job'[Timer].run = Run(Timer) /\ job'[Timer].param = job[Timer].param
           /\ \/ /\ pc[Timer] = "loop" /\ pc'[Timer] = IF running THEN "take" ELSE "exited"
                 /\ UNCHANGED <<queue, pool, job>>
              \/ /\ pc[Timer] = "take" /\ pc'[Timer] = "exited" /\ queueStopped
                 /\ UNCHANGED <<queue, pool, job>>
              \/ /\ pc[Timer] = "take" /\ pc'[Timer] = "check" /\ UNCHANGED pool
                 /\ job'[Timer].entry \in queue /\ queue' = queue \ {job'[Timer].entry}
              \/ /\ pc[Timer] = "check" /\ pc'[Timer] = "execute"
                 /\ UNCHANGED <<queue, pool, job>>
              \/ /\ pc[Timer] = "check" /\ pc'[Timer] = "loop"
                 /\ job[Timer].entry \in invalid /\ job'[Timer].entry = 0
                 /\ UNCHANGED <<queue, pool>>
              \/ /\ pc[Timer] = "execute" /\ job'[Timer].entry = 0 /\ UNCHANGED queue
                 /\ Accept(job[Timer].entry)
<1>1. ThreadType /\ Timer \in Threads
  BY ThreadFacts DEF Inv
<1>2. CASE TimerLoop
  BY <1>1, <1>2 DEF TimerLoop, ThreadType, Goto, Others, store, Run
<1>3. CASE TimerTake
  <2>1. CASE Goto(Timer, "exited") /\ UNCHANGED <<queue, job>> /\ queueStopped
    BY <1>1, <1>3, <2>1 DEF TimerTake, ThreadType, Goto, Others, Run
  <2>2. ASSUME NEW id \in queue, queue' = queue \ {id}, Assign(Timer, "entry", id),
               Goto(Timer, "check")
        PROVE  /\ Others(Timer) /\ pc'[Timer] = "check"
               /\ job'[Timer].entry = id
               /\ job'[Timer].run = Run(Timer) /\ job'[Timer].param = job[Timer].param
    BY <1>1, <2>2 DEF ThreadType, Job, Goto, Assign, Others, Run
  <2> QED BY <1>3, <2>1, <2>2 DEF TimerTake
<1>4. CASE TimerCheck
  BY <1>1, <1>4 DEF TimerCheck, ThreadType, Job, Goto, Assign, Others, store, Run
<1>5. CASE TimerExecute
  BY <1>1, <1>5 DEF TimerExecute, ThreadType, Job, Goto, Assign, Others, Run
<1> QED BY <1>2, <1>3, <1>4, <1>5 DEF TimerStep

LEMMA SkipEffect ==
    ASSUME Inv, Skip
    PROVE  /\ Others(Worker) /\ pc'[Worker] = "take" /\ job'[Worker].entry = 0
           /\ job'[Worker].run = Run(Worker) /\ job'[Worker].param = job[Worker].param
BY ThreadFacts DEF Inv, Skip, ThreadType, Job, Goto, Assign, Others, Run

LEMMA WorkerTakeEffect ==
    ASSUME Inv, WorkerTake
    PROVE  /\ Others(Worker) /\ pc[Worker] = "take"
           /\ UNCHANGED <<engine, queue, pending, entries, invalid, md, holder, calls, ran>>
           /\ job'[Worker].run = Run(Worker) /\ job'[Worker].param = job[Worker].param
           /\ \/ /\ pc'[Worker] = "valid" /\ pool # <<>> /\ pool' = Tail(pool)
                 /\ job'[Worker].entry = Head(pool)
              \/ /\ pc'[Worker] = "exited" /\ poolShut
                 /\ UNCHANGED <<pool, job>>
BY ThreadFacts DEF Inv, WorkerTake, ThreadType, Job, Goto, Assign, Others, Run

LEMMA WorkerValidEffect ==
    ASSUME Inv, WorkerValid
    PROVE  /\ Others(Worker) /\ pc[Worker] = "valid"
           /\ UNCHANGED <<engine, store, md, holder, calls>>
           /\ job'[Worker].run = Run(Worker) /\ job'[Worker].param = job[Worker].param
           /\ \/ /\ job[Worker].entry \in invalid
                 /\ pc'[Worker] = "take" /\ job'[Worker].entry = 0
              \/ /\ job[Worker].entry \notin invalid
                 /\ pc'[Worker] = "bound" /\ UNCHANGED job
<1>1. CASE job[Worker].entry \notin invalid
  BY <1>1, ThreadFacts DEF Inv, WorkerValid, ThreadType, Goto, Others, Run
<1>2. CASE job[Worker].entry \in invalid
  BY <1>2, SkipEffect DEF WorkerValid
<1> QED BY <1>1, <1>2 DEF WorkerValid

LEMMA WorkerBoundEffect ==
    ASSUME Inv, WorkerBound
    PROVE  /\ Others(Worker) /\ pc[Worker] = "bound" /\ job[Worker].entry \in Ids
           /\ UNCHANGED <<engine, store, md, holder, calls>>
           /\ LET e == entries[job[Worker].entry] IN
              \/ /\ pc'[Worker] = "lock" /\ job'[Worker].entry = job[Worker].entry
                 /\ job'[Worker].run = e.run /\ job'[Worker].event = e.event
                 /\ job'[Worker].param = e.param
              \/ /\ ~StateActive(e.run, e.state) \/ MapChanging(e.run)
                 /\ pc'[Worker] = "take" /\ job'[Worker].entry = 0
                 /\ job'[Worker].run = Run(Worker) /\ job'[Worker].param = job[Worker].param
<1>1. ThreadType /\ Worker \in Threads /\ Fits(Worker, pc[Worker], job[Worker])
  BY ThreadFacts DEF Inv, ThreadsOK
<1>2. job[Worker].entry \in Ids /\ pc[Worker] = "bound"
  BY <1>1 DEF WorkerBound, Fits
<1>3. ASSUME NEW e,
             job' = [job EXCEPT ![Worker].run = e.run, ![Worker].event = e.event,
                                ![Worker].param = e.param],
             Goto(Worker, "lock")
      PROVE  /\ pc'[Worker] = "lock" /\ job'[Worker].entry = job[Worker].entry
             /\ job'[Worker].run = e.run /\ job'[Worker].event = e.event
             /\ job'[Worker].param = e.param /\ Others(Worker)
  BY <1>1, <1>3 DEF ThreadType, Job, Goto, Others
<1> QED BY <1>2, <1>3, SkipEffect DEF WorkerBound

LEMMA CalledEffect ==
    ASSUME Inv, NEW t \in Threads, NEW m, NEW e, NEW p, NEW w, Called(t, m, e, p, w)
    PROVE  /\ Step(t, "idle", w) /\ UNCHANGED <<engine, store, holder, ran>>
           /\ job'[t].run = m /\ job'[t].param = p
<1>1. ThreadType
  BY DEF Inv
<1>2. Step(t, "idle", w) /\ job'[t] = [NoJob EXCEPT !.run = m, !.event = e, !.param = p, !.sent = e]
  BY <1>1 DEF Called, ThreadType, Goto, Step, Others
<1>3. UNCHANGED <<engine, store, holder, ran>>
  BY DEF Called
<1> QED BY <1>2, <1>3 DEF NoJob

\* What starting a Metadata and dispatching to one have in common.
UserCall(t, m) ==
    /\ UNCHANGED <<engine, store, holder, ran>> /\ job'[t].run = m
    /\ \/ Step(t, "idle", "send") /\ job'[t].param = User
       \/ Step(t, "idle", "lock") /\ job'[t].param \in Lent /\ Direct # {}

LEMMA StartRunEffect ==
    ASSUME Inv, NEW t \in Clients, NEW m \in Runs, StartRun(t, m)
    PROVE  /\ UserCall(t, m) /\ Unused(m) /\ (md[m].current # Null => Restart)
           /\ md'[m].current = StartState /\ md'[m].alarms = {}
           /\ \A r \in Runs \ {m} : md'[r] = md[r]
<1>1. UserCall(t, m)
  BY CalledEffect, ThreadFacts DEF StartRun, UserCall
<1>2. md \in [Runs -> MdRecord] /\ md' = [md EXCEPT ![m] = Started(m)]
  BY DEF Inv, MdType, StartRun
<1>3. Unused(m) /\ (md[m].current # Null => Restart)
  BY DEF StartRun
<1> QED BY <1>1, <1>2, <1>3 DEF Started

LEMMA DispatchRunEffect ==
    ASSUME Inv, NEW t \in Clients, NEW m \in Runs, NEW e \in Sendable, DispatchRun(t, m, e)
    PROVE  UserCall(t, m) /\ UNCHANGED md
BY CalledEffect, ThreadFacts DEF DispatchRun, UserCall

\* A step of shutdown.
OwnerStep(t) == Shutdown(t) \/ ShutdownStep(t)
LEMMA OwnerEffect ==
    ASSUME Inv, NEW t \in Owners, OwnerStep(t)
    PROVE  /\ Others(t) /\ UNCHANGED <<pool, entries, invalid, md, holder, job, calls, ran>>
           /\ pc'[t] \in Stopping \cup {"idle"} /\ queue' \subseteq queue
           /\ running' => pc[t] \in Stopping /\ running
           /\ (pending' = pending /\ released' = released) \/ released'
           /\ released => released'
<1>1. ThreadType /\ EngineType /\ t \in Threads
  BY ThreadFacts DEF Inv
<1>2. \E w \in Stopping \cup {"idle"} : Goto(t, w)
  BY DEF OwnerStep, Shutdown, ShutdownStep, QueueClear, QueueStop, PoolDown, JoinTimer,
     JoinWorker, Release, Stopping
<1>3. Others(t) /\ pc'[t] \in Stopping \cup {"idle"}
  <2>1. PICK w \in Stopping \cup {"idle"} : Goto(t, w)
    BY <1>2
  <2>2. pc' = [pc EXCEPT ![t] = w] /\ job' = job
    BY <2>1 DEF Goto, OwnerStep, Shutdown, ShutdownStep, QueueClear, QueueStop, PoolDown,
       JoinTimer, JoinWorker, Release
  <2> QED BY <1>1, <2>2 DEF ThreadType, Others
<1>4. /\ UNCHANGED <<pool, entries, invalid, md, holder, job, calls, ran>>
      /\ queue' \subseteq queue
      /\ running' => pc[t] \in Stopping /\ running
      /\ \/ pending' = pending /\ released' = released
         \/ released'
      /\ released => released'
  <2>1. CASE Shutdown(t)
    BY <2>1 DEF Shutdown, store
  <2>2. CASE ShutdownStep(t)
    BY <2>2 DEF ShutdownStep, QueueClear, QueueStop, PoolDown, JoinTimer, JoinWorker,
       Release, Stopping, engine, store
  <2> QED BY <2>1, <2>2 DEF OwnerStep
<1> QED BY <1>3, <1>4

(***************************************************************************)
(* Entries and the pointers to them                                        *)
(***************************************************************************)
LEMMA HeldFrame ==
    ASSUME Held, NEW t \in Threads, Others(t), pc'[t] # "arm",
           UNCHANGED <<entries, invalid>>,
           (pending' = pending /\ released' = released) \/ released',
           \A m \in Runs : md'[m].alarms \subseteq md[m].alarms
    PROVE  Held'
BY DEF Held, Others, Bound, Ids, Run

\* Who works on a Metadata is alone with it.
LEMMA Holds ==
    ASSUME Inv, NEW u \in Threads, pc[u] \in Dispatching
    PROVE  Run(u) \in Runs /\ holder[Run(u)] = u
BY DEF Inv, ThreadsOK, Fits, Run, Calling

\* An entry more.
LEMMA MadeKeeps ==
    ASSUME Inv, Inv', Held, NEW t \in Threads, Others(t), NEW e, Made(t, e),
           UNCHANGED <<released, md>>, e.run = Run(t) \/ pc'[t] # "arm",
           pc'[t] = "arm" => e.state # Root
    PROVE  /\ Held' /\ Ids' = Ids \cup {Len(entries) + 1}
           /\ Len(entries) + 1 \notin Ids /\ entries'[Len(entries) + 1] = e
           /\ \A id \in Ids : entries'[id] = entries[id]
<1> DEFINE n == Len(entries) + 1
<1>1. /\ entries \in Seq(Entry) /\ entries' \in Seq(Entry) /\ invalid \subseteq Ids
      /\ \A m \in Runs : md[m].alarms \subseteq Ids
      /\ ThreadsOK
  BY DEF Inv, StoreType, MdType, MdRecord
<1>2. /\ Ids' = Ids \cup {n} /\ n \notin Ids /\ entries'[n] = e
      /\ \A id \in Ids : entries'[id] = entries[id]
  BY <1>1 DEF Made, Ids
<1>3. pending' = pending \cup {n} /\ invalid' = invalid /\ n \notin invalid
      /\ job'[t].made = n /\ job'[t].run = Run(t)
  BY <1>1, <1>2 DEF Made, SameCall, Run
<1>4. \A id \in Ids' : Bound(id)' \/ released' \/ id \in pending'
  BY <1>2, <1>3 DEF Held, Bound
<1>5. \A m \in Runs : \A id \in md'[m].alarms :
         /\ Bound(id)' /\ entries'[id].run = m /\ id \notin invalid'
         /\ released' \/ id \in pending'
  BY <1>1, <1>2, <1>3 DEF Held, Bound
<1>6. ASSUME NEW u \in Threads, pc'[u] = "arm"
      PROVE  /\ Bound(job[u].made)' /\ entries'[job'[u].made].run = Run(u)'
             /\ job'[u].made \notin invalid'
             /\ released' \/ job'[u].made \in pending'
  <2>1. CASE u = t
    BY <1>2, <1>3, <1>6, <2>1 DEF Bound, Run
  <2>2. CASE u # t
    <3>1. pc[u] = "arm" /\ job'[u] = job[u]
      BY <1>6, <2>2 DEF Others
    <3>2. job[u].made \in Ids
      BY <1>1, <3>1 DEF ThreadsOK, Fits
    <3> QED BY <1>2, <1>3, <3>1, <3>2 DEF Held, Bound, Run
  <2> QED BY <2>1, <2>2
<1> QED BY <1>2, <1>4, <1>5, <1>6 DEF Held

LEMMA CancelKeepsHeld ==
    ASSUME Inv, Held, NEW t \in Threads, CancelNext(t) PROVE Held'
<1>1. PICK id \in Record(t).alarms :
         /\ id \in Ids /\ invalid' = invalid \cup {id}
         /\ pending' = pending \ {id}
         /\ Alarms(t, Record(t).alarms \ {id})
  BY CancelNextEffect
<1>2. /\ pc[t] = "leave" /\ Run(t) \in Runs /\ holder[Run(t)] = t
      /\ UNCHANGED <<entries, pc, job, released>>
  BY CancelNextEffect, Holds DEF Dispatching, engine
<1>3. Bound(id) /\ entries[id].run = Run(t)
  BY <1>1, <1>2 DEF Held, Record
<1>4. Ids' = Ids /\ \A i \in Ids : Bound(i)' = Bound(i)
  BY <1>2 DEF Ids, Bound
<1>5. ASSUME NEW m \in Runs, NEW i \in md'[m].alarms
      PROVE  i # id /\ i \in md[m].alarms
  BY <1>1, <1>2, <1>3, <1>5 DEF Alarms, Held, Record
<1>6. ASSUME NEW u \in Threads, pc[u] = "arm" PROVE job[u].made # id
  BY <1>2, <1>3, <1>6, Holds DEF Held, Dispatching
<1> QED BY <1>1, <1>2, <1>3, <1>4, <1>5, <1>6 DEF Held, Bound, Run

LEMMA ArmKeepsHeld ==
    ASSUME Inv, Held, NEW t \in Threads, Arm(t) PROVE Held'
<1>1. /\ pc[t] = "arm" /\ pc'[t] = "schedule" /\ Others(t)
      /\ Alarms(t, Record(t).alarms \cup {job[t].made})
      /\ UNCHANGED <<entries, pending, invalid, released>>
  BY ArmEffect DEF Step, engine
<1>2. /\ Bound(job[t].made) /\ entries[job[t].made].run = Run(t)
      /\ job[t].made \notin invalid /\ (released \/ job[t].made \in pending)
  BY <1>1 DEF Held
<1>3. Ids' = Ids
  BY <1>1 DEF Ids
<1>4. \A m \in Runs : \A id \in md'[m].alarms :
         id \in md[m].alarms \/ (m = Run(t) /\ id = job[t].made)
  BY <1>1 DEF Alarms, Record
<1> QED BY <1>1, <1>2, <1>3, <1>4 DEF Held, Bound, Run, Others

\* Calls of a client or of the worker.
LEMMA CallKeepsHeld ==
    ASSUME Inv, Inv', Held, NEW t \in Threads, CallStep(t) PROVE Held'
<1>1. CASE SendCheck(t) \/ SendSubmit(t)
  BY <1>1, SendCheckEffect, SendSubmitEffect, HeldFrame DEF Returned, Step, store, engine
<1>2. CASE SendPush(t)
  <2>1. PICK e : Made(t, e)
    BY <1>2, SendPushEffect
  <2> QED BY <1>2, <2>1, SendPushEffect, MadeKeeps DEF Step, engine
<1>3. CASE Lock(t) \/ React(t)
  BY <1>3, LockEffect, ReactEffect, HeldFrame DEF Step, store, engine
<1>4. CASE CancelNext(t)
  BY <1>4, CancelKeepsHeld
<1>5. CASE Leave(t) \/ EnterState(t)
  <2>1. /\ Others(t) /\ pc'[t] # "arm" /\ UNCHANGED <<entries, invalid, pending, released>>
        /\ md'[Run(t)].alarms = {} /\ \A m \in Runs \ {Run(t)} : md'[m] = md[m]
    BY <1>5, LeaveEffect, EnterStateEffect DEF Step, store, engine
  <2>2. \A m \in Runs : md'[m].alarms \subseteq md[m].alarms
    BY <2>1
  <2> QED BY <2>1, <2>2, HeldFrame
<1>6. CASE Act(t)
  BY <1>6, ActEffect, HeldFrame DEF store, engine
<1>7. CASE Schedule(t)
  <2>1. CASE pc'[t] = "react"
    BY <1>7, <2>1, ScheduleEffect, HeldFrame DEF engine
  <2>2. CASE pc'[t] = "arm"
    <3> DEFINE new(e) == [state |-> job[t].to, run |-> Run(t), event |-> e,
                          param |-> job[t].param, activation |-> Record(t).activation]
    <3>1. PICK e \in job[t].todo : Made(t, new(e))
      BY <1>7, <2>2, ScheduleEffect
    <3>2. job[t].to # Root
      BY <1>7, ScheduleEffect, AsyncAssumption DEF Inv, ThreadsOK, Fits, InTransition
    <3> QED BY <1>7, <3>1, <3>2, ScheduleEffect, MadeKeeps DEF engine
  <2> QED BY <1>7, <2>1, <2>2, ScheduleEffect
<1>8. CASE Arm(t)
  BY <1>8, ArmKeepsHeld
<1> QED BY <1>1, <1>2, <1>3, <1>4, <1>5, <1>6, <1>7, <1>8 DEF CallStep

LEMMA HeldNext == ASSUME Inv, Inv', Held, [Next]_vars PROVE Held'
<1>1. ASSUME NEW t \in Clients \cup {Worker}, CallStep(t) PROVE Held'
  BY <1>1, CallKeepsHeld, ThreadFacts
<1>2. CASE TimerStep
  BY <1>2, TimerEffect, ThreadFacts, HeldFrame DEF engine
<1>3. CASE WorkerTake \/ WorkerValid \/ WorkerBound
  BY <1>3, WorkerTakeEffect, WorkerValidEffect, WorkerBoundEffect, ThreadFacts, HeldFrame
     DEF engine, store
<1>4. ASSUME NEW t \in Clients, NEW m \in Runs,
             StartRun(t, m) \/ \E e \in Sendable : DispatchRun(t, m, e)
      PROVE  Held'
  <2>1. /\ Others(t) /\ pc'[t] # "arm" /\ UNCHANGED <<entries, invalid, pending, released>>
    BY <1>4, StartRunEffect, DispatchRunEffect, ThreadFacts DEF UserCall, Step, store, engine
  <2>2. \A r \in Runs : md'[r].alarms \subseteq md[r].alarms
    BY <1>4, StartRunEffect, DispatchRunEffect
  <2> QED BY <2>1, <2>2, HeldFrame, ThreadFacts
<1>5. ASSUME NEW t \in Owners, OwnerStep(t) PROVE Held'
  BY <1>5, OwnerEffect, ThreadFacts, HeldFrame DEF Stopping
<1>6. CASE UNCHANGED vars
  BY <1>6 DEF Held, Bound, Run, Ids, vars, store, engine
<1> QED BY <1>1, <1>2, <1>3, <1>4, <1>5, <1>6 DEF Next, WorkerStep, OwnerStep

(***************************************************************************)
(* Parameters                                                              *)
(***************************************************************************)
LEMMA ParamsFrame ==
    ASSUME Inv, ParamsOK, NEW t \in Threads, Others(t), UNCHANGED entries,
           job'[t].param \in {User, job[t].param}, t \in Clients => job'[t].param = User
    PROVE  ParamsOK'
<1>1. Ids' = Ids
  BY DEF Ids
<1>2. \A id \in Ids' : Kept(entries[id].param)'
  BY <1>1 DEF ParamsOK, Kept, Bound
<1>3. ASSUME NEW u \in Threads PROVE Kept(job[u].param)'
  <2>1. job'[u].param = User \/ job'[u].param = job[u].param
    BY DEF Others
  <2> QED BY <1>1, <2>1 DEF ParamsOK, Kept, Bound
<1>4. \A u \in Clients : job'[u].param = User
  BY ThreadFacts DEF ParamsOK, Others
<1> QED BY <1>2, <1>3, <1>4 DEF ParamsOK

\* A new entry with a Parameter of its own or one that is kept.
LEMMA ParamsMade ==
    ASSUME Inv, Inv', Held, ParamsOK, NEW t \in Threads, Others(t), NEW e, Made(t, e),
           UNCHANGED <<released, md>>, e.run = Run(t) \/ pc'[t] # "arm",
           pc'[t] = "arm" => e.state # Root,
           Kept(e.param) \/ (e.param = Len(entries) + 1 /\ e.state = Root)
    PROVE  ParamsOK'
<1>1. /\ Ids' = Ids \cup {Len(entries) + 1}
      /\ entries'[Len(entries) + 1] = e
      /\ \A id \in Ids : entries'[id] = entries[id]
  BY MadeKeeps
<1>3. \/ e.param = User
      \/ e.param \in Ids' /\ entries'[e.param].state = Root
  BY <1>1 DEF Kept, Bound
<1>4. job'[t].param = job[t].param
  BY DEF Made, SameCall
<1>5. \A id \in Ids' : Kept(entries[id].param)'
  BY <1>1, <1>3 DEF ParamsOK, Kept, Bound
<1>6. \A u \in Threads : Kept(job[u].param)'
  <2>1. \A u \in Threads : job'[u].param = job[u].param
    BY <1>4 DEF Others
  <2> QED BY <1>1, <2>1 DEF ParamsOK, Kept, Bound
<1>7. \A u \in Clients : job'[u].param = User
  BY <1>4, ThreadFacts DEF ParamsOK, Others
<1> QED BY <1>5, <1>6, <1>7 DEF ParamsOK

LEMMA CallKeepsParams ==
    ASSUME Inv, Inv', Held, ParamsOK, NEW t \in Clients \cup {Worker}, CallStep(t)
    PROVE  ParamsOK'
<1>0. t \in Threads
  BY ThreadFacts
<1>1. CASE SendCheck(t) \/ SendSubmit(t)
  <2>1. /\ Others(t) /\ UNCHANGED entries
        /\ SameCall(t) \/ job' = job \/ job'[t] = NoJob
    BY <1>0, <1>1, SendCheckEffect, SendSubmitEffect DEF Returned, Step, store
  <2>2. job'[t].param \in {User, job[t].param}
    BY <2>1 DEF SameCall, NoJob
  <2> QED BY <1>0, <2>1, <2>2, ParamsFrame DEF ParamsOK
<1>2. CASE SendPush(t)
  <2>1. PICK e : e.state = Root /\ e.param = Len(entries) + 1 /\ Made(t, e)
    BY <1>0, <1>2, SendPushEffect
  <2> QED BY <1>0, <1>2, <2>1, SendPushEffect, ParamsMade DEF Step, engine
<1>3. CASE Lock(t) \/ React(t) \/ Leave(t) \/ Act(t) \/ EnterState(t) \/ Arm(t)
  <2>1. Others(t) /\ UNCHANGED entries /\ job[t] \in Job
    BY <1>0, <1>3, LockEffect, ReactEffect, LeaveEffect, ActEffect, EnterStateEffect, ArmEffect
       DEF Step, store, Inv, ThreadType
  <2>2. job'[t].param \in {User, job[t].param}
    <3>1. CASE Lock(t) \/ Leave(t)
      BY <1>0, <3>1, LockEffect, LeaveEffect
    <3>2. CASE React(t)
      BY <1>0, <3>2, ReactEffect DEF NoJob
    <3>3. CASE Act(t)
      BY <1>0, <3>3, ActEffect DEF SameCall
    <3>4. CASE EnterState(t) \/ Arm(t)
      BY <1>0, <2>1, <3>4, EnterStateEffect, ArmEffect DEF Job
    <3> QED BY <1>3, <3>1, <3>2, <3>3, <3>4
  <2> QED BY <1>0, <2>1, <2>2, ParamsFrame DEF ParamsOK
<1>4. CASE CancelNext(t)
  <2>1. UNCHANGED <<entries, pc, job>>
    BY <1>0, <1>4, CancelNextEffect
  <2> QED BY <2>1 DEF ParamsOK, Kept, Ids, Bound
<1>5. CASE Schedule(t)
  <2>1. CASE pc'[t] = "react"
    <3>1. job[t] \in Job
      BY <1>0 DEF Inv, ThreadType
    <3>2. Others(t) /\ UNCHANGED entries /\ job'[t].param = job[t].param
      BY <1>0, <1>5, <2>1, <3>1, ScheduleEffect DEF Job
    <3> QED BY <1>0, <3>2, ParamsFrame DEF ParamsOK
  <2>2. CASE pc'[t] = "arm"
    <3> DEFINE new(e) == [state |-> job[t].to, run |-> Run(t), event |-> e,
                          param |-> job[t].param, activation |-> Record(t).activation]
    <3>1. PICK e \in job[t].todo : Made(t, new(e))
      BY <1>0, <1>5, <2>2, ScheduleEffect
    <3>2. job[t].to # Root
      BY <1>0, <1>5, ScheduleEffect, AsyncAssumption DEF Inv, ThreadsOK, Fits, InTransition
    <3>3. Kept(new(e).param)
      BY <1>0 DEF ParamsOK
    <3> QED BY <1>0, <1>5, <3>1, <3>2, <3>3, ScheduleEffect, ParamsMade DEF engine
  <2> QED BY <1>0, <1>5, <2>1, <2>2, ScheduleEffect
<1> QED BY <1>1, <1>2, <1>3, <1>4, <1>5 DEF CallStep

LEMMA ParamsNext ==
    ASSUME Lent = {User}, Inv, Inv', Held, ParamsOK, [Next]_vars PROVE ParamsOK'
<1>1. ASSUME NEW t \in Clients \cup {Worker}, CallStep(t) PROVE ParamsOK'
  BY <1>1, CallKeepsParams
<1>2. CASE TimerStep \/ WorkerTake \/ WorkerValid
  BY <1>2, TimerEffect, WorkerTakeEffect, WorkerValidEffect, ThreadFacts, ParamsFrame DEF store
<1>3. CASE WorkerBound
  <2>1. CASE pc'[Worker] = "take"
    BY <1>3, <2>1, WorkerBoundEffect, ThreadFacts, ParamsFrame DEF store
  <2>2. CASE pc'[Worker] = "lock"
    <3>1. UNCHANGED entries /\ Ids' = Ids /\ Others(Worker)
      BY <1>3, WorkerBoundEffect DEF store, Ids
    <3>2. Kept(job[Worker].param)'
      <4>1. /\ job[Worker].entry \in Ids
            /\ job'[Worker].param = entries[job[Worker].entry].param
        BY <1>3, <2>2, WorkerBoundEffect
      <4> QED BY <3>1, <4>1 DEF ParamsOK, Kept, Bound
    <3>3. \A id \in Ids' : Kept(entries[id].param)'
      BY <3>1 DEF ParamsOK, Kept, Bound
    <3>4. \A u \in Threads \ {Worker} : Kept(job[u].param)'
      BY <3>1 DEF ParamsOK, Kept, Bound, Others
    <3>5. \A u \in Clients : job'[u].param = User
      BY <3>1, ThreadFacts DEF ParamsOK, Others
    <3> QED BY <3>2, <3>3, <3>4, <3>5 DEF ParamsOK
  <2> QED BY <1>3, <2>1, <2>2, WorkerBoundEffect
<1>4. ASSUME NEW t \in Clients, NEW m \in Runs,
             StartRun(t, m) \/ \E e \in Sendable : DispatchRun(t, m, e)
      PROVE  ParamsOK'
  <2>1. UserCall(t, m)
    BY <1>4, StartRunEffect, DispatchRunEffect
  <2>2. Others(t) /\ UNCHANGED entries /\ job'[t].param = User
    BY <2>1 DEF UserCall, Step, store, ParamsNext
  <2> QED BY <2>2, ParamsFrame, ThreadFacts
<1>5. ASSUME NEW t \in Owners, OwnerStep(t) PROVE ParamsOK'
  BY <1>5, OwnerEffect, ThreadFacts, ParamsFrame
<1>6. CASE UNCHANGED vars
  BY <1>6 DEF ParamsOK, Kept, Bound, Ids, vars, store
<1> QED BY <1>1, <1>2, <1>3, <1>4, <1>5, <1>6 DEF Next, WorkerStep, OwnerStep

LEMMA HeldInvariant == Spec => [](Inv /\ Held)
<1>1. Init => Inv /\ Held
  <2> SUFFICES ASSUME Init PROVE Inv /\ Held
    OBVIOUS
  <2>1. Ids = {}
    BY DEF Init, Ids
  <2>2. \A u \in Threads : pc[u] # "arm"
    BY DEF Init
  <2> QED BY <2>1, <2>2, InitInv DEF Held, Init
<1>2. (Inv /\ Held) /\ [Next]_vars => (Inv /\ Held)'
  BY NextInv, HeldNext
<1> QED BY <1>1, <1>2, PTL DEF Spec

\* Who dispatches is not the worker that shutdown has waited for.
LEMMA BusyWorker == ASSUME Inv, pc[Worker] # "exited" PROVE ~released
BY DEF Inv, ShutdownOK

\* EventQueueEntry.hpp:57: if the user keeps what it passes to synchronous calls,
\* the Parameter that guards and actions get exists while they run: an entry of
\* dispatchAsynchron, or a timeout that inherited its Parameter, finds it alive.
THEOREM ParametersAlive == ASSUME Lent = {User} PROVE Spec => []ParameterAlive
<1>1. Init => ParamsOK
  <2> SUFFICES ASSUME Init PROVE ParamsOK
    OBVIOUS
  <2>1. Ids = {}
    BY DEF Init, Ids
  <2>2. \A u \in Threads : job[u].param = User
    BY DEF Init, NoJob
  <2> QED BY <2>1, <2>2, ThreadFacts DEF ParamsOK, Kept
<1>2. Inv /\ Inv' /\ Held /\ ParamsOK /\ [Next]_vars => ParamsOK'
  BY ParamsNext
<1>3. Inv /\ Held /\ ParamsOK => ParameterAlive
  <2> SUFFICES ASSUME Inv, Held, ParamsOK, NEW t \in Threads, pc[t] \in Dispatching,
                      job[t].param # User
               PROVE  job[t].param \in Retained
    BY DEF ParameterAlive
  <2>1. t = Worker
    <3>1. t \in Clients \cup {Worker}
      BY DEF Threads, Inv, ThreadsOK, Fits, Dispatching, Stopping
    <3> QED BY <3>1 DEF ParamsOK
  <2>2. ~released
    BY <2>1, BusyWorker DEF Dispatching
  <2>3. job[t].param \in Ids /\ ~Bound(job[t].param)
    BY DEF ParamsOK, Kept
  <2> QED BY <2>2, <2>3 DEF Held, Retained
<1> QED BY <1>1, <1>2, <1>3, HeldInvariant, PTL DEF Spec

(***************************************************************************)
(* The worker alone                                                        *)
(***************************************************************************)
LEMMA AloneNext ==
    ASSUME Direct = {}, Inv, Inv', Alone, [Next]_vars PROVE Alone'
<1>0. /\ \A c \in Clients : c \in Threads /\ c # Worker /\ c # Timer /\ c \notin Owners
      /\ Worker \in Threads /\ Timer \in Threads /\ Worker \notin Clients
      /\ Timer \notin Clients
  BY ThreadFacts
<1>1. ASSUME NEW t \in Clients, CallStep(t) PROVE Alone'
  <2>1. pc[t] \notin {"lock"} \cup Dispatching /\ ~InAction(t) /\ t \in Threads
    BY <1>0 DEF Alone, InAction
  <2>2. SendCheck(t) \/ SendPush(t) \/ SendSubmit(t)
    BY <1>1, <2>1 DEF CallStep, Lock, React, CancelNext, Leave, Act, EnterState, Schedule,
       Arm, Dispatching
  <2>3. Others(t) /\ pc'[t] \in {"push", "submit", "idle"} /\ holder' = holder
    BY <2>1, <2>2, SendCheckEffect, SendPushEffect, SendSubmitEffect DEF Returned, Step
  <2> QED BY <1>0, <2>3 DEF Alone, Others, Dispatching
<1>2. ASSUME NEW t \in Threads, t \notin Clients, Others(t),
             \/ holder' = holder \/ holder' = [holder EXCEPT ![Run(t)] = t]
             \/ holder' = [holder EXCEPT ![Run(t)] = Null]
      PROVE  Alone'
  <2>1. holder \in [Runs -> Threads \cup {Null}] /\ Null \notin Clients
    BY <1>0, AsyncAssumption DEF Inv, EngineType
  <2>2. \A m \in Runs : holder'[m] \in {holder[m], t, Null}
    BY <1>2, <2>1
  <2> QED BY <1>0, <1>2, <2>1, <2>2 DEF Alone, Others
<1>3. CASE CallStep(Worker)
  <2>1. /\ Others(Worker)
        /\ \/ holder' = holder \/ holder' = [holder EXCEPT ![Run(Worker)] = Worker]
           \/ holder' = [holder EXCEPT ![Run(Worker)] = Null]
    BY <1>0, <1>3, SendCheckEffect, SendPushEffect, SendSubmitEffect, LockEffect, ReactEffect,
       CancelNextEffect, LeaveEffect, ActEffect, EnterStateEffect, ScheduleEffect, ArmEffect
       DEF CallStep, Returned, Step, Others
  <2> QED BY <1>0, <1>2, <2>1
<1>4. CASE TimerStep
  BY <1>0, <1>2, <1>4, TimerEffect
<1>5. CASE WorkerTake \/ WorkerValid \/ WorkerBound
  BY <1>0, <1>2, <1>5, WorkerTakeEffect, WorkerValidEffect, WorkerBoundEffect
<1>6. ASSUME NEW t \in Clients, NEW m \in Runs,
             StartRun(t, m) \/ \E e \in Sendable : DispatchRun(t, m, e)
      PROVE  Alone'
  <2>1. UserCall(t, m)
    BY <1>6, StartRunEffect, DispatchRunEffect
  <2> QED BY <2>1 DEF UserCall, Step, Alone, Others, Dispatching, Threads
<1>7. ASSUME NEW t \in Owners, OwnerStep(t) PROVE Alone'
  BY <1>0, <1>2, <1>7, OwnerEffect, ThreadFacts
<1>8. CASE UNCHANGED vars
  BY <1>8 DEF Alone, vars
<1> QED BY <1>1, <1>3, <1>4, <1>5, <1>6, <1>7, <1>8 DEF Next, WorkerStep, OwnerStep

LEMMA AloneInvariant == ASSUME Direct = {} PROVE Spec => []Alone
<1>1. Init => Alone
  <2> SUFFICES ASSUME Init PROVE Alone
    OBVIOUS
  <2>1. \A c \in Clients : pc[c] = "idle"
    BY ThreadFacts DEF Init
  <2> QED BY <2>1, AsyncAssumption DEF Init, Alone, Dispatching, Threads
<1>2. Inv /\ Inv' /\ Alone /\ [Next]_vars => Alone'
  BY AloneNext
<1> QED BY <1>1, <1>2, Invariant, PTL DEF Spec

\* Statechart.hpp:209: without synchronous calls the raw pointers that deactivate
\* follows name entries that exist.
THEOREM AlarmPointersAlive == ASSUME Direct = {} PROVE Spec => []AlarmsAlive
<1>1. Inv /\ Held /\ Alone => AlarmsAlive
  <2> SUFFICES ASSUME Inv, Held, Alone, NEW t \in Threads, pc[t] = "leave"
               PROVE  Record(t).alarms \subseteq Retained
    BY DEF AlarmsAlive
  <2>1. t = Worker /\ Run(t) \in Runs
    BY Holds DEF Alone, Threads, Inv, ThreadsOK, Fits, Dispatching, Sending, Stopping
  <2>2. ~released
    BY <2>1, BusyWorker
  <2> QED BY <2>1, <2>2 DEF Held, Record, Retained
<1> QED BY <1>1, HeldInvariant, AloneInvariant, PTL

(***************************************************************************)
(* Timeouts and the activations they belong to                             *)
(***************************************************************************)
LEMMA EntryFields ==
    ASSUME Inv
    PROVE  \A id \in Ids : /\ entries[id].run \in Runs
                           /\ Bound(id) => entries[id].state \in ChartStates
<1>1. \A id \in Ids : entries[id] \in Entry
  BY DEF Inv, StoreType, Ids
<1> QED BY <1>1 DEF Entry, Bound

LEMMA InActionHolds ==
    ASSUME Inv, NEW u \in Threads, InAction(u)
    PROVE  Run(u) \in Runs /\ holder[Run(u)] = u
BY DEF Inv, ThreadsOK, Fits, InAction, Run

\* It is enough to look at the thread that moves, if no record is touched that
\* another one holds.
LEMMA OneTransition ==
    ASSUME Inv, TransitionOK, NEW t \in Threads, Others(t),
           \A u \in Threads \ {t} : InAction(u)' => InAction(u),
           \A u \in Threads \ {t} : InAction(u) => md'[Run(u)] = md[Run(u)],
           TransitionOf(t)'
    PROVE  TransitionOK'
<1>1. ASSUME NEW u \in Threads \ {t} PROVE TransitionOf(u)'
  <2>1. pc'[u] = pc[u] /\ job'[u] = job[u] /\ TransitionOf(u)
    BY DEF Others, TransitionOK
  <2>2. CASE InAction(u)
    BY <2>1, <2>2 DEF TransitionOf, Record, Run
  <2>3. CASE ~InAction(u)
    <3>1. pc[u] \notin Dispatching
      BY <2>3, Holds DEF InAction
    <3> QED BY <2>1, <2>3, <3>1 DEF TransitionOf, Dispatching
  <2> QED BY <2>2, <2>3
<1> QED BY <1>1 DEF TransitionOK

\* The mutex changes hands, if at all, to or from t.
LEMMA OtherHolders ==
    ASSUME Inv, NEW t \in Threads,
           \/ holder' = holder
           \/ holder[Run(t)] = Null /\ holder' = [holder EXCEPT ![Run(t)] = t]
           \/ holder' = [holder EXCEPT ![Run(t)] = Null]
    PROVE  \A u \in Threads \ {t} : InAction(u)' => InAction(u)
BY AsyncAssumption DEF Inv, EngineType, InAction

\* Entries as they are, t not about to arm one.
LEMMA ValidFrame ==
    ASSUME ValidOK, NEW t \in Threads, Others(t), pc[t] # "arm",
           UNCHANGED <<entries, md>>, invalid \subseteq invalid'
    PROVE  ValidOK'
BY DEF ValidOK, Valid, Bound, Arming, Others, Ids

\* Between two activations nothing is armed.
LEMMA NoneValid ==
    ASSUME Inv, Held, ValidOK, NEW t \in Threads, pc[t] \in Dispatching \ {"arm"},
           Record(t).alarms = {}
    PROVE  \A id \in Ids : entries[id].run = Run(t) => ~Valid(id)
<1> SUFFICES ASSUME NEW id \in Ids, entries[id].run = Run(t), Valid(id) PROVE FALSE
  OBVIOUS
<1>1. PICK u \in Threads : pc[u] = "arm" /\ job[u].made = id
  BY DEF ValidOK, Record, Arming
<1>2. Run(u) = Run(t)
  BY <1>1 DEF Held
<1> QED BY <1>1, <1>2, Holds DEF Dispatching

LEMMA OtherRecords ==
    ASSUME Inv, NEW t \in Threads, pc[t] \in Dispatching,
           \A m \in Runs \ {Run(t)} : md'[m] = md[m]
    PROVE  \A u \in Threads \ {t} : InAction(u) => md'[Run(u)] = md[Run(u)]
BY Holds, InActionHolds

\* A thread dispatches, sends or returns without touching a record.
LEMMA SendKeepsActivations ==
    ASSUME Inv, Inv', Held, Activations, NEW t \in Threads,
           SendCheck(t) \/ SendPush(t) \/ SendSubmit(t)
    PROVE  Activations'
<1>1. /\ Others(t) /\ pc[t] \in Sending /\ UNCHANGED <<md, holder, invalid, released>>
      /\ \/ pc'[t] \in Sending /\ Run(t)' = Run(t)
         \/ pc'[t] = "enter" /\ InAction(t) /\ Run(t)' = Run(t)
         \/ pc'[t] = "idle"
  BY SendCheckEffect, SendPushEffect, SendSubmitEffect
     DEF Returned, Step, Sending, SameCall, Made, Run, store, engine
<1>2. TransitionOf(t) /\ (InAction(t)' <=> InAction(t))
  BY <1>1 DEF Activations, TransitionOK, InAction
<1>3. TransitionOf(t)'
  BY <1>1, <1>2 DEF TransitionOf, Record, Sending
<1>4. TransitionOK'
  BY <1>1, <1>2, <1>3, OneTransition DEF Activations, InAction
<1>5. CASE UNCHANGED entries
  BY <1>1, <1>4, <1>5, ValidFrame DEF Activations, Sending
<1>6. CASE SendPush(t)
  <2>1. PICK e : e.state = Root /\ Made(t, e)
    BY <1>6, SendPushEffect
  <2>2. /\ Ids' = Ids \cup {Len(entries) + 1} /\ Len(entries) + 1 \notin Ids
        /\ entries'[Len(entries) + 1] = e
        /\ \A id \in Ids : entries'[id] = entries[id]
    BY <1>1, <1>6, <2>1, SendPushEffect, MadeKeeps DEF Step
  <2>3. ValidOK'
    BY <1>1, <2>1, <2>2 DEF Activations, ValidOK, Valid, Bound, Arming, Others, Sending
  <2> QED BY <1>4, <2>3 DEF Activations
<1> QED BY <1>5, <1>6, SendCheckEffect, SendSubmitEffect DEF store

LEMMA QuietKeepsActivations ==
    ASSUME Inv, Activations, NEW t \in Threads, Lock(t) \/ React(t) \/ Act(t)
    PROVE  Activations'
<1>1. /\ Others(t) /\ UNCHANGED <<md, entries, invalid>> /\ pc[t] # "arm"
      /\ \/ pc'[t] \notin {"act", "enter", "schedule", "arm"} \cup Sending
         \/ pc[t] = "act" /\ pc'[t] \in {"enter", "send"} /\ Run(t)' = Run(t)
  BY LockEffect, ReactEffect, ActEffect DEF Step, store, SameCall, Run, Sending
<1>2. TransitionOf(t)'
  BY <1>1 DEF Activations, TransitionOK, TransitionOf, Record
<1>3. \A u \in Threads \ {t} : InAction(u)' => InAction(u)
  BY LockEffect, ReactEffect, ActEffect, OtherHolders
<1> QED BY <1>1, <1>2, <1>3, OneTransition, ValidFrame DEF Activations

LEMMA LeaveKeepsActivations ==
    ASSUME Inv, Held, Activations, NEW t \in Threads, Leave(t) \/ EnterState(t)
    PROVE  Activations'
<1>1. /\ Others(t) /\ pc[t] \in {"leave", "enter"} /\ Record(t).alarms = {}
      /\ UNCHANGED <<entries, invalid, holder>> /\ \A m \in Runs \ {Run(t)} : md'[m] = md[m]
      /\ Run(t)' = Run(t)
  <2>1. CASE Leave(t)
    BY <2>1, LeaveEffect DEF Step, store, Run
  <2>2. CASE EnterState(t)
    <3>1. job[t] \in Job /\ TransitionOf(t)
      BY DEF Inv, ThreadType, Activations, TransitionOK
    <3>2. Run(t)' = Run(t)
      BY <2>2, <3>1, EnterStateEffect DEF Job, Run
    <3> QED BY <2>2, <3>1, <3>2, EnterStateEffect DEF Step, store, TransitionOf
  <2> QED BY <2>1, <2>2
<1>2. TransitionOf(t)'
  <2>1. CASE Leave(t)
    BY <1>1, <2>1, LeaveEffect DEF Step, TransitionOf, Record, Sending
  <2>2. CASE EnterState(t)
    <3>1. job[t] \in Job
      BY DEF Inv, ThreadType
    <3>2. job'[t].to = job[t].to /\ job'[t].todo = Timeouts(job[t].to)
      BY <2>2, <3>1, EnterStateEffect DEF Job
    <3> QED BY <1>1, <2>2, <3>2, EnterStateEffect DEF Step, TransitionOf, Record, Sending
  <2> QED BY <2>1, <2>2
<1>3. TransitionOK'
  BY <1>1, <1>2, OneTransition, OtherRecords DEF Activations, InAction, Dispatching
<1>4. \A id \in Ids : entries[id].run = Run(t) => ~Valid(id)
  BY <1>1, NoneValid DEF Activations, Dispatching
<1>5. ValidOK'
  <2>1. \A id \in Ids : entries[id].run \in Runs
    BY EntryFields
  <2> QED BY <1>1, <1>4, <2>1 DEF Activations, ValidOK, Valid, Bound, Arming, Others, Ids
<1> QED BY <1>3, <1>5 DEF Activations

LEMMA CancelKeepsActivations ==
    ASSUME Inv, Held, Activations, NEW t \in Threads, CancelNext(t) PROVE Activations'
<1>1. PICK id \in Record(t).alarms :
         /\ id \in Ids /\ invalid' = invalid \cup {id}
         /\ Alarms(t, Record(t).alarms \ {id})
  BY CancelNextEffect
<1>2. pc[t] = "leave" /\ UNCHANGED <<entries, holder, pc, job>>
  BY CancelNextEffect
<1>3. TransitionOK'
  <2>1. TransitionOf(t)'
    BY <1>2 DEF TransitionOf, Sending
  <2> QED BY <1>1, <1>2, <2>1, OneTransition, OtherRecords
          DEF Activations, Others, Alarms, InAction, Dispatching
<1>4. ValidOK'
  <2>1. \A i \in Ids : entries[i].run \in Runs
    BY EntryFields
  <2> QED BY <1>1, <1>2, <2>1 DEF Activations, ValidOK, Valid, Bound, Arming, Ids, Alarms, Record
<1> QED BY <1>3, <1>4 DEF Activations

LEMMA ScheduleKeepsActivations ==
    ASSUME Inv, Inv', Held, Activations, NEW t \in Threads, Schedule(t) PROVE Activations'
<1>1. /\ pc[t] = "schedule" /\ Others(t) /\ UNCHANGED <<invalid, md, holder, released>>
      /\ job[t] \in Job /\ TransitionOf(t)
  BY ScheduleEffect DEF engine, Inv, ThreadType, Activations, TransitionOK
<1>2. CASE pc'[t] = "react"
  <2>1. UNCHANGED entries
    BY <1>2, ScheduleEffect
  <2>2. TransitionOf(t)'
    BY <1>2 DEF TransitionOf, Sending
  <2> QED BY <1>1, <2>1, <2>2, OneTransition, ValidFrame DEF Activations, InAction
<1>3. CASE pc'[t] = "arm"
  <2> DEFINE new(e) == [state |-> job[t].to, run |-> Run(t), event |-> e,
                        param |-> job[t].param, activation |-> Record(t).activation]
  <2>0. PICK n : n = Len(entries) + 1
    OBVIOUS
  <2>1. PICK e \in job[t].todo : Made(t, new(e))
    BY <1>3, ScheduleEffect
  <2>2. job[t].to # Root
    BY <1>1, AsyncAssumption DEF Inv, ThreadsOK, Fits, InTransition
  <2>3. /\ Ids' = Ids \cup {n} /\ n \notin Ids /\ entries'[n] = new(e)
        /\ \A id \in Ids : entries'[id] = entries[id]
    BY <1>1, <1>3, <2>0, <2>1, <2>2, MadeKeeps
  <2>4. job'[t].made = n /\ SameCall(t) /\ Run(t)' = Run(t)
    BY <2>0, <2>1 DEF Made, SameCall, Run
  <2>5. TransitionOf(t)'
    BY <1>1, <1>3, <2>4 DEF TransitionOf, Record, SameCall, Sending
  <2>6. TransitionOK'
    BY <1>1, <2>5, OneTransition DEF Activations, InAction
  <2>7. ASSUME NEW id \in Ids, Valid(id)'
        PROVE  LET r == md'[entries'[id].run] IN
               /\ entries'[id].activation = r.activation
               /\ entries'[id].state = r.current /\ r.active
               /\ id \in r.alarms \/ Arming(id)'
               /\ entries'[id].event \in Timeouts(entries'[id].state)
    <3>1. Valid(id) /\ entries'[id] = entries[id]
      BY <1>1, <2>3, <2>7 DEF Valid, Bound
    <3>2. Arming(id) => Arming(id)'
      BY <1>1 DEF Arming, Others
    <3> QED BY <1>1, <3>1, <3>2 DEF Activations, ValidOK
  <2>8. LET r == md'[entries'[n].run] IN
        /\ entries'[n].activation = r.activation
        /\ entries'[n].state = r.current /\ r.active
        /\ Arming(n)'
        /\ entries'[n].event \in Timeouts(entries'[n].state)
    BY <1>1, <1>3, <2>3, <2>4 DEF TransitionOf, Record, Arming
  <2>9. ValidOK'
    BY <2>3, <2>7, <2>8 DEF ValidOK
  <2> QED BY <2>6, <2>9 DEF Activations
<1> QED BY <1>2, <1>3, ScheduleEffect

LEMMA ArmKeepsActivations ==
    ASSUME Inv, Held, Activations, NEW t \in Threads, Arm(t) PROVE Activations'
<1>1. /\ pc[t] = "arm" /\ pc'[t] = "schedule" /\ Others(t)
      /\ Alarms(t, Record(t).alarms \cup {job[t].made})
      /\ UNCHANGED <<entries, invalid, holder>>
  BY ArmEffect DEF Step
<1>2. /\ job'[t].to = job[t].to /\ job'[t].todo \subseteq job[t].todo /\ Run(t)' = Run(t)
      /\ TransitionOf(t) /\ entries[job[t].made].run = Run(t)
  <2>1. job[t] \in Job
    BY DEF Inv, ThreadType
  <2>2. job'[t] = [job[t] EXCEPT !.made = 0, !.todo = @ \ {entries[job[t].made].event}]
    BY ArmEffect
  <2>3. job'[t].to = job[t].to /\ job'[t].todo \subseteq job[t].todo /\ Run(t)' = Run(t)
    BY <2>1, <2>2 DEF Job, Run
  <2>4. TransitionOf(t) /\ entries[job[t].made].run = Run(t)
    BY <1>1 DEF Activations, TransitionOK, Held
  <2> QED BY <2>3, <2>4
<1>3. TransitionOf(t)'
  BY <1>1, <1>2 DEF TransitionOf, Alarms, Record, Sending
<1>4. TransitionOK'
  BY <1>1, <1>3, OneTransition, OtherRecords DEF Activations, Alarms, InAction, Dispatching
<1>5. ValidOK'
  <2>1. Ids' = Ids /\ \A id \in Ids : entries[id].run \in Runs
    BY <1>1, EntryFields DEF Ids
  <2>2. ASSUME NEW id \in Ids, Arming(id)
        PROVE  Arming(id)' \/ (id = job[t].made)
    BY <1>1, <2>2 DEF Arming, Others
  <2> QED BY <1>1, <1>2, <2>1, <2>2 DEF Activations, ValidOK, Valid, Bound, Alarms, Record
<1> QED BY <1>4, <1>5 DEF Activations

\* A step that works on no Metadata.
LEMMA IdleKeepsActivations ==
    ASSUME Inv, Activations, NEW t \in Threads, Others(t), pc[t] # "arm",
           UNCHANGED <<entries, md, holder>>, invalid \subseteq invalid',
           pc'[t] \notin {"act", "enter", "schedule", "arm"},
           ~(pc'[t] \in Sending /\ InAction(t))
    PROVE  Activations'
<1>1. \A u \in Threads : InAction(u)' <=> InAction(u)
  BY DEF InAction
<1>2. TransitionOf(t)'
  BY <1>1 DEF TransitionOf
<1> QED BY <1>1, <1>2, OneTransition, ValidFrame DEF Activations

LEMMA StartKeepsActivations ==
    ASSUME Restart = FALSE, Inv, Held, Activations, NEW t \in Clients, NEW m \in Runs,
           StartRun(t, m)
    PROVE  Activations'
<1>1. /\ t \in Threads /\ Others(t) /\ pc[t] = "idle" /\ pc'[t] \in {"send", "lock"}
      /\ UNCHANGED <<entries, invalid, holder>>
      /\ md[m].current = Null /\ \A u \in Threads : Run(u) # m
      /\ \A r \in Runs \ {m} : md'[r] = md[r]
  BY StartRunEffect, ThreadFacts DEF UserCall, Step, store, Unused
<1>2. ~InAction(t)
  BY <1>1, ThreadFacts DEF Inv, ThreadsOK, Fits, InAction, Dispatching, Sending
<1>3. TransitionOf(t)'
  BY <1>1, <1>2 DEF TransitionOf, InAction
<1>4. TransitionOK'
  BY <1>1, <1>3, OneTransition, InActionHolds DEF Activations, InAction
<1>5. \A id \in Ids : entries[id].run = m => ~Valid(id)
  BY <1>1, EntryFields, AsyncAssumption DEF Activations, ValidOK, Valid
<1>6. ValidOK'
  BY <1>1, <1>5, EntryFields DEF Activations, ValidOK, Valid, Bound, Arming, Others, Ids
<1> QED BY <1>4, <1>6 DEF Activations

LEMMA ActivationsNext ==
    ASSUME Restart = FALSE, Inv, Inv', Held, Activations, [Next]_vars
    PROVE  Activations'
<1>1. ASSUME NEW t \in Clients \cup {Worker}, CallStep(t) PROVE Activations'
  BY <1>1, SendKeepsActivations, QuietKeepsActivations, LeaveKeepsActivations,
     CancelKeepsActivations, ScheduleKeepsActivations, ArmKeepsActivations, ThreadFacts
     DEF CallStep
<1>2. CASE TimerStep
  BY <1>2, TimerEffect, ThreadFacts, IdleKeepsActivations DEF Inv, ThreadsOK, Fits, Sending
<1>3. CASE WorkerTake \/ WorkerValid \/ WorkerBound
  BY <1>3, WorkerTakeEffect, WorkerValidEffect, WorkerBoundEffect, ThreadFacts,
     IdleKeepsActivations DEF store, Sending
<1>4. ASSUME NEW t \in Clients, NEW m \in Runs, StartRun(t, m) PROVE Activations'
  BY <1>4, StartKeepsActivations
<1>5. ASSUME NEW t \in Clients, NEW m \in Runs, NEW e \in Sendable, DispatchRun(t, m, e)
      PROVE  Activations'
  <2>1. /\ t \in Threads /\ Others(t) /\ pc[t] = "idle" /\ pc'[t] \in {"send", "lock"}
        /\ UNCHANGED <<entries, invalid, holder, md>>
    BY <1>5, DispatchRunEffect, ThreadFacts DEF UserCall, Step, store
  <2>2. ~InAction(t)
    BY <2>1, ThreadFacts DEF Inv, ThreadsOK, Fits, InAction, Dispatching, Sending
  <2> QED BY <2>1, <2>2, IdleKeepsActivations
<1>6. ASSUME NEW t \in Owners, OwnerStep(t) PROVE Activations'
  <2>1. t \in Threads /\ Fits(t, pc[t], job[t])
    BY ThreadFacts DEF Inv, ThreadsOK
  <2> QED BY <1>6, <2>1, OwnerEffect, ThreadFacts, IdleKeepsActivations
          DEF Stopping, Sending, Fits
<1>7. CASE UNCHANGED vars
  BY <1>7 DEF Activations, ValidOK, Valid, Bound, Arming, TransitionOK, TransitionOf, InAction,
     Record, Run, Ids, vars, store
<1> QED BY <1>1, <1>2, <1>3, <1>4, <1>5, <1>6, <1>7 DEF Next, WorkerStep, OwnerStep

LEMMA ActivationsInvariant == ASSUME Restart = FALSE PROVE Spec => []Activations
<1>1. Init => Activations
  <2> SUFFICES ASSUME Init PROVE Activations
    OBVIOUS
  <2>1. Ids = {}
    BY DEF Init, Ids
  <2>2. \A u \in Threads : pc[u] \in {"take", "loop", "idle"}
    BY DEF Init
  <2> QED BY <2>1, <2>2 DEF Activations, ValidOK, TransitionOK, TransitionOf, Sending
<1>2. Inv /\ Inv' /\ Held /\ Activations /\ [Next]_vars => Activations'
  BY ActivationsNext
<1> QED BY <1>1, <1>2, HeldInvariant, PTL DEF Spec

(***************************************************************************)
(* The worker's entry                                                      *)
(***************************************************************************)
\* Without synchronous calls only the worker cancels timeouts and only it works
\* on a Metadata.
LEMMA OthersLeaveWorker ==
    ASSUME Inv, Held, WorkerOK, NEW t \in Threads \ {Worker}, Others(t),
           UNCHANGED invalid, \A id \in Ids : entries'[id] = entries[id]
    PROVE  WorkerOK'
<1>1. pc'[Worker] = pc[Worker] /\ job'[Worker] = job[Worker]
  BY ThreadFacts DEF Others
<1>2. pc[Worker] \in Calling => job[Worker].entry \in Ids
  BY ThreadFacts DEF Inv, ThreadsOK, Fits
<1> QED BY <1>1, <1>2 DEF WorkerOK, Bound

\* A timeout that is still valid makes a transition fire.
LEMMA ValidFires ==
    ASSUME Inv, Activations, NEW t \in Threads, Run(t) \in Runs, NEW id \in Ids, Valid(id),
           entries[id].run = Run(t), job[t].event = entries[id].event
    PROVE  Fires(t) # {}
<1>1. /\ entries[id].event \in Timeouts(entries[id].state)
      /\ entries[id].state = Record(t).current
  BY DEF Activations, ValidOK, Record
<1>2. PICK mv \in Moves : /\ mv.from = Record(t).current
                          /\ mv.on = job[t].event
  BY <1>1 DEF Timeouts
<1> QED BY <1>2 DEF Fires

LEMMA WorkerCallOK ==
    ASSUME Inv, Inv', Held, Activations, WorkerOK, CallStep(Worker) PROVE WorkerOK'
<1> DEFINE t == Worker
<1>1. /\ t \in Threads /\ Fits(t, pc[t], job[t]) /\ job[t] \in Job
  BY ThreadFacts DEF Inv, ThreadsOK, ThreadType
<1>2. pc[t] \in Calling
  BY DEF CallStep, SendCheck, SendPush, SendSubmit, Lock, React, CancelNext, Leave, Act,
     EnterState, Schedule, Arm, Calling, Dispatching, Sending
<1>3. job[t].entry \in Ids /\ job[t].run = entries[job[t].entry].run /\ Run(t) \in Runs
  BY <1>1, <1>2 DEF Fits, WorkerOK, Run
<1>4. CASE SendCheck(t) \/ SendSubmit(t) \/ SendPush(t) \/ Act(t) \/ EnterState(t)
           \/ (Schedule(t) /\ pc'[t] = "arm") \/ Arm(t)
  <2>1. /\ job'[t].entry = job[t].entry /\ job'[t].run = job[t].run
        /\ pc[t] \in {"act", "enter", "schedule", "arm"} \cup Sending
        /\ pc'[t] \in {"act", "enter", "schedule", "arm"} \cup Sending
        /\ UNCHANGED invalid
    <3>1. CASE SendCheck(t) \/ SendSubmit(t)
      <4>1. InAction(t)
        BY <1>1, <3>1 DEF Fits, SendCheck, SendSubmit, InAction, Sending, Calling
      <4> QED BY <1>1, <3>1, <4>1, SendCheckEffect, SendSubmitEffect
           DEF Returned, SameCall, Step, store, Sending
    <3>2. CASE SendPush(t)
      BY <1>1, <3>2, SendPushEffect DEF Made, SameCall, Step, Sending
    <3>3. CASE Act(t)
      BY <1>1, <3>3, ActEffect DEF SameCall, store, Sending
    <3>4. CASE EnterState(t)
      BY <1>1, <3>4, EnterStateEffect DEF Step, Job, store
    <3>5. CASE Schedule(t) /\ pc'[t] = "arm"
      BY <1>1, <3>5, ScheduleEffect DEF Made, SameCall
    <3>6. CASE Arm(t)
      BY <1>1, <3>6, ArmEffect DEF Step, Job
    <3> QED BY <1>4, <3>1, <3>2, <3>3, <3>4, <3>5, <3>6
  <2>2. \A id \in Ids : entries'[id] = entries[id]
    <3>1. entries \in Seq(Entry)
      BY DEF Inv, StoreType
    <3>2. CASE SendPush(t)
      BY <1>1, <3>1, <3>2, SendPushEffect DEF Made, Ids
    <3>3. CASE Schedule(t) /\ pc'[t] = "arm"
      <4>1. \E x : Made(t, x)
        BY <1>1, <3>3, ScheduleEffect
      <4> QED BY <3>1, <4>1 DEF Made, Ids
    <3>4. CASE UNCHANGED entries
      BY <3>4
    <3> QED BY <1>1, <1>4, <3>2, <3>3, <3>4, SendCheckEffect, SendSubmitEffect, ActEffect,
               EnterStateEffect, ArmEffect DEF store
  <2> QED BY <1>2, <1>3, <2>1, <2>2 DEF WorkerOK, Bound, Calling, Dispatching, Sending
<1>5. CASE Lock(t)
  BY <1>1, <1>2, <1>3, <1>5, LockEffect DEF WorkerOK, Step, store, Bound, Calling, Dispatching
<1>6. CASE React(t)
  <2>1. pc[t] = "react" /\ UNCHANGED <<entries, invalid>>
    BY <1>1, <1>6, ReactEffect DEF store
  <2>2. CASE pc'[t] = "leave"
    BY <1>1, <1>2, <1>3, <1>6, <2>1, <2>2, ReactEffect DEF WorkerOK, Bound, Calling, Dispatching
  <2>3. CASE pc'[t] = "take"
    BY <1>1, <1>6, <2>1, <2>3, ReactEffect
       DEF WorkerOK, NoJob, Calling, Dispatching, Sending
  <2>4. CASE pc'[t] = "react"
    <3>1. /\ Fires(t) = {} /\ job[t].event # Null /\ job'[t].event = Null
          /\ job'[t].run = job[t].run /\ job'[t].entry = job[t].entry
      BY <1>1, <1>6, <2>1, <2>4, ReactEffect
    <3>2. Bound(job[t].entry) => job[t].entry \in invalid
      BY <1>1, <1>2, <1>3, <2>1, <3>1, ValidFires DEF WorkerOK, Valid, Run
    <3> QED BY <1>2, <1>3, <2>1, <2>4, <3>1, <3>2 DEF WorkerOK, Bound
  <2> QED BY <1>1, <1>6, <2>1, <2>2, <2>3, <2>4, ReactEffect
<1>7. CASE CancelNext(t)
  BY <1>1, <1>2, <1>3, <1>7, CancelNextEffect DEF WorkerOK, Bound
<1>8. CASE Leave(t)
  <2>1. /\ pc[t] = "leave" /\ pc'[t] = "act" /\ UNCHANGED <<entries, invalid, job>>
        /\ Record(t).alarms = {}
    BY <1>1, <1>8, LeaveEffect DEF Step, store
  <2>2. Bound(job[t].entry) => job[t].entry \in invalid
    BY <1>1, <1>3, <2>1, NoneValid DEF Valid, Dispatching, Run, Activations
  <2> QED BY <1>2, <1>3, <2>1, <2>2 DEF WorkerOK, Bound
<1>9. CASE Schedule(t) /\ pc'[t] # "arm"
  <2>1. /\ pc[t] = "schedule" /\ pc'[t] = "react" /\ UNCHANGED <<entries, invalid>>
        /\ job'[t].event = Null /\ job'[t].run = job[t].run /\ job'[t].entry = job[t].entry
    BY <1>1, <1>9, ScheduleEffect DEF Job
  <2> QED BY <1>2, <1>3, <2>1 DEF WorkerOK, Bound
<1> QED BY <1>4, <1>5, <1>6, <1>7, <1>8, <1>9 DEF CallStep

LEMMA WorkerNext ==
    ASSUME Direct = {}, Inv, Inv', Held, Alone, Activations, WorkerOK, [Next]_vars
    PROVE  WorkerOK'
<1>1. ASSUME NEW t \in Clients, CallStep(t) PROVE WorkerOK'
  <2>1. pc[t] \notin {"lock"} \cup Dispatching /\ t \in Threads \ {Worker}
    BY ThreadFacts DEF Alone
  <2>2. SendCheck(t) \/ SendPush(t) \/ SendSubmit(t)
    BY <1>1, <2>1 DEF CallStep, Lock, React, CancelNext, Leave, Act, EnterState, Schedule,
       Arm, Dispatching
  <2>3. Others(t) /\ UNCHANGED invalid
    BY <2>1, <2>2, SendCheckEffect, SendPushEffect, SendSubmitEffect
       DEF Returned, Step, store, Made
  <2>4. \A id \in Ids : entries'[id] = entries[id]
    <3>1. entries \in Seq(Entry)
      BY DEF Inv, StoreType
    <3>2. CASE SendPush(t)
      BY <2>1, <3>1, <3>2, SendPushEffect DEF Made, Ids
    <3> QED BY <2>1, <2>2, <3>2, SendCheckEffect, SendSubmitEffect DEF store
  <2> QED BY <2>1, <2>3, <2>4, OthersLeaveWorker
<1>2. CASE CallStep(Worker)
  BY <1>2, WorkerCallOK
<1>3. CASE TimerStep
  BY <1>3, TimerEffect, ThreadFacts, OthersLeaveWorker
<1>4. CASE WorkerTake \/ WorkerValid
  <2>1. pc'[Worker] \in {"valid", "exited", "take", "bound"} /\ UNCHANGED <<entries, invalid>>
    BY <1>4, WorkerTakeEffect, WorkerValidEffect DEF store
  <2>2. /\ pc'[Worker] = "take" => job'[Worker].entry = 0
        /\ pc'[Worker] = "bound" => job'[Worker].entry \notin invalid
    BY <1>4, WorkerTakeEffect, WorkerValidEffect
  <2> QED BY <2>1, <2>2 DEF WorkerOK, Calling, Dispatching, Sending
<1>5. CASE WorkerBound
  <2>1. CASE pc'[Worker] = "take"
    BY <1>5, <2>1, WorkerBoundEffect DEF WorkerOK, Calling, Dispatching, Sending
  <2>2. CASE pc'[Worker] = "lock"
    <3> DEFINE id == job[Worker].entry
    <3>1. /\ UNCHANGED <<entries, invalid>> /\ id \notin invalid /\ id \in Ids
          /\ job'[Worker].entry = id /\ job'[Worker].run = entries[id].run
          /\ job'[Worker].event = entries[id].event
      BY <1>5, <2>2, WorkerBoundEffect DEF store, WorkerOK
    <3>2. Bound(id) => entries[id].event # Null
      BY <3>1, AsyncAssumption DEF Activations, ValidOK, Valid, Timeouts
    <3> QED BY <2>2, <3>1, <3>2 DEF WorkerOK, Bound
  <2> QED BY <1>5, <2>1, <2>2, WorkerBoundEffect
<1>6. ASSUME NEW t \in Clients, NEW m \in Runs,
             StartRun(t, m) \/ \E e \in Sendable : DispatchRun(t, m, e)
      PROVE  WorkerOK'
  <2>1. UserCall(t, m)
    BY <1>6, StartRunEffect, DispatchRunEffect
  <2> QED BY <2>1, ThreadFacts, OthersLeaveWorker DEF UserCall, Step, store
<1>7. ASSUME NEW t \in Owners, OwnerStep(t) PROVE WorkerOK'
  BY <1>7, OwnerEffect, ThreadFacts, OthersLeaveWorker
<1>8. CASE UNCHANGED vars
  BY <1>8 DEF WorkerOK, Bound, vars, store
<1> QED BY <1>1, <1>2, <1>3, <1>4, <1>5, <1>6, <1>7, <1>8 DEF Next, WorkerStep, OwnerStep

LEMMA WorkerInvariant ==
    ASSUME Direct = {}, Restart = FALSE PROVE Spec => []WorkerOK
<1>1. Init => WorkerOK
  BY ThreadFacts DEF Init, WorkerOK, NoJob, Calling, Dispatching, Sending
<1>2. Inv /\ Inv' /\ Held /\ Alone /\ Activations /\ WorkerOK /\ [Next]_vars => WorkerOK'
  BY WorkerNext
<1> QED BY <1>1, <1>2, HeldInvariant, AloneInvariant, ActivationsInvariant, PTL DEF Spec

\* TimeoutEvent.hpp:33: without synchronous calls and restarts a timeout makes
\* something fire only in the activation that scheduled it, and never after it
\* was cancelled, although markInvalid, the queue, the pool and the worker's two
\* tests are steps of three threads.
THEOREM TimeoutsInTime ==
    ASSUME Direct = {}, Restart = FALSE PROVE Spec => []TimeoutOfThisActivation
<1>1. Inv /\ Activations /\ WorkerOK => TimeoutOfThisActivation
  <2> SUFFICES ASSUME Inv, Activations, WorkerOK, pc[Worker] = "react",
                      job[Worker].event \in Timed, Bound(job[Worker].entry)
               PROVE  /\ entries[job[Worker].entry].activation = Record(Worker).activation
                      /\ job[Worker].entry \notin invalid
    BY DEF TimeoutOfThisActivation
  <2>1. job[Worker].entry \in Ids
    BY ThreadFacts DEF Inv, ThreadsOK, Fits, Calling, Dispatching
  <2>2. job[Worker].entry \notin invalid
    BY AsyncAssumption DEF WorkerOK, Calling, Dispatching
  <2>3. Run(Worker) = entries[job[Worker].entry].run
    BY DEF WorkerOK, Calling, Dispatching, Run
  <2> QED BY <2>1, <2>2, <2>3 DEF Activations, ValidOK, Valid, Record
<1> QED BY <1>1, WorkerInvariant, ActivationsInvariant, Invariant, PTL

(***************************************************************************)
(* Where timeouts are                                                      *)
(***************************************************************************)
LEMMA RunningNext == ASSUME Inv, RunningOK, [Next]_vars PROVE RunningOK'
<1>1. ASSUME NEW t \in Threads, t # Timer, t \notin Owners, Others(t), UNCHANGED engine
      PROVE  RunningOK'
  BY <1>1, ThreadFacts DEF RunningOK, Others, engine
<1>2. ASSUME NEW t \in Clients \cup {Worker}, CallStep(t) PROVE RunningOK'
  <2>1. t \in Threads /\ t # Timer /\ t \notin Owners
    BY ThreadFacts
  <2>2. Others(t) /\ UNCHANGED engine
    BY <1>2, <2>1, SendCheckEffect, SendPushEffect, SendSubmitEffect, LockEffect, ReactEffect,
       CancelNextEffect, LeaveEffect, ActEffect, EnterStateEffect, ScheduleEffect, ArmEffect
       DEF CallStep, Returned, Step, Others
  <2> QED BY <1>1, <2>1, <2>2
<1>3. CASE TimerStep
  BY <1>3, TimerEffect, ThreadFacts DEF RunningOK, Others, engine
<1>4. CASE WorkerTake \/ WorkerValid \/ WorkerBound
  BY <1>1, <1>4, WorkerTakeEffect, WorkerValidEffect, WorkerBoundEffect, ThreadFacts
<1>5. ASSUME NEW t \in Clients, NEW m \in Runs,
             StartRun(t, m) \/ \E e \in Sendable : DispatchRun(t, m, e)
      PROVE  RunningOK'
  <2>1. UserCall(t, m)
    BY <1>5, StartRunEffect, DispatchRunEffect
  <2> QED BY <1>1, <2>1, ThreadFacts DEF UserCall, Step
<1>6. ASSUME NEW t \in Owners, OwnerStep(t) PROVE RunningOK'
  BY <1>6, OwnerEffect DEF RunningOK
<1>7. CASE UNCHANGED vars
  BY <1>7 DEF RunningOK, vars, engine
<1> QED BY <1>2, <1>3, <1>4, <1>5, <1>6, <1>7 DEF Next, WorkerStep, OwnerStep

\* A thread of the user or the worker in a call takes no entry out of the queue,
\* the pool or a thread's hand, unless it is cancelled.
LEMMA WhereFrame ==
    ASSUME Where, NEW t \in Threads, Others(t), running' => running,
           pc[t] = "arm" => job[t].made \in queue',
           \A id \in Ids : entries'[id] = entries[id],
           invalid \subseteq invalid', queue \subseteq queue' \cup invalid',
           ToSet(pool) \subseteq ToSet(pool'),
           \A id \in Ids' \ Ids : Valid(id)' => Arming(id)',
           t \in {Worker, Timer} =>
              job[t].entry \in {0, job'[t].entry} \/ job[t].entry \in invalid'
                 \/ ~Bound(job[t].entry) \/ job[t].entry \in ToSet(pool') \cup queue'
    PROVE  Where'
<1> SUFFICES ASSUME running', NEW id \in Ids', Valid(id)', id \in Ids
             PROVE  id \in queue' \cup ToSet(pool') \cup InHand' \/ Arming(id)'
  BY DEF Where
<1>1. Valid(id) /\ running
  BY DEF Valid, Bound
<1>2. id \notin invalid'
  BY DEF Valid
<1>3. CASE Arming(id)
  BY <1>3 DEF Arming, Others
<1>4. CASE id \in queue \cup ToSet(pool)
  BY <1>2, <1>4
<1>5. CASE id \in InHand
  <2>1. PICK u \in {Worker, Timer} : id = job[u].entry /\ id # 0
    BY <1>5 DEF InHand
  <2>2. CASE u = t
    BY <1>1, <1>2, <2>1, <2>2 DEF InHand, Valid
  <2>3. CASE u # t
    BY <2>1, <2>3, ThreadFacts DEF Others, InHand
  <2> QED BY <2>2, <2>3
<1> QED BY <1>1, <1>3, <1>4, <1>5 DEF Where

LEMMA AppendedSet ==
    ASSUME NEW S, NEW q \in Seq(S), NEW x \in S PROVE ToSet(q) \subseteq ToSet(Append(q, x))
BY DEF ToSet

\* The worker takes the first task: the others stay in the pool.
LEMMA TakenSet ==
    ASSUME NEW S, NEW q \in Seq(S), q # <<>> PROVE ToSet(q) = {Head(q)} \cup ToSet(Tail(q))
<1>1. ASSUME NEW i \in 1 .. Len(q), i # 1 PROVE q[i] \in ToSet(Tail(q))
  <2>1. i - 1 \in 1 .. Len(Tail(q)) /\ Tail(q)[i - 1] = q[i]
    BY <1>1
  <2>2. DOMAIN Tail(q) = 1 .. Len(Tail(q))
    OBVIOUS
  <2>3. \A s : \A j \in DOMAIN s : s[j] \in ToSet(s)
    BY DEF ToSet
  <2> QED BY <2>1, <2>2, <2>3
<1>2. ASSUME NEW i \in 1 .. Len(Tail(q)) PROVE Tail(q)[i] \in ToSet(q)
  <2>1. i + 1 \in 1 .. Len(q) /\ Tail(q)[i] = q[i + 1]
    OBVIOUS
  <2> QED BY <2>1 DEF ToSet
<1>3. Head(q) = q[1] /\ 1 \in 1 .. Len(q)
  OBVIOUS
<1> QED BY <1>1, <1>2, <1>3 DEF ToSet

LEMMA CallKeepsWhere ==
    ASSUME Inv, Inv', Held, Activations, Where, NEW t \in Clients \cup {Worker}, CallStep(t),
           t = Worker => WorkerOK
    PROVE  Where'
<1>1. /\ t \in Threads /\ t # Timer /\ pool \in Seq(Ids) /\ entries \in Seq(Entry)
      /\ Fits(t, pc[t], job[t]) /\ job[t] \in Job
  BY ThreadFacts DEF Inv, StoreType, ThreadsOK, ThreadType
<1>2. ASSUME UNCHANGED <<entries, queue, pool, running>>, pc[t] # "arm", Others(t),
             invalid \subseteq invalid',
             job'[t].entry = job[t].entry \/ t # Worker \/ job[t].entry \in invalid
                \/ ~Bound(job[t].entry)
      PROVE  Where'
  BY <1>1, <1>2, WhereFrame DEF Ids
<1>3. t = Worker => InAction(t) \/ pc[t] \in {"lock", "react"}
  <2>1. t = Worker => pc[t] \in Calling
    BY DEF CallStep, SendCheck, SendPush, SendSubmit, Lock, React, CancelNext, Leave, Act,
       EnterState, Schedule, Arm, Calling, Dispatching, Sending
  <2> QED BY <1>1, <2>1 DEF Fits, InAction, Calling
<1>4. CASE SendCheck(t)
  <2>1. UNCHANGED <<entries, queue, pool, running, invalid>> /\ Others(t) /\ pc[t] = "send"
    BY <1>1, <1>4, SendCheckEffect DEF store, engine, Returned, Step
  <2>2. job'[t].entry = job[t].entry \/ t # Worker
    BY <1>1, <1>3, <1>4, SendCheckEffect DEF Returned, SameCall, Step
  <2> QED BY <1>2, <2>1, <2>2
<1>5. CASE SendSubmit(t)
  <2>1. /\ UNCHANGED <<entries, running, invalid>> /\ Others(t) /\ pc[t] = "submit"
        /\ queue \subseteq queue' /\ job[t].made \in Ids
        /\ pool' = pool \/ pool' = Append(pool, job[t].made)
    BY <1>1, <1>5, SendSubmitEffect DEF engine, Returned, Fits
  <2>2. job'[t].entry = job[t].entry \/ t # Worker
    BY <1>1, <1>3, <1>5, SendSubmitEffect DEF Returned, SameCall
  <2>3. ToSet(pool) \subseteq ToSet(pool')
    BY <1>1, <2>1, AppendedSet
  <2> QED BY <1>1, <2>1, <2>2, <2>3, WhereFrame DEF Ids
<1>6. CASE SendPush(t) \/ (Schedule(t) /\ pc'[t] = "arm")
  <2>1. PICK x : Made(t, x) /\ (x.state = Root \/ pc'[t] = "arm")
    <3>1. CASE SendPush(t)
      BY <1>1, <3>1, SendPushEffect
    <3>2. CASE Schedule(t) /\ pc'[t] = "arm"
      BY <1>1, <3>2, ScheduleEffect
    <3> QED BY <1>6, <3>1, <3>2
  <2>2. /\ Others(t) /\ UNCHANGED <<running, queue, pool, invalid>> /\ pc[t] # "arm"
        /\ job'[t].entry = job[t].entry /\ job'[t].made = Len(entries) + 1
    BY <1>1, <1>6, <2>1, SendPushEffect, ScheduleEffect DEF Made, SameCall, Step, engine
  <2>3. /\ \A id \in Ids : entries'[id] = entries[id]
        /\ Ids' = Ids \cup {Len(entries) + 1} /\ entries'[Len(entries) + 1] = x
    BY <1>1, <2>1 DEF Made, Ids
  <2>4. \A id \in Ids' \ Ids : Valid(id)' => Arming(id)'
    BY <1>1, <2>1, <2>2, <2>3 DEF Valid, Bound, Arming
  <2> QED BY <1>1, <2>2, <2>3, <2>4, WhereFrame
<1>7. CASE Lock(t) \/ Leave(t) \/ Act(t) \/ EnterState(t)
  <2>1. /\ UNCHANGED <<entries, queue, pool, running, invalid>> /\ Others(t) /\ pc[t] # "arm"
    BY <1>1, <1>7, LockEffect, LeaveEffect, ActEffect, EnterStateEffect DEF store, engine, Step
  <2>2. job'[t].entry = job[t].entry
    <3>1. CASE Lock(t) \/ Leave(t)
      BY <1>1, <3>1, LockEffect, LeaveEffect
    <3>2. CASE Act(t)
      BY <1>1, <3>2, ActEffect DEF SameCall
    <3>3. CASE EnterState(t)
      BY <1>1, <3>3, EnterStateEffect DEF Job
    <3> QED BY <1>7, <3>1, <3>2, <3>3
  <2> QED BY <1>2, <2>1, <2>2
<1>8. CASE React(t)
  <2>1. UNCHANGED <<entries, queue, pool, running, invalid>> /\ Others(t) /\ pc[t] = "react"
    BY <1>1, <1>8, ReactEffect DEF store, engine
  <2>2. \/ job'[t].entry = job[t].entry \/ t # Worker \/ job[t].entry \in invalid
        \/ ~Bound(job[t].entry)
    BY <1>1, <1>8, <2>1, ReactEffect DEF WorkerOK, Calling, Dispatching
  <2> QED BY <1>2, <2>1, <2>2
<1>9. CASE CancelNext(t)
  <2>1. PICK id \in Record(t).alarms : /\ invalid' = invalid \cup {id}
                                       /\ queue \ {id} \subseteq queue'
    BY <1>1, <1>9, CancelNextEffect
  <2>2. UNCHANGED <<entries, pool, running, pc, job>> /\ pc[t] = "leave"
    BY <1>1, <1>9, CancelNextEffect DEF engine
  <2> QED BY <1>1, <2>1, <2>2, WhereFrame DEF Ids, Others
<1>10. CASE Schedule(t) /\ pc'[t] # "arm"
  BY <1>1, <1>2, <1>10, ScheduleEffect DEF engine, Job
<1>11. CASE Arm(t)
  <2>1. /\ UNCHANGED <<entries, pool, running, invalid>> /\ Others(t)
        /\ queue' = queue \cup {job[t].made} /\ job'[t].entry = job[t].entry
    BY <1>1, <1>11, ArmEffect DEF engine, Step, Job
  <2> QED BY <1>1, <2>1, WhereFrame DEF Ids
<1> QED BY <1>4, <1>5, <1>6, <1>7, <1>8, <1>9, <1>10, <1>11 DEF CallStep

LEMMA TimerKeepsWhere ==
    ASSUME Inv, RunningOK, Where, TimerStep PROVE Where'
<1>1. /\ Timer \in Threads /\ pool \in Seq(Ids) /\ Fits(Timer, pc[Timer], job[Timer])
      /\ pc[Timer] # "arm" /\ Others(Timer) /\ UNCHANGED <<entries, invalid, running>>
  BY ThreadFacts, TimerEffect DEF Inv, StoreType, ThreadsOK, Fits, engine
<1>2. CASE UNCHANGED <<queue, pool, job>>
  BY <1>1, <1>2, WhereFrame DEF Ids
<1>3. CASE pc[Timer] = "check" /\ pc'[Timer] = "loop"
  BY <1>1, <1>3, TimerEffect, WhereFrame DEF Ids
<1>4. CASE pc[Timer] = "execute" /\ running
  <2>1. job[Timer].entry \in Ids /\ pool' = Append(pool, job[Timer].entry) /\ queue' = queue
    BY <1>1, <1>4, TimerEffect DEF Fits, Accept, RunningOK
  <2>2. job[Timer].entry \in ToSet(pool')
    <3>1. pool'[Len(pool')] = job[Timer].entry /\ Len(pool') \in 1 .. Len(pool')
      BY <1>1, <2>1
    <3> QED BY <3>1 DEF ToSet
  <2> QED BY <1>1, <2>1, <2>2, AppendedSet, WhereFrame DEF Ids
<1>5. CASE pc[Timer] = "take" /\ pc'[Timer] = "check" /\ running
  <2>1. /\ UNCHANGED pool /\ queue' = queue \ {job'[Timer].entry}
        /\ job[Timer].entry = 0 /\ job'[Timer].entry \in Ids
    BY <1>5, TimerEffect DEF RunningOK, Inv, StoreType
  <2>2. job'[Timer].entry \in InHand'
    BY <2>1 DEF InHand, Ids
  <2> SUFFICES ASSUME NEW id \in Ids, Valid(id)
               PROVE  id \in queue' \cup ToSet(pool') \cup InHand' \/ Arming(id)'
    BY <1>1 DEF Where, Ids, Valid, Bound
  <2>3. CASE Arming(id)
    BY <1>1, <2>3 DEF Arming, Others
  <2>4. CASE id \in InHand
    BY <1>1, <2>1, <2>4, ThreadFacts DEF InHand, Others
  <2> QED BY <1>5, <2>1, <2>2, <2>3, <2>4 DEF Where
<1> QED BY <1>1, <1>2, <1>3, <1>4, <1>5, TimerEffect DEF Where

LEMMA WorkerKeepsWhere ==
    ASSUME Inv, Alone, Activations, WorkerOK, RunningOK, Where,
           WorkerTake \/ WorkerValid \/ WorkerBound
    PROVE  Where'
<1>1. /\ Worker \in Threads /\ pool \in Seq(Ids) /\ pc[Worker] # "arm" /\ Others(Worker)
      /\ UNCHANGED <<entries, invalid, running, queue>>
  BY ThreadFacts, WorkerTakeEffect, WorkerValidEffect, WorkerBoundEffect
     DEF Inv, StoreType, engine, store
<1>2. CASE UNCHANGED <<pool, job>>
  BY <1>1, <1>2, WhereFrame DEF Ids
<1>3. CASE WorkerTake /\ pool # <<>> /\ running /\ pool' = Tail(pool)
           /\ job'[Worker].entry = Head(pool)
  <2>1. ToSet(pool) = {Head(pool)} \cup ToSet(pool') /\ job[Worker].entry = 0
    BY <1>1, <1>3, TakenSet, WorkerTakeEffect DEF WorkerOK
  <2>2. Head(pool) \in InHand'
    <3>1. Head(pool) \in Ids
      BY <1>1, <1>3
    <3> QED BY <1>3, <3>1 DEF InHand, Ids
  <2> SUFFICES ASSUME NEW id \in Ids, Valid(id)
               PROVE  id \in queue' \cup ToSet(pool') \cup InHand' \/ Arming(id)'
    BY <1>1 DEF Where, Ids, Valid, Bound
  <2>3. CASE Arming(id)
    BY <1>1, <2>3 DEF Arming, Others
  <2>4. CASE id \in InHand
    BY <1>1, <2>1, <2>4, ThreadFacts DEF InHand, Others
  <2> QED BY <1>1, <1>3, <2>1, <2>2, <2>3, <2>4 DEF Where
<1>4. CASE WorkerValid
  BY <1>1, <1>4, WorkerValidEffect, WhereFrame DEF store, Ids
<1>5. CASE WorkerBound
  <2> DEFINE id == job[Worker].entry
  <2>1. UNCHANGED pool /\ id \in Ids
    BY <1>5, WorkerBoundEffect DEF store
  <2>2. CASE job'[Worker].entry = id
    BY <1>1, <2>1, <2>2, WhereFrame DEF Ids
  <2>3. CASE ~StateActive(entries[id].run, entries[id].state) \/ MapChanging(entries[id].run)
    <3>1. ~MapChanging(entries[id].run)
      <4> SUFFICES ASSUME MapChanging(entries[id].run) PROVE FALSE
        OBVIOUS
      <4> DEFINE m == entries[id].run
                 u == holder[m]
      <4>1. m \in Runs /\ u \in Threads /\ pc[u] \in Dispatching
        BY <2>1, EntryFields DEF MapChanging, Inv, EngineType, Dispatching
      <4>2. u \in Clients \cup {Worker}
        BY <4>1, ThreadFacts DEF Inv, ThreadsOK, Fits, Threads, Dispatching, Stopping
      <4> QED BY <1>5, <4>1, <4>2, WorkerBoundEffect DEF Alone, Dispatching
    <3>2. Bound(id) => id \in invalid
      <4> SUFFICES ASSUME Valid(id) PROVE FALSE
        BY DEF Valid
      <4>1. /\ entries[id].state = md[entries[id].run].current
            /\ md[entries[id].run].active
        BY <2>1 DEF Activations, ValidOK
      <4>2. entries[id].state # Null
        BY <2>1, EntryFields, AsyncAssumption DEF Valid
      <4> QED BY <2>3, <3>1, <4>1, <4>2 DEF StateActive
    <3> QED BY <1>1, <2>1, <3>2, WhereFrame DEF Ids
  <2> QED BY <1>5, <2>2, <2>3, WorkerBoundEffect
<1>6. CASE WorkerTake /\ ~running
  BY <1>1, <1>6 DEF Where
<1> QED BY <1>1, <1>2, <1>3, <1>4, <1>5, <1>6, WorkerTakeEffect DEF Inv, EngineType, engine

LEMMA WhereNext ==
    ASSUME Direct = {}, Inv, Inv', Held, Alone, Activations, WorkerOK, RunningOK, Where,
           [Next]_vars
    PROVE  Where'
<1>1. ASSUME NEW t \in Clients \cup {Worker}, CallStep(t) PROVE Where'
  BY <1>1, CallKeepsWhere
<1>2. CASE TimerStep
  BY <1>2, TimerKeepsWhere
<1>3. CASE WorkerTake \/ WorkerValid \/ WorkerBound
  BY <1>3, WorkerKeepsWhere
<1>4. ASSUME NEW t \in Clients, NEW m \in Runs,
             StartRun(t, m) \/ \E e \in Sendable : DispatchRun(t, m, e)
      PROVE  Where'
  <2>1. UserCall(t, m)
    BY <1>4, StartRunEffect, DispatchRunEffect
  <2>2. /\ UNCHANGED <<entries, queue, pool, running, invalid>> /\ Others(t) /\ pc[t] # "arm"
        /\ t \in Threads /\ t \notin {Worker, Timer}
    BY <2>1, ThreadFacts DEF UserCall, Step, store, engine
  <2> QED BY <2>2, WhereFrame DEF Ids
<1>5. ASSUME NEW t \in Owners, OwnerStep(t) PROVE Where'
  <2>1. /\ UNCHANGED <<entries, pool, invalid, job>> /\ Others(t) /\ t \in Threads
        /\ running' => pc[t] \in Stopping /\ running
    BY <1>5, OwnerEffect, ThreadFacts
  <2> QED BY <2>1 DEF Where, RunningOK
<1>6. CASE UNCHANGED vars
  BY <1>6 DEF Where, Valid, Bound, InHand, Arming, Ids, vars, store, engine
<1> QED BY <1>1, <1>2, <1>3, <1>4, <1>5, <1>6 DEF Next, WorkerStep, OwnerStep

LEMMA ScheduledFrame ==
    ASSUME Inv, Scheduled, NEW t \in Threads, Others(t), UNCHANGED md,
           \A id \in Ids : entries'[id] = entries[id], running' => running,
           \A m \in Runs : holder[m] # t => holder'[m] = holder[m] \/ holder[m] = Null,
           running => \A m \in Runs : \A e :
              holder[m] = t /\ Busy(t, e) => holder'[m] = t /\ Busy(t, e)'
    PROVE  Scheduled'
<1> SUFFICES ASSUME running', NEW m \in Runs, NEW e \in Timeouts(md[m].current)
             PROVE  Remembered(m, e)' \/ \E u \in Threads : holder'[m] = u /\ Busy(u, e)'
  BY DEF Scheduled
<1>1. CASE Remembered(m, e)
  <2>1. md[m].alarms \subseteq Ids
    BY DEF Inv, MdType, MdRecord
  <2> QED BY <1>1, <2>1 DEF Remembered
<1>2. ASSUME NEW u \in Threads, holder[m] = u, Busy(u, e)
      PROVE  holder'[m] = u /\ Busy(u, e)'
  <2>1. CASE u = t
    BY <1>2, <2>1
  <2>2. CASE u # t
    BY <1>2, <2>2, AsyncAssumption DEF Others, Busy
  <2> QED BY <2>1, <2>2
<1> QED BY <1>1, <1>2 DEF Scheduled

\* A step on the record of the Metadata that t works on.
LEMMA ScheduledOwn ==
    ASSUME Inv, Scheduled, NEW t \in Threads, Others(t), holder[Run(t)] = t,
           \A m \in Runs \ {Run(t)} : md'[m] = md[m],
           UNCHANGED <<entries, holder>>, running' => running,
           \A e \in Timeouts(md'[Run(t)].current) :
              Busy(t, e)' \/ \E id \in md'[Run(t)].alarms : entries'[id].event = e
    PROVE  Scheduled'
<1> SUFFICES ASSUME running', NEW m \in Runs, NEW e \in Timeouts(md'[m].current)
             PROVE  Remembered(m, e)' \/ \E u \in Threads : holder'[m] = u /\ Busy(u, e)'
  BY DEF Scheduled
<1>1. CASE m = Run(t)
  BY <1>1 DEF Remembered
<1>2. CASE m # Run(t)
  <2>1. holder[m] # t
    BY <1>2 DEF Inv, ThreadsOK, Fits, Run
  <2> QED BY <1>2, <2>1 DEF Scheduled, Remembered, Others, Busy
<1> QED BY <1>1, <1>2

LEMMA CallKeepsScheduled ==
    ASSUME Inv, Activations, Scheduled, NEW t \in Clients \cup {Worker}, CallStep(t)
    PROVE  Scheduled'
<1>1. /\ t \in Threads /\ entries \in Seq(Entry) /\ job[t] \in Job
      /\ Fits(t, pc[t], job[t]) /\ TransitionOf(t)
  BY ThreadFacts DEF Inv, StoreType, ThreadsOK, ThreadType, Activations, TransitionOK
<1>2. CASE SendCheck(t) \/ SendPush(t) \/ SendSubmit(t)
  <2>1. /\ Others(t) /\ UNCHANGED <<md, running, holder>>
        /\ InAction(t) => pc'[t] \in {"enter"} \cup Sending
    BY <1>1, <1>2, SendCheckEffect, SendPushEffect, SendSubmitEffect
       DEF Returned, Step, Sending, engine
  <2>2. \A id \in Ids : entries'[id] = entries[id]
    <3>1. CASE SendPush(t)
      BY <1>1, <3>1, SendPushEffect DEF Made, Ids
    <3> QED BY <1>1, <1>2, <3>1, SendCheckEffect, SendSubmitEffect DEF store
  <2> QED BY <1>1, <2>1, <2>2, ScheduledFrame DEF Busy, InAction
<1>3. CASE Lock(t)
  <2>1. /\ pc[t] = "lock" /\ Others(t) /\ UNCHANGED <<entries, md, running>>
        /\ holder[Run(t)] = Null /\ holder' = [holder EXCEPT ![Run(t)] = t]
    BY <1>1, <1>3, LockEffect DEF store, engine, Step
  <2>2. holder \in [Runs -> Threads \cup {Null}]
    BY DEF Inv, EngineType
  <2>3. \A e : ~Busy(t, e)
    BY <2>1 DEF Busy, Sending
  <2> QED BY <1>1, <2>1, <2>2, <2>3, ScheduledFrame
<1>4. CASE React(t)
  <2>1. /\ pc[t] = "react" /\ Others(t) /\ UNCHANGED <<entries, md, running>>
        /\ holder' = holder \/ holder' = [holder EXCEPT ![Run(t)] = Null]
    BY <1>1, <1>4, ReactEffect DEF store, engine
  <2>2. holder[Run(t)] = t
    BY <1>1, <2>1, Holds DEF Dispatching
  <2>3. holder \in [Runs -> Threads \cup {Null}]
    BY DEF Inv, EngineType
  <2> QED BY <1>1, <2>1, <2>2, <2>3, ScheduledFrame DEF Busy, Sending
<1>5. CASE Act(t)
  BY <1>1, <1>5, ActEffect, ScheduledFrame DEF store, engine, Busy, Sending
<1>6. CASE Schedule(t)
  <2>1. Others(t) /\ UNCHANGED <<md, running, holder>> /\ pc[t] = "schedule"
    BY <1>1, <1>6, ScheduleEffect DEF engine
  <2>2. CASE pc'[t] = "arm"
    <3>1. PICK x : Made(t, x)
      BY <1>1, <1>6, <2>2, ScheduleEffect
    <3>2. job'[t].todo = job[t].todo /\ \A id \in Ids : entries'[id] = entries[id]
      BY <1>1, <3>1 DEF Made, SameCall, Ids
    <3> QED BY <1>1, <2>1, <2>2, <3>2, ScheduledFrame DEF Busy, Sending
  <2>3. CASE pc'[t] = "react"
    <3>1. UNCHANGED entries /\ (running => job[t].todo = {})
      BY <1>1, <1>6, <2>3, ScheduleEffect
    <3> QED BY <1>1, <2>1, <3>1, ScheduledFrame DEF Busy, Sending
  <2> QED BY <1>1, <1>6, <2>2, <2>3, ScheduleEffect
<1>7. CASE CancelNext(t)
  <2>1. /\ pc[t] = "leave" /\ UNCHANGED <<entries, running, holder, pc, job>>
        /\ \A m \in Runs \ {Run(t)} : md'[m] = md[m]
    BY <1>1, <1>7, CancelNextEffect DEF engine, Alarms
  <2> QED BY <1>1, <2>1, Holds, ScheduledOwn DEF Others, Busy, Dispatching
<1>8. CASE Leave(t)
  <2>1. /\ pc[t] = "leave" /\ pc'[t] = "act" /\ UNCHANGED <<entries, running, holder>>
        /\ \A m \in Runs \ {Run(t)} : md'[m] = md[m] /\ UNCHANGED job /\ Others(t)
    BY <1>1, <1>8, LeaveEffect DEF engine, store, Step
  <2> QED BY <1>1, <1>8, <2>1, Holds, ScheduledOwn, LeaveEffect DEF Step, Busy, Dispatching
<1>9. CASE EnterState(t)
  <2>1. /\ pc[t] = "enter" /\ pc'[t] = "schedule" /\ UNCHANGED <<entries, running, holder>>
        /\ \A m \in Runs \ {Run(t)} : md'[m] = md[m]
        /\ Others(t) /\ md'[Run(t)].current = job[t].to
    BY <1>1, <1>9, EnterStateEffect DEF engine, store, Step
  <2>2. job'[t].todo = Timeouts(job[t].to)
    BY <1>1, <1>9, EnterStateEffect DEF Job
  <2> QED BY <1>1, <2>1, <2>2, Holds, ScheduledOwn DEF Busy, Dispatching
<1>10. CASE Arm(t)
  <2>1. /\ pc[t] = "arm" /\ pc'[t] = "schedule" /\ Others(t)
        /\ Alarms(t, Record(t).alarms \cup {job[t].made})
        /\ UNCHANGED <<entries, running, holder>>
    BY <1>1, <1>10, ArmEffect DEF engine, Step
  <2>2. job'[t].todo = job[t].todo \ {entries[job[t].made].event}
    BY <1>1, <1>10, ArmEffect DEF Job
  <2>3. Run(t) \in Runs /\ holder[Run(t)] = t
    BY <1>1, <2>1, Holds DEF Dispatching
  <2> SUFFICES ASSUME running', NEW e \in Timeouts(md'[Run(t)].current)
               PROVE  Busy(t, e)' \/ \E id \in md'[Run(t)].alarms : entries'[id].event = e
    BY <1>1, <2>1, <2>3, ScheduledOwn DEF Alarms, Scheduled
  <2>4. Remembered(Run(t), e) \/ Busy(t, e)
    BY <2>1, <2>3 DEF Scheduled, Alarms, Record
  <2>5. CASE Remembered(Run(t), e)
    BY <2>1, <2>5 DEF Remembered, Alarms, Record
  <2>6. CASE Busy(t, e)
    BY <2>1, <2>2, <2>6 DEF Busy, Alarms, Sending
  <2> QED BY <2>4, <2>5, <2>6
<1> QED BY <1>2, <1>3, <1>4, <1>5, <1>6, <1>7, <1>8, <1>9, <1>10 DEF CallStep

LEMMA ScheduledNext ==
    ASSUME Timeouts(StartState) = {}, Inv, Activations, Scheduled, [Next]_vars
    PROVE  Scheduled'
<1>1. ASSUME NEW t \in Clients \cup {Worker}, CallStep(t) PROVE Scheduled'
  BY <1>1, CallKeepsScheduled
<1>2. ASSUME NEW t \in Threads, Others(t), UNCHANGED <<md, entries, holder>>,
             running' => running, pc[t] \notin Dispatching \cup Sending
      PROVE  Scheduled'
  BY <1>2, ScheduledFrame DEF Busy, Dispatching
<1>3. CASE TimerStep
  <2>1. Timer \in Threads /\ Fits(Timer, pc[Timer], job[Timer])
    BY ThreadFacts DEF Inv, ThreadsOK
  <2> QED BY <1>2, <1>3, <2>1, TimerEffect DEF Fits, Dispatching, Sending, engine
<1>4. CASE WorkerTake \/ WorkerValid \/ WorkerBound
  BY <1>2, <1>4, WorkerTakeEffect, WorkerValidEffect, WorkerBoundEffect, ThreadFacts
     DEF Dispatching, Sending, engine, store
<1>5. ASSUME NEW t \in Clients, NEW m \in Runs, StartRun(t, m) PROVE Scheduled'
  <2>1. /\ t \in Threads /\ Others(t) /\ pc[t] = "idle" /\ pc'[t] \in {"send", "lock"}
        /\ UNCHANGED <<entries, holder, running>>
        /\ md'[m].current = StartState
        /\ \A r \in Runs \ {m} : md'[r] = md[r]
    BY <1>5, StartRunEffect, ThreadFacts DEF UserCall, Step, store, engine
  <2>2. \A r \in Runs : holder[r] # t
    BY <2>1, ThreadFacts DEF Inv, ThreadsOK, Fits, Dispatching, Sending
  <2> QED BY <2>1, <2>2 DEF Scheduled, Remembered, Others, Busy
<1>6. ASSUME NEW t \in Clients, NEW m \in Runs, NEW e \in Sendable, DispatchRun(t, m, e)
      PROVE  Scheduled'
  BY <1>2, <1>6, DispatchRunEffect, ThreadFacts
     DEF UserCall, Step, store, engine, Dispatching, Sending
<1>7. ASSUME NEW t \in Owners, OwnerStep(t) PROVE Scheduled'
  <2>1. t \in Threads /\ Fits(t, pc[t], job[t])
    BY ThreadFacts DEF Inv, ThreadsOK
  <2> QED BY <1>2, <1>7, <2>1, OwnerEffect, ThreadFacts
          DEF Fits, Stopping, Dispatching, Sending
<1>8. CASE UNCHANGED vars
  BY <1>8 DEF Scheduled, Remembered, Busy, vars, store, engine
<1> QED BY <1>1, <1>3, <1>4, <1>5, <1>6, <1>7, <1>8 DEF Next, WorkerStep, OwnerStep

\* getting-started.md:90: then also each timeout of the current state is in the
\* queue, the pool or a thread's hand until shutdown begins.  The start state has
\* none, since starting a Metadata schedules nothing.
THEOREM TimeoutsKept ==
    ASSUME Direct = {}, Restart = FALSE, Timeouts(StartState) = {}
    PROVE  Spec => []NoTimeoutLost
<1> DEFINE All == Inv /\ Held /\ Alone /\ Activations /\ WorkerOK
           Rest == RunningOK /\ Where /\ Scheduled
<1>1. Init => Rest
  <2> SUFFICES ASSUME Init PROVE Rest
    OBVIOUS
  <2>1. Ids = {} /\ \A m \in Runs : md[m].current = Null
    BY DEF Init, Ids
  <2>2. Timeouts(Null) = {}
    BY AsyncAssumption DEF Timeouts, ChartStates
  <2>3. RunningOK
    BY ThreadFacts DEF Init, RunningOK, NoJob, Stopping
  <2> QED BY <2>1, <2>2, <2>3 DEF Where, Scheduled
<1>2. All /\ All' /\ Rest /\ [Next]_vars => Rest'
  BY RunningNext, WhereNext, ScheduledNext
<1>3. All /\ Rest => NoTimeoutLost
  <2> SUFFICES ASSUME All, Rest, NEW m \in Runs, holder[m] = Null, running,
                      NEW e \in Timeouts(md[m].current)
               PROVE  \E id \in md[m].alarms :
                         /\ entries[id].event = e /\ id \notin invalid
                         /\ entries[id].activation = md[m].activation
                         /\ id \in queue \cup ToSet(pool) \cup InHand
    BY DEF NoTimeoutLost
  <2>1. PICK id \in md[m].alarms : entries[id].event = e
    BY AsyncAssumption DEF Scheduled, Remembered
  <2>2. id \in Ids /\ Valid(id) /\ entries[id].run = m
    BY DEF Inv, MdType, MdRecord, Held, Valid
  <2>3. entries[id].activation = md[m].activation
    BY <2>2 DEF Activations, ValidOK
  <2>4. ~Arming(id)
    BY <2>2, Holds, AsyncAssumption DEF Arming, Held, Dispatching
  <2> QED BY <2>1, <2>2, <2>3, <2>4 DEF Where, Valid
<1>4. Spec => []All
  BY HeldInvariant, AloneInvariant, ActivationsInvariant, WorkerInvariant, PTL
<1> HIDE DEF All, Rest
<1> QED BY <1>1, <1>2, <1>3, <1>4, PTL DEF Spec
=============================================================================
