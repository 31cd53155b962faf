------------------------ MODULE AsyncEngine_proofs ------------------------
(***************************************************************************)
(* Proofs about AsyncEngine for every set of Metadata objects, clients and *)
(* owners, every flat chart, any number of calls and any choice of         *)
(* synchronous ones.                                                       *)
(***************************************************************************)
EXTENDS AsyncEngine, TLAPS, WellFoundedInduction

\* Inside a call that works on a Metadata; between the exit of a transition
\* and the next turn of the loop.
Calling == {"lock"} \cup Dispatching \cup Sending
InTransition == {"leave", "act", "enter", "schedule", "arm"}
Places == Dispatching \cup Sending \cup Stopping \cup
             {"idle", "lock", "take", "valid", "bound", "loop", "check",
              "execute", "exited"}

\* The parts of TypeOK.
StoreType ==
    /\ queue \cup pending \cup invalid \cup ran \subseteq Ids
    /\ pool \in Seq(Ids) /\ entries \in Seq(Entry)
MdRecord == [current : StatesOrNull, active : BOOLEAN,
             alarms : SUBSET Ids, activation : Nat]
MdType == md \in [Runs -> MdRecord]
EngineType ==
    /\ engine \in BOOLEAN \X BOOLEAN \X BOOLEAN \X BOOLEAN
    /\ holder \in [Runs -> Threads \cup {Null}]
    /\ calls \in 0 .. MaxCalls
ThreadType == pc \in [Threads -> Places] /\ job \in [Threads -> Job]

\* Thread u may be at w with the local variables j: w is a place of its own,
\* what it needs there is in hand, and who holds a Metadata's mutex is in a
\* call on it.
Fits(u, w, j) ==
    /\ u = Timer => w \in {"loop", "take", "check", "execute", "exited"}
    /\ u = Worker => w \in {"take", "valid", "bound", "exited"} \cup Calling
    /\ u \in Clients => w \in {"idle"} \cup Calling
    /\ u \in Owners => w \in {"idle"} \cup Stopping
    /\ w \in Calling => j.run \in Runs
    /\ w \in {"submit", "arm"} => j.made \in Ids
    /\ w \in {"valid", "bound", "check", "execute"} => j.entry \in Ids
    /\ u = Worker /\ w \in Calling => j.entry \in Ids
    /\ w \in InTransition => j.to \in ChartStates
    /\ w \in Sending /\ InAction(u) => j.to \in ChartStates
    /\ \A m \in Runs : holder[m] = u => w \in Dispatching \cup Sending /\ j.run = m
    /\ w \in Dispatching => holder[j.run] = u
    /\ u = Worker /\ w \in Sending => holder[j.run] = u
ThreadsOK == \A u \in Threads : Fits(u, pc[u], job[u])

\* What shutdown has achieved at each of its steps.
ShutdownOK ==
    /\ pc[Worker] = "exited" => pool = <<>> /\ poolShut
    /\ \A c \in Owners :
          /\ pc[c] \in {"joinTimer", "joinWorker", "release"} => poolShut
          /\ pc[c] \in {"joinWorker", "release"} => pc[Timer] = "exited"
          /\ pc[c] = "release" => pc[Worker] = "exited"
    /\ released => pc[Worker] = "exited" /\ pc[Timer] = "exited"

Inv == /\ StoreType /\ MdType /\ EngineType /\ ThreadType
       /\ ThreadsOK /\ ShutdownOK

\* The parts make up TypeOK.
LEMMA InvTypeOK == Inv => TypeOK
BY DEF Inv, TypeOK, StoreType, MdType, MdRecord, EngineType, ThreadType, Places

\* Worker, timeout thread, clients and owners are different threads.
LEMMA ThreadFacts ==
    /\ Worker \in Threads /\ Timer \in Threads /\ Worker # Timer
    /\ \A t \in Clients \cup {Worker} :
          t \in Threads /\ t # Timer /\ t \notin Owners /\ t # Null
    /\ \A c \in Clients : c # Worker /\ c \in Threads
    /\ \A c \in Owners :
          c \in Threads /\ c # Worker /\ c # Timer /\ c \notin Clients
    /\ Worker \notin Clients /\ Worker \notin Owners
    /\ Timer \notin Clients /\ Timer \notin Owners
BY AsyncAssumption DEF Threads

\* Min is a member of its argument.
LEMMA LeastAlarm == ASSUME NEW S \in SUBSET Nat, S # {} PROVE Min(S) \in S
<1>1. PICK x \in S : \A y \in S : <<y, x>> \notin OpToRel(<, Nat)
  BY NatLessThanWellFounded, WFMin
<1>2. \A y \in S : ~(y < x)
  BY <1>1 DEF OpToRel
<1>3. \A y \in S : x <= y
  BY <1>2
<1> QED BY <1>3 DEF Min

\* A new entry leaves the others where they are.
LEMMA Appended ==
    ASSUME NEW S, NEW q \in Seq(S), NEW x \in S
    PROVE  /\ Append(q, x) \in Seq(S)
           /\ 1 .. Len(Append(q, x)) = (1 .. Len(q)) \cup {Len(q) + 1}
OBVIOUS

(***************************************************************************)
(* Steps of one thread                                                     *)
(***************************************************************************)
\* Thread t goes to w with the local variables j.
Move(t, w, j) == /\ pc' = [pc EXCEPT ![t] = w]
                   /\ job' = [job EXCEPT ![t] = j]

\* No entry is forgotten, and no mutex changes hands but to or from t.
Around(t) == /\ Ids \subseteq Ids'
             /\ \A m \in Runs : \/ holder'[m] = holder[m]
                                \/ holder[m] = Null /\ holder'[m] = t
                                \/ holder[m] = t /\ holder'[m] = Null

\* It is enough to look at the thread that moves.
LEMMA OneThread ==
    ASSUME ThreadType, ThreadsOK, NEW t \in Threads, NEW w \in Places, NEW j \in Job,
           Move(t, w, j), Around(t), Fits(t, w, j)'
    PROVE  ThreadType' /\ ThreadsOK'
<1>1. ThreadType'
  BY DEF ThreadType, Move
<1>2. pc'[t] = w /\ job'[t] = j
  BY DEF ThreadType, Move
<1>3. ASSUME NEW u \in Threads, u # t PROVE Fits(u, pc[u], job[u])'
  <2>1. pc'[u] = pc[u] /\ job'[u] = job[u] /\ u # Null
    BY <1>3, AsyncAssumption DEF ThreadType, Move
  <2>2. \A m \in Runs : holder'[m] = u <=> holder[m] = u
    BY <1>3, <2>1 DEF Around
  <2>3. Fits(u, pc[u], job[u])
    BY DEF ThreadsOK
  <2>4. pc[u] \in Calling => job[u].run \in Runs
    BY <2>3 DEF Fits
  <2> QED BY <2>1, <2>2, <2>3, <2>4 DEF Fits, Around, InAction, Calling
<1> QED BY <1>1, <1>2, <1>3 DEF ThreadsOK

\* dispatchAsynchron: the test, the entry, its way to the pool or the queue.
LEMMA SendCheckKeeps == ASSUME Inv, NEW t \in Clients \cup {Worker}, SendCheck(t) PROVE Inv'
<1>1. /\ StoreType /\ MdType /\ EngineType /\ ThreadType /\ ThreadsOK
      /\ ShutdownOK /\ t \in Threads /\ Fits(t, pc[t], job[t])
      /\ pc[t] \in Places /\ job[t] \in Job
  BY ThreadFacts DEF Inv, ThreadsOK, ThreadType
<1>2. StoreType'
  BY <1>1 DEF SendCheck, SendReturns, StoreType, MdType, Fits, Assign, Ids, Entry, Job, Params, store,
     Calling, Dispatching, Sending, InTransition, Run, Record
<1>3. MdType' /\ EngineType'
  BY <1>1, AsyncAssumption DEF SendCheck, SendReturns, MdType, MdRecord, EngineType, StoreType, Fits, StatesOrNull,
     Ids, store, engine, Calling, Dispatching, Sending, InTransition, Run
<1>4. Around(t)
  BY <1>1 DEF SendCheck, SendReturns, Around, Fits, EngineType, StoreType, Ids, store, Calling, Dispatching,
     Sending, Run
<1>5. ThreadType' /\ ThreadsOK'
  <2>1. CASE ~poolShut
    <3>1. PICK j \in Job : j = job[t]
      BY <1>1
    <3>2. Move(t, "push", j)
      BY <1>1, <2>1, <3>1 DEF SendCheck, SendReturns, Move, Goto, Assign, ThreadType
    <3>3. Fits(t, "push", j)'
      BY <1>1, <2>1, <3>1, ThreadFacts DEF SendCheck, SendReturns, Fits, InAction, EngineType, StoreType, Ids, store,
         Calling, Dispatching, Sending, Stopping, InTransition, Run
    <3> QED BY <1>1, <1>4, <3>2, <3>3, OneThread DEF Places, Calling, Dispatching, Sending, Stopping, InTransition
  <2>2. CASE poolShut /\ InAction(t)
    <3> DEFINE r == [job[t] EXCEPT !.sent = Null, !.made = 0]
    <3>1. r \in Job
      BY <1>1, <2>2 DEF Job, NoJob, Params, EventsOrNull, StatesOrNull, StoreType, Ids
    <3>2. /\ r.run = job[t].run
          /\ r.made = 0
          /\ r.entry = job[t].entry
          /\ r.to = job[t].to
      BY <1>1, <2>2 DEF Job, NoJob
    <3>3. Move(t, "enter", r)
      BY <1>1, <2>2 DEF SendCheck, SendReturns, Move, Goto, Assign, ThreadType
    <3> HIDE DEF r
    <3>4. PICK j \in Job : j = r
      BY <3>1
    <3>5. Move(t, "enter", j)
      BY <3>4, <3>3
    <3>6. Fits(t, "enter", j)'
      BY <1>1, <2>2, <3>1, <3>2, <3>3, <3>4, ThreadFacts DEF SendCheck, SendReturns, Fits, InAction, EngineType, StoreType, Ids, store,
         Calling, Dispatching, Sending, Stopping, InTransition, Run
    <3> QED BY <1>1, <1>4, <3>5, <3>6, OneThread DEF Places, Calling, Dispatching, Sending, Stopping, InTransition
  <2>3. CASE poolShut /\ ~InAction(t)
    <3> DEFINE r == NoJob
    <3>1. r \in Job
      BY <1>1, <2>3 DEF Job, NoJob, Params, EventsOrNull, StatesOrNull, StoreType, Ids
    <3>2. /\ r.run = Null
          /\ r.made = 0
          /\ r.entry = 0
          /\ r.to = Null
      BY <1>1, <2>3 DEF Job, NoJob
    <3>3. Move(t, "idle", r)
      BY <1>1, <2>3 DEF SendCheck, SendReturns, Move, Goto, Assign, ThreadType
    <3> HIDE DEF r
    <3>4. PICK j \in Job : j = r
      BY <3>1
    <3>5. Move(t, "idle", j)
      BY <3>4, <3>3
    <3>6. Fits(t, "idle", j)'
      BY <1>1, <2>3, <3>1, <3>2, <3>3, <3>4, ThreadFacts DEF SendCheck, SendReturns, Fits, InAction, EngineType, StoreType, Ids, store,
         Calling, Dispatching, Sending, Stopping, InTransition, Run
    <3> QED BY <1>1, <1>4, <3>5, <3>6, OneThread DEF Places, Calling, Dispatching, Sending, Stopping, InTransition
  <2> QED BY <1>1, <2>1, <2>2, <2>3 DEF SendCheck, SendReturns
<1>6. ShutdownOK'
  BY <1>1, ThreadFacts DEF SendCheck, SendReturns, ShutdownOK, ThreadType, Fits, Goto, engine, store, Calling, Dispatching, Sending, Stopping, InTransition, InAction
<1> QED BY <1>2, <1>3, <1>5, <1>6 DEF Inv

LEMMA SendPushKeeps == ASSUME Inv, NEW t \in Clients \cup {Worker}, SendPush(t) PROVE Inv'
<1>1. /\ StoreType /\ MdType /\ EngineType /\ ThreadType /\ ThreadsOK
      /\ ShutdownOK /\ t \in Threads /\ Fits(t, pc[t], job[t])
      /\ pc[t] \in Places /\ job[t] \in Job
  BY ThreadFacts DEF Inv, ThreadsOK, ThreadType
<1>2. StoreType'
  BY <1>1 DEF SendPush, Make, StoreType, MdType, Fits, Assign, Ids, Entry, Job, Params, store,
     Calling, Dispatching, Sending, InTransition, Run, Record
<1>3. MdType' /\ EngineType'
  BY <1>1, AsyncAssumption DEF SendPush, Make, MdType, MdRecord, EngineType, StoreType, Fits, StatesOrNull,
     Ids, store, engine, Calling, Dispatching, Sending, InTransition, Run
<1>4. Around(t)
  BY <1>1 DEF SendPush, Make, Around, Fits, EngineType, StoreType, Ids, store, Calling, Dispatching,
     Sending, Run
<1>5. ThreadType' /\ ThreadsOK'
  <2>1. Len(entries) + 1 \in Nat
    BY <1>1 DEF StoreType, Fits, Fires, ChartStates, Entry, EventsOrNull, Ids, Timeouts, Calling, InTransition
  <2> DEFINE r == [job[t] EXCEPT !.made = Len(entries) + 1]
  <2>2. r \in Job
    BY <1>1, <2>1 DEF Job, NoJob, Params, EventsOrNull, StatesOrNull, StoreType, Ids
  <2>3. /\ r.run = job[t].run
        /\ r.made = Len(entries) + 1
        /\ r.entry = job[t].entry
        /\ r.to = job[t].to
    BY <1>1, <2>1 DEF Job, NoJob
  <2>4. Move(t, "submit", r)
    BY <1>1 DEF SendPush, Make, Move, Goto, Assign, ThreadType
  <2> HIDE DEF r
  <2>5. PICK j \in Job : j = r
    BY <2>2
  <2>6. Move(t, "submit", j)
    BY <2>5, <2>4
  <2>7. Fits(t, "submit", j)'
    BY <1>1, <2>1, <2>2, <2>3, <2>4, <2>5, ThreadFacts DEF SendPush, Make, Fits, InAction, EngineType, StoreType, Ids, store,
       Calling, Dispatching, Sending, Stopping, InTransition, Run
  <2> QED BY <1>1, <1>4, <2>6, <2>7, OneThread DEF Places, Calling, Dispatching, Sending, Stopping, InTransition
<1>6. ShutdownOK'
  BY <1>1, ThreadFacts DEF SendPush, Make, ShutdownOK, ThreadType, Fits, Goto, engine, store, Calling, Dispatching, Sending, Stopping, InTransition, InAction
<1> QED BY <1>2, <1>3, <1>5, <1>6 DEF Inv

LEMMA SendSubmitKeeps == ASSUME Inv, NEW t \in Clients \cup {Worker}, SendSubmit(t) PROVE Inv'
<1>1. /\ StoreType /\ MdType /\ EngineType /\ ThreadType /\ ThreadsOK
      /\ ShutdownOK /\ t \in Threads /\ Fits(t, pc[t], job[t])
      /\ pc[t] \in Places /\ job[t] \in Job
  BY ThreadFacts DEF Inv, ThreadsOK, ThreadType
<1>2. StoreType'
  <2>1. job[t].made \in Ids
    BY <1>1 DEF SendSubmit, Fits
  <2>2. /\ UNCHANGED <<pending, entries, invalid, ran>>
        /\ queue' = queue \/ queue' = queue \cup {job[t].made}
        /\ pool' = pool \/ pool' = Append(pool, job[t].made)
    BY DEF SendSubmit, Accept
  <2>3. pool' \in Seq(Ids)
    BY <1>1, <2>1, <2>2 DEF StoreType
  <2>4. Ids' = Ids
    BY <2>2 DEF Ids
  <2> QED BY <1>1, <2>1, <2>2, <2>3, <2>4 DEF StoreType
<1>3. MdType' /\ EngineType'
  BY <1>1, AsyncAssumption DEF SendSubmit, SendReturns, Accept, MdType, MdRecord, EngineType, StoreType, Fits, StatesOrNull,
     Ids, store, engine, Calling, Dispatching, Sending, InTransition, Run
<1>4. Around(t)
  BY <1>1 DEF SendSubmit, SendReturns, Accept, Around, Fits, EngineType, StoreType, Ids, store, Calling, Dispatching,
     Sending, Run
<1>5. ThreadType' /\ ThreadsOK'
  <2>1. CASE InAction(t)
    <3> DEFINE r == [job[t] EXCEPT !.sent = Null, !.made = 0]
    <3>1. r \in Job
      BY <1>1, <2>1 DEF Job, NoJob, Params, EventsOrNull, StatesOrNull, StoreType, Ids
    <3>2. /\ r.run = job[t].run
          /\ r.made = 0
          /\ r.entry = job[t].entry
          /\ r.to = job[t].to
      BY <1>1, <2>1 DEF Job, NoJob
    <3>3. Move(t, "enter", r)
      BY <1>1, <2>1 DEF SendSubmit, SendReturns, Accept, Move, Goto, Assign, ThreadType
    <3> HIDE DEF r
    <3>4. PICK j \in Job : j = r
      BY <3>1
    <3>5. Move(t, "enter", j)
      BY <3>4, <3>3
    <3>6. Fits(t, "enter", j)'
      BY <1>1, <2>1, <3>1, <3>2, <3>3, <3>4, ThreadFacts DEF SendSubmit, SendReturns, Accept, Fits, InAction, EngineType, StoreType, Ids, store,
         Calling, Dispatching, Sending, Stopping, InTransition, Run
    <3> QED BY <1>1, <1>4, <3>5, <3>6, OneThread DEF Places, Calling, Dispatching, Sending, Stopping, InTransition
  <2>2. CASE ~InAction(t)
    <3> DEFINE r == NoJob
    <3>1. r \in Job
      BY <1>1, <2>2 DEF Job, NoJob, Params, EventsOrNull, StatesOrNull, StoreType, Ids
    <3>2. /\ r.run = Null
          /\ r.made = 0
          /\ r.entry = 0
          /\ r.to = Null
      BY <1>1, <2>2 DEF Job, NoJob
    <3>3. Move(t, "idle", r)
      BY <1>1, <2>2 DEF SendSubmit, SendReturns, Accept, Move, Goto, Assign, ThreadType
    <3> HIDE DEF r
    <3>4. PICK j \in Job : j = r
      BY <3>1
    <3>5. Move(t, "idle", j)
      BY <3>4, <3>3
    <3>6. Fits(t, "idle", j)'
      BY <1>1, <2>2, <3>1, <3>2, <3>3, <3>4, ThreadFacts DEF SendSubmit, SendReturns, Accept, Fits, InAction, EngineType, StoreType, Ids, store,
         Calling, Dispatching, Sending, Stopping, InTransition, Run
    <3> QED BY <1>1, <1>4, <3>5, <3>6, OneThread DEF Places, Calling, Dispatching, Sending, Stopping, InTransition
  <2> QED BY <1>1, <2>1, <2>2 DEF SendSubmit, SendReturns, Accept
<1>6. ShutdownOK'
  BY <1>1, ThreadFacts DEF SendSubmit, SendReturns, Accept, ShutdownOK, ThreadType, Fits, Goto, engine, store, Calling, Dispatching, Sending, Stopping, InTransition, InAction
<1> QED BY <1>2, <1>3, <1>5, <1>6 DEF Inv

\* dispatch takes the Metadata's mutex.
LEMMA LockKeeps == ASSUME Inv, NEW t \in Clients \cup {Worker}, Lock(t) PROVE Inv'
<1>1. /\ StoreType /\ MdType /\ EngineType /\ ThreadType /\ ThreadsOK
      /\ ShutdownOK /\ t \in Threads /\ Fits(t, pc[t], job[t])
      /\ pc[t] \in Places /\ job[t] \in Job
  BY ThreadFacts DEF Inv, ThreadsOK, ThreadType
<1>2. StoreType'
  BY <1>1 DEF Lock, StoreType, MdType, Fits, Assign, Ids, Entry, Job, Params, store,
     Calling, Dispatching, Sending, InTransition, Run, Record
<1>3. MdType' /\ EngineType'
  BY <1>1, AsyncAssumption DEF Lock, MdType, MdRecord, EngineType, StoreType, Fits, StatesOrNull,
     Ids, store, engine, Calling, Dispatching, Sending, InTransition, Run
<1>4. Around(t)
  BY <1>1 DEF Lock, Around, Fits, EngineType, StoreType, Ids, store, Calling, Dispatching,
     Sending, Run
<1>5. ThreadType' /\ ThreadsOK'
  <2>1. PICK j \in Job : j = job[t]
    BY <1>1
  <2>2. Move(t, "react", j)
    BY <1>1, <2>1 DEF Lock, Move, Goto, Assign, ThreadType
  <2>3. Fits(t, "react", j)'
    BY <1>1, <2>1, ThreadFacts DEF Lock, Fits, InAction, EngineType, StoreType, Ids, store,
       Calling, Dispatching, Sending, Stopping, InTransition, Run
  <2> QED BY <1>1, <1>4, <2>2, <2>3, OneThread DEF Places, Calling, Dispatching, Sending, Stopping, InTransition
<1>6. ShutdownOK'
  BY <1>1, ThreadFacts DEF Lock, ShutdownOK, ThreadType, Fits, Goto, engine, store, Calling, Dispatching, Sending, Stopping, InTransition, InAction
<1> QED BY <1>2, <1>3, <1>5, <1>6 DEF Inv

LEMMA ReactKeeps == ASSUME Inv, NEW t \in Clients \cup {Worker}, React(t) PROVE Inv'
<1>1. /\ StoreType /\ MdType /\ EngineType /\ ThreadType /\ ThreadsOK
      /\ ShutdownOK /\ t \in Threads /\ Fits(t, pc[t], job[t])
      /\ pc[t] \in Places /\ job[t] \in Job
  BY ThreadFacts DEF Inv, ThreadsOK, ThreadType
<1>2. StoreType'
  BY <1>1 DEF React, Fires, Finish, StoreType, MdType, Fits, Assign, Ids, Entry, Job, Params, store,
     Calling, Dispatching, Sending, InTransition, Run, Record
<1>3. MdType' /\ EngineType'
  BY <1>1, AsyncAssumption DEF React, Fires, Finish, MdType, MdRecord, EngineType, StoreType, Fits, StatesOrNull,
     Ids, store, engine, Calling, Dispatching, Sending, InTransition, Run
<1>4. Around(t)
  BY <1>1 DEF React, Fires, Finish, Around, Fits, EngineType, StoreType, Ids, store, Calling, Dispatching,
     Sending, Run
<1>5. ThreadType' /\ ThreadsOK'
  <2>1. ASSUME NEW mv \in Fires(t), Assign(t, "to", mv.to), Goto(t, "leave"),
             UNCHANGED <<holder, pending, ran>>
        PROVE  ThreadType' /\ ThreadsOK'
    <3>1. mv.to \in ChartStates
      BY <1>1, <2>1 DEF StoreType, Fits, Fires, ChartStates, Entry, EventsOrNull, Ids, Timeouts, Calling, InTransition
    <3> DEFINE r == [job[t] EXCEPT !.to = mv.to]
    <3>2. r \in Job
      BY <1>1, <2>1, <3>1 DEF Job, NoJob, Params, EventsOrNull, StatesOrNull, StoreType, Ids
    <3>3. /\ r.run = job[t].run
          /\ r.made = job[t].made
          /\ r.entry = job[t].entry
          /\ r.to = mv.to
      BY <1>1, <2>1, <3>1 DEF Job, NoJob
    <3>4. Move(t, "leave", r)
      BY <1>1, <2>1 DEF React, Fires, Finish, Move, Goto, Assign, ThreadType
    <3> HIDE DEF r
    <3>5. PICK j \in Job : j = r
      BY <3>2
    <3>6. Move(t, "leave", j)
      BY <3>5, <3>4
    <3>7. Fits(t, "leave", j)'
      BY <1>1, <2>1, <3>1, <3>2, <3>3, <3>4, <3>5, ThreadFacts DEF React, Fires, Finish, Fits, InAction, EngineType, StoreType, Ids, store,
         Calling, Dispatching, Sending, Stopping, InTransition, Run
    <3> QED BY <1>1, <1>4, <3>6, <3>7, OneThread DEF Places, Calling, Dispatching, Sending, Stopping, InTransition
  <2>2. ASSUME Assign(t, "event", Null), UNCHANGED <<holder, pc, pending, ran>>
        PROVE  ThreadType' /\ ThreadsOK'
    <3> DEFINE r == [job[t] EXCEPT !.event = Null]
    <3>1. r \in Job
      BY <1>1, <2>2 DEF Job, NoJob, Params, EventsOrNull, StatesOrNull, StoreType, Ids
    <3>2. /\ r.run = job[t].run
          /\ r.made = job[t].made
          /\ r.entry = job[t].entry
          /\ r.to = job[t].to
      BY <1>1, <2>2 DEF Job, NoJob
    <3>3. Move(t, "react", r)
      BY <1>1, <2>2 DEF React, Fires, Finish, Move, Goto, Assign, ThreadType
    <3> HIDE DEF r
    <3>4. PICK j \in Job : j = r
      BY <3>1
    <3>5. Move(t, "react", j)
      BY <3>4, <3>3
    <3>6. Fits(t, "react", j)'
      BY <1>1, <2>2, <3>1, <3>2, <3>3, <3>4, ThreadFacts DEF React, Fires, Finish, Fits, InAction, EngineType, StoreType, Ids, store,
         Calling, Dispatching, Sending, Stopping, InTransition, Run
    <3> QED BY <1>1, <1>4, <3>5, <3>6, OneThread DEF Places, Calling, Dispatching, Sending, Stopping, InTransition
  <2>3. ASSUME Finish(t), t = Worker
        PROVE  ThreadType' /\ ThreadsOK'
    <3> DEFINE r == NoJob
    <3>1. r \in Job
      BY <1>1, <2>3 DEF Job, NoJob, Params, EventsOrNull, StatesOrNull, StoreType, Ids
    <3>2. /\ r.run = Null
          /\ r.made = 0
          /\ r.entry = 0
          /\ r.to = Null
      BY <1>1, <2>3 DEF Job, NoJob
    <3>3. Move(t, "take", r)
      BY <1>1, <2>3 DEF React, Fires, Finish, Move, Goto, Assign, ThreadType
    <3> HIDE DEF r
    <3>4. PICK j \in Job : j = r
      BY <3>1
    <3>5. Move(t, "take", j)
      BY <3>4, <3>3
    <3>6. Fits(t, "take", j)'
      BY <1>1, <2>3, <3>1, <3>2, <3>3, <3>4, ThreadFacts DEF React, Fires, Finish, Fits, InAction, EngineType, StoreType, Ids, store,
         Calling, Dispatching, Sending, Stopping, InTransition, Run
    <3> QED BY <1>1, <1>4, <3>5, <3>6, OneThread DEF Places, Calling, Dispatching, Sending, Stopping, InTransition
  <2>4. ASSUME Finish(t), t # Worker
        PROVE  ThreadType' /\ ThreadsOK'
    <3> DEFINE r == NoJob
    <3>1. r \in Job
      BY <1>1, <2>4 DEF Job, NoJob, Params, EventsOrNull, StatesOrNull, StoreType, Ids
    <3>2. /\ r.run = Null
          /\ r.made = 0
          /\ r.entry = 0
          /\ r.to = Null
      BY <1>1, <2>4 DEF Job, NoJob
    <3>3. Move(t, "idle", r)
      BY <1>1, <2>4 DEF React, Fires, Finish, Move, Goto, Assign, ThreadType
    <3> HIDE DEF r
    <3>4. PICK j \in Job : j = r
      BY <3>1
    <3>5. Move(t, "idle", j)
      BY <3>4, <3>3
    <3>6. Fits(t, "idle", j)'
      BY <1>1, <2>4, <3>1, <3>2, <3>3, <3>4, ThreadFacts DEF React, Fires, Finish, Fits, InAction, EngineType, StoreType, Ids, store,
         Calling, Dispatching, Sending, Stopping, InTransition, Run
    <3> QED BY <1>1, <1>4, <3>5, <3>6, OneThread DEF Places, Calling, Dispatching, Sending, Stopping, InTransition
  <2> QED BY <1>1, <2>1, <2>2, <2>3, <2>4 DEF React, Fires, Finish
<1>6. ShutdownOK'
  BY <1>1, ThreadFacts DEF React, Fires, Finish, ShutdownOK, ThreadType, Fits, Goto, engine, store, Calling, Dispatching, Sending, Stopping, InTransition, InAction
<1> QED BY <1>2, <1>3, <1>5, <1>6 DEF Inv

LEMMA CancelNextKeeps == ASSUME Inv, NEW t \in Clients \cup {Worker}, CancelNext(t) PROVE Inv'
<1>1. /\ StoreType /\ MdType /\ EngineType /\ ThreadType /\ ThreadsOK
      /\ ShutdownOK /\ t \in Threads /\ Fits(t, pc[t], job[t])
      /\ pc[t] \in Places /\ job[t] \in Job
  BY ThreadFacts DEF Inv, ThreadsOK, ThreadType
<1>2. StoreType'
  <2>1. Min(Record(t).alarms) \in Ids
    <3>1. Run(t) \in Runs
      BY <1>1 DEF CancelNext, Fits, Run, Calling, Dispatching
    <3>2. Record(t).alarms \in SUBSET Ids /\ Ids \in SUBSET Nat
      BY <1>1, <3>1 DEF MdType, MdRecord, Record, Ids
    <3>3. Record(t).alarms # {}
      BY DEF CancelNext
    <3> QED BY <3>2, <3>3, LeastAlarm
  <2>2. /\ UNCHANGED <<pool, entries, ran>> /\ queue' \subseteq queue
        /\ pending' \subseteq pending
        /\ invalid' = invalid \cup {Min(Record(t).alarms)}
    BY DEF CancelNext, Cancel
  <2> QED BY <1>1, <2>1, <2>2 DEF StoreType, Ids
<1>3. MdType' /\ EngineType'
  <2> DEFINE a == Run(t)
             r == [md[Run(t)] EXCEPT !.alarms = @ \ {Min(md[Run(t)].alarms)}]
  <2>1. a \in Runs /\ md[a] \in MdRecord
    BY <1>1 DEF CancelNext, MdType, Fits, Run, Calling, Dispatching
  <2>2. r \in MdRecord
    BY <1>1, <2>1 DEF CancelNext, MdRecord, Fits, StatesOrNull, StoreType, InTransition, Record, Run
  <2>3. Ids' = Ids /\ md' = [md EXCEPT ![a] = r]
    BY <1>1, <2>1 DEF CancelNext, Cancel, Ids, store, Record, MdRecord
  <2> HIDE DEF r
  <2>4. MdType'
    BY <1>1, <2>1, <2>2, <2>3 DEF MdType, MdRecord
  <2>5. EngineType'
    BY <1>1 DEF CancelNext, EngineType, engine
  <2> QED BY <2>4, <2>5
<1>4. Around(t)
  BY <1>1 DEF CancelNext, Cancel, Around, Fits, EngineType, StoreType, Ids, store, Calling, Dispatching,
     Sending, Run
<1>5. ThreadType' /\ ThreadsOK'
  <2>1. PICK j \in Job : j = job[t]
    BY <1>1
  <2>2. Move(t, "leave", j)
    BY <1>1, <2>1 DEF CancelNext, Cancel, Move, Goto, Assign, ThreadType
  <2>3. Fits(t, "leave", j)'
    BY <1>1, <2>1, ThreadFacts DEF CancelNext, Cancel, Fits, InAction, EngineType, StoreType, Ids, store,
       Calling, Dispatching, Sending, Stopping, InTransition, Run
  <2> QED BY <1>1, <1>4, <2>2, <2>3, OneThread DEF Places, Calling, Dispatching, Sending, Stopping, InTransition
<1>6. ShutdownOK'
  BY <1>1, ThreadFacts DEF CancelNext, Cancel, ShutdownOK, ThreadType, Fits, Goto, engine, store, Calling, Dispatching, Sending, Stopping, InTransition, InAction
<1> QED BY <1>2, <1>3, <1>5, <1>6 DEF Inv

LEMMA LeaveKeeps == ASSUME Inv, NEW t \in Clients \cup {Worker}, Leave(t) PROVE Inv'
<1>1. /\ StoreType /\ MdType /\ EngineType /\ ThreadType /\ ThreadsOK
      /\ ShutdownOK /\ t \in Threads /\ Fits(t, pc[t], job[t])
      /\ pc[t] \in Places /\ job[t] \in Job
  BY ThreadFacts DEF Inv, ThreadsOK, ThreadType
<1>2. StoreType'
  BY <1>1 DEF Leave, StoreType, MdType, Fits, Assign, Ids, Entry, Job, Params, store,
     Calling, Dispatching, Sending, InTransition, Run, Record
<1>3. MdType' /\ EngineType'
  <2> DEFINE a == Run(t)
             r == [md[Run(t)] EXCEPT !.active = FALSE]
  <2>1. a \in Runs /\ md[a] \in MdRecord
    BY <1>1 DEF Leave, MdType, Fits, Run, Calling, Dispatching
  <2>2. r \in MdRecord
    BY <1>1, <2>1 DEF Leave, MdRecord, Fits, StatesOrNull, StoreType, InTransition, Record, Run
  <2>3. Ids' = Ids /\ md' = [md EXCEPT ![a] = r]
    BY <1>1, <2>1 DEF Leave, Ids, store, Record, MdRecord
  <2> HIDE DEF r
  <2>4. MdType'
    BY <1>1, <2>1, <2>2, <2>3 DEF MdType, MdRecord
  <2>5. EngineType'
    BY <1>1 DEF Leave, EngineType, engine
  <2> QED BY <2>4, <2>5
<1>4. Around(t)
  BY <1>1 DEF Leave, Around, Fits, EngineType, StoreType, Ids, store, Calling, Dispatching,
     Sending, Run
<1>5. ThreadType' /\ ThreadsOK'
  <2>1. PICK j \in Job : j = job[t]
    BY <1>1
  <2>2. Move(t, "act", j)
    BY <1>1, <2>1 DEF Leave, Move, Goto, Assign, ThreadType
  <2>3. Fits(t, "act", j)'
    BY <1>1, <2>1, ThreadFacts DEF Leave, Fits, InAction, EngineType, StoreType, Ids, store,
       Calling, Dispatching, Sending, Stopping, InTransition, Run
  <2> QED BY <1>1, <1>4, <2>2, <2>3, OneThread DEF Places, Calling, Dispatching, Sending, Stopping, InTransition
<1>6. ShutdownOK'
  BY <1>1, ThreadFacts DEF Leave, ShutdownOK, ThreadType, Fits, Goto, engine, store, Calling, Dispatching, Sending, Stopping, InTransition, InAction
<1> QED BY <1>2, <1>3, <1>5, <1>6 DEF Inv

LEMMA ActKeeps == ASSUME Inv, NEW t \in Clients \cup {Worker}, Act(t) PROVE Inv'
<1>1. /\ StoreType /\ MdType /\ EngineType /\ ThreadType /\ ThreadsOK
      /\ ShutdownOK /\ t \in Threads /\ Fits(t, pc[t], job[t])
      /\ pc[t] \in Places /\ job[t] \in Job
  BY ThreadFacts DEF Inv, ThreadsOK, ThreadType
<1>2. StoreType'
  BY <1>1 DEF Act, StoreType, MdType, Fits, Assign, Ids, Entry, Job, Params, store,
     Calling, Dispatching, Sending, InTransition, Run, Record
<1>3. MdType' /\ EngineType'
  BY <1>1, AsyncAssumption DEF Act, MdType, MdRecord, EngineType, StoreType, Fits, StatesOrNull,
     Ids, store, engine, Calling, Dispatching, Sending, InTransition, Run
<1>4. Around(t)
  BY <1>1 DEF Act, Around, Fits, EngineType, StoreType, Ids, store, Calling, Dispatching,
     Sending, Run
<1>5. ThreadType' /\ ThreadsOK'
  <2>1. CASE Goto(t, "enter") /\ UNCHANGED <<job, calls>>
    <3>1. PICK j \in Job : j = job[t]
      BY <1>1
    <3>2. Move(t, "enter", j)
      BY <1>1, <2>1, <3>1 DEF Act, Move, Goto, Assign, ThreadType
    <3>3. Fits(t, "enter", j)'
      BY <1>1, <2>1, <3>1, ThreadFacts DEF Act, Fits, InAction, EngineType, StoreType, Ids, store,
         Calling, Dispatching, Sending, Stopping, InTransition, Run
    <3> QED BY <1>1, <1>4, <3>2, <3>3, OneThread DEF Places, Calling, Dispatching, Sending, Stopping, InTransition
  <2>2. ASSUME NEW e \in Sendable, Assign(t, "sent", e), Goto(t, "send")
        PROVE  ThreadType' /\ ThreadsOK'
    <3>1. e \in EventsOrNull
      BY <1>1, <2>2 DEF StoreType, Fits, Fires, ChartStates, Entry, EventsOrNull, Ids, Timeouts, Calling, InTransition
    <3> DEFINE r == [job[t] EXCEPT !.sent = e]
    <3>2. r \in Job
      BY <1>1, <2>2, <3>1 DEF Job, NoJob, Params, EventsOrNull, StatesOrNull, StoreType, Ids
    <3>3. /\ r.run = job[t].run
          /\ r.made = job[t].made
          /\ r.entry = job[t].entry
          /\ r.to = job[t].to
      BY <1>1, <2>2, <3>1 DEF Job, NoJob
    <3>4. Move(t, "send", r)
      BY <1>1, <2>2 DEF Act, Move, Goto, Assign, ThreadType
    <3> HIDE DEF r
    <3>5. PICK j \in Job : j = r
      BY <3>2
    <3>6. Move(t, "send", j)
      BY <3>5, <3>4
    <3>7. Fits(t, "send", j)'
      BY <1>1, <2>2, <3>1, <3>2, <3>3, <3>4, <3>5, ThreadFacts DEF Act, Fits, InAction, EngineType, StoreType, Ids, store,
         Calling, Dispatching, Sending, Stopping, InTransition, Run
    <3> QED BY <1>1, <1>4, <3>6, <3>7, OneThread DEF Places, Calling, Dispatching, Sending, Stopping, InTransition
  <2> QED BY <1>1, <2>1, <2>2 DEF Act
<1>6. ShutdownOK'
  BY <1>1, ThreadFacts DEF Act, ShutdownOK, ThreadType, Fits, Goto, engine, store, Calling, Dispatching, Sending, Stopping, InTransition, InAction
<1> QED BY <1>2, <1>3, <1>5, <1>6 DEF Inv

LEMMA EnterStateKeeps == ASSUME Inv, NEW t \in Clients \cup {Worker}, EnterState(t) PROVE Inv'
<1>1. /\ StoreType /\ MdType /\ EngineType /\ ThreadType /\ ThreadsOK
      /\ ShutdownOK /\ t \in Threads /\ Fits(t, pc[t], job[t])
      /\ pc[t] \in Places /\ job[t] \in Job
  BY ThreadFacts DEF Inv, ThreadsOK, ThreadType
<1>2. StoreType'
  BY <1>1 DEF EnterState, StoreType, MdType, Fits, Assign, Ids, Entry, Job, Params, store,
     Calling, Dispatching, Sending, InTransition, Run, Record
<1>3. MdType' /\ EngineType'
  BY <1>1, AsyncAssumption DEF EnterState, MdType, MdRecord, EngineType, StoreType, Fits, StatesOrNull,
     Ids, store, engine, Calling, Dispatching, Sending, InTransition, Run
<1>4. Around(t)
  BY <1>1 DEF EnterState, Around, Fits, EngineType, StoreType, Ids, store, Calling, Dispatching,
     Sending, Run
<1>5. ThreadType' /\ ThreadsOK'
  <2>1. Timeouts(job[t].to) \subseteq Timed
    BY <1>1 DEF StoreType, Fits, Fires, ChartStates, Entry, EventsOrNull, Ids, Timeouts, Calling, InTransition
  <2> DEFINE r == [job[t] EXCEPT !.todo = Timeouts(job[t].to)]
  <2>2. r \in Job
    BY <1>1, <2>1 DEF Job, NoJob, Params, EventsOrNull, StatesOrNull, StoreType, Ids
  <2>3. /\ r.run = job[t].run
        /\ r.made = job[t].made
        /\ r.entry = job[t].entry
        /\ r.to = job[t].to
    BY <1>1, <2>1 DEF Job, NoJob
  <2>4. Move(t, "schedule", r)
    BY <1>1 DEF EnterState, Move, Goto, Assign, ThreadType
  <2> HIDE DEF r
  <2>5. PICK j \in Job : j = r
    BY <2>2
  <2>6. Move(t, "schedule", j)
    BY <2>5, <2>4
  <2>7. Fits(t, "schedule", j)'
    BY <1>1, <2>1, <2>2, <2>3, <2>4, <2>5, ThreadFacts DEF EnterState, Fits, InAction, EngineType, StoreType, Ids, store,
       Calling, Dispatching, Sending, Stopping, InTransition, Run
  <2> QED BY <1>1, <1>4, <2>6, <2>7, OneThread DEF Places, Calling, Dispatching, Sending, Stopping, InTransition
<1>6. ShutdownOK'
  BY <1>1, ThreadFacts DEF EnterState, ShutdownOK, ThreadType, Fits, Goto, engine, store, Calling, Dispatching, Sending, Stopping, InTransition, InAction
<1> QED BY <1>2, <1>3, <1>5, <1>6 DEF Inv

LEMMA ScheduleKeeps == ASSUME Inv, NEW t \in Clients \cup {Worker}, Schedule(t) PROVE Inv'
<1>1. /\ StoreType /\ MdType /\ EngineType /\ ThreadType /\ ThreadsOK
      /\ ShutdownOK /\ t \in Threads /\ Fits(t, pc[t], job[t])
      /\ pc[t] \in Places /\ job[t] \in Job
  BY ThreadFacts DEF Inv, ThreadsOK, ThreadType
<1>2. StoreType' /\ Ids \subseteq Ids'
  <2>1. ASSUME NEW e \in job[t].todo,
               Make(t, job[t].to, e, job[t].param, Record(t).activation)
        PROVE  StoreType' /\ Ids \subseteq Ids'
    <3> DEFINE x == [state |-> job[t].to, run |-> Run(t), event |-> e,
                     param |-> job[t].param, activation |-> Record(t).activation]
    <3>1. Run(t) \in Runs /\ job[t].to \in ChartStates
      BY <1>1 DEF Schedule, Fits, Run, Calling, Dispatching, InTransition
    <3>2. e \in Timed /\ job[t].param \in Params /\ Record(t).activation \in Nat
      <4>1. job[t].todo \in SUBSET Timed /\ job[t].param \in Params
        BY <1>1 DEF Job
      <4>2. md[Run(t)] \in MdRecord
        BY <1>1, <3>1 DEF MdType
      <4> QED BY <4>1, <4>2 DEF MdRecord, Record
    <3>3. x \in Entry
      BY <3>1, <3>2 DEF Entry, EventsOrNull
    <3>4. /\ entries' = Append(entries, x)
          /\ pending' = pending \cup {Len(entries) + 1}
      BY <2>1 DEF Make
    <3>5. UNCHANGED <<queue, pool, invalid, ran>>
      BY DEF Schedule
    <3> HIDE DEF x
    <3> QED BY <1>1, <3>3, <3>4, <3>5, Appended DEF StoreType, Ids
  <2>2. CASE UNCHANGED <<entries, pending>>
    BY <1>1, <2>2 DEF Schedule, StoreType, Ids
  <2> QED BY <2>1, <2>2 DEF Schedule
<1>3. MdType' /\ EngineType'
  <2>1. md' = md /\ UNCHANGED <<engine, holder, calls>> /\ Ids \subseteq Ids'
    BY <1>2 DEF Schedule
  <2> QED BY <1>1, <2>1 DEF MdType, MdRecord, EngineType, engine
<1>4. Around(t)
  BY <1>2 DEF Schedule, Around
<1>5. ThreadType' /\ ThreadsOK'
  <2>1. ASSUME NEW e \in job[t].todo,
             Make(t, job[t].to, e, job[t].param, Record(t).activation), Goto(t, "arm")
        PROVE  ThreadType' /\ ThreadsOK'
    <3>1. Len(entries) + 1 \in Nat
      BY <1>1, <2>1 DEF StoreType, Fits, Fires, ChartStates, Entry, EventsOrNull, Ids, Timeouts, Calling, InTransition
    <3> DEFINE r == [job[t] EXCEPT !.made = Len(entries) + 1]
    <3>2. r \in Job
      BY <1>1, <2>1, <3>1 DEF Job, NoJob, Params, EventsOrNull, StatesOrNull, StoreType, Ids
    <3>3. /\ r.run = job[t].run
          /\ r.made = Len(entries) + 1
          /\ r.entry = job[t].entry
          /\ r.to = job[t].to
      BY <1>1, <2>1, <3>1 DEF Job, NoJob
    <3>4. Move(t, "arm", r)
      BY <1>1, <2>1 DEF Schedule, Make, Move, Goto, Assign, ThreadType
    <3> HIDE DEF r
    <3>5. PICK j \in Job : j = r
      BY <3>2
    <3>6. Move(t, "arm", j)
      BY <3>5, <3>4
    <3>7. Fits(t, "arm", j)'
      BY <1>1, <2>1, <3>1, <3>2, <3>3, <3>4, <3>5, ThreadFacts DEF Schedule, Make, Fits, InAction, EngineType, StoreType, Ids, store,
         Calling, Dispatching, Sending, Stopping, InTransition, Run
    <3> QED BY <1>1, <1>4, <3>6, <3>7, OneThread DEF Places, Calling, Dispatching, Sending, Stopping, InTransition
  <2>2. ASSUME job' = [job EXCEPT ![t].event = Null, ![t].todo = {}],
             Goto(t, "react"), UNCHANGED <<entries, pending>>
        PROVE  ThreadType' /\ ThreadsOK'
    <3> DEFINE r == [job[t] EXCEPT !.event = Null, !.todo = {}]
    <3>1. r \in Job
      BY <1>1, <2>2 DEF Job, NoJob, Params, EventsOrNull, StatesOrNull, StoreType, Ids
    <3>2. /\ r.run = job[t].run
          /\ r.made = job[t].made
          /\ r.entry = job[t].entry
          /\ r.to = job[t].to
      BY <1>1, <2>2 DEF Job, NoJob
    <3>3. Move(t, "react", r)
      BY <1>1, <2>2 DEF Schedule, Make, Move, Goto, Assign, ThreadType
    <3> HIDE DEF r
    <3>4. PICK j \in Job : j = r
      BY <3>1
    <3>5. Move(t, "react", j)
      BY <3>4, <3>3
    <3>6. Fits(t, "react", j)'
      BY <1>1, <2>2, <3>1, <3>2, <3>3, <3>4, ThreadFacts DEF Schedule, Make, Fits, InAction, EngineType, StoreType, Ids, store,
         Calling, Dispatching, Sending, Stopping, InTransition, Run
    <3> QED BY <1>1, <1>4, <3>5, <3>6, OneThread DEF Places, Calling, Dispatching, Sending, Stopping, InTransition
  <2> QED BY <1>1, <2>1, <2>2 DEF Schedule, Make
<1>6. ShutdownOK'
  BY <1>1, ThreadFacts DEF Schedule, Make, ShutdownOK, ThreadType, Fits, Goto, engine, store, Calling, Dispatching, Sending, Stopping, InTransition, InAction
<1> QED BY <1>2, <1>3, <1>5, <1>6 DEF Inv

LEMMA ArmKeeps == ASSUME Inv, NEW t \in Clients \cup {Worker}, Arm(t) PROVE Inv'
<1>1. /\ StoreType /\ MdType /\ EngineType /\ ThreadType /\ ThreadsOK
      /\ ShutdownOK /\ t \in Threads /\ Fits(t, pc[t], job[t])
      /\ pc[t] \in Places /\ job[t] \in Job
  BY ThreadFacts DEF Inv, ThreadsOK, ThreadType
<1>2. StoreType'
  BY <1>1 DEF Arm, StoreType, MdType, Fits, Assign, Ids, Entry, Job, Params, store,
     Calling, Dispatching, Sending, InTransition, Run, Record
<1>3. MdType' /\ EngineType'
  <2> DEFINE a == Run(t)
             r == [md[Run(t)] EXCEPT !.alarms = @ \cup {job[t].made}]
  <2>1. a \in Runs /\ md[a] \in MdRecord
    BY <1>1 DEF Arm, MdType, Fits, Run, Calling, Dispatching
  <2>2. r \in MdRecord
    BY <1>1, <2>1 DEF Arm, MdRecord, Fits, StatesOrNull, StoreType, InTransition, Record, Run
  <2>3. Ids' = Ids /\ md' = [md EXCEPT ![a] = r]
    BY <1>1, <2>1 DEF Arm, Ids, store, Record, MdRecord
  <2> HIDE DEF r
  <2>4. MdType'
    BY <1>1, <2>1, <2>2, <2>3 DEF MdType, MdRecord
  <2>5. EngineType'
    BY <1>1 DEF Arm, EngineType, engine
  <2> QED BY <2>4, <2>5
<1>4. Around(t)
  BY <1>1 DEF Arm, Around, Fits, EngineType, StoreType, Ids, store, Calling, Dispatching,
     Sending, Run
<1>5. ThreadType' /\ ThreadsOK'
  <2> DEFINE r == [job[t] EXCEPT !.made = 0,
                          !.todo = @ \ {entries[job[t].made].event}]
  <2>1. r \in Job
    BY <1>1 DEF Job, NoJob, Params, EventsOrNull, StatesOrNull, StoreType, Ids
  <2>2. /\ r.run = job[t].run
        /\ r.made = 0
        /\ r.entry = job[t].entry
        /\ r.to = job[t].to
    BY <1>1 DEF Job, NoJob
  <2>3. Move(t, "schedule", r)
    BY <1>1 DEF Arm, Move, Goto, Assign, ThreadType
  <2> HIDE DEF r
  <2>4. PICK j \in Job : j = r
    BY <2>1
  <2>5. Move(t, "schedule", j)
    BY <2>4, <2>3
  <2>6. Fits(t, "schedule", j)'
    BY <1>1, <2>1, <2>2, <2>3, <2>4, ThreadFacts DEF Arm, Fits, InAction, EngineType, StoreType, Ids, store,
       Calling, Dispatching, Sending, Stopping, InTransition, Run
  <2> QED BY <1>1, <1>4, <2>5, <2>6, OneThread DEF Places, Calling, Dispatching, Sending, Stopping, InTransition
<1>6. ShutdownOK'
  BY <1>1, ThreadFacts DEF Arm, ShutdownOK, ThreadType, Fits, Goto, engine, store, Calling, Dispatching, Sending, Stopping, InTransition, InAction
<1> QED BY <1>2, <1>3, <1>5, <1>6 DEF Inv

LEMMA TimerLoopKeeps == ASSUME Inv, NEW t, t = Timer, TimerLoop PROVE Inv'
<1>1. /\ StoreType /\ MdType /\ EngineType /\ ThreadType /\ ThreadsOK
      /\ ShutdownOK /\ t \in Threads /\ Fits(t, pc[t], job[t])
      /\ pc[t] \in Places /\ job[t] \in Job
  BY ThreadFacts DEF Inv, ThreadsOK, ThreadType
<1>2. StoreType'
  BY <1>1 DEF TimerLoop, StoreType, MdType, Fits, Assign, Ids, Entry, Job, Params, store,
     Calling, Dispatching, Sending, InTransition, Run, Record
<1>3. MdType' /\ EngineType'
  BY <1>1, AsyncAssumption DEF TimerLoop, MdType, MdRecord, EngineType, StoreType, Fits, StatesOrNull,
     Ids, store, engine, Calling, Dispatching, Sending, InTransition, Run
<1>4. Around(t)
  BY <1>1 DEF TimerLoop, Around, Fits, EngineType, StoreType, Ids, store, Calling, Dispatching,
     Sending, Run
<1>5. ThreadType' /\ ThreadsOK'
  <2>1. CASE running
    <3>1. PICK j \in Job : j = job[t]
      BY <1>1
    <3>2. Move(t, "take", j)
      BY <1>1, <2>1, <3>1 DEF TimerLoop, Move, Goto, Assign, ThreadType
    <3>3. Fits(t, "take", j)'
      BY <1>1, <2>1, <3>1, ThreadFacts DEF TimerLoop, Fits, InAction, EngineType, StoreType, Ids, store,
         Calling, Dispatching, Sending, Stopping, InTransition, Run
    <3> QED BY <1>1, <1>4, <3>2, <3>3, OneThread DEF Places, Calling, Dispatching, Sending, Stopping, InTransition
  <2>2. CASE ~running
    <3>1. PICK j \in Job : j = job[t]
      BY <1>1
    <3>2. Move(t, "exited", j)
      BY <1>1, <2>2, <3>1 DEF TimerLoop, Move, Goto, Assign, ThreadType
    <3>3. Fits(t, "exited", j)'
      BY <1>1, <2>2, <3>1, ThreadFacts DEF TimerLoop, Fits, InAction, EngineType, StoreType, Ids, store,
         Calling, Dispatching, Sending, Stopping, InTransition, Run
    <3> QED BY <1>1, <1>4, <3>2, <3>3, OneThread DEF Places, Calling, Dispatching, Sending, Stopping, InTransition
  <2> QED BY <1>1, <2>1, <2>2 DEF TimerLoop
<1>6. ShutdownOK'
  BY <1>1, ThreadFacts DEF TimerLoop, ShutdownOK, ThreadType, Fits, Goto, engine, store, Calling, Dispatching, Sending, Stopping, InTransition, InAction
<1> QED BY <1>2, <1>3, <1>5, <1>6 DEF Inv

LEMMA TimerTakeKeeps == ASSUME Inv, NEW t, t = Timer, TimerTake PROVE Inv'
<1>1. /\ StoreType /\ MdType /\ EngineType /\ ThreadType /\ ThreadsOK
      /\ ShutdownOK /\ t \in Threads /\ Fits(t, pc[t], job[t])
      /\ pc[t] \in Places /\ job[t] \in Job
  BY ThreadFacts DEF Inv, ThreadsOK, ThreadType
<1>2. StoreType'
  BY <1>1 DEF TimerTake, StoreType, MdType, Fits, Assign, Ids, Entry, Job, Params, store,
     Calling, Dispatching, Sending, InTransition, Run, Record
<1>3. MdType' /\ EngineType'
  BY <1>1, AsyncAssumption DEF TimerTake, MdType, MdRecord, EngineType, StoreType, Fits, StatesOrNull,
     Ids, store, engine, Calling, Dispatching, Sending, InTransition, Run
<1>4. Around(t)
  BY <1>1 DEF TimerTake, Around, Fits, EngineType, StoreType, Ids, store, Calling, Dispatching,
     Sending, Run
<1>5. ThreadType' /\ ThreadsOK'
  <2>1. CASE Goto(Timer, "exited") /\ UNCHANGED job
    <3>1. PICK j \in Job : j = job[t]
      BY <1>1
    <3>2. Move(t, "exited", j)
      BY <1>1, <2>1, <3>1 DEF TimerTake, Move, Goto, Assign, ThreadType
    <3>3. Fits(t, "exited", j)'
      BY <1>1, <2>1, <3>1, ThreadFacts DEF TimerTake, Fits, InAction, EngineType, StoreType, Ids, store,
         Calling, Dispatching, Sending, Stopping, InTransition, Run
    <3> QED BY <1>1, <1>4, <3>2, <3>3, OneThread DEF Places, Calling, Dispatching, Sending, Stopping, InTransition
  <2>2. ASSUME NEW id \in queue, Assign(Timer, "entry", id), Goto(Timer, "check")
        PROVE  ThreadType' /\ ThreadsOK'
    <3>1. id \in Ids /\ id \in Nat
      BY <1>1, <2>2 DEF StoreType, Fits, Fires, ChartStates, Entry, EventsOrNull, Ids, Timeouts, Calling, InTransition
    <3> DEFINE r == [job[t] EXCEPT !.entry = id]
    <3>2. r \in Job
      BY <1>1, <2>2, <3>1 DEF Job, NoJob, Params, EventsOrNull, StatesOrNull, StoreType, Ids
    <3>3. /\ r.run = job[t].run
          /\ r.made = job[t].made
          /\ r.entry = id
          /\ r.to = job[t].to
      BY <1>1, <2>2, <3>1 DEF Job, NoJob
    <3>4. Move(t, "check", r)
      BY <1>1, <2>2 DEF TimerTake, Move, Goto, Assign, ThreadType
    <3> HIDE DEF r
    <3>5. PICK j \in Job : j = r
      BY <3>2
    <3>6. Move(t, "check", j)
      BY <3>5, <3>4
    <3>7. Fits(t, "check", j)'
      BY <1>1, <2>2, <3>1, <3>2, <3>3, <3>4, <3>5, ThreadFacts DEF TimerTake, Fits, InAction, EngineType, StoreType, Ids, store,
         Calling, Dispatching, Sending, Stopping, InTransition, Run
    <3> QED BY <1>1, <1>4, <3>6, <3>7, OneThread DEF Places, Calling, Dispatching, Sending, Stopping, InTransition
  <2> QED BY <1>1, <2>1, <2>2 DEF TimerTake
<1>6. ShutdownOK'
  BY <1>1, ThreadFacts DEF TimerTake, ShutdownOK, ThreadType, Fits, Goto, engine, store, Calling, Dispatching, Sending, Stopping, InTransition, InAction
<1> QED BY <1>2, <1>3, <1>5, <1>6 DEF Inv

LEMMA TimerCheckKeeps == ASSUME Inv, NEW t, t = Timer, TimerCheck PROVE Inv'
<1>1. /\ StoreType /\ MdType /\ EngineType /\ ThreadType /\ ThreadsOK
      /\ ShutdownOK /\ t \in Threads /\ Fits(t, pc[t], job[t])
      /\ pc[t] \in Places /\ job[t] \in Job
  BY ThreadFacts DEF Inv, ThreadsOK, ThreadType
<1>2. StoreType'
  BY <1>1 DEF TimerCheck, StoreType, MdType, Fits, Assign, Ids, Entry, Job, Params, store,
     Calling, Dispatching, Sending, InTransition, Run, Record
<1>3. MdType' /\ EngineType'
  BY <1>1, AsyncAssumption DEF TimerCheck, MdType, MdRecord, EngineType, StoreType, Fits, StatesOrNull,
     Ids, store, engine, Calling, Dispatching, Sending, InTransition, Run
<1>4. Around(t)
  BY <1>1 DEF TimerCheck, Around, Fits, EngineType, StoreType, Ids, store, Calling, Dispatching,
     Sending, Run
<1>5. ThreadType' /\ ThreadsOK'
  <2>1. CASE job[t].entry \in invalid
    <3> DEFINE r == [job[t] EXCEPT !.entry = 0]
    <3>1. r \in Job
      BY <1>1, <2>1 DEF Job, NoJob, Params, EventsOrNull, StatesOrNull, StoreType, Ids
    <3>2. /\ r.run = job[t].run
          /\ r.made = job[t].made
          /\ r.entry = 0
          /\ r.to = job[t].to
      BY <1>1, <2>1 DEF Job, NoJob
    <3>3. Move(t, "loop", r)
      BY <1>1, <2>1 DEF TimerCheck, Move, Goto, Assign, ThreadType
    <3> HIDE DEF r
    <3>4. PICK j \in Job : j = r
      BY <3>1
    <3>5. Move(t, "loop", j)
      BY <3>4, <3>3
    <3>6. Fits(t, "loop", j)'
      BY <1>1, <2>1, <3>1, <3>2, <3>3, <3>4, ThreadFacts DEF TimerCheck, Fits, InAction, EngineType, StoreType, Ids, store,
         Calling, Dispatching, Sending, Stopping, InTransition, Run
    <3> QED BY <1>1, <1>4, <3>5, <3>6, OneThread DEF Places, Calling, Dispatching, Sending, Stopping, InTransition
  <2>2. CASE job[t].entry \notin invalid
    <3>1. PICK j \in Job : j = job[t]
      BY <1>1
    <3>2. Move(t, "execute", j)
      BY <1>1, <2>2, <3>1 DEF TimerCheck, Move, Goto, Assign, ThreadType
    <3>3. Fits(t, "execute", j)'
      BY <1>1, <2>2, <3>1, ThreadFacts DEF TimerCheck, Fits, InAction, EngineType, StoreType, Ids, store,
         Calling, Dispatching, Sending, Stopping, InTransition, Run
    <3> QED BY <1>1, <1>4, <3>2, <3>3, OneThread DEF Places, Calling, Dispatching, Sending, Stopping, InTransition
  <2> QED BY <1>1, <2>1, <2>2 DEF TimerCheck
<1>6. ShutdownOK'
  BY <1>1, ThreadFacts DEF TimerCheck, ShutdownOK, ThreadType, Fits, Goto, engine, store, Calling, Dispatching, Sending, Stopping, InTransition, InAction
<1> QED BY <1>2, <1>3, <1>5, <1>6 DEF Inv

LEMMA TimerExecuteKeeps == ASSUME Inv, NEW t, t = Timer, TimerExecute PROVE Inv'
<1>1. /\ StoreType /\ MdType /\ EngineType /\ ThreadType /\ ThreadsOK
      /\ ShutdownOK /\ t \in Threads /\ Fits(t, pc[t], job[t])
      /\ pc[t] \in Places /\ job[t] \in Job
  BY ThreadFacts DEF Inv, ThreadsOK, ThreadType
<1>2. StoreType'
  <2>1. job[t].entry \in Ids /\ job[Timer].entry = job[t].entry
    BY <1>1 DEF TimerExecute, Fits
  <2>2. pool' \in Seq(Ids)
    BY <1>1, <2>1 DEF TimerExecute, Accept, StoreType
  <2> QED BY <1>1, <2>2 DEF TimerExecute, StoreType, Ids
<1>3. MdType' /\ EngineType'
  BY <1>1, AsyncAssumption DEF TimerExecute, Accept, MdType, MdRecord, EngineType, StoreType, Fits, StatesOrNull,
     Ids, store, engine, Calling, Dispatching, Sending, InTransition, Run
<1>4. Around(t)
  BY <1>1 DEF TimerExecute, Accept, Around, Fits, EngineType, StoreType, Ids, store, Calling, Dispatching,
     Sending, Run
<1>5. ThreadType' /\ ThreadsOK'
  <2>1. CASE poolShut
    <3> DEFINE r == [job[t] EXCEPT !.entry = 0]
    <3>1. r \in Job
      BY <1>1, <2>1 DEF Job, NoJob, Params, EventsOrNull, StatesOrNull, StoreType, Ids
    <3>2. /\ r.run = job[t].run
          /\ r.made = job[t].made
          /\ r.entry = 0
          /\ r.to = job[t].to
      BY <1>1, <2>1 DEF Job, NoJob
    <3>3. Move(t, "exited", r)
      BY <1>1, <2>1 DEF TimerExecute, Accept, Move, Goto, Assign, ThreadType
    <3> HIDE DEF r
    <3>4. PICK j \in Job : j = r
      BY <3>1
    <3>5. Move(t, "exited", j)
      BY <3>4, <3>3
    <3>6. Fits(t, "exited", j)'
      BY <1>1, <2>1, <3>1, <3>2, <3>3, <3>4, ThreadFacts DEF TimerExecute, Accept, Fits, InAction, EngineType, StoreType, Ids, store,
         Calling, Dispatching, Sending, Stopping, InTransition, Run
    <3> QED BY <1>1, <1>4, <3>5, <3>6, OneThread DEF Places, Calling, Dispatching, Sending, Stopping, InTransition
  <2>2. CASE ~poolShut
    <3> DEFINE r == [job[t] EXCEPT !.entry = 0]
    <3>1. r \in Job
      BY <1>1, <2>2 DEF Job, NoJob, Params, EventsOrNull, StatesOrNull, StoreType, Ids
    <3>2. /\ r.run = job[t].run
          /\ r.made = job[t].made
          /\ r.entry = 0
          /\ r.to = job[t].to
      BY <1>1, <2>2 DEF Job, NoJob
    <3>3. Move(t, "loop", r)
      BY <1>1, <2>2 DEF TimerExecute, Accept, Move, Goto, Assign, ThreadType
    <3> HIDE DEF r
    <3>4. PICK j \in Job : j = r
      BY <3>1
    <3>5. Move(t, "loop", j)
      BY <3>4, <3>3
    <3>6. Fits(t, "loop", j)'
      BY <1>1, <2>2, <3>1, <3>2, <3>3, <3>4, ThreadFacts DEF TimerExecute, Accept, Fits, InAction, EngineType, StoreType, Ids, store,
         Calling, Dispatching, Sending, Stopping, InTransition, Run
    <3> QED BY <1>1, <1>4, <3>5, <3>6, OneThread DEF Places, Calling, Dispatching, Sending, Stopping, InTransition
  <2> QED BY <1>1, <2>1, <2>2 DEF TimerExecute, Accept
<1>6. ShutdownOK'
  BY <1>1, ThreadFacts DEF TimerExecute, Accept, ShutdownOK, ThreadType, Fits, Goto, engine, store, Calling, Dispatching, Sending, Stopping, InTransition, InAction
<1> QED BY <1>2, <1>3, <1>5, <1>6 DEF Inv

LEMMA WorkerTakeKeeps == ASSUME Inv, NEW t, t = Worker, WorkerTake PROVE Inv'
<1>1. /\ StoreType /\ MdType /\ EngineType /\ ThreadType /\ ThreadsOK
      /\ ShutdownOK /\ t \in Threads /\ Fits(t, pc[t], job[t])
      /\ pc[t] \in Places /\ job[t] \in Job
  BY ThreadFacts DEF Inv, ThreadsOK, ThreadType
<1>2. StoreType'
  <2>1. /\ pool' = pool \/ (pool # <<>> /\ pool' = Tail(pool))
        /\ UNCHANGED <<queue, pending, entries, invalid, ran>>
    BY DEF WorkerTake
  <2>2. pool' \in Seq(Ids)
    <3>1. pool \in Seq(Ids)
      BY <1>1 DEF StoreType
    <3>2. pool # <<>> => Tail(pool) \in Seq(Ids)
      BY <3>1
    <3> QED BY <2>1, <3>1, <3>2
  <2>3. Ids' = Ids
    BY <2>1 DEF Ids
  <2> QED BY <1>1, <2>1, <2>2, <2>3 DEF StoreType
<1>3. MdType' /\ EngineType'
  BY <1>1, AsyncAssumption DEF WorkerTake, MdType, MdRecord, EngineType, StoreType, Fits, StatesOrNull,
     Ids, store, engine, Calling, Dispatching, Sending, InTransition, Run
<1>4. Around(t)
  BY <1>1 DEF WorkerTake, Around, Fits, EngineType, StoreType, Ids, store, Calling, Dispatching,
     Sending, Run
<1>5. ThreadType' /\ ThreadsOK'
  <2>1. ASSUME pool # <<>>, Assign(Worker, "entry", Head(pool)), Goto(Worker, "valid")
        PROVE  ThreadType' /\ ThreadsOK'
    <3>1. Head(pool) \in Ids /\ Head(pool) \in Nat
      BY <1>1, <2>1 DEF StoreType, Fits, Fires, ChartStates, Entry, EventsOrNull, Ids, Timeouts, Calling, InTransition
    <3> DEFINE r == [job[t] EXCEPT !.entry = Head(pool)]
    <3>2. r \in Job
      BY <1>1, <2>1, <3>1 DEF Job, NoJob, Params, EventsOrNull, StatesOrNull, StoreType, Ids
    <3>3. /\ r.run = job[t].run
          /\ r.made = job[t].made
          /\ r.entry = Head(pool)
          /\ r.to = job[t].to
      BY <1>1, <2>1, <3>1 DEF Job, NoJob
    <3>4. Move(t, "valid", r)
      BY <1>1, <2>1 DEF WorkerTake, Move, Goto, Assign, ThreadType
    <3> HIDE DEF r
    <3>5. PICK j \in Job : j = r
      BY <3>2
    <3>6. Move(t, "valid", j)
      BY <3>5, <3>4
    <3>7. Fits(t, "valid", j)'
      BY <1>1, <2>1, <3>1, <3>2, <3>3, <3>4, <3>5, ThreadFacts DEF WorkerTake, Fits, InAction, EngineType, StoreType, Ids, store,
         Calling, Dispatching, Sending, Stopping, InTransition, Run
    <3> QED BY <1>1, <1>4, <3>6, <3>7, OneThread DEF Places, Calling, Dispatching, Sending, Stopping, InTransition
  <2>2. CASE Goto(Worker, "exited") /\ UNCHANGED job
    <3>1. PICK j \in Job : j = job[t]
      BY <1>1
    <3>2. Move(t, "exited", j)
      BY <1>1, <2>2, <3>1 DEF WorkerTake, Move, Goto, Assign, ThreadType
    <3>3. Fits(t, "exited", j)'
      BY <1>1, <2>2, <3>1, ThreadFacts DEF WorkerTake, Fits, InAction, EngineType, StoreType, Ids, store,
         Calling, Dispatching, Sending, Stopping, InTransition, Run
    <3> QED BY <1>1, <1>4, <3>2, <3>3, OneThread DEF Places, Calling, Dispatching, Sending, Stopping, InTransition
  <2> QED BY <1>1, <2>1, <2>2 DEF WorkerTake
<1>6. ShutdownOK'
  BY <1>1, ThreadFacts DEF WorkerTake, ShutdownOK, ThreadType, Fits, Goto, engine, store, Calling, Dispatching, Sending, Stopping, InTransition, InAction
<1> QED BY <1>2, <1>3, <1>5, <1>6 DEF Inv

LEMMA WorkerValidKeeps == ASSUME Inv, NEW t, t = Worker, WorkerValid PROVE Inv'
<1>1. /\ StoreType /\ MdType /\ EngineType /\ ThreadType /\ ThreadsOK
      /\ ShutdownOK /\ t \in Threads /\ Fits(t, pc[t], job[t])
      /\ pc[t] \in Places /\ job[t] \in Job
  BY ThreadFacts DEF Inv, ThreadsOK, ThreadType
<1>2. StoreType'
  BY <1>1 DEF WorkerValid, Skip, StoreType, MdType, Fits, Assign, Ids, Entry, Job, Params, store,
     Calling, Dispatching, Sending, InTransition, Run, Record
<1>3. MdType' /\ EngineType'
  BY <1>1, AsyncAssumption DEF WorkerValid, Skip, MdType, MdRecord, EngineType, StoreType, Fits, StatesOrNull,
     Ids, store, engine, Calling, Dispatching, Sending, InTransition, Run
<1>4. Around(t)
  BY <1>1 DEF WorkerValid, Skip, Around, Fits, EngineType, StoreType, Ids, store, Calling, Dispatching,
     Sending, Run
<1>5. ThreadType' /\ ThreadsOK'
  <2>1. CASE job[t].entry \in invalid
    <3> DEFINE r == [job[t] EXCEPT !.entry = 0]
    <3>1. r \in Job
      BY <1>1, <2>1 DEF Job, NoJob, Params, EventsOrNull, StatesOrNull, StoreType, Ids
    <3>2. /\ r.run = job[t].run
          /\ r.made = job[t].made
          /\ r.entry = 0
          /\ r.to = job[t].to
      BY <1>1, <2>1 DEF Job, NoJob
    <3>3. Move(t, "take", r)
      BY <1>1, <2>1 DEF WorkerValid, Skip, Move, Goto, Assign, ThreadType
    <3> HIDE DEF r
    <3>4. PICK j \in Job : j = r
      BY <3>1
    <3>5. Move(t, "take", j)
      BY <3>4, <3>3
    <3>6. Fits(t, "take", j)'
      BY <1>1, <2>1, <3>1, <3>2, <3>3, <3>4, ThreadFacts DEF WorkerValid, Skip, Fits, InAction, EngineType, StoreType, Ids, store,
         Calling, Dispatching, Sending, Stopping, InTransition, Run
    <3> QED BY <1>1, <1>4, <3>5, <3>6, OneThread DEF Places, Calling, Dispatching, Sending, Stopping, InTransition
  <2>2. CASE job[t].entry \notin invalid
    <3>1. PICK j \in Job : j = job[t]
      BY <1>1
    <3>2. Move(t, "bound", j)
      BY <1>1, <2>2, <3>1 DEF WorkerValid, Skip, Move, Goto, Assign, ThreadType
    <3>3. Fits(t, "bound", j)'
      BY <1>1, <2>2, <3>1, ThreadFacts DEF WorkerValid, Skip, Fits, InAction, EngineType, StoreType, Ids, store,
         Calling, Dispatching, Sending, Stopping, InTransition, Run
    <3> QED BY <1>1, <1>4, <3>2, <3>3, OneThread DEF Places, Calling, Dispatching, Sending, Stopping, InTransition
  <2> QED BY <1>1, <2>1, <2>2 DEF WorkerValid, Skip
<1>6. ShutdownOK'
  BY <1>1, ThreadFacts DEF WorkerValid, Skip, ShutdownOK, ThreadType, Fits, Goto, engine, store, Calling, Dispatching, Sending, Stopping, InTransition, InAction
<1> QED BY <1>2, <1>3, <1>5, <1>6 DEF Inv

LEMMA WorkerBoundKeeps == ASSUME Inv, NEW t, t = Worker, WorkerBound PROVE Inv'
<1>1. /\ StoreType /\ MdType /\ EngineType /\ ThreadType /\ ThreadsOK
      /\ ShutdownOK /\ t \in Threads /\ Fits(t, pc[t], job[t])
      /\ pc[t] \in Places /\ job[t] \in Job
  BY ThreadFacts DEF Inv, ThreadsOK, ThreadType
<1>2. StoreType'
  BY <1>1 DEF WorkerBound, Skip, StoreType, MdType, Fits, Assign, Ids, Entry, Job, Params, store,
     Calling, Dispatching, Sending, InTransition, Run, Record
<1>3. MdType' /\ EngineType'
  BY <1>1, AsyncAssumption DEF WorkerBound, Skip, MdType, MdRecord, EngineType, StoreType, Fits, StatesOrNull,
     Ids, store, engine, Calling, Dispatching, Sending, InTransition, Run
<1>4. Around(t)
  BY <1>1 DEF WorkerBound, Skip, Around, Fits, EngineType, StoreType, Ids, store, Calling, Dispatching,
     Sending, Run
<1>5. ThreadType' /\ ThreadsOK'
  <2>1. ASSUME NEW e \in Entry, e = entries[job[t].entry],
             job' = [job EXCEPT ![Worker].run = e.run, ![Worker].event = e.event,
                                ![Worker].param = e.param],
             Goto(Worker, "lock")
        PROVE  ThreadType' /\ ThreadsOK'
    <3>1. e.run \in Runs /\ e.event \in EventsOrNull /\ e.param \in Params
      BY <1>1, <2>1 DEF StoreType, Fits, Fires, ChartStates, Entry, EventsOrNull, Ids, Timeouts, Calling, InTransition
    <3> DEFINE r == [job[t] EXCEPT !.run = e.run, !.event = e.event, !.param = e.param]
    <3>2. r \in Job
      BY <1>1, <2>1, <3>1 DEF Job, NoJob, Params, EventsOrNull, StatesOrNull, StoreType, Ids
    <3>3. /\ r.run = e.run
          /\ r.made = job[t].made
          /\ r.entry = job[t].entry
          /\ r.to = job[t].to
      BY <1>1, <2>1, <3>1 DEF Job, NoJob
    <3>4. Move(t, "lock", r)
      BY <1>1, <2>1 DEF WorkerBound, Skip, Move, Goto, Assign, ThreadType
    <3> HIDE DEF r
    <3>5. PICK j \in Job : j = r
      BY <3>2
    <3>6. Move(t, "lock", j)
      BY <3>5, <3>4
    <3>7. Fits(t, "lock", j)'
      BY <1>1, <2>1, <3>1, <3>2, <3>3, <3>4, <3>5, ThreadFacts DEF WorkerBound, Skip, Fits, InAction, EngineType, StoreType, Ids, store,
         Calling, Dispatching, Sending, Stopping, InTransition, Run
    <3> QED BY <1>1, <1>4, <3>6, <3>7, OneThread DEF Places, Calling, Dispatching, Sending, Stopping, InTransition
  <2>2. ASSUME Skip
        PROVE  ThreadType' /\ ThreadsOK'
    <3> DEFINE r == [job[t] EXCEPT !.entry = 0]
    <3>1. r \in Job
      BY <1>1, <2>2 DEF Job, NoJob, Params, EventsOrNull, StatesOrNull, StoreType, Ids
    <3>2. /\ r.run = job[t].run
          /\ r.made = job[t].made
          /\ r.entry = 0
          /\ r.to = job[t].to
      BY <1>1, <2>2 DEF Job, NoJob
    <3>3. Move(t, "take", r)
      BY <1>1, <2>2 DEF WorkerBound, Skip, Move, Goto, Assign, ThreadType
    <3> HIDE DEF r
    <3>4. PICK j \in Job : j = r
      BY <3>1
    <3>5. Move(t, "take", j)
      BY <3>4, <3>3
    <3>6. Fits(t, "take", j)'
      BY <1>1, <2>2, <3>1, <3>2, <3>3, <3>4, ThreadFacts DEF WorkerBound, Skip, Fits, InAction, EngineType, StoreType, Ids, store,
         Calling, Dispatching, Sending, Stopping, InTransition, Run
    <3> QED BY <1>1, <1>4, <3>5, <3>6, OneThread DEF Places, Calling, Dispatching, Sending, Stopping, InTransition
  <2> QED
    <3>1. job[t].entry \in Ids
      BY <1>1 DEF WorkerBound, Fits
    <3>2. entries[job[t].entry] \in Entry
      BY <1>1, <3>1 DEF StoreType, Ids
    <3> QED BY <2>1, <2>2, <3>2 DEF WorkerBound
<1>6. ShutdownOK'
  BY <1>1, ThreadFacts DEF WorkerBound, Skip, ShutdownOK, ThreadType, Fits, Goto, engine, store, Calling, Dispatching, Sending, Stopping, InTransition, InAction
<1> QED BY <1>2, <1>3, <1>5, <1>6 DEF Inv

LEMMA StartRunKeeps == ASSUME Inv, NEW t \in Clients, NEW m \in Runs, StartRun(t, m) PROVE Inv'
<1>1. /\ StoreType /\ MdType /\ EngineType /\ ThreadType /\ ThreadsOK
      /\ ShutdownOK /\ t \in Threads /\ Fits(t, pc[t], job[t])
      /\ pc[t] \in Places /\ job[t] \in Job
  BY ThreadFacts DEF Inv, ThreadsOK, ThreadType
<1>2. StoreType'
  BY <1>1 DEF StartRun, Called, Started, StoreType, MdType, Fits, Assign, Ids, Entry, Job, Params, store,
     Calling, Dispatching, Sending, InTransition, Run, Record
<1>3. MdType' /\ EngineType'
  <2>1. UNCHANGED <<entries, engine, holder>> /\ calls < MaxCalls /\ calls' = calls + 1
    BY DEF StartRun, Called, store
  <2>2. Started(m) \in MdRecord
    BY <1>1, AsyncAssumption DEF Started, MdType, MdRecord, StatesOrNull
  <2>3. md' = [md EXCEPT ![m] = Started(m)]
    BY DEF StartRun
  <2>4. MdType'
    BY <1>1, <2>1, <2>2, <2>3 DEF MdType, MdRecord, Ids
  <2> QED BY <1>1, <2>1, <2>4, AsyncAssumption DEF EngineType, engine
<1>4. Around(t)
  BY <1>1 DEF StartRun, Called, Started, Around, Fits, EngineType, StoreType, Ids, store, Calling, Dispatching,
     Sending, Run
<1>5. ThreadType' /\ ThreadsOK'
  <2>1. ASSUME NEW p \in Params, Called(t, m, Null, p, "send")
        PROVE  ThreadType' /\ ThreadsOK'
    <3> DEFINE r == [NoJob EXCEPT !.run = m, !.event = Null,
                            !.param = p, !.sent = Null]
    <3>1. r \in Job
      BY <1>1, <2>1 DEF Job, NoJob, Params, EventsOrNull, StatesOrNull, StoreType, Ids
    <3>2. /\ r.run = m
          /\ r.made = 0
          /\ r.entry = 0
          /\ r.to = Null
      BY <1>1, <2>1 DEF Job, NoJob
    <3>3. Move(t, "send", r)
      BY <1>1, <2>1 DEF StartRun, Called, Started, Move, Goto, Assign, ThreadType
    <3> HIDE DEF r
    <3>4. PICK j \in Job : j = r
      BY <3>1
    <3>5. Move(t, "send", j)
      BY <3>4, <3>3
    <3>6. Fits(t, "send", j)'
      BY <1>1, <2>1, <3>1, <3>2, <3>3, <3>4, ThreadFacts DEF StartRun, Called, Started, Fits, InAction, EngineType, StoreType, Ids, store,
         Calling, Dispatching, Sending, Stopping, InTransition, Run
    <3> QED BY <1>1, <1>4, <3>5, <3>6, OneThread DEF Places, Calling, Dispatching, Sending, Stopping, InTransition
  <2>2. ASSUME NEW p \in Params, Called(t, m, Null, p, "lock")
        PROVE  ThreadType' /\ ThreadsOK'
    <3> DEFINE r == [NoJob EXCEPT !.run = m, !.event = Null,
                            !.param = p, !.sent = Null]
    <3>1. r \in Job
      BY <1>1, <2>2 DEF Job, NoJob, Params, EventsOrNull, StatesOrNull, StoreType, Ids
    <3>2. /\ r.run = m
          /\ r.made = 0
          /\ r.entry = 0
          /\ r.to = Null
      BY <1>1, <2>2 DEF Job, NoJob
    <3>3. Move(t, "lock", r)
      BY <1>1, <2>2 DEF StartRun, Called, Started, Move, Goto, Assign, ThreadType
    <3> HIDE DEF r
    <3>4. PICK j \in Job : j = r
      BY <3>1
    <3>5. Move(t, "lock", j)
      BY <3>4, <3>3
    <3>6. Fits(t, "lock", j)'
      BY <1>1, <2>2, <3>1, <3>2, <3>3, <3>4, ThreadFacts DEF StartRun, Called, Started, Fits, InAction, EngineType, StoreType, Ids, store,
         Calling, Dispatching, Sending, Stopping, InTransition, Run
    <3> QED BY <1>1, <1>4, <3>5, <3>6, OneThread DEF Places, Calling, Dispatching, Sending, Stopping, InTransition
  <2>3. \E p \in {User, Local} : \/ Called(t, m, Null, p, "send")
                                \/ Called(t, m, Null, p, "lock")
    BY AsyncAssumption DEF StartRun
  <2> QED BY <2>1, <2>2, <2>3 DEF Params
<1>6. ShutdownOK'
  <2>1. \E w \in {"send", "lock"} : Goto(t, w)
    BY DEF StartRun, Called
  <2>2. UNCHANGED <<pool, engine>>
    BY DEF StartRun, Called, store
  <2> QED BY <1>1, <2>1, <2>2, ThreadFacts DEF ShutdownOK, ThreadType, Goto, engine
<1> QED BY <1>2, <1>3, <1>5, <1>6 DEF Inv

LEMMA DispatchRunKeeps == ASSUME Inv, NEW t \in Clients, NEW m \in Runs, NEW e \in Sendable, DispatchRun(t, m, e) PROVE Inv'
<1>1. /\ StoreType /\ MdType /\ EngineType /\ ThreadType /\ ThreadsOK
      /\ ShutdownOK /\ t \in Threads /\ Fits(t, pc[t], job[t])
      /\ pc[t] \in Places /\ job[t] \in Job
  BY ThreadFacts DEF Inv, ThreadsOK, ThreadType
<1>2. StoreType'
  BY <1>1 DEF DispatchRun, Called, Started, StoreType, MdType, Fits, Assign, Ids, Entry, Job, Params, store,
     Calling, Dispatching, Sending, InTransition, Run, Record
<1>3. MdType' /\ EngineType'
  <2>1. UNCHANGED <<entries, engine, holder, md>> /\ calls < MaxCalls /\ calls' = calls + 1
    BY DEF DispatchRun, Called, store
  <2> QED BY <1>1, <2>1, AsyncAssumption DEF MdType, MdRecord, EngineType, engine, Ids
<1>4. Around(t)
  BY <1>1 DEF DispatchRun, Called, Started, Around, Fits, EngineType, StoreType, Ids, store, Calling, Dispatching,
     Sending, Run
<1>5. ThreadType' /\ ThreadsOK'
  <2>1. ASSUME NEW p \in Params, Called(t, m, e, p, "send")
        PROVE  ThreadType' /\ ThreadsOK'
    <3> DEFINE r == [NoJob EXCEPT !.run = m, !.event = e,
                            !.param = p, !.sent = e]
    <3>1. r \in Job
      BY <1>1, <2>1 DEF Job, NoJob, Params, EventsOrNull, StatesOrNull, StoreType, Ids
    <3>2. /\ r.run = m
          /\ r.made = 0
          /\ r.entry = 0
          /\ r.to = Null
      BY <1>1, <2>1 DEF Job, NoJob
    <3>3. Move(t, "send", r)
      BY <1>1, <2>1 DEF DispatchRun, Called, Started, Move, Goto, Assign, ThreadType
    <3> HIDE DEF r
    <3>4. PICK j \in Job : j = r
      BY <3>1
    <3>5. Move(t, "send", j)
      BY <3>4, <3>3
    <3>6. Fits(t, "send", j)'
      BY <1>1, <2>1, <3>1, <3>2, <3>3, <3>4, ThreadFacts DEF DispatchRun, Called, Started, Fits, InAction, EngineType, StoreType, Ids, store,
         Calling, Dispatching, Sending, Stopping, InTransition, Run
    <3> QED BY <1>1, <1>4, <3>5, <3>6, OneThread DEF Places, Calling, Dispatching, Sending, Stopping, InTransition
  <2>2. ASSUME NEW p \in Params, Called(t, m, e, p, "lock")
        PROVE  ThreadType' /\ ThreadsOK'
    <3> DEFINE r == [NoJob EXCEPT !.run = m, !.event = e,
                            !.param = p, !.sent = e]
    <3>1. r \in Job
      BY <1>1, <2>2 DEF Job, NoJob, Params, EventsOrNull, StatesOrNull, StoreType, Ids
    <3>2. /\ r.run = m
          /\ r.made = 0
          /\ r.entry = 0
          /\ r.to = Null
      BY <1>1, <2>2 DEF Job, NoJob
    <3>3. Move(t, "lock", r)
      BY <1>1, <2>2 DEF DispatchRun, Called, Started, Move, Goto, Assign, ThreadType
    <3> HIDE DEF r
    <3>4. PICK j \in Job : j = r
      BY <3>1
    <3>5. Move(t, "lock", j)
      BY <3>4, <3>3
    <3>6. Fits(t, "lock", j)'
      BY <1>1, <2>2, <3>1, <3>2, <3>3, <3>4, ThreadFacts DEF DispatchRun, Called, Started, Fits, InAction, EngineType, StoreType, Ids, store,
         Calling, Dispatching, Sending, Stopping, InTransition, Run
    <3> QED BY <1>1, <1>4, <3>5, <3>6, OneThread DEF Places, Calling, Dispatching, Sending, Stopping, InTransition
  <2>3. \E p \in {User, Local} : \/ Called(t, m, e, p, "send")
                                \/ Called(t, m, e, p, "lock")
    BY AsyncAssumption DEF DispatchRun
  <2> QED BY <2>1, <2>2, <2>3 DEF Params
<1>6. ShutdownOK'
  <2>1. \E w \in {"send", "lock"} : Goto(t, w)
    BY DEF DispatchRun, Called
  <2>2. UNCHANGED <<pool, engine>>
    BY DEF DispatchRun, Called, store
  <2> QED BY <1>1, <2>1, <2>2, ThreadFacts DEF ShutdownOK, ThreadType, Goto, engine
<1> QED BY <1>2, <1>3, <1>5, <1>6 DEF Inv

LEMMA ShutdownKeeps == ASSUME Inv, NEW t \in Owners, Shutdown(t) PROVE Inv'
<1>1. /\ StoreType /\ MdType /\ EngineType /\ ThreadType /\ ThreadsOK
      /\ ShutdownOK /\ t \in Threads /\ Fits(t, pc[t], job[t])
      /\ pc[t] \in Places /\ job[t] \in Job
  BY ThreadFacts DEF Inv, ThreadsOK, ThreadType
<1>2. StoreType'
  BY <1>1 DEF Shutdown, StoreType, MdType, Fits, Assign, Ids, Entry, Job, Params, store,
     Calling, Dispatching, Sending, InTransition, Run, Record
<1>3. MdType' /\ EngineType'
  BY <1>1, AsyncAssumption DEF Shutdown, MdType, MdRecord, EngineType, StoreType, Fits, StatesOrNull,
     Ids, store, engine, Calling, Dispatching, Sending, InTransition, Run
<1>4. Around(t)
  BY <1>1 DEF Shutdown, Around, Fits, EngineType, StoreType, Ids, store, Calling, Dispatching,
     Sending, Run
<1>5. ThreadType' /\ ThreadsOK'
  <2>1. PICK j \in Job : j = job[t]
    BY <1>1
  <2>2. Move(t, "clear", j)
    BY <1>1, <2>1 DEF Shutdown, Move, Goto, Assign, ThreadType
  <2>3. Fits(t, "clear", j)'
    BY <1>1, <2>1, ThreadFacts DEF Shutdown, Fits, InAction, EngineType, StoreType, Ids, store,
       Calling, Dispatching, Sending, Stopping, InTransition, Run
  <2> QED BY <1>1, <1>4, <2>2, <2>3, OneThread DEF Places, Calling, Dispatching, Sending, Stopping, InTransition
<1>6. ShutdownOK'
  BY <1>1, ThreadFacts DEF Shutdown, ShutdownOK, ThreadType, Fits, Goto, engine, store, Calling, Dispatching, Sending, Stopping, InTransition, InAction
<1> QED BY <1>2, <1>3, <1>5, <1>6 DEF Inv

LEMMA QueueClearKeeps == ASSUME Inv, NEW t \in Owners, QueueClear(t) PROVE Inv'
<1>1. /\ StoreType /\ MdType /\ EngineType /\ ThreadType /\ ThreadsOK
      /\ ShutdownOK /\ t \in Threads /\ Fits(t, pc[t], job[t])
      /\ pc[t] \in Places /\ job[t] \in Job
  BY ThreadFacts DEF Inv, ThreadsOK, ThreadType
<1>2. StoreType'
  BY <1>1 DEF QueueClear, StoreType, MdType, Fits, Assign, Ids, Entry, Job, Params, store,
     Calling, Dispatching, Sending, InTransition, Run, Record
<1>3. MdType' /\ EngineType'
  BY <1>1, AsyncAssumption DEF QueueClear, MdType, MdRecord, EngineType, StoreType, Fits, StatesOrNull,
     Ids, store, engine, Calling, Dispatching, Sending, InTransition, Run
<1>4. Around(t)
  BY <1>1 DEF QueueClear, Around, Fits, EngineType, StoreType, Ids, store, Calling, Dispatching,
     Sending, Run
<1>5. ThreadType' /\ ThreadsOK'
  <2>1. PICK j \in Job : j = job[t]
    BY <1>1
  <2>2. Move(t, "stop", j)
    BY <1>1, <2>1 DEF QueueClear, Move, Goto, Assign, ThreadType
  <2>3. Fits(t, "stop", j)'
    BY <1>1, <2>1, ThreadFacts DEF QueueClear, Fits, InAction, EngineType, StoreType, Ids, store,
       Calling, Dispatching, Sending, Stopping, InTransition, Run
  <2> QED BY <1>1, <1>4, <2>2, <2>3, OneThread DEF Places, Calling, Dispatching, Sending, Stopping, InTransition
<1>6. ShutdownOK'
  BY <1>1, ThreadFacts DEF QueueClear, ShutdownOK, ThreadType, Fits, Goto, engine, store, Calling, Dispatching, Sending, Stopping, InTransition, InAction
<1> QED BY <1>2, <1>3, <1>5, <1>6 DEF Inv

LEMMA QueueStopKeeps == ASSUME Inv, NEW t \in Owners, QueueStop(t) PROVE Inv'
<1>1. /\ StoreType /\ MdType /\ EngineType /\ ThreadType /\ ThreadsOK
      /\ ShutdownOK /\ t \in Threads /\ Fits(t, pc[t], job[t])
      /\ pc[t] \in Places /\ job[t] \in Job
  BY ThreadFacts DEF Inv, ThreadsOK, ThreadType
<1>2. StoreType'
  BY <1>1 DEF QueueStop, StoreType, MdType, Fits, Assign, Ids, Entry, Job, Params, store,
     Calling, Dispatching, Sending, InTransition, Run, Record
<1>3. MdType' /\ EngineType'
  BY <1>1, AsyncAssumption DEF QueueStop, MdType, MdRecord, EngineType, StoreType, Fits, StatesOrNull,
     Ids, store, engine, Calling, Dispatching, Sending, InTransition, Run
<1>4. Around(t)
  BY <1>1 DEF QueueStop, Around, Fits, EngineType, StoreType, Ids, store, Calling, Dispatching,
     Sending, Run
<1>5. ThreadType' /\ ThreadsOK'
  <2>1. PICK j \in Job : j = job[t]
    BY <1>1
  <2>2. Move(t, "poolDown", j)
    BY <1>1, <2>1 DEF QueueStop, Move, Goto, Assign, ThreadType
  <2>3. Fits(t, "poolDown", j)'
    BY <1>1, <2>1, ThreadFacts DEF QueueStop, Fits, InAction, EngineType, StoreType, Ids, store,
       Calling, Dispatching, Sending, Stopping, InTransition, Run
  <2> QED BY <1>1, <1>4, <2>2, <2>3, OneThread DEF Places, Calling, Dispatching, Sending, Stopping, InTransition
<1>6. ShutdownOK'
  BY <1>1, ThreadFacts DEF QueueStop, ShutdownOK, ThreadType, Fits, Goto, engine, store, Calling, Dispatching, Sending, Stopping, InTransition, InAction
<1> QED BY <1>2, <1>3, <1>5, <1>6 DEF Inv

LEMMA PoolDownKeeps == ASSUME Inv, NEW t \in Owners, PoolDown(t) PROVE Inv'
<1>1. /\ StoreType /\ MdType /\ EngineType /\ ThreadType /\ ThreadsOK
      /\ ShutdownOK /\ t \in Threads /\ Fits(t, pc[t], job[t])
      /\ pc[t] \in Places /\ job[t] \in Job
  BY ThreadFacts DEF Inv, ThreadsOK, ThreadType
<1>2. StoreType'
  BY <1>1 DEF PoolDown, StoreType, MdType, Fits, Assign, Ids, Entry, Job, Params, store,
     Calling, Dispatching, Sending, InTransition, Run, Record
<1>3. MdType' /\ EngineType'
  BY <1>1, AsyncAssumption DEF PoolDown, MdType, MdRecord, EngineType, StoreType, Fits, StatesOrNull,
     Ids, store, engine, Calling, Dispatching, Sending, InTransition, Run
<1>4. Around(t)
  BY <1>1 DEF PoolDown, Around, Fits, EngineType, StoreType, Ids, store, Calling, Dispatching,
     Sending, Run
<1>5. ThreadType' /\ ThreadsOK'
  <2>1. PICK j \in Job : j = job[t]
    BY <1>1
  <2>2. Move(t, "joinTimer", j)
    BY <1>1, <2>1 DEF PoolDown, Move, Goto, Assign, ThreadType
  <2>3. Fits(t, "joinTimer", j)'
    BY <1>1, <2>1, ThreadFacts DEF PoolDown, Fits, InAction, EngineType, StoreType, Ids, store,
       Calling, Dispatching, Sending, Stopping, InTransition, Run
  <2> QED BY <1>1, <1>4, <2>2, <2>3, OneThread DEF Places, Calling, Dispatching, Sending, Stopping, InTransition
<1>6. ShutdownOK'
  BY <1>1, ThreadFacts DEF PoolDown, ShutdownOK, ThreadType, Fits, Goto, engine, store, Calling, Dispatching, Sending, Stopping, InTransition, InAction
<1> QED BY <1>2, <1>3, <1>5, <1>6 DEF Inv

LEMMA JoinTimerKeeps == ASSUME Inv, NEW t \in Owners, JoinTimer(t) PROVE Inv'
<1>1. /\ StoreType /\ MdType /\ EngineType /\ ThreadType /\ ThreadsOK
      /\ ShutdownOK /\ t \in Threads /\ Fits(t, pc[t], job[t])
      /\ pc[t] \in Places /\ job[t] \in Job
  BY ThreadFacts DEF Inv, ThreadsOK, ThreadType
<1>2. StoreType'
  BY <1>1 DEF JoinTimer, StoreType, MdType, Fits, Assign, Ids, Entry, Job, Params, store,
     Calling, Dispatching, Sending, InTransition, Run, Record
<1>3. MdType' /\ EngineType'
  BY <1>1, AsyncAssumption DEF JoinTimer, MdType, MdRecord, EngineType, StoreType, Fits, StatesOrNull,
     Ids, store, engine, Calling, Dispatching, Sending, InTransition, Run
<1>4. Around(t)
  BY <1>1 DEF JoinTimer, Around, Fits, EngineType, StoreType, Ids, store, Calling, Dispatching,
     Sending, Run
<1>5. ThreadType' /\ ThreadsOK'
  <2>1. PICK j \in Job : j = job[t]
    BY <1>1
  <2>2. Move(t, "joinWorker", j)
    BY <1>1, <2>1 DEF JoinTimer, Move, Goto, Assign, ThreadType
  <2>3. Fits(t, "joinWorker", j)'
    BY <1>1, <2>1, ThreadFacts DEF JoinTimer, Fits, InAction, EngineType, StoreType, Ids, store,
       Calling, Dispatching, Sending, Stopping, InTransition, Run
  <2> QED BY <1>1, <1>4, <2>2, <2>3, OneThread DEF Places, Calling, Dispatching, Sending, Stopping, InTransition
<1>6. ShutdownOK'
  BY <1>1, ThreadFacts DEF JoinTimer, ShutdownOK, ThreadType, Fits, Goto, engine, store, Calling, Dispatching, Sending, Stopping, InTransition, InAction
<1> QED BY <1>2, <1>3, <1>5, <1>6 DEF Inv

LEMMA JoinWorkerKeeps == ASSUME Inv, NEW t \in Owners, JoinWorker(t) PROVE Inv'
<1>1. /\ StoreType /\ MdType /\ EngineType /\ ThreadType /\ ThreadsOK
      /\ ShutdownOK /\ t \in Threads /\ Fits(t, pc[t], job[t])
      /\ pc[t] \in Places /\ job[t] \in Job
  BY ThreadFacts DEF Inv, ThreadsOK, ThreadType
<1>2. StoreType'
  BY <1>1 DEF JoinWorker, StoreType, MdType, Fits, Assign, Ids, Entry, Job, Params, store,
     Calling, Dispatching, Sending, InTransition, Run, Record
<1>3. MdType' /\ EngineType'
  BY <1>1, AsyncAssumption DEF JoinWorker, MdType, MdRecord, EngineType, StoreType, Fits, StatesOrNull,
     Ids, store, engine, Calling, Dispatching, Sending, InTransition, Run
<1>4. Around(t)
  BY <1>1 DEF JoinWorker, Around, Fits, EngineType, StoreType, Ids, store, Calling, Dispatching,
     Sending, Run
<1>5. ThreadType' /\ ThreadsOK'
  <2>1. PICK j \in Job : j = job[t]
    BY <1>1
  <2>2. Move(t, "release", j)
    BY <1>1, <2>1 DEF JoinWorker, Move, Goto, Assign, ThreadType
  <2>3. Fits(t, "release", j)'
    BY <1>1, <2>1, ThreadFacts DEF JoinWorker, Fits, InAction, EngineType, StoreType, Ids, store,
       Calling, Dispatching, Sending, Stopping, InTransition, Run
  <2> QED BY <1>1, <1>4, <2>2, <2>3, OneThread DEF Places, Calling, Dispatching, Sending, Stopping, InTransition
<1>6. ShutdownOK'
  BY <1>1, ThreadFacts DEF JoinWorker, ShutdownOK, ThreadType, Fits, Goto, engine, store, Calling, Dispatching, Sending, Stopping, InTransition, InAction
<1> QED BY <1>2, <1>3, <1>5, <1>6 DEF Inv

LEMMA ReleaseKeeps == ASSUME Inv, NEW t \in Owners, Release(t) PROVE Inv'
<1>1. /\ StoreType /\ MdType /\ EngineType /\ ThreadType /\ ThreadsOK
      /\ ShutdownOK /\ t \in Threads /\ Fits(t, pc[t], job[t])
      /\ pc[t] \in Places /\ job[t] \in Job
  BY ThreadFacts DEF Inv, ThreadsOK, ThreadType
<1>2. StoreType'
  BY <1>1 DEF Release, StoreType, MdType, Fits, Assign, Ids, Entry, Job, Params, store,
     Calling, Dispatching, Sending, InTransition, Run, Record
<1>3. MdType' /\ EngineType'
  BY <1>1, AsyncAssumption DEF Release, MdType, MdRecord, EngineType, StoreType, Fits, StatesOrNull,
     Ids, store, engine, Calling, Dispatching, Sending, InTransition, Run
<1>4. Around(t)
  BY <1>1 DEF Release, Around, Fits, EngineType, StoreType, Ids, store, Calling, Dispatching,
     Sending, Run
<1>5. ThreadType' /\ ThreadsOK'
  <2>1. PICK j \in Job : j = job[t]
    BY <1>1
  <2>2. Move(t, "idle", j)
    BY <1>1, <2>1 DEF Release, Move, Goto, Assign, ThreadType
  <2>3. Fits(t, "idle", j)'
    BY <1>1, <2>1, ThreadFacts DEF Release, Fits, InAction, EngineType, StoreType, Ids, store,
       Calling, Dispatching, Sending, Stopping, InTransition, Run
  <2> QED BY <1>1, <1>4, <2>2, <2>3, OneThread DEF Places, Calling, Dispatching, Sending, Stopping, InTransition
<1>6. ShutdownOK'
  BY <1>1, ThreadFacts DEF Release, ShutdownOK, ThreadType, Fits, Goto, engine, store, Calling, Dispatching, Sending, Stopping, InTransition, InAction
<1> QED BY <1>2, <1>3, <1>5, <1>6 DEF Inv

(***************************************************************************)
(* The invariant of every run                                              *)
(***************************************************************************)
LEMMA InitInv == Init => Inv
<1> SUFFICES ASSUME Init PROVE Inv
  OBVIOUS
<1> USE AsyncAssumption DEF Init
<1>1. Ids = {}
  BY DEF Ids
<1>2. StoreType /\ EngineType
  <2>1. <<>> \in Seq(Ids) /\ <<>> \in Seq(Entry)
    OBVIOUS
  <2>2. StoreType
    BY <1>1, <2>1 DEF StoreType
  <2>3. 0 \in 0 .. MaxCalls
    OBVIOUS
  <2>4. EngineType
    BY <2>3 DEF EngineType, engine
  <2> QED BY <2>2, <2>4
<1>3. MdType
  BY DEF MdType, MdRecord, StatesOrNull
<1>4. NoJob \in Job
  BY DEF NoJob, Job, Params, EventsOrNull, StatesOrNull
<1>5. ThreadType
  BY <1>4 DEF ThreadType, Places
<1>6. \A u \in Threads : holder = [m \in Runs |-> Null] /\ u # Null
  OBVIOUS
<1>7. ASSUME NEW u \in Threads PROVE Fits(u, pc[u], job[u])
  <2>1. /\ u = Worker => pc[u] = "take"
        /\ u = Timer => pc[u] = "loop"
        /\ u \notin {Worker, Timer} => pc[u] = "idle"
    BY DEF Threads
  <2>2. pc[u] \notin Calling \cup InTransition \cup {"valid", "bound", "check", "execute"}
    BY <2>1, <1>7 DEF Calling, Dispatching, Sending, InTransition
  <2> QED BY <1>6, <2>1, <2>2, ThreadFacts
       DEF Fits, Calling, Dispatching, Sending, InTransition, Stopping
<1>8. ShutdownOK
  BY ThreadFacts DEF ShutdownOK
<1> QED BY <1>2, <1>3, <1>5, <1>7, <1>8 DEF Inv, ThreadsOK

LEMMA NextInv == Inv /\ [Next]_vars => Inv'
<1> SUFFICES ASSUME Inv, [Next]_vars PROVE Inv'
  OBVIOUS
<1>1. ASSUME NEW t \in Clients \cup {Worker}, CallStep(t) PROVE Inv'
  BY <1>1, SendCheckKeeps, SendPushKeeps, SendSubmitKeeps, LockKeeps, ReactKeeps,
     CancelNextKeeps, LeaveKeeps, ActKeeps, EnterStateKeeps, ScheduleKeeps, ArmKeeps
     DEF CallStep
<1>2. ASSUME NEW t \in Clients, NEW m \in Runs, StartRun(t, m) PROVE Inv'
  BY <1>2, StartRunKeeps
<1>3. ASSUME NEW t \in Clients, NEW m \in Runs, NEW e \in Sendable, DispatchRun(t, m, e)
      PROVE  Inv'
  BY <1>3, DispatchRunKeeps
<1>4. ASSUME NEW t \in Owners, Shutdown(t) \/ ShutdownStep(t) PROVE Inv'
  BY <1>4, ShutdownKeeps, QueueClearKeeps, QueueStopKeeps, PoolDownKeeps, JoinTimerKeeps,
     JoinWorkerKeeps, ReleaseKeeps DEF ShutdownStep
<1>5. CASE TimerStep
  BY <1>5, TimerLoopKeeps, TimerTakeKeeps, TimerCheckKeeps, TimerExecuteKeeps DEF TimerStep
<1>6. CASE WorkerStep
  BY <1>1, <1>6, WorkerTakeKeeps, WorkerValidKeeps, WorkerBoundKeeps DEF WorkerStep
<1>7. CASE UNCHANGED vars
  BY <1>7 DEF Inv, StoreType, MdType, MdRecord, EngineType, ThreadType, ThreadsOK, Fits,
     ShutdownOK, InAction, Ids, vars, store, engine
<1> QED BY <1>1, <1>2, <1>3, <1>4, <1>5, <1>6, <1>7 DEF Next

LEMMA Invariant == Spec => []Inv
<1>1. Init => Inv
  BY InitInv
<1>2. Inv /\ [Next]_vars => Inv'
  BY NextInv
<1> QED BY <1>1, <1>2, PTL DEF Spec

\* Whatever clients, owners, the timeout thread and the worker do, queue, pool,
\* records and threads hold entries that exist, Metadata and places of the code.
THEOREM TypeCorrect == Spec => []TypeOK
BY Invariant, InvTypeOK, PTL

\* Who has exited holds no mutex.
LEMMA InvQuiet == Inv => QuietAfterShutdown
<1> SUFFICES ASSUME Inv, released PROVE QuietAfterShutdown
  BY DEF QuietAfterShutdown
<1>1. pc[Worker] = "exited" /\ pc[Timer] = "exited" /\ pool = <<>>
  BY DEF Inv, ShutdownOK
<1>2. Fits(Worker, pc[Worker], job[Worker])
  BY ThreadFacts DEF Inv, ThreadsOK
<1>3. \A m \in Runs : holder[m] # Worker
  BY <1>1, <1>2 DEF Fits, Dispatching, Sending
<1> QED BY <1>1, <1>3 DEF QuietAfterShutdown

\* Statechart.hpp:202: when shutdown() has returned, both threads have ended and
\* the pool is empty, in whatever order calls and shutdown were made.
THEOREM Quiet == Spec => []QuietAfterShutdown
BY Invariant, InvQuiet, PTL
=============================================================================
