------------------------- MODULE Interpreter_proofs -------------------------
(***************************************************************************)
(* Proofs about Interpreter, for every chart that satisfies the            *)
(* assumptions of ChartGraph, every threshold and every set of throwing    *)
(* actions.                                                                *)
(***************************************************************************)
EXTENDS Interpreter, TLAPS, SequenceTheorems

(***************************************************************************)
(* Operations on the runtime map.                                          *)
(***************************************************************************)
\* A Metadata that has just been reset is well formed (Metadata::reset).
LEMMA EmptyMapOK == EmptyMap \in RuntimeMap /\ MapOK(EmptyMap)
BY DEF EmptyMap, RuntimeMap, MapOK, OrNull

\* Metadata::activate keeps the map well formed and adds the state.
LEMMA MdActivateOK ==
    ASSUME NEW m \in RuntimeMap, NEW s \in States, MapOK(m)
    PROVE  /\ MdActivate(m, s) \in RuntimeMap
           /\ MapOK(MdActivate(m, s))
           /\ MdActivate(m, s).active = m.active \cup {s}
BY DEF MdActivate, RuntimeMap, MapOK, OrNull

\* Metadata::deactivate keeps the map well formed and touches no other state.
LEMMA MdDeactivateOK ==
    ASSUME NEW m \in RuntimeMap, NEW s \in States, MapOK(m)
    PROVE  /\ MdDeactivate(m, s) \in RuntimeMap
           /\ MapOK(MdDeactivate(m, s))
           /\ \A x \in m.active : x # s => x \in MdDeactivate(m, s).active
<1>1. CASE s \notin m.present
  BY <1>1 DEF MdDeactivate
<1>2. CASE s \in m.present /\ IsHistory(s)
  BY <1>2 DEF MdDeactivate, RuntimeMap, MapOK
<1>3. CASE s \in m.present /\ ~IsHistory(s)
  BY <1>3 DEF MdDeactivate, RuntimeMap, MapOK, OrNull
<1> QED BY <1>1, <1>2, <1>3

\* Registering a region changes neither the active nor the current states.
LEMMA RegisterRegionOK ==
    ASSUME NEW m \in RuntimeMap, NEW c \in States, NEW r \in States, MapOK(m)
    PROVE  /\ RegisterRegion(m, c, r) \in RuntimeMap
           /\ MapOK(RegisterRegion(m, c, r))
           /\ RegisterRegion(m, c, r).active = m.active
BY DEF RegisterRegion, RuntimeMap, MapOK

\* Neither does the registration a fork makes for all its branches.
LEMMA RegisterForkRegionsOK ==
    ASSUME NEW m \in RuntimeMap, NEW f \in States, MapOK(m)
    PROVE  /\ RegisterForkRegions(m, f) \in RuntimeMap
           /\ MapOK(RegisterForkRegions(m, f))
           /\ RegisterForkRegions(m, f).active = m.active
BY DEF RegisterForkRegions, ForkEnters, RuntimeMap, MapOK

\* Storing a history only changes what the history has recorded.
LEMMA StoreHistoryOK ==
    ASSUME NEW m \in RuntimeMap, NEW h \in States, Parent[h] \in States, MapOK(m)
    PROVE  /\ StoreHistory(m, h) \in RuntimeMap
           /\ MapOK(StoreHistory(m, h))
           /\ StoreHistory(m, h).active = m.active
<1>1. \A p \in OrNull(States), k \in Kinds : HistoryChain(m, p, k) \subseteq States
  BY DEF HistoryChain, OrNull
<1>2. CASE h \in m.present
  <2> DEFINE chain == HistoryChain(m, m.current[Parent[h]], Kind[h])
  <2>1. chain \subseteq States
    BY <1>1, ChartAssumption DEF RuntimeMap
  <2>2. StoreHistory(m, h) = [m EXCEPT !.stateset[h] = chain]
    BY <1>2 DEF StoreHistory
  <2> QED BY <2>1, <2>2 DEF RuntimeMap, MapOK
<1>3. CASE h \notin m.present
  BY <1>3 DEF StoreHistory
<1> QED BY <1>2, <1>3

(***************************************************************************)
(* Operations on the call stack.                                           *)
(***************************************************************************)
\* Replacing the top call by the calls in s: length and elements.
LEMMA PushElements ==
    ASSUME NEW S, NEW q \in Seq(S), q # <<>>, NEW s \in Seq(S)
    PROVE  LET r == s \o Tail(q) IN
           /\ r \in Seq(S)
           /\ Len(r) = Len(s) + Len(q) - 1
           /\ \A i \in 1 .. Len(r) :
                r[i] = IF i <= Len(s) THEN s[i] ELSE q[i - Len(s) + 1]
<1> DEFINE r == s \o Tail(q)
<1>1. Tail(q) \in Seq(S) /\ Len(Tail(q)) = Len(q) - 1
  OBVIOUS
<1>2. r \in Seq(S) /\ Len(r) = Len(s) + Len(q) - 1
  BY <1>1
<1>3. \A i \in 1 .. Len(r) :
        r[i] = IF i <= Len(s) THEN s[i] ELSE q[i - Len(s) + 1]
  BY <1>1, <1>2
<1> QED BY <1>2, <1>3

\* The calls pushed in place of one that is not at the bottom.
Pushable(s) ==
    \A i \in 1 .. Len(s) :
        /\ FrameOK(s[i])
        /\ s[i].op \notin BottomOps
        /\ s[i].op = "dispatch" => i = 1

\* They keep the shape of the stack.
LEMMA PushStackOK ==
    ASSUME NEW q \in Seq(Task), q # <<>>, StackOK(q), Head(q).op \notin BottomOps,
           NEW s \in Seq(Task), Pushable(s)
    PROVE  /\ s \o Tail(q) \in Seq(Task)
           /\ s \o Tail(q) # <<>>
           /\ StackOK(s \o Tail(q))
           /\ Head(s \o Tail(q)).op = "dispatch" =>
                s # <<>> /\ Head(s \o Tail(q)) = s[1]
<1> DEFINE r == s \o Tail(q)
<1>1. /\ r \in Seq(Task)
      /\ Len(r) = Len(s) + Len(q) - 1
      /\ \A i \in 1 .. Len(r) :
           r[i] = IF i <= Len(s) THEN s[i] ELSE q[i - Len(s) + 1]
  BY PushElements
<1> HIDE DEF r
<1>2. Len(q) > 1
  BY DEF StackOK
<1>3. ASSUME NEW i \in DOMAIN r
      PROVE  /\ FrameOK(r[i])
             /\ r[i].op \in BottomOps <=> i = Len(r)
             /\ r[i].op = "dispatch" => i = 1
  <2>1. i \in 1 .. Len(r)
    BY <1>1
  <2>4. r[i] = IF i <= Len(s) THEN s[i] ELSE q[i - Len(s) + 1]
    BY <1>1, <2>1
  <2>2. CASE i <= Len(s)
    <3>1. r[i] = s[i] /\ i \in 1 .. Len(s) /\ i # Len(r)
      BY <1>1, <1>2, <2>1, <2>2
    <3> QED BY <3>1 DEF Pushable
  <2>3. CASE i > Len(s)
    <3> DEFINE j == i - Len(s) + 1
    <3>1. Len(s) \in Nat /\ Len(q) \in Nat /\ DOMAIN q = 1 .. Len(q)
      OBVIOUS
    <3>2. j \in 1 .. Len(q) /\ j # 1 /\ (j = Len(q) <=> i = Len(r))
      BY <1>1, <2>1, <2>3, <3>1
    <3>3. ~ (i <= Len(s))
      BY <2>1, <2>3, <3>1
    <3>4. r[i] = q[j]
      BY ONLY <2>4, <3>3, Zenon
    <3> QED BY <3>1, <3>2, <3>4 DEF StackOK
  <2> QED BY <1>1, <2>1, <2>2, <2>3
<1>4. ASSUME Head(r).op = "dispatch"
      PROVE  s # <<>> /\ Head(r) = s[1]
  <2>1. Len(s) \in Nat /\ Len(r) >= 1 /\ Head(r) = r[1]
    BY <1>1, <1>2
  <2>2. Len(s) # 0
    <3> SUFFICES ASSUME Len(s) = 0 PROVE FALSE
      OBVIOUS
    <3>1. r[1] = q[2] /\ 2 \in DOMAIN q
      BY <1>1, <1>2, <2>1
    <3> QED BY <1>4, <2>1, <3>1 DEF StackOK
  <2>3. r[1] = s[1]
    BY <1>1, <2>1, <2>2
  <2> QED BY <2>1, <2>2, <2>3
<1> USE DEF r
<1> QED BY <1>1, <1>2, <1>3, <1>4 DEF StackOK

\* A call repeated for every element of a sequence.
LEMMA CallEachOK ==
    ASSUME NEW op \in Ops, NEW seq \in Seq(States \cup Trans)
    PROVE  /\ CallEach(op, seq) \in Seq(Task)
           /\ Len(CallEach(op, seq)) = Len(seq)
           /\ \A i \in 1 .. Len(seq) : CallEach(op, seq)[i] = Call(op, seq[i])
<1>1. \A i \in 1 .. Len(seq) : Call(op, seq[i]) \in Task
  BY DEF Call, Do, Task, OrNull
<1> QED BY <1>1 DEF CallEach

\* A single frame.
LEMMA DoTask ==
    ASSUME NEW op \in Ops, NEW x \in States \cup Trans,
           NEW e \in OrNull(Events), NEW k \in Nat, NEW b \in BOOLEAN
    PROVE  /\ Do(op, x, e, k, b) \in Task
           /\ Do(op, x, e, k, b).op = op
           /\ Do(op, x, e, k, b).x = x
           /\ Do(op, x, e, k, b).k = k
           /\ Call(op, x) \in Task
           /\ Call(op, x).op = op
           /\ Call(op, x).x = x
BY DEF Do, Call, Task, OrNull

\* The current state of a record is a state below the Statechart.
LEMMA CurrentBelowRoot ==
    ASSUME NEW m \in RuntimeMap, MapOK(m), NEW p \in States, m.current[p] # Null
    PROVE  m.current[p] \in States \ {Root} /\ Parent[m.current[p]] = p
BY ChartAssumption DEF RuntimeMap, MapOK, OrNull

\* No call of dispatch among those pushed.
NoDispatch(s) == \A i \in 1 .. Len(s) : s[i].op # "dispatch"

LEMMA PushableConcat ==
    ASSUME NEW s \in Seq(Task), NEW u \in Seq(Task),
           Pushable(s), Pushable(u), NoDispatch(u)
    PROVE  /\ s \o u \in Seq(Task)
           /\ Pushable(s \o u)
           /\ NoDispatch(s) => NoDispatch(s \o u)
<1>1. /\ s \o u \in Seq(Task)
      /\ Len(s \o u) = Len(s) + Len(u)
      /\ \A i \in 1 .. Len(s \o u) :
           (s \o u)[i] = IF i <= Len(s) THEN s[i] ELSE u[i - Len(s)]
  OBVIOUS
<1>2. ASSUME NEW i \in 1 .. Len(s \o u)
      PROVE  \/ i \in 1 .. Len(s) /\ (s \o u)[i] = s[i]
             \/ i - Len(s) \in 1 .. Len(u) /\ (s \o u)[i] = u[i - Len(s)]
  BY <1>1
<1> QED BY <1>1, <1>2 DEF Pushable, NoDispatch

(***************************************************************************)
(* The inductive invariant.                                                *)
(***************************************************************************)
DataOK ==
    /\ md \in RuntimeMap
    /\ MapOK(md)
    /\ param \in Data
    /\ ret \in BOOLEAN
    /\ outcome \in Outcomes
    /\ tainted \in BOOLEAN
    /\ fired \in Seq(Trans)
    /\ before \in RuntimeMap

ControlOK == agenda \in Seq(Task) /\ CallStack

Inv == DataOK /\ ControlOK /\ DispatchTarget

\* The frame on top of the stack is well formed.
LEMMA TopFrame ==
    ASSUME ControlOK, agenda # <<>>
    PROVE  /\ Top \in Task /\ FrameOK(Top)
           /\ Top.op \in Ops /\ Top.x \in States \cup Trans
           /\ Top.e \in OrNull(Events) /\ Top.k \in Nat /\ Top.b \in BOOLEAN
           /\ Top = agenda[1]
<1>1. Top \in Task /\ Top = agenda[1] /\ 1 \in DOMAIN agenda
  BY DEF ControlOK, Top
<1> QED BY <1>1 DEF ControlOK, CallStack, StackOK, Task

\* A call that goes on with the calls in s keeps the stack well formed.
LEMMA PushControl ==
    ASSUME ControlOK, agenda # <<>>, Top.op \notin BottomOps,
           NEW s \in Seq(Task), Pushable(s), Push(s), outcome' = outcome
    PROVE  /\ ControlOK'
           /\ Running("dispatch")' => s # <<>> /\ Top' = s[1]
BY PushStackOK DEF ControlOK, CallStack, Push, Top, Running

\* A call that returns does, too, and uncovers no call of dispatch.
LEMMA ReturnControl ==
    ASSUME ControlOK, agenda # <<>>, Top.op \notin BottomOps,
           agenda' = Tail(agenda), outcome' = outcome
    PROVE  ControlOK' /\ DispatchTarget'
<1>1. <<>> \in Seq(Task) /\ Pushable(<<>>) /\ <<>> \o Tail(agenda) = Tail(agenda)
  BY DEF Pushable, ControlOK
<1>2. Push(<<>>)
  BY <1>1 DEF Push
<1>3. ControlOK' /\ ~Running("dispatch")'
  BY <1>1, <1>2, PushControl
<1> QED BY <1>3 DEF DispatchTarget

\* Calls that are no dispatch need no target.
LEMMA PushNoDispatch ==
    ASSUME ControlOK, agenda # <<>>, Top.op \notin BottomOps,
           NEW s \in Seq(Task), Pushable(s), NoDispatch(s), Push(s),
           outcome' = outcome
    PROVE  ControlOK' /\ DispatchTarget'
<1>1. ControlOK' /\ (Running("dispatch")' => s # <<>> /\ Top' = s[1])
  BY PushControl
<1>2. ~Running("dispatch")'
  <2> SUFFICES ASSUME Running("dispatch")' PROVE FALSE
    OBVIOUS
  <2>1. 1 \in 1 .. Len(s) /\ s[1].op = "dispatch"
    BY <1>1 DEF Running, Top
  <2> QED BY <2>1 DEF NoDispatch
<1> QED BY <1>1, <1>2 DEF DispatchTarget

\* A frame that may stand anywhere above the bottom of the stack.
Good(f) == f \in Task /\ FrameOK(f) /\ f.op \notin BottomOps

\* The operations on any state that never stand at the bottom.
PlainOps == {"substate", "bubble", "regions", "forkEach", "activate",
             "entered", "call", "exit", "dispatch"}

LEMMA PlainDo ==
    ASSUME NEW op \in PlainOps, NEW x \in States, NEW e \in OrNull(Events),
           NEW k \in Nat, NEW b \in BOOLEAN
    PROVE  /\ Good(Do(op, x, e, k, b))
           /\ Do(op, x, e, k, b).op = op /\ Do(op, x, e, k, b).x = x
<1>1. op \in Ops
  BY DEF Ops, PlainOps
<1>2. /\ Do(op, x, e, k, b) \in Task /\ Do(op, x, e, k, b).op = op
      /\ Do(op, x, e, k, b).x = x
  BY <1>1, DoTask
<1> QED BY <1>2 DEF FrameOK, BottomOps, PlainOps, Good

\* An event dispatched to a state.
LEMMA DispatchDo ==
    ASSUME NEW x \in States, NEW e \in OrNull(Events)
    PROVE  LET f == Do("dispatch", x, e, 1, FALSE) IN
           Good(f) /\ f.op = "dispatch" /\ f.x = x
<1>1. "dispatch" \in PlainOps /\ 1 \in Nat
  BY DEF PlainOps
<1> QED BY <1>1, PlainDo, Zenon

LEMMA PlainCall ==
    ASSUME NEW op \in PlainOps, NEW x \in States
    PROVE  Good(Call(op, x)) /\ Call(op, x).op = op /\ Call(op, x).x = x
<1>1. op \in Ops
  BY DEF Ops, PlainOps
<1>2. Call(op, x) \in Task /\ Call(op, x).op = op /\ Call(op, x).x = x
  BY <1>1, DoTask DEF OrNull
<1> QED BY <1>2 DEF FrameOK, BottomOps, PlainOps, Good

\* Leaving a state below the Statechart.
LEMMA LeaveCall ==
    ASSUME NEW op \in {"deactivate", "leave"}, NEW x \in States \ {Root}
    PROVE  Good(Call(op, x)) /\ Call(op, x).op = op
<1>1. op \in Ops /\ Null \in OrNull(Events)
  BY DEF Ops, OrNull
<1>2. Call(op, x) \in Task /\ Call(op, x).op = op /\ Call(op, x).x = x
  BY <1>1, DoTask
<1> QED BY <1>2 DEF FrameOK, BottomOps, Good

\* Leaving a sequence of such states.
LEMMA LeaveEach ==
    ASSUME NEW seq \in Seq(States \ {Root})
    PROVE  LET exits == CallEach("deactivate", seq) IN
           exits \in Seq(Task) /\ Pushable(exits) /\ NoDispatch(exits)
<1> DEFINE exits == CallEach("deactivate", seq)
<1>1. /\ exits \in Seq(Task)
      /\ Len(exits) = Len(seq)
      /\ \A i \in 1 .. Len(exits) : exits[i] = Call("deactivate", seq[i])
  BY CallEachOK DEF Ops
<1>2. \A i \in 1 .. Len(exits) :
        Good(exits[i]) /\ exits[i].op = "deactivate"
  BY <1>1, LeaveCall
<1> QED BY <1>1, <1>2 DEF Pushable, NoDispatch, Good

\* The frames a transition leaves on the stack while it is executing.
LEMMA TransitionDo ==
    ASSUME NEW op \in {"call", "enter"}, NEW t \in Trans, NEW k \in Nat,
           NEW b \in BOOLEAN
    PROVE  Good(Do(op, t, Null, k, b)) /\ Do(op, t, Null, k, b).op = op
<1>1. op \in Ops /\ Null \in OrNull(Events) /\ t \in States \cup Trans
  BY DEF Ops, OrNull
<1>2. /\ Do(op, t, Null, k, b) \in Task /\ Do(op, t, Null, k, b).op = op
      /\ Do(op, t, Null, k, b).x = t
  BY <1>1, DoTask
<1> QED BY <1>2 DEF FrameOK, BottomOps, Good

\* One, two or three frames written out; only the first may be a dispatch.
LEMMA One ==
    ASSUME NEW f, Good(f)
    PROVE  <<f>> \in Seq(Task) /\ Pushable(<<f>>)
           /\ (f.op # "dispatch" => NoDispatch(<<f>>))
<1>1. f \in Task /\ Len(<<f>>) = 1 /\ <<f>>[1] = f
  BY DEF Good
<1>2. \A i \in 1 .. 1 : i = 1
  OBVIOUS
<1> QED BY <1>1, <1>2 DEF Pushable, NoDispatch, Good

LEMMA Two ==
    ASSUME NEW f, Good(f), NEW g, Good(g), g.op # "dispatch"
    PROVE  <<f, g>> \in Seq(Task) /\ Pushable(<<f, g>>)
           /\ (f.op # "dispatch" => NoDispatch(<<f, g>>))
<1>1. /\ f \in Task /\ g \in Task
      /\ Len(<<f, g>>) = 2 /\ <<f, g>>[1] = f /\ <<f, g>>[2] = g
  BY DEF Good
<1>2. \A i \in 1 .. 2 : i = 1 \/ i = 2
  OBVIOUS
<1> QED BY <1>1, <1>2 DEF Pushable, NoDispatch, Good

LEMMA Three ==
    ASSUME NEW f, Good(f), f.op # "dispatch", NEW g, Good(g), g.op # "dispatch",
           NEW h, Good(h), h.op # "dispatch"
    PROVE  <<f, g, h>> \in Seq(Task) /\ Pushable(<<f, g, h>>)
           /\ NoDispatch(<<f, g, h>>)
<1>1. /\ f \in Task /\ g \in Task /\ h \in Task
      /\ Len(<<f, g, h>>) = 3
      /\ <<f, g, h>>[1] = f /\ <<f, g, h>>[2] = g /\ <<f, g, h>>[3] = h
  BY DEF Good
<1>2. \A i \in 1 .. 3 : i = 1 \/ i = 2 \/ i = 3
  OBVIOUS
<1> QED BY <1>1, <1>2 DEF Pushable, NoDispatch, Good

\* A call whose first continuation is a dispatch on f.x.
LEMMA PushDispatch ==
    ASSUME ControlOK, agenda # <<>>, Top.op \notin BottomOps,
           NEW f, NEW s \in Seq(Task), Pushable(s), s # <<>>, s[1] = f,
           Push(s), outcome' = outcome,
           Kind[f.x] = "Hierarchical" \/ (md').current[Parent[f.x]] = f.x
    PROVE  ControlOK' /\ DispatchTarget'
<1>1. ControlOK' /\ (Running("dispatch")' => Top' = f)
  BY PushControl
<1> QED BY <1>1 DEF DispatchTarget

\* A step that leaves the Parameter and the ghosts alone.
LEMMA DataStep ==
    ASSUME Inv, UNCHANGED control, fired' = fired, before' = before,
           md' \in RuntimeMap, MapOK(md'), ret' \in BOOLEAN
    PROVE  DataOK'
BY DEF control, Inv, DataOK

\* What Transition::execute pushes.
LEMMA ExecuteInv ==
    ASSUME Inv, agenda # <<>>, Top.op \notin BottomOps, NEW t \in Trans,
           NEW more \in Seq(Task), Pushable(more), NoDispatch(more),
           Execute(t, more)
    PROVE  Inv'
<1> DEFINE exits == CallEach("deactivate", Deactivates[t])
           middle == <<Call("call", t), Call("enter", t)>>
<1>1. exits \in Seq(Task) /\ Pushable(exits) /\ NoDispatch(exits)
  BY ChartAssumption, LeaveEach
<1>2. middle \in Seq(Task) /\ Pushable(middle) /\ NoDispatch(middle)
  <2>1. /\ Good(Call("call", t)) /\ Call("call", t).op = "call"
        /\ Good(Call("enter", t)) /\ Call("enter", t).op = "enter"
    BY TransitionDo DEF Call
  <2> QED BY <2>1, Two
<1>3. /\ exits \o middle \in Seq(Task) /\ Pushable(exits \o middle)
      /\ NoDispatch(exits \o middle)
  BY <1>1, <1>2, PushableConcat
<1>4. /\ (exits \o middle) \o more \in Seq(Task)
      /\ Pushable((exits \o middle) \o more)
      /\ NoDispatch((exits \o middle) \o more)
  BY <1>3, PushableConcat
<1>5. ControlOK' /\ DispatchTarget'
  <2>1. Push((exits \o middle) \o more) /\ outcome' = outcome
    BY DEF Execute, control
  <2> QED BY <1>4, <2>1, PushNoDispatch DEF Inv
<1>6. DataOK'
  BY DEF Execute, control, Inv, DataOK
<1> QED BY <1>5, <1>6 DEF Inv

\* The loop over the transitions of a state.
LEMMA FireFirstInv ==
    ASSUME Inv, agenda # <<>>, Top.op \notin BottomOps, NEW s \in States,
           NEW ready \in SUBSET DOMAIN Outgoing[s], FireFirst(s, ready)
    PROVE  Inv'
<1>1. CASE ready # {}
  <2>1. PICK i \in ready : Execute(Outgoing[s][i], <<>>)
    BY <1>1 DEF FireFirst
  <2>2. Outgoing[s][i] \in Trans
    BY ChartAssumption
  <2>3. <<>> \in Seq(Task) /\ Pushable(<<>>) /\ NoDispatch(<<>>)
    BY DEF Pushable, NoDispatch
  <2> QED BY <2>1, <2>2, <2>3, ExecuteInv
<1>2. CASE ready = {}
  <2>1. Return(FALSE) /\ UNCHANGED <<md, fired, before, control>>
    BY <1>2 DEF FireFirst
  <2>2. ControlOK' /\ DispatchTarget'
    BY <2>1, ReturnControl DEF Return, control, Inv
  <2>3. DataOK'
    BY <2>1 DEF Return, control, Inv, DataOK
  <2> QED BY <2>2, <2>3 DEF Inv
<1> QED BY <1>1, <1>2

(***************************************************************************)
(* One lemma per action.                                                   *)
(***************************************************************************)
\* A step that returns, or goes on with other calls, and leaves a well-formed
\* runtime map.
LEMMA ReturnStep ==
    ASSUME Inv, agenda # <<>>, Top.op \notin BottomOps, agenda' = Tail(agenda),
           ret' \in BOOLEAN, md' \in RuntimeMap, MapOK(md'),
           fired' = fired, before' = before, UNCHANGED control
    PROVE  Inv'
<1>1. ControlOK' /\ DispatchTarget'
  BY ReturnControl DEF control, Inv
<1> QED BY <1>1, DataStep DEF Inv

LEMMA PushStep ==
    ASSUME Inv, agenda # <<>>, Top.op \notin BottomOps,
           NEW s \in Seq(Task), Pushable(s), NoDispatch(s), Push(s),
           ret' \in BOOLEAN, md' \in RuntimeMap, MapOK(md'),
           fired' = fired, before' = before, UNCHANGED control
    PROVE  Inv'
<1>1. ControlOK' /\ DispatchTarget'
  BY PushNoDispatch DEF control, Inv
<1> QED BY <1>1, DataStep DEF Inv

LEMMA PushNothing ==
    ASSUME Inv, agenda # <<>>, Top.op \notin BottomOps, Push(<<>>),
           ret' \in BOOLEAN, md' \in RuntimeMap, MapOK(md'),
           fired' = fired, before' = before, UNCHANGED control
    PROVE  Inv'
<1>1. <<>> \in Seq(Task) /\ Pushable(<<>>) /\ NoDispatch(<<>>)
  BY DEF Pushable, NoDispatch
<1> QED BY <1>1, PushStep

LEMMA DispatchStep ==
    ASSUME Inv, agenda # <<>>, Top.op \notin BottomOps,
           NEW f, NEW s \in Seq(Task), Pushable(s), s # <<>>, s[1] = f, Push(s),
           Kind[f.x] = "Hierarchical" \/ md.current[Parent[f.x]] = f.x,
           ret' \in BOOLEAN, Quiet
    PROVE  Inv'
<1>1. md' = md /\ outcome' = outcome
  BY DEF Quiet, control
<1>2. ControlOK' /\ DispatchTarget'
  BY <1>1, PushDispatch DEF Inv
<1>3. md' \in RuntimeMap /\ MapOK(md')
  BY <1>1 DEF Inv, DataOK
<1>4. DataOK'
  BY <1>3, DataStep DEF Quiet
<1> QED BY <1>2, <1>4 DEF Inv

\* What Inv says of the data.
LEMMA InvData ==
    ASSUME Inv
    PROVE  md \in RuntimeMap /\ MapOK(md) /\ ret \in BOOLEAN
BY DEF Inv, DataOK

LEMMA ReadyPositions ==
    ASSUME NEW s, NEW e
    PROVE  /\ Ready(s, e) \in SUBSET DOMAIN Outgoing[s]
           /\ MayBubble(s, e) \in SUBSET DOMAIN Outgoing[s]
           /\ MayComplete(s, e) \in SUBSET DOMAIN Outgoing[s]
BY DEF Ready, MayBubble, MayComplete

LEMMA DispatchStateInv ==
    ASSUME Inv, DispatchState
    PROVE  Inv'
<1>1. agenda # <<>> /\ Top.op = "dispatch" /\ FireFirst(Top.x, Ready(Top.x, Top.e))
  BY DEF DispatchState, Running, Top
<1>2. Top.x \in States /\ Top.op \notin BottomOps
  BY <1>1, TopFrame DEF Inv, FrameOK, BottomOps
<1> QED BY <1>1, <1>2, ReadyPositions, FireFirstInv

LEMMA DispatchForkInv ==
    ASSUME Inv, DispatchFork
    PROVE  Inv'
<1> DEFINE out == Outgoing[Top.x]
           k == Top.k
           f == Do("forkEach", Top.x, Top.e, k + 1, FALSE)
<1>1. agenda # <<>> /\ Top.op \in {"dispatch", "forkEach"}
  BY DEF DispatchFork, Running, Top
<1>2. Top.x \in States /\ Top.op \notin BottomOps /\ Top.e \in OrNull(Events)
      /\ k \in Nat /\ k + 1 \in Nat
  BY <1>1, TopFrame DEF Inv, FrameOK, BottomOps
<1>3. Good(f) /\ f.op = "forkEach"
  <2>1. "forkEach" \in PlainOps
    BY DEF PlainOps
  <2> QED BY <1>2, <2>1, PlainDo, Zenon
<1> HIDE DEF f
<1>4. <<f>> \in Seq(Task) /\ Pushable(<<f>>) /\ NoDispatch(<<f>>)
  BY <1>3, One
<1>5. CASE Return(TRUE) /\ Quiet
  BY <1>1, <1>2, <1>5, InvData, ReturnStep DEF Return, Quiet
<1>6. CASE k \in DOMAIN out /\ Execute(out[k], <<f>>)
  <2>1. out \in Seq(Trans)
    BY <1>2, ChartAssumption
  <2>2. out[k] \in Trans
    BY <1>6, <2>1
  <2> QED BY <1>1, <1>2, <1>4, <1>6, <2>2, ExecuteInv
<1>7. CASE Push(<<f>>) /\ UNCHANGED ret /\ Quiet
  BY <1>1, <1>2, <1>4, <1>7, InvData, PushStep DEF Quiet
<1> QED BY <1>5, <1>6, <1>7 DEF DispatchFork, f

LEMMA DispatchHierarchicalInv ==
    ASSUME Inv, DispatchHierarchical
    PROVE  Inv'
<1> DEFINE h == Top.x
           start == StartState[h]
           f == Do("substate", h, Top.e, 1, FALSE)
           g == Call("activate", start)
<1>1. agenda # <<>> /\ Top.op = "dispatch"
  BY DEF DispatchHierarchical, Running, Top
<1>2. h \in States /\ Top.op \notin BottomOps /\ Top.e \in OrNull(Events)
  BY <1>1, TopFrame DEF Inv, FrameOK, BottomOps
<1>3. Good(f) /\ f.op = "substate"
  <2>1. "substate" \in PlainOps /\ 1 \in Nat
    BY DEF PlainOps
  <2> QED BY <1>2, <2>1, PlainDo, Zenon
<1>4. CASE Return(FALSE) /\ Quiet
  BY <1>1, <1>2, <1>4, InvData, ReturnStep DEF Return, Quiet
<1>5. CASE /\ start # Null
           /\ md' = MdActivate(md, start)
           /\ Push(<<g, f>>)
           /\ UNCHANGED <<ret, fired, before, control>>
  <2>1. start \in States
    BY <1>2, <1>5, ChartAssumption DEF OrNull
  <2>2. Good(g) /\ g.op = "activate"
    BY <2>1, PlainCall DEF PlainOps
  <2> HIDE DEF f, g
  <2>3. <<g, f>> \in Seq(Task) /\ Pushable(<<g, f>>) /\ NoDispatch(<<g, f>>)
    BY <1>3, <2>2, Two
  <2>4. md' \in RuntimeMap /\ MapOK(md')
    BY <1>5, <2>1, InvData, MdActivateOK
  <2> QED BY <1>1, <1>2, <1>5, <2>3, <2>4, InvData, PushStep
<1>6. CASE Push(<<f>>) /\ UNCHANGED ret /\ Quiet
  <2> HIDE DEF f
  <2>1. <<f>> \in Seq(Task) /\ Pushable(<<f>>) /\ NoDispatch(<<f>>)
    BY <1>3, One
  <2> QED BY <1>1, <1>2, <1>6, <2>1, InvData, PushStep DEF Quiet
<1> QED BY <1>4, <1>5, <1>6 DEF DispatchHierarchical

LEMMA DispatchSubstateInv ==
    ASSUME Inv, DispatchSubstate
    PROVE  Inv'
<1> DEFINE h == Top.x
           current == md.current[h]
           f == Do("dispatch", current, Top.e, 1, FALSE)
           g == Do("bubble", h, Top.e, 1, FALSE)
<1>1. agenda # <<>> /\ Top.op = "substate" /\ Quiet
  BY DEF DispatchSubstate, Running, Top
<1>2. h \in States /\ Top.op \notin BottomOps /\ Top.e \in OrNull(Events)
  BY <1>1, TopFrame DEF Inv, FrameOK, BottomOps
<1>3. Good(g) /\ g.op = "bubble"
  <2>1. "bubble" \in PlainOps /\ 1 \in Nat
    BY DEF PlainOps
  <2> QED BY <1>2, <2>1, PlainDo, Zenon
<1>4. CASE current # Null
  <2>1. Push(<<f, g>>) /\ ret' = ret
    BY <1>4 DEF DispatchSubstate
  <2>2. current \in States /\ Parent[current] = h
    BY <1>2, <1>4, InvData, CurrentBelowRoot
  <2>3. Good(f) /\ f.op = "dispatch" /\ f.x = current
    BY <1>2, <2>2, DispatchDo
  <2>4. md.current[Parent[f.x]] = f.x
    BY <2>2, <2>3
  <2> HIDE DEF f, g
  <2>5. <<f, g>> \in Seq(Task) /\ Pushable(<<f, g>>)
    BY <1>3, <2>3, Two
  <2>6. <<f, g>> # <<>> /\ <<f, g>>[1] = f
    OBVIOUS
  <2> QED BY <1>1, <1>2, <2>1, <2>4, <2>5, <2>6, InvData, DispatchStep
<1>5. CASE current = Null
  <2>1. Push(<<g>>) /\ ret' = FALSE
    BY <1>5 DEF DispatchSubstate
  <2> HIDE DEF g
  <2>2. <<g>> \in Seq(Task) /\ Pushable(<<g>>) /\ NoDispatch(<<g>>)
    BY <1>3, One
  <2> QED BY <1>1, <1>2, <2>1, <2>2, InvData, PushStep DEF Quiet
<1> QED BY <1>4, <1>5

LEMMA BubbleInv ==
    ASSUME Inv, Bubble
    PROVE  Inv'
<1>1. agenda # <<>> /\ Top.op = "bubble"
  BY DEF Bubble, Running, Top
<1>2. Top.x \in States /\ Top.op \notin BottomOps
  BY <1>1, TopFrame DEF Inv, FrameOK, BottomOps
<1>3. CASE Return(ret) /\ Quiet
  BY <1>1, <1>2, <1>3, InvData, ReturnStep DEF Return, Quiet
<1>4. CASE FireFirst(Top.x, MayBubble(Top.x, Top.e))
  BY <1>1, <1>2, <1>4, ReadyPositions, FireFirstInv
<1> QED BY <1>3, <1>4 DEF Bubble

LEMMA DispatchConcurrentInv ==
    ASSUME Inv, DispatchConcurrent
    PROVE  Inv'
<1> DEFINE f == Do("regions", Top.x, Top.e, 1, FALSE)
<1>1. agenda # <<>> /\ Top.op = "dispatch" /\ Quiet /\ Push(<<f>>) /\ ret' = FALSE
  BY DEF DispatchConcurrent, Running, Top
<1>2. Top.x \in States /\ Top.op \notin BottomOps /\ Top.e \in OrNull(Events)
  BY <1>1, TopFrame DEF Inv, FrameOK, BottomOps
<1>3. Good(f) /\ f.op = "regions"
  <2>1. "regions" \in PlainOps /\ 1 \in Nat
    BY DEF PlainOps
  <2> QED BY <1>2, <2>1, PlainDo, Zenon
<1> HIDE DEF f
<1>4. <<f>> \in Seq(Task) /\ Pushable(<<f>>) /\ NoDispatch(<<f>>)
  BY <1>3, One
<1> QED BY <1>1, <1>2, <1>4, InvData, PushStep DEF Quiet

LEMMA DispatchRegionsInv ==
    ASSUME Inv, DispatchRegions
    PROVE  Inv'
<1> DEFINE c == Top.x
           k == Top.k
           region == Regions[c][k]
           b == Top.b \/ ret
           f == Do("dispatch", region, Top.e, 1, FALSE)
           g == Do("regions", c, Top.e, k + 1, b)
<1>1. agenda # <<>> /\ Top.op = "regions"
  BY DEF DispatchRegions, Running, Top
<1>2. c \in States /\ Top.op \notin BottomOps /\ Top.e \in OrNull(Events)
      /\ k + 1 \in Nat /\ b \in BOOLEAN
  BY <1>1, TopFrame DEF Inv, FrameOK, BottomOps
<1>3. CASE k \in DOMAIN Regions[c] /\ Push(<<f, g>>) /\ UNCHANGED ret /\ Quiet
  <2>1. region \in States /\ Kind[region] = "Hierarchical"
    BY <1>2, <1>3, ChartStructure DEF ElementsOf, ChildrenOf
  <2>2. Good(f) /\ f.op = "dispatch" /\ f.x = region
    BY <1>2, <2>1, DispatchDo
  <2>3. Good(g) /\ g.op = "regions"
    <3>1. "regions" \in PlainOps
      BY DEF PlainOps
    <3> HIDE DEF b
    <3> QED BY <1>2, <3>1, PlainDo
  <2>4. Kind[f.x] = "Hierarchical"
    BY <2>1, <2>2
  <2> HIDE DEF f, g
  <2>5. <<f, g>> \in Seq(Task) /\ Pushable(<<f, g>>)
    BY <2>2, <2>3, Two
  <2>6. <<f, g>> # <<>> /\ <<f, g>>[1] = f
    OBVIOUS
  <2> QED BY <1>1, <1>2, <1>3, <2>4, <2>5, <2>6, InvData, DispatchStep
<1>4. CASE Return(b) /\ Quiet
  BY <1>1, <1>2, <1>4, InvData, ReturnStep DEF Return, Quiet
<1>5. CASE FireFirst(c, MayComplete(c, Top.e))
  BY <1>1, <1>2, <1>5, ReadyPositions, FireFirstInv
<1> QED BY <1>3, <1>4, <1>5 DEF DispatchRegions

\* One state activated, its entry action and what follows.
LEMMA EnterInv ==
    ASSUME Inv, Enter
    PROVE  Inv'
<1> DEFINE t == Top.x
           path == Activates[t]
           k == Top.k
           f == Call("activate", path[k])
           g == Do("enter", t, Null, k + 1, FALSE)
<1>1. agenda # <<>> /\ Top.op = "enter"
  BY DEF Enter, Running, Top
<1>2. t \in Trans /\ Top.op \notin BottomOps /\ k \in Nat /\ k + 1 \in Nat
  BY <1>1, TopFrame DEF Inv, FrameOK, BottomOps
<1>3. path \in Seq(States \ {Root})
  BY <1>2, ChartAssumption
<1>4. CASE Return(TRUE) /\ Quiet
  BY <1>1, <1>2, <1>4, InvData, ReturnStep DEF Return, Quiet
<1>5. CASE /\ k \in DOMAIN path
           /\ md' = IF Kind[path[k]] = "Concurrent" /\ k < Len(path)
                    THEN RegisterRegion(md, path[k], path[k + 1]) ELSE md
           /\ Push(<<f, g>>)
           /\ UNCHANGED <<ret, fired, before, control>>
  <2>1. path[k] \in States
    BY <1>3, <1>5
  <2>2. md' \in RuntimeMap /\ MapOK(md')
    <3>1. CASE Kind[path[k]] = "Concurrent" /\ k < Len(path)
      <4>1. path[k + 1] \in States
        BY <1>2, <1>3, <3>1
      <4> QED BY <1>5, <2>1, <3>1, <4>1, InvData, RegisterRegionOK
    <3>2. CASE ~(Kind[path[k]] = "Concurrent" /\ k < Len(path))
      BY <1>5, <3>2, InvData
    <3> QED BY <3>1, <3>2
  <2>3. Good(f) /\ f.op = "activate"
    BY <2>1, PlainCall DEF PlainOps
  <2>4. Good(g) /\ g.op = "enter"
    <3>1. "enter" \in {"call", "enter"} /\ FALSE \in BOOLEAN
      OBVIOUS
    <3> QED BY <1>2, <3>1, TransitionDo, Zenon
  <2> HIDE DEF f, g
  <2>5. <<f, g>> \in Seq(Task) /\ Pushable(<<f, g>>) /\ NoDispatch(<<f, g>>)
    BY <2>3, <2>4, Two
  <2> QED BY <1>1, <1>2, <1>5, <2>2, <2>5, InvData, PushStep
<1> QED BY <1>4, <1>5 DEF Enter

LEMMA ActivateInv ==
    ASSUME Inv, Activate
    PROVE  Inv'
<1> DEFINE s == Top.x
           f == Call("call", s)
           g == Call("entered", s)
<1>1. agenda # <<>> /\ Top.op = "activate"
  BY DEF Activate, Running, Top
<1>2. s \in States /\ Top.op \notin BottomOps
  BY <1>1, TopFrame DEF Inv, FrameOK, BottomOps
<1>3. CASE Return(FALSE) /\ Quiet
  BY <1>1, <1>2, <1>3, InvData, ReturnStep DEF Return, Quiet
<1>4. CASE /\ md' = MdActivate(md, s)
           /\ Push(<<f, g>>)
           /\ UNCHANGED <<ret, fired, before, control>>
  <2>1. Good(f) /\ f.op = "call" /\ Good(g) /\ g.op = "entered"
    BY <1>2, PlainCall DEF PlainOps
  <2> HIDE DEF f, g
  <2>2. <<f, g>> \in Seq(Task) /\ Pushable(<<f, g>>) /\ NoDispatch(<<f, g>>)
    BY <2>1, Two
  <2>3. md' \in RuntimeMap /\ MapOK(md')
    BY <1>2, <1>4, InvData, MdActivateOK
  <2> QED BY <1>1, <1>2, <1>4, <2>2, <2>3, InvData, PushStep
<1> QED BY <1>3, <1>4 DEF Activate

LEMMA EnteredInv ==
    ASSUME Inv, Entered
    PROVE  Inv'
<1> DEFINE s == Top.x
           k == Top.k
           r == Regions[s][k]
           next == Do("entered", s, Null, k + 1, FALSE)
           f == Call("activate", r)
           g == Call("runRegion", r)
<1>1. agenda # <<>> /\ Top.op = "entered"
  BY DEF Entered, Running, Top
<1>2. s \in States /\ Top.op \notin BottomOps /\ k + 1 \in Nat
  BY <1>1, TopFrame DEF Inv, FrameOK, BottomOps
<1>3. Good(next) /\ next.op = "entered"
  <2>1. "entered" \in PlainOps /\ Null \in OrNull(Events)
    BY DEF PlainOps, OrNull
  <2> QED BY <1>2, <2>1, PlainDo, Zenon
<1> HIDE DEF next
<1>4. CASE k \in DOMAIN Regions[s] /\ Push(<<f, g, next>>) /\ UNCHANGED ret /\ Quiet
  <2>1. r \in States /\ Kind[r] = "Hierarchical"
    BY <1>2, <1>4, ChartStructure DEF ElementsOf, ChildrenOf
  <2>2. Good(f) /\ f.op = "activate"
    BY <2>1, PlainCall DEF PlainOps
  <2>3. Good(g) /\ g.op = "runRegion"
    <3>1. g \in Task /\ g.op = "runRegion" /\ g.x = r
      BY <2>1 DEF Call, Do, Task, Ops, OrNull
    <3> QED BY <2>1, <3>1 DEF FrameOK, BottomOps, Good
  <2> HIDE DEF f, g
  <2>4. /\ <<f, g, next>> \in Seq(Task) /\ Pushable(<<f, g, next>>)
        /\ NoDispatch(<<f, g, next>>)
    BY <1>3, <2>2, <2>3, Three
  <2> QED BY <1>1, <1>2, <1>4, <2>4, InvData, PushStep DEF Quiet
<1>5. CASE Push(<<next>>) /\ UNCHANGED ret /\ Quiet
  <2>1. <<next>> \in Seq(Task) /\ Pushable(<<next>>) /\ NoDispatch(<<next>>)
    BY <1>3, One
  <2> QED BY <1>1, <1>2, <1>5, <2>1, InvData, PushStep DEF Quiet
<1>6. CASE /\ \E q \in Recorded(s, k) : Push(<<Call("activate", q), next>>)
           /\ UNCHANGED ret /\ Quiet
  <2>1. PICK q \in Recorded(s, k) : Push(<<Call("activate", q), next>>)
    BY <1>6
  <2>2. q \in States
    BY <1>2, InvData DEF Recorded, RuntimeMap
  <2> DEFINE a == Call("activate", q)
  <2>3. Good(a) /\ a.op = "activate"
    BY <2>2, PlainCall DEF PlainOps
  <2>4. Push(<<a, next>>)
    BY <2>1
  <2> HIDE DEF a
  <2>5. <<a, next>> \in Seq(Task) /\ Pushable(<<a, next>>) /\ NoDispatch(<<a, next>>)
    BY <1>3, <2>3, Two
  <2> QED BY <1>1, <1>2, <1>6, <2>4, <2>5, InvData, PushStep DEF Quiet
<1>7. CASE /\ md' = RegisterForkRegions(md, s)
           /\ Return(TRUE)
           /\ UNCHANGED <<fired, before, control>>
  <2>1. md' \in RuntimeMap /\ MapOK(md')
    BY <1>2, <1>7, InvData, RegisterForkRegionsOK
  <2> QED BY <1>1, <1>2, <1>7, <2>1, ReturnStep DEF Return
<1>8. CASE Return(TRUE) /\ Quiet
  BY <1>1, <1>2, <1>8, InvData, ReturnStep DEF Return, Quiet
<1> QED BY <1>4, <1>5, <1>6, <1>7, <1>8 DEF Entered, next

LEMMA RunRegionInv ==
    ASSUME Inv, RunRegion
    PROVE  Inv'
<1> DEFINE r == Top.x
           f == Call("dispatch", r)
<1>1. agenda # <<>> /\ Top.op = "runRegion" /\ Quiet /\ ret' = ret
  BY DEF RunRegion, Running, Top
<1>2. r \in States /\ Kind[r] = "Hierarchical" /\ Top.op \notin BottomOps
  BY <1>1, TopFrame DEF Inv, FrameOK, BottomOps
<1>3. CASE Push(<<f>>)
  <2>1. Good(f) /\ f.op = "dispatch" /\ f.x = r
    BY <1>2, PlainCall DEF PlainOps
  <2>2. Kind[f.x] = "Hierarchical"
    BY <1>2, <2>1
  <2> HIDE DEF f
  <2>3. <<f>> \in Seq(Task) /\ Pushable(<<f>>)
    BY <2>1, One
  <2>4. <<f>> # <<>> /\ <<f>>[1] = f
    OBVIOUS
  <2> QED BY <1>1, <1>2, <1>3, <2>2, <2>3, <2>4, InvData, DispatchStep
<1>4. CASE Push(<<>>)
  BY <1>1, <1>2, <1>4, InvData, PushNothing DEF Quiet
<1> QED BY <1>3, <1>4 DEF RunRegion

LEMMA DeactivateHierarchicalInv ==
    ASSUME Inv, DeactivateHierarchical
    PROVE  Inv'
<1> DEFINE h == Top.x
           current == md.current[h]
           f == Call("deactivate", current)
           g == Call("leave", h)
<1>1. agenda # <<>> /\ Top.op = "deactivate"
  BY DEF DeactivateHierarchical, Running, Top
<1>2. h \in States \ {Root} /\ Top.op \notin BottomOps
  BY <1>1, TopFrame DEF Inv, FrameOK, BottomOps
<1>3. Good(g) /\ g.op = "leave"
  BY <1>2, LeaveCall
<1>4. CASE Push(<<>>) /\ UNCHANGED ret /\ Quiet
  BY <1>1, <1>2, <1>4, InvData, PushNothing DEF Quiet
<1>5. CASE /\ md' = IF StoresHistory(h) THEN StoreHistory(md, HistoryState[h])
                    ELSE md
           /\ Push(IF current = Null THEN <<g>> ELSE <<f, g>>)
           /\ UNCHANGED <<ret, fired, before, control>>
  <2>1. md' \in RuntimeMap /\ MapOK(md')
    <3>1. CASE StoresHistory(h)
      <4>1. HistoryState[h] \in States /\ Parent[HistoryState[h]] \in States
        BY <1>2, <3>1, ChartStructure DEF StoresHistory, ChildrenOf
      <4> QED BY <1>5, <3>1, <4>1, InvData, StoreHistoryOK
    <3>2. CASE ~StoresHistory(h)
      BY <1>5, <3>2, InvData
    <3> QED BY <3>1, <3>2
  <2>2. CASE current = Null
    <3> HIDE DEF g
    <3>1. <<g>> \in Seq(Task) /\ Pushable(<<g>>) /\ NoDispatch(<<g>>)
      BY <1>3, One
    <3>2. Push(<<g>>)
      BY <1>5, <2>2
    <3> QED BY <1>1, <1>2, <1>5, <2>1, <3>1, <3>2, InvData, PushStep
  <2>3. CASE current # Null
    <3>1. current \in States \ {Root}
      BY <1>2, <2>3, InvData, CurrentBelowRoot
    <3>2. Good(f) /\ f.op = "deactivate"
      BY <3>1, LeaveCall
    <3> HIDE DEF f, g
    <3>3. <<f, g>> \in Seq(Task) /\ Pushable(<<f, g>>) /\ NoDispatch(<<f, g>>)
      BY <1>3, <3>2, Two
    <3>4. Push(<<f, g>>)
      BY <1>5, <2>3
    <3> QED BY <1>1, <1>2, <1>5, <2>1, <3>3, <3>4, InvData, PushStep
  <2> QED BY <2>2, <2>3
<1> QED BY <1>4, <1>5 DEF DeactivateHierarchical

LEMMA DeactivateConcurrentInv ==
    ASSUME Inv, DeactivateConcurrent
    PROVE  Inv'
<1> DEFINE c == Top.x
           exits == CallEach("deactivate", Regions[c])
           g == Call("leave", c)
<1>1. /\ agenda # <<>> /\ Top.op = "deactivate"
      /\ Push(exits \o <<g>>)
      /\ md' = [md EXCEPT !.stateset[c] = {}]
      /\ UNCHANGED <<ret, fired, before, control>>
  BY DEF DeactivateConcurrent, Running, Top
<1>2. c \in States \ {Root} /\ Top.op \notin BottomOps
  BY <1>1, TopFrame DEF Inv, FrameOK, BottomOps
<1>3. exits \in Seq(Task) /\ Pushable(exits) /\ NoDispatch(exits)
  <2>1. Regions[c] \in Seq(States)
    BY <1>2, ChartAssumption
  <2>2. \A i \in DOMAIN Regions[c] : Regions[c][i] # Root
    <3>1. \A i \in DOMAIN Regions[c] : Parent[Regions[c][i]] = c
      BY <1>2, ChartStructure DEF ElementsOf, ChildrenOf
    <3>2. c # Parent[Root]
      BY <1>2, ChartAssumption
    <3> QED BY <3>1, <3>2
  <2>3. Regions[c] \in Seq(States \ {Root})
    BY <2>1, <2>2
  <2> QED BY <2>3, LeaveEach
<1>4. <<g>> \in Seq(Task) /\ Pushable(<<g>>) /\ NoDispatch(<<g>>)
  <2>1. Good(g) /\ g.op = "leave"
    BY <1>2, LeaveCall
  <2> HIDE DEF g
  <2> QED BY <2>1, One
<1> HIDE DEF exits, g
<1>5. /\ exits \o <<g>> \in Seq(Task) /\ Pushable(exits \o <<g>>)
      /\ NoDispatch(exits \o <<g>>)
  BY <1>3, <1>4, PushableConcat
<1>6. md' \in RuntimeMap /\ MapOK(md')
  BY <1>1, <1>2, InvData DEF RuntimeMap, MapOK
<1> QED BY <1>1, <1>2, <1>5, <1>6, InvData, PushStep

LEMMA LeaveInv ==
    ASSUME Inv, Leave
    PROVE  Inv'
<1> DEFINE s == Top.x
           f == Call("exit", s)
<1>1. /\ agenda # <<>> /\ Top.op \in {"deactivate", "leave"}
      /\ UNCHANGED <<fired, before, control>>
  BY DEF Leave, Running, Top
<1>2. s \in States /\ Top.op \notin BottomOps
  BY <1>1, TopFrame DEF Inv, FrameOK, BottomOps
<1>3. CASE Push(<<>>) /\ UNCHANGED <<md, ret>>
  BY <1>1, <1>2, <1>3, InvData, PushNothing
<1>4. CASE md' = MdDeactivate(md, s) /\ Push(<<f>>) /\ UNCHANGED ret
  <2>1. Good(f) /\ f.op = "exit"
    BY <1>2, PlainCall DEF PlainOps
  <2> HIDE DEF f
  <2>2. <<f>> \in Seq(Task) /\ Pushable(<<f>>) /\ NoDispatch(<<f>>)
    BY <2>1, One
  <2>3. md' \in RuntimeMap /\ MapOK(md')
    BY <1>2, <1>4, InvData, MdDeactivateOK
  <2> QED BY <1>1, <1>2, <1>4, <2>2, <2>3, InvData, PushStep
<1> QED BY <1>3, <1>4 DEF Leave

LEMMA RunActionInv ==
    ASSUME Inv, RunAction
    PROVE  Inv'
<1>1. agenda # <<>> /\ Top.op \in {"call", "exit"} /\ Push(<<>>)
      /\ UNCHANGED <<md, ret, outcome, tainted, fired, before>>
  BY DEF RunAction, Running, Top
<1>2. Top.op \notin BottomOps
  BY <1>1 DEF BottomOps
<1>3. agenda' = Tail(agenda)
  BY <1>1, <1>2 DEF Push, Inv, ControlOK
<1>4. ControlOK' /\ DispatchTarget'
  BY <1>1, <1>2, <1>3, ReturnControl DEF Inv
<1>5. param' \in Data
  <2>1. param \in Data /\ Top.x \in States \cup Trans
    BY <1>1, TopFrame DEF Inv, DataOK
  <2>2. CASE Top.op = "call"
    <3>1. param' = Written(Effect[Top.x])
      BY <2>2 DEF RunAction, Running, Top
    <3>2. Effect[Top.x] # Null => Effect[Top.x] \in [Data -> Data]
      BY <2>1, ChartAssumption
    <3> QED BY <2>1, <3>1, <3>2 DEF Written
  <2>3. CASE Top.op = "exit"
    <3>1. param' = Written(ExitEffect[Top.x])
      BY <2>3 DEF RunAction, Running, Top
    <3>2. Top.x \in States
      BY <1>1, <2>3, TopFrame DEF Inv, FrameOK
    <3>3. ExitEffect[Top.x] # Null => ExitEffect[Top.x] \in [Data -> Data]
      BY <3>2, ChartAssumption
    <3> QED BY <2>1, <3>1, <3>3 DEF Written
  <2> QED BY <1>1, <2>2, <2>3
<1>6. DataOK'
  BY <1>1, <1>5 DEF Inv, DataOK
<1> QED BY <1>4, <1>6 DEF Inv

LEMMA ThrowActionInv ==
    ASSUME Inv, ThrowAction
    PROVE  Inv'
<1>1. agenda' = <<>> /\ outcome' = "Threw" /\ tainted' = TRUE
      /\ UNCHANGED <<md, param, ret, fired, before>>
  BY DEF ThrowAction
<1>2. ControlOK' /\ DispatchTarget'
  BY <1>1 DEF ControlOK, CallStack, StackOK, DispatchTarget, Running
<1>3. DataOK'
  BY <1>1 DEF Inv, DataOK, Outcomes
<1> QED BY <1>2, <1>3 DEF Inv

\* A call of the user is alone on the stack.
LEMMA BottomAlone ==
    ASSUME ControlOK, agenda # <<>>, Top.op \in BottomOps
    PROVE  Tail(agenda) = <<>> /\ outcome = "running"
           /\ \A s \in Seq(Task) : s \o Tail(agenda) = s
<1>1. agenda \in Seq(Task) /\ 1 \in DOMAIN agenda /\ Top = agenda[1]
  BY DEF ControlOK, Top
<1>2. Len(agenda) = 1
  BY <1>1 DEF ControlOK, CallStack, StackOK
<1>3. Tail(agenda) = <<>>
  <2>1. Tail(agenda) \in Seq(Task) /\ Len(Tail(agenda)) = 0
    BY <1>1, <1>2
  <2> QED BY <2>1, EmptySeq
<1>4. \A s \in Seq(Task) : s \o <<>> = s
  OBVIOUS
<1> QED BY <1>3, <1>4 DEF ControlOK, CallStack

\* Calls on top of a call of the user.
LEMMA OnBottom ==
    ASSUME NEW u \in Seq(Task), Pushable(u),
           NEW f \in Task, FrameOK(f), f.op \in BottomOps,
           agenda' = u \o <<f>>, outcome' = "running"
    PROVE  ControlOK' /\ (Running("dispatch")' => u # <<>> /\ Top' = u[1])
<1> DEFINE r == u \o <<f>>
<1>1. /\ r \in Seq(Task) /\ Len(r) = Len(u) + 1 /\ r # <<>>
      /\ \A i \in 1 .. Len(r) : r[i] = IF i <= Len(u) THEN u[i] ELSE f
  OBVIOUS
<1> HIDE DEF r
<1>2. StackOK(r)
  <2> SUFFICES ASSUME NEW i \in DOMAIN r
               PROVE  /\ FrameOK(r[i])
                      /\ r[i].op \in BottomOps <=> i = Len(r)
                      /\ r[i].op = "dispatch" => i = 1
    BY DEF StackOK
  <2>1. i \in 1 .. Len(r) /\ Len(u) \in Nat
    BY <1>1
  <2>2. CASE i <= Len(u)
    <3>1. r[i] = u[i] /\ i \in 1 .. Len(u) /\ i # Len(r)
      BY <1>1, <2>1, <2>2
    <3> QED BY <3>1 DEF Pushable
  <2>3. CASE i > Len(u)
    <3>1. r[i] = f /\ i = Len(r)
      BY <1>1, <2>1, <2>3
    <3> QED BY <3>1 DEF BottomOps
  <2> QED BY <2>1, <2>2, <2>3
<1>3. ControlOK'
  BY <1>1, <1>2 DEF ControlOK, CallStack, r
<1>4. Running("dispatch")' => u # <<>> /\ Top' = u[1]
  <2> SUFFICES ASSUME Head(r).op = "dispatch"
               PROVE  u # <<>> /\ Head(r) = u[1]
    BY DEF Running, Top, r
  <2>1. Head(r) = r[1] /\ 1 \in 1 .. Len(r) /\ Len(u) \in Nat
    BY <1>1
  <2>2. Len(u) # 0
    BY <1>1, <2>1 DEF BottomOps
  <2> QED BY <1>1, <2>1, <2>2
<1> QED BY <1>3, <1>4

\* The frames of Statechart::dispatch.
LEMMA BottomDo ==
    ASSUME NEW op \in BottomOps, NEW e \in OrNull(Events), NEW k \in Nat,
           NEW b \in BOOLEAN, op = "loop" => k <= Threshold
    PROVE  Do(op, Root, e, k, b) \in Task /\ FrameOK(Do(op, Root, e, k, b))
           /\ Do(op, Root, e, k, b).op \in BottomOps
<1>1. op \in Ops /\ Root \in States \cup Trans
  BY ChartAssumption DEF Ops, BottomOps
<1>2. /\ Do(op, Root, e, k, b) \in Task /\ Do(op, Root, e, k, b).op = op
      /\ Do(op, Root, e, k, b).k = k
  BY <1>1, DoTask
<1> QED BY <1>2 DEF FrameOK, BottomOps

\* A call of the user that goes on with s.
LEMMA BottomPush ==
    ASSUME ControlOK, agenda # <<>>, Top.op \in BottomOps,
           NEW s \in Seq(Task), Push(s)
    PROVE  agenda' = s
BY BottomAlone DEF Push

\* What is dispatched to the chart goes to the Statechart's current state.
LEMMA DispatchRoot ==
    ASSUME Inv, NEW g \in Task, FrameOK(g), g.op \in BottomOps,
           NEW e \in OrNull(Events), md.current[Root] # Null, md' = md,
           agenda' = <<Do("dispatch", md.current[Root], e, 1, FALSE), g>>,
           outcome' = "running"
    PROVE  ControlOK' /\ DispatchTarget'
<1> DEFINE f == Do("dispatch", md.current[Root], e, 1, FALSE)
<1>1. md.current[Root] \in States /\ Parent[md.current[Root]] = Root
  BY ChartAssumption, InvData, CurrentBelowRoot
<1>2. Good(f) /\ f.x = md.current[Root]
  BY <1>1, DispatchDo
<1>3. agenda' = <<f, g>>
  OBVIOUS
<1> HIDE DEF f
<1>4. <<f>> \in Seq(Task) /\ Pushable(<<f>>) /\ <<f, g>> = <<f>> \o <<g>>
      /\ <<f>>[1] = f
  BY <1>2, One
<1>5. ControlOK' /\ (Running("dispatch")' => Top' = f)
  BY <1>3, <1>4, OnBottom
<1>6. (md').current[Parent[f.x]] = f.x
  BY <1>1, <1>2
<1> QED BY <1>5, <1>6 DEF DispatchTarget

\* A single call of the user.
LEMMA BottomOnly ==
    ASSUME NEW g \in Task, FrameOK(g), g.op \in BottomOps,
           agenda' = <<g>>, outcome' = "running"
    PROVE  ControlOK' /\ DispatchTarget'
<1>1. <<>> \in Seq(Task) /\ Pushable(<<>>) /\ <<g>> = <<>> \o <<g>>
  BY DEF Pushable
<1>2. ControlOK' /\ ~Running("dispatch")'
  BY <1>1, OnBottom
<1> QED BY <1>2 DEF DispatchTarget

\* The last call has returned.
LEMMA EmptyStack ==
    ASSUME agenda' = <<>>, outcome' # "running"
    PROVE  ControlOK' /\ DispatchTarget'
BY DEF ControlOK, CallStack, StackOK, DispatchTarget, Running

LEMMA DispatchChartInv ==
    ASSUME Inv, DispatchChart
    PROVE  Inv'
<1> DEFINE g == Do("loop", Root, Null, 0, FALSE)
           current == md.current[Root]
<1>1. agenda # <<>> /\ Top.op = "chart" /\ Quiet
  BY DEF DispatchChart, Running, Top
<1>2. /\ Top.op \in BottomOps /\ Top.e \in OrNull(Events)
      /\ outcome' = "running" /\ md' = md
  BY <1>1, TopFrame, BottomAlone DEF Inv, BottomOps, Quiet, control
<1>3. g \in Task /\ FrameOK(g) /\ g.op \in BottomOps
  <2>1. /\ "loop" \in BottomOps /\ Null \in OrNull(Events) /\ 0 \in Nat
        /\ 0 <= Threshold /\ FALSE \in BOOLEAN
    BY ThresholdAssumption DEF BottomOps, OrNull
  <2> QED BY <2>1, BottomDo, Zenon
<1> HIDE DEF g
<1>4. CASE current # Null
  <2> DEFINE f == Do("dispatch", current, Top.e, 1, FALSE)
  <2>1. Push(<<f, g>>) /\ ret' = ret
    BY <1>4 DEF DispatchChart, g
  <2>2. agenda' = <<f, g>>
    <3>1. current \in States
      BY <1>4, ChartAssumption, InvData, CurrentBelowRoot
    <3>2. f \in Task
      BY <1>2, <3>1, DispatchDo DEF Good
    <3> HIDE DEF f
    <3>3. <<f, g>> \in Seq(Task)
      BY <1>3, <3>2
    <3> QED BY <1>1, <1>2, <2>1, <3>3, BottomPush DEF Inv
  <2> HIDE DEF f
  <2>3. ControlOK' /\ DispatchTarget'
    BY <1>2, <1>3, <1>4, <2>2, DispatchRoot DEF f
  <2> QED BY <1>1, <2>1, <2>3, InvData, DataStep DEF Quiet, Inv
<1>5. CASE current = Null
  <2>1. Push(<<g>>) /\ ret' = FALSE
    BY <1>5 DEF DispatchChart, g
  <2>2. agenda' = <<g>>
    <3>1. <<g>> \in Seq(Task)
      BY <1>3
    <3> QED BY <1>1, <1>2, <2>1, <3>1, BottomPush DEF Inv
  <2>3. ControlOK' /\ DispatchTarget'
    BY <1>2, <1>3, <2>2, BottomOnly
  <2> QED BY <1>1, <2>1, <2>3, InvData, DataStep DEF Quiet, Inv
<1> QED BY <1>4, <1>5

LEMMA LoopInv ==
    ASSUME Inv, Loop
    PROVE  Inv'
<1> DEFINE k == Top.k
           rc == ResultOfEvent(k)
           current == md.current[Root]
           g == Do("loop", Root, Null, k + 1, rc)
<1>1. agenda # <<>> /\ Top.op = "loop" /\ UNCHANGED <<md, param, fired, before>>
  BY DEF Loop, Running, Top
<1>2. Top.op \in BottomOps /\ k \in Nat /\ rc \in BOOLEAN
  BY <1>1, TopFrame, InvData DEF Inv, BottomOps, ResultOfEvent
<1>3. Tail(agenda) = <<>> /\ outcome = "running"
  BY <1>1, <1>2, BottomAlone DEF Inv
<1>4. CASE /\ agenda' = <<>> /\ outcome' = "InfiniteLoop" /\ tainted' = TRUE
           /\ UNCHANGED ret
  <2>1. ControlOK' /\ DispatchTarget'
    BY <1>4, EmptyStack
  <2>2. DataOK'
    BY <1>1, <1>4 DEF Inv, DataOK, Outcomes
  <2> QED BY <2>1, <2>2 DEF Inv
<1>5. CASE /\ ~(k > 0 /\ TooManySteps(k)) /\ current # Null
           /\ Push(<<Call("dispatch", current), g>>)
           /\ UNCHANGED <<ret, outcome, tainted>>
  <2> DEFINE f == Do("dispatch", current, Null, 1, FALSE)
  <2>1. g \in Task /\ FrameOK(g) /\ g.op \in BottomOps
    <3>1. k + 1 \in Nat /\ k + 1 <= Threshold
      BY <1>2, <1>5, ThresholdAssumption DEF TooManySteps
    <3>2. "loop" \in BottomOps /\ Null \in OrNull(Events)
      BY DEF BottomOps, OrNull
    <3> HIDE DEF rc
    <3> QED BY <1>2, <3>1, <3>2, BottomDo
  <2> HIDE DEF g
  <2>2. agenda' = <<f, g>>
    <3>1. current \in States
      BY <1>5, ChartAssumption, InvData, CurrentBelowRoot
    <3>2. f \in Task
      BY <3>1, DispatchDo DEF Good, OrNull
    <3>3. Push(<<f, g>>)
      BY <1>5 DEF Call
    <3> HIDE DEF f
    <3>4. <<f, g>> \in Seq(Task)
      BY <2>1, <3>2
    <3> QED BY <1>1, <1>2, <3>3, <3>4, BottomPush DEF Inv
  <2>3. Null \in OrNull(Events) /\ md' = md /\ outcome' = "running"
    BY <1>1, <1>3, <1>5 DEF OrNull
  <2>4. ControlOK' /\ DispatchTarget'
    BY <1>5, <2>1, <2>2, <2>3, DispatchRoot
  <2>5. DataOK'
    BY <1>1, <1>5, InvData, DataStep DEF control
  <2> QED BY <2>4, <2>5 DEF Inv
<1>6. CASE Return(rc) /\ outcome' = "done" /\ UNCHANGED tainted
  <2>1. ControlOK' /\ DispatchTarget'
    BY <1>3, <1>6, EmptyStack DEF Return
  <2>2. ret' \in BOOLEAN /\ outcome' \in Outcomes
    BY <1>2, <1>6 DEF Return, Outcomes
  <2>3. DataOK'
    BY <1>1, <1>6, <2>2 DEF Inv, DataOK
  <2> QED BY <2>1, <2>3 DEF Inv
<1> QED BY <1>4, <1>5, <1>6 DEF Loop, Counted

LEMMA RestoredInv ==
    ASSUME Inv, Restored
    PROVE  Inv'
<1>1. /\ agenda # <<>> /\ Top.op \in BottomOps
      /\ agenda' = Tail(agenda) /\ ret' = TRUE /\ outcome' = "restored"
      /\ UNCHANGED <<md, param, tainted, fired, before>>
  BY DEF Restored, Running, Top, Return, BottomOps
<1>2. ControlOK' /\ DispatchTarget'
  BY <1>1, BottomAlone, EmptyStack DEF Inv
<1>3. DataOK'
  BY <1>1 DEF Inv, DataOK, Outcomes
<1> QED BY <1>2, <1>3 DEF Inv

\* What start() leaves in the Metadata before it dispatches.
LEMMA StartedMapOK ==
    /\ StartedMap \in RuntimeMap /\ MapOK(StartedMap)
    /\ Root \in StartedMap.active
<1> DEFINE started == MdActivate(EmptyMap, Root)
<1>1. /\ started \in RuntimeMap /\ MapOK(started)
      /\ Root \in started.active
  BY ChartAssumption, EmptyMapOK, MdActivateOK
<1> HIDE DEF started
<1>2. CASE StartState[Root] = Null
  BY <1>1, <1>2 DEF StartedMap, started
<1>3. CASE StartState[Root] # Null
  <2>1. StartState[Root] \in States
    BY <1>3, ChartAssumption DEF OrNull
  <2>2. /\ MdActivate(started, StartState[Root]) \in RuntimeMap
        /\ MapOK(MdActivate(started, StartState[Root]))
        /\ Root \in MdActivate(started, StartState[Root]).active
    BY <1>1, <2>1, MdActivateOK
  <2> QED BY <1>3, <2>2 DEF StartedMap, started
<1> QED BY <1>2, <1>3

\* The data at the beginning of a call of the user.
LEMMA BeginData ==
    ASSUME Inv, NEW tasks, BeginCall(tasks), md' \in RuntimeMap, MapOK(md'),
           tainted' \in BOOLEAN
    PROVE  DataOK'
<1>1. param' \in Data
  <2>1. param' \in Vary[param] /\ param \in Data
    BY DEF BeginCall, Inv, DataOK
  <2> QED BY <2>1, ChartAssumption
<1> QED BY <1>1, EmptyMapOK DEF BeginCall, Inv, DataOK, Outcomes

LEMMA StartChartInv ==
    ASSUME Inv, StartChart
    PROVE  Inv'
<1> DEFINE g == Call("chart", Root)
<1>1. BeginCall(<<g>>) /\ md' = StartedMap /\ tainted' = FALSE
  BY DEF StartChart
<1>2. g \in Task /\ FrameOK(g) /\ g.op \in BottomOps
  <2>1. /\ "chart" \in BottomOps /\ Null \in OrNull(Events) /\ 1 \in Nat
        /\ FALSE \in BOOLEAN /\ "chart" # "loop"
    BY DEF BottomOps, OrNull
  <2> QED BY <2>1, BottomDo, Zenon DEF Call
<1> HIDE DEF g
<1>3. ControlOK' /\ DispatchTarget'
  BY <1>1, <1>2, BottomOnly DEF BeginCall
<1>4. DataOK'
  BY <1>1, BeginData, StartedMapOK
<1> QED BY <1>3, <1>4 DEF Inv

LEMMA DispatchEventInv ==
    ASSUME Inv, NEW e \in Events, DispatchEvent(e)
    PROVE  Inv'
<1> DEFINE g == Do("chart", Root, e, 1, FALSE)
<1>1. BeginCall(<<g>>) /\ UNCHANGED <<md, tainted>>
  BY DEF DispatchEvent
<1>2. g \in Task /\ FrameOK(g) /\ g.op \in BottomOps
  <2>1. /\ "chart" \in BottomOps /\ e \in OrNull(Events) /\ 1 \in Nat
        /\ FALSE \in BOOLEAN /\ "chart" # "loop"
    BY DEF BottomOps, OrNull
  <2> QED BY <2>1, BottomDo, Zenon
<1> HIDE DEF g
<1>3. ControlOK' /\ DispatchTarget'
  BY <1>1, <1>2, BottomOnly DEF BeginCall
<1>4. DataOK'
  BY <1>1, BeginData, InvData DEF Inv, DataOK
<1> QED BY <1>3, <1>4 DEF Inv

LEMMA RestoreStateInv ==
    ASSUME Inv, NEW s \in Restorable, RestoreState(s)
    PROVE  Inv'
<1> DEFINE g == Call("restored", Root)
           path == Path[s]
           enters == CallEach("activate", path)
<1>1. BeginCall(enters \o <<g>>) /\ md' = EmptyMap /\ tainted' = FALSE
  BY DEF RestoreState
<1>2. g \in Task /\ FrameOK(g) /\ g.op \in BottomOps
  <2>1. /\ "restored" \in BottomOps /\ Null \in OrNull(Events) /\ 1 \in Nat
        /\ FALSE \in BOOLEAN /\ "restored" # "loop"
    BY DEF BottomOps, OrNull
  <2> QED BY <2>1, BottomDo, Zenon DEF Call
<1>3. path \in Seq(States)
  BY ChartAssumption, RestorableAssumption DEF RealStates
<1>4. enters \in Seq(Task) /\ Pushable(enters) /\ NoDispatch(enters)
  <2>1. path \in Seq(States \cup Trans) /\ "activate" \in Ops
    BY <1>3 DEF Ops
  <2>2. /\ enters \in Seq(Task)
        /\ Len(enters) = Len(path)
        /\ \A i \in 1 .. Len(enters) : enters[i] = Call("activate", path[i])
    BY <2>1, CallEachOK
  <2>3. \A i \in 1 .. Len(enters) :
          Good(enters[i]) /\ enters[i].op = "activate"
    BY <1>3, <2>2, PlainCall DEF PlainOps
  <2> QED BY <2>2, <2>3 DEF Pushable, NoDispatch, Good
<1> HIDE DEF g, enters
<1>5. ControlOK' /\ (Running("dispatch")' => enters # <<>> /\ Top' = enters[1])
  BY <1>1, <1>2, <1>4, OnBottom DEF BeginCall
<1>6. ~Running("dispatch")'
  <2> SUFFICES ASSUME Running("dispatch")' PROVE FALSE
    OBVIOUS
  <2>1. 1 \in 1 .. Len(enters) /\ enters[1].op = "dispatch"
    BY <1>4, <1>5 DEF Running, Top
  <2> QED BY <1>4, <2>1 DEF NoDispatch
<1>7. DataOK'
  BY <1>1, BeginData, EmptyMapOK
<1> QED BY <1>5, <1>6, <1>7 DEF Inv, DispatchTarget

(***************************************************************************)
(* The theorems.                                                           *)
(***************************************************************************)
LEMMA InitInv == Init => Inv
<1> SUFFICES ASSUME Init PROVE Inv
  OBVIOUS
<1>1. DataOK
  <2>1. md = EmptyMap /\ before = EmptyMap /\ fired = <<>> /\ outcome = "idle"
    BY DEF Init
  <2>2. md \in RuntimeMap /\ MapOK(md) /\ before \in RuntimeMap
    BY <2>1, EmptyMapOK
  <2>3. fired \in Seq(Trans) /\ outcome \in Outcomes
    BY <2>1 DEF Outcomes
  <2>4. param \in Data /\ ret \in BOOLEAN /\ tainted \in BOOLEAN
    BY ChartAssumption DEF Init
  <2> QED BY <2>2, <2>3, <2>4 DEF DataOK
<1>2. agenda = <<>> /\ outcome = "idle"
  BY DEF Init
<1>3. ControlOK /\ DispatchTarget
  BY <1>2 DEF ControlOK, CallStack, StackOK, DispatchTarget, Running
<1> QED BY <1>1, <1>3 DEF Inv

LEMMA NextInv == Inv /\ [Next]_vars => Inv'
<1> SUFFICES ASSUME Inv, [Next]_vars PROVE Inv'
  OBVIOUS
<1>1. CASE UserCall
  BY <1>1, StartChartInv, DispatchEventInv, RestoreStateInv DEF UserCall
<1>2. CASE DispatchState \/ DispatchFork \/ DispatchHierarchical
           \/ DispatchSubstate \/ Bubble
  BY <1>2, DispatchStateInv, DispatchForkInv, DispatchHierarchicalInv,
     DispatchSubstateInv, BubbleInv
<1>3. CASE DispatchConcurrent \/ DispatchRegions
  BY <1>3, DispatchConcurrentInv, DispatchRegionsInv
<1>4. CASE Enter \/ Activate \/ Entered \/ RunRegion
  BY <1>4, EnterInv, ActivateInv, EnteredInv, RunRegionInv
<1>5. CASE DeactivateHierarchical \/ DeactivateConcurrent \/ Leave
  BY <1>5, DeactivateHierarchicalInv, DeactivateConcurrentInv, LeaveInv
<1>6. CASE RunAction \/ ThrowAction
  BY <1>6, RunActionInv, ThrowActionInv
<1>7. CASE DispatchChart \/ Loop \/ Restored
  BY <1>7, DispatchChartInv, LoopInv, RestoredInv
<1>8. CASE UNCHANGED vars
  BY <1>8 DEF vars, Inv, DataOK, ControlOK, CallStack, StackOK, DispatchTarget,
     Running, Top
<1> QED BY <1>1, <1>2, <1>3, <1>4, <1>5, <1>6, <1>7, <1>8 DEF Next, Step

\* The inductive invariant holds on every chart.
THEOREM Invariant == Spec => []Inv
BY InitInv, NextInv, PTL DEF Spec

\* Every variable keeps its type.  Above all, every pending call is made on a
\* state or a transition, never on the null pointers that currentState, the
\* start state and the history of a context may be (HierarchicalState.cpp:91-109,
\* Statechart.cpp:162-173 check for them).
THEOREM TypeCorrect == Spec => []TypeOK
<1>1. Inv => TypeOK
  BY DEF Inv, DataOK, ControlOK, TypeOK
<1> QED BY <1>1, Invariant, PTL

\* The call stack has the shape the code's structure promises, and dispatch
\* gives up after Threshold dispatches of nullptr (Statechart.cpp:190).
THEOREM StackShape == Spec => []CallStack
<1>1. Inv => CallStack
  BY DEF Inv, ControlOK
<1> QED BY <1>1, Invariant, PTL

\* Active states own a record, and currentState always names a child, at every
\* step of a dispatch and after any exception (Metadata.cpp:67-135).
THEOREM CurrentIsAlwaysChild == Spec => []CurrentIsChild
<1>1. Inv => CurrentIsChild
  BY DEF Inv, DataOK, CurrentIsChild
<1> QED BY <1>1, Invariant, PTL

\* A history pseudo-state is dispatched to only as its parent's current state,
\* so that PseudoState::dispatch never forwards (PseudoState.cpp:227-237).
THEOREM HistoryIsCurrent == Spec => []HistoryDispatchedAsCurrent
<1>1. Inv => HistoryDispatchedAsCurrent
  BY DEF Inv, DispatchTarget, HistoryDispatchedAsCurrent, IsHistory, HistoryKinds
<1> QED BY <1>1, Invariant, PTL

LEMMA RootStaysActiveStep ==
    Inv /\ [Next]_vars => (Root \in md.active => Root \in (md').active)
<1> SUFFICES ASSUME Inv, [Next]_vars, Root \in md.active
             PROVE  Root \in (md').active
  OBVIOUS
<1> USE DEF Quiet
<1>1. CASE UserCall
  <2>1. CASE StartChart
    BY <2>1, StartedMapOK DEF StartChart
  <2>2. ASSUME NEW e \in Events, DispatchEvent(e) PROVE Root \in (md').active
    BY <2>2 DEF DispatchEvent
  <2>3. ASSUME NEW s \in Restorable, RestoreState(s) PROVE Root \in (md').active
    BY <2>3 DEF RestoreState
  <2> QED BY <1>1, <2>1, <2>2, <2>3 DEF UserCall
<1>2. ASSUME NEW s, NEW ready, FireFirst(s, ready) PROVE md' = md
  BY <1>2 DEF FireFirst, Execute
<1>3. CASE DispatchState \/ DispatchFork \/ DispatchSubstate \/ Bubble
  BY <1>2, <1>3 DEF DispatchState, DispatchFork, DispatchSubstate, Bubble, Execute
<1>4. CASE DispatchHierarchical
  <2>1. CASE md' = md
    BY <2>1
  <2>2. CASE StartState[Top.x] # Null /\ md' = MdActivate(md, StartState[Top.x])
    <3>1. agenda # <<>> /\ Top.op = "dispatch"
      BY <1>4 DEF DispatchHierarchical, Running, Top
    <3>2. Top.x \in States
      BY <3>1, TopFrame DEF Inv, FrameOK
    <3>3. StartState[Top.x] \in States
      BY <2>2, <3>2, ChartAssumption DEF OrNull
    <3> QED BY <2>2, <3>3, InvData, MdActivateOK
  <2> QED BY <1>4, <2>1, <2>2 DEF DispatchHierarchical
<1>5. CASE DispatchConcurrent \/ DispatchRegions
  BY <1>2, <1>5 DEF DispatchConcurrent, DispatchRegions
<1>6. CASE Enter
  <2>1. agenda # <<>> /\ Top.op = "enter"
    BY <1>6 DEF Enter, Running, Top
  <2>2. (md').active = md.active
    BY <1>6, InvData DEF Enter, RegisterRegion, RuntimeMap
  <2> QED BY <2>2
<1>7. CASE Activate
  <2>1. agenda # <<>> /\ Top.op = "activate"
    BY <1>7 DEF Activate, Running, Top
  <2>2. Top.x \in States
    BY <2>1, TopFrame DEF Inv, FrameOK
  <2>3. md' = md \/ md' = MdActivate(md, Top.x)
    BY <1>7 DEF Activate
  <2> QED BY <2>2, <2>3, InvData, MdActivateOK
<1>8. CASE Entered
  <2>1. agenda # <<>> /\ Top.op = "entered"
    BY <1>8 DEF Entered, Running, Top
  <2>2. Top.x \in States
    BY <2>1, TopFrame DEF Inv, FrameOK
  <2>3. md' = md \/ md' = RegisterForkRegions(md, Top.x)
    BY <1>8 DEF Entered
  <2> QED BY <2>2, <2>3, InvData, RegisterForkRegionsOK
<1>9. CASE RunRegion \/ RunAction \/ ThrowAction \/ DispatchChart \/ Loop \/ Restored
  BY <1>9 DEF RunRegion, RunAction, ThrowAction, DispatchChart, Loop, Restored
<1>10. CASE DeactivateHierarchical
  BY <1>10, InvData DEF DeactivateHierarchical, StoreHistory, RuntimeMap
<1>11. CASE DeactivateConcurrent
  BY <1>11, InvData DEF DeactivateConcurrent, RuntimeMap
<1>12. CASE Leave
  <2>1. agenda # <<>> /\ Top.op \in {"deactivate", "leave"}
    BY <1>12 DEF Leave, Running, Top
  <2>2. Top.x \in States \ {Root}
    BY <2>1, TopFrame DEF Inv, FrameOK
  <2>3. md' = md \/ md' = MdDeactivate(md, Top.x)
    BY <1>12 DEF Leave
  <2> QED BY <2>2, <2>3, InvData, MdDeactivateOK
<1>13. CASE UNCHANGED vars
  BY <1>13 DEF vars
<1> QED BY <1>1, <1>3, <1>4, <1>5, <1>6, <1>7, <1>8, <1>9, <1>10, <1>11, <1>12,
           <1>13 DEF Next, Step

\* Only the user ends a run: no transition and no exception deactivates the
\* Statechart object (Transition.cpp:204-274, Statechart.cpp:126).
THEOREM RootNeverLeft == Spec => RootStaysActive
<1>1. Inv /\ [Next]_vars => [(Root \in md.active) => (Root \in (md').active)]_vars
  BY RootStaysActiveStep
<1> QED BY <1>1, Invariant, PTL DEF Spec, RootStaysActive
=============================================================================
