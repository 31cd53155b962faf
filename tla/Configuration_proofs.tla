------------------------ MODULE Configuration_proofs ------------------------
(***************************************************************************)
(* Proofs that the configurations of a structured chart stay complete: the *)
(* pending calls always repair what a transition has taken apart, so that  *)
(* nothing is missing once the calls are over.                             *)
(***************************************************************************)
EXTENDS Agenda_proofs

\* The states that restoreState is given lie in or-states.
RestorableInOrStates ==
    \A s \in Restorable, c \in States : Kind[c] = "Concurrent" => ~Inside(s, c)

(***************************************************************************)
(* The state a step starts from.                                           *)
(***************************************************************************)
LEMMA Base ==
    ASSUME Inv
    PROVE  /\ md \in RuntimeMap /\ md.active \subseteq States /\ MapOK(md)
           /\ md.active \subseteq md.present /\ md.present \subseteq States
           /\ md.current \in [States -> OrNull(States)]
           /\ md.stateset \in [States -> SUBSET States]
           /\ agenda \in Seq(Task) /\ StackOK(agenda)
BY DEF Inv, DataOK, ControlOK, CallStack, RuntimeMap, MapOK

LEMMA TopCall ==
    ASSUME Inv, Configured(md, agenda), agenda # <<>>
    PROVE  /\ Top \in Task /\ FrameOK(Top) /\ Top \in ElementsOf(agenda)
           /\ FrameCond(md, ElementsOf(agenda), Top)
           /\ ElementsOf(agenda) = {Top} \cup ElementsOf(Tail(agenda))
           /\ \A g \in ElementsOf(Tail(agenda)) :
                 g \in Task /\ FrameOK(g) /\ MayRunAbove(md, Top, g)
<1>1. agenda \in Seq(Task) /\ StackOK(agenda)
  BY Base
<1>2. /\ ElementsOf(agenda) = {Top} \cup ElementsOf(Tail(agenda))
      /\ ElementsOf(agenda) \subseteq Task
  <2>1. <<>> \in Seq(Task)
    OBVIOUS
  <2> QED BY <1>1, <2>1, PushFrames DEF Top
<1>3. \A g \in ElementsOf(agenda) : FrameOK(g)
  BY <1>1 DEF ElementsOf, StackOK
<1>4. \A g \in ElementsOf(Tail(agenda)) : MayRunAbove(md, Top, g)
  BY <1>1, OrderedTop DEF Configured, Top
<1> QED BY <1>2, <1>3, <1>4 DEF Configured

\* A structured chart: the children of an and-state are its regions, and no
\* pseudo-state has children.
LEMMA Family ==
    ASSUME StructuredChart, NEW s \in States \ {Root}
    PROVE  /\ Parent[s] \in States /\ Parent[s] # s
           /\ Solid(Parent[s]) /\ ~IsPseudo(Parent[s])
           /\ OrState(Parent[s]) \/ Kind[Parent[s]] = "Concurrent"
           /\ ~(OrState(Parent[s]) /\ Kind[Parent[s]] = "Concurrent")
           /\ Kind[Parent[s]] = "Concurrent" =>
                 s \in ElementsOf(Regions[Parent[s]]) /\ Kind[s] = "Hierarchical"
           /\ ~IsHistory(Parent[s])
<1>1. Parent[s] \in States /\ Parent[s] # s
  BY ParentPath
<1>2. Kind[Parent[s]] \in {"Statechart", "Hierarchical", "Concurrent"}
  BY ChartPaths
<1>3. ASSUME Kind[Parent[s]] = "Concurrent"
      PROVE  s \in ElementsOf(Regions[Parent[s]]) /\ Kind[s] = "Hierarchical"
  <2>1. s \in ElementsOf(Regions[Parent[s]])
    BY <1>3 DEF StructuredChart
  <2> QED BY <1>1, <2>1, ChartStructure
<1> QED BY <1>1, <1>2, <1>3
        DEF Solid, IsHistory, HistoryKinds, IsPseudo, PseudoKinds, OrState

\* The record that holds a current state belongs to an active or-state.
LEMMA CurrentContexts ==
    ASSUME Inv, MapCond(md, {}) \/ \E F : MapCond(md, F),
           NEW h \in States, OrState(h), md.current[h] # Null
    PROVE  /\ h \in md.active
           /\ \A a \in States : Above(a, h) => a \in md.active
           /\ md.current[h] \in States \ {Root} /\ Parent[md.current[h]] = h
<1>1. RecordsOK(md) /\ ContextsOK(md)
  BY DEF MapCond
<1>2. Solid(h) /\ ~IsHistory(h)
  BY DEF OrState, Solid, IsHistory, HistoryKinds
<1>3. h \in md.active
  BY <1>1, <1>2 DEF RecordsOK
<1>4. md.current[h] \in States /\ Parent[md.current[h]] = h
  BY Base DEF MapOK, OrNull
<1>5. md.current[h] # Root
  BY <1>4, ChartAssumption
<1> QED BY <1>1, <1>2, <1>3, <1>4, <1>5 DEF ContextsOK

\* Whoever is dispatched to is the active current state of an active context,
\* or a region; so are all the states around it.
LEMMA DispatchedActive ==
    ASSUME StructuredChart, Inv, Configured(md, agenda), DispatchState
    PROVE  /\ Top.x \in States \ {Root}
           /\ Top.x \in md.active
           /\ \A a : Inside(Top.x, a) => a \in md.active
           /\ md.current[Parent[Top.x]] = Top.x
<1>1. agenda # <<>> /\ Top.op = "dispatch" /\ Top.x \in States
      /\ Kind[Top.x] \notin {"Statechart", "Hierarchical", "Concurrent", "Fork"}
  BY TopCall DEF DispatchState, Running, Top, FrameOK
<1>2. Top.x # Root
  BY <1>1, ChartAssumption
<1>3. md.current[Parent[Top.x]] = Top.x
  BY <1>1 DEF Inv, DispatchTarget, Running, Top
<1>4. Parent[Top.x] \in States /\ OrState(Parent[Top.x])
  BY <1>1, <1>2, Family
<1>5. Top.x # Null
  BY <1>1, ChartAssumption
<1>6. Top.x \in md.active
  BY <1>1, <1>3, <1>4, <1>5, Base, CompleteMap DEF Top, NeutralOps
<1>7. \A a \in States : Above(a, Parent[Top.x]) => a \in md.active
  BY <1>3, <1>4, <1>5, CurrentContexts DEF Configured
<1>8. \A a : Inside(Top.x, a) => Above(a, Parent[Top.x]) /\ a \in States
  BY <1>1, <1>2, ParentPath, InsideOrder
<1> QED BY <1>1, <1>2, <1>3, <1>6, <1>7, <1>8

\* An active state that is no history pseudo-state has active contexts.
LEMMA ActiveContexts ==
    ASSUME Inv, NEW F, MapCond(md, F), NEW s \in md.active, Solid(s)
    PROVE  \A a : Inside(s, a) => a \in md.active
<1>1. s \in States
  BY Base
<1> QED BY <1>1, InsideOrder DEF MapCond, ContextsOK, Inside

\* State::dispatch and its overriding methods, once the transitions that
\* may fire are known: one of them executes, or the call is over.
LEMMA FireFirstStep ==
    ASSUME StructuredChart, Inv, Configured(md, agenda), agenda # <<>>,
           Top.op \in NeutralOps, Top.x \in States, Top.x \in md.active,
           \A a : Inside(Top.x, a) => a \in md.active,
           IsHistory(Top.x) => md.current[Parent[Top.x]] = Top.x,
           NEW ready, ready \subseteq DOMAIN Outgoing[Top.x],
           FireFirst(Top.x, ready)
    PROVE  /\ Configured(md', agenda')
           /\ \/ fired' = fired
              \/ \E t \in Trans : fired' = Append(fired, t) /\ Source[t] = Top.x
<1>1. CASE \E i \in ready : Execute(Outgoing[Top.x][i], <<>>)
  <2>1. PICK i \in ready : Execute(Outgoing[Top.x][i], <<>>)
    BY <1>1
  <2>2. PICK t \in Trans : t = Outgoing[Top.x][i] /\ t \in ElementsOf(Outgoing[Top.x])
    <3>1. Outgoing[Top.x] \in Seq(Trans) /\ i \in DOMAIN Outgoing[Top.x]
      BY ChartAssumption
    <3>2. Outgoing[Top.x][i] \in Trans
      BY <3>1
    <3> QED BY <3>1, <3>2 DEF ElementsOf
  <2>3. Source[t] = Top.x /\ Execute(t, <<>>)
    BY <2>1, <2>2, ChartPaths
  <2>4. fired' = fired \/ fired' = Append(fired, t)
    BY <2>3 DEF Execute
  <2>5. CASE Internal(t)
    BY <2>3, <2>4, <2>5, ExecuteInternal
  <2>6. CASE BetweenOrStates(t)
    <3>1. Top.x # Root
      <4>1. PICK ctx \in States : Connects(t, ctx)
        BY <2>6, Connected
      <4> QED BY <2>3, <4>1, RootPath DEF Connects
    <3>2. Configured(md', agenda')
      BY <2>3, <2>6, <3>1, ExecuteExternal
    <3> QED BY <2>3, <2>4, <3>2
  <2> QED BY <2>5, <2>6 DEF StructuredChart
<1>2. CASE Return(FALSE) /\ UNCHANGED <<md, fired, before, control>>
  <2>1. agenda' = Tail(agenda) /\ md' = md /\ fired' = fired
    BY <1>2 DEF Return
  <2>2. Idle(md, Top)
    BY NeutralFacts
  <2>3. Configured(md, Tail(agenda))
    BY <2>2, Base, IdlePop DEF Top
  <2> QED BY <2>1, <2>3
<1> QED BY <1>1, <1>2 DEF FireFirst

(***************************************************************************)
(* One lemma for each action: dispatching.                                 *)
(***************************************************************************)
LEMMA Popped ==
    ASSUME Inv, Configured(md, agenda), agenda # <<>>, Idle(md, Top),
           agenda' = Tail(agenda), md' = md
    PROVE  Configured(md', agenda')
BY Base, IdlePop DEF Top

LEMMA NeutralPushed ==
    ASSUME Inv, Configured(md, agenda), agenda # <<>>,
           Top.op \in NeutralOps, Top.x \in States, NEW s \in Seq(Task),
           \A i \in DOMAIN s : /\ s[i].op \in NeutralOps /\ s[i].x \in States
                               /\ Above(Top.x, s[i].x) /\ CompositeCall(s[i]),
           Push(s), md' = md
    PROVE  Configured(md', agenda')
BY Base, NeutralPush DEF Top, Push

\* A call of dispatch or of one of its continuations.
LEMMA NeutralDo ==
    ASSUME NEW op \in {"dispatch", "substate", "bubble", "regions"},
           NEW s \in States, NEW e \in OrNull(Events), NEW k \in Nat, NEW b \in BOOLEAN,
           NEW x \in States, Above(x, s),
           op # "dispatch" => Kind[s] \in {"Hierarchical", "Concurrent"}
    PROVE  LET f == Do(op, s, e, k, b) IN
           /\ f \in Task /\ f.op \in NeutralOps /\ f.x \in States
           /\ Above(x, f.x) /\ CompositeCall(f)
BY DEF Do, Task, Ops, NeutralOps, CompositeCall, CompositeOps

LEMMA DispatchStateStep ==
    ASSUME StructuredChart, Inv, Configured(md, agenda), DispatchState
    PROVE  Configured(md', agenda')
<1>1. agenda # <<>> /\ Top.op = "dispatch" /\ FireFirst(Top.x, Ready(Top.x, Top.e))
  BY DEF DispatchState, Running, Top
<1>2. /\ Top.x \in States /\ Top.x \in md.active
      /\ \A a : Inside(Top.x, a) => a \in md.active
      /\ md.current[Parent[Top.x]] = Top.x
  BY DispatchedActive
<1>3. Ready(Top.x, Top.e) \subseteq DOMAIN Outgoing[Top.x]
  BY DEF Ready
<1> QED BY <1>1, <1>2, <1>3, FireFirstStep DEF NeutralOps

LEMMA DispatchForkStep ==
    ASSUME StructuredChart, Inv, Configured(md, agenda), DispatchFork
    PROVE  FALSE
<1>1. /\ agenda # <<>>
      /\ \/ Top.op = "dispatch" /\ Kind[Top.x] = "Fork"
         \/ Top.op = "forkEach"
  BY DEF DispatchFork, Running, Top
<1>2. Top.op # "forkEach"
  BY <1>1, TopCall DEF FrameCond, CallOK
<1>3. Top.x \in States
  BY <1>1, <1>2, TopCall DEF FrameOK
<1> QED BY <1>1, <1>2, <1>3 DEF StructuredChart

\* An active composite offers the event to its own transitions.
LEMMA CompositeFires ==
    ASSUME StructuredChart, Inv, Configured(md, agenda), agenda # <<>>,
           Top.op \in {"bubble", "regions"}, Top.x \in md.active,
           NEW ready, ready \subseteq DOMAIN Outgoing[Top.x], FireFirst(Top.x, ready)
    PROVE  /\ Configured(md', agenda')
           /\ \/ fired' = fired
              \/ \E t \in Trans : fired' = Append(fired, t) /\ Source[t] = Top.x
<1>1. Top.x \in States /\ Kind[Top.x] \in {"Hierarchical", "Concurrent"}
  BY TopCall DEF FrameOK, FrameCond, CallOK, CompositeOps
<1>2. Solid(Top.x) /\ ~IsHistory(Top.x)
  BY <1>1 DEF Solid, IsHistory, HistoryKinds
<1>3. \A a : Inside(Top.x, a) => a \in md.active
  BY <1>2, ActiveContexts DEF Configured
<1> QED BY <1>1, <1>2, <1>3, FireFirstStep DEF NeutralOps

LEMMA BubbleStep ==
    ASSUME StructuredChart, Inv, Configured(md, agenda), Bubble
    PROVE  Configured(md', agenda')
<1>1. agenda # <<>> /\ Top.op = "bubble"
  BY DEF Bubble, Running, Top
<1>2. CASE Return(ret) /\ Quiet
  <2>1. Idle(md, Top)
    BY <1>1, NeutralFacts DEF NeutralOps
  <2> QED BY <1>1, <1>2, <2>1, Popped DEF Return, Quiet
<1>3. CASE Top.x \in md.active /\ FireFirst(Top.x, MayBubble(Top.x, Top.e))
  <2>1. MayBubble(Top.x, Top.e) \subseteq DOMAIN Outgoing[Top.x]
    BY DEF MayBubble, Ready
  <2> QED BY <1>1, <1>3, <2>1, CompositeFires
<1> QED BY <1>2, <1>3 DEF Bubble

LEMMA DispatchSubstateStep ==
    ASSUME StructuredChart, Inv, Configured(md, agenda), DispatchSubstate
    PROVE  Configured(md', agenda')
<1> DEFINE h == Top.x
           bubble == Do("bubble", h, Top.e, 1, FALSE)
           inner == Do("dispatch", md.current[h], Top.e, 1, FALSE)
<1>1. /\ agenda # <<>> /\ Top.op = "substate" /\ md' = md
      /\ Push(IF md.current[h] # Null THEN <<inner, bubble>> ELSE <<bubble>>)
  BY DEF DispatchSubstate, Running, Top, Quiet
<1>2. Top \in Task /\ h \in States /\ Kind[h] \in {"Hierarchical", "Concurrent"}
  BY <1>1, TopCall DEF FrameOK, FrameCond, CallOK, CompositeOps
<1>3. Top.e \in OrNull(Events) /\ Above(h, h)
  BY <1>2, PathEnd DEF Task
<1>4. bubble \in Task /\ bubble.op \in NeutralOps /\ bubble.x \in States
      /\ Above(h, bubble.x) /\ CompositeCall(bubble)
  BY <1>2, <1>3, NeutralDo
<1>5. ASSUME md.current[h] # Null
      PROVE  inner \in Task /\ inner.op \in NeutralOps /\ inner.x \in States
             /\ Above(h, inner.x) /\ CompositeCall(inner)
  <2>1. md.current[h] \in States /\ Parent[md.current[h]] = h
    BY <1>2, <1>5, Base DEF MapOK, OrNull
  <2>2. md.current[h] # Root
    BY <1>2, <2>1, ChartAssumption
  <2>3. Above(h, md.current[h])
    BY <2>1, <2>2, ParentPath
  <2> QED BY <1>2, <1>3, <2>1, <2>3, NeutralDo
<1> HIDE DEF bubble, inner
<1>6. CASE md.current[h] # Null
  <2>1. /\ <<inner, bubble>> \in Seq(Task)
        /\ \A i \in DOMAIN <<inner, bubble>> :
              <<inner, bubble>>[i] = inner \/ <<inner, bubble>>[i] = bubble
    BY <1>4, <1>5, <1>6
  <2> QED BY <1>1, <1>2, <1>4, <1>5, <1>6, <2>1, NeutralPushed DEF NeutralOps
<1>7. CASE md.current[h] = Null
  <2>1. <<bubble>> \in Seq(Task) /\ \A i \in DOMAIN <<bubble>> : <<bubble>>[i] = bubble
    BY <1>4
  <2> QED BY <1>1, <1>2, <1>4, <1>7, <2>1, NeutralPushed DEF NeutralOps
<1> QED BY <1>6, <1>7

LEMMA DispatchConcurrentStep ==
    ASSUME StructuredChart, Inv, Configured(md, agenda), DispatchConcurrent
    PROVE  Configured(md', agenda')
<1> DEFINE regions == Do("regions", Top.x, Top.e, 1, FALSE)
<1>1. /\ agenda # <<>> /\ Top.op = "dispatch" /\ md' = md
      /\ Kind[Top.x] = "Concurrent" /\ Push(<<regions>>)
  BY DEF DispatchConcurrent, Running, Top, Quiet
<1>2. Top \in Task /\ Top.x \in States
  BY <1>1, TopCall DEF FrameOK
<1>3. Top.e \in OrNull(Events) /\ Above(Top.x, Top.x)
  BY <1>2, PathEnd DEF Task
<1>4. regions \in Task /\ regions.op \in NeutralOps /\ regions.x \in States
      /\ Above(Top.x, regions.x) /\ CompositeCall(regions)
  BY <1>1, <1>2, <1>3, NeutralDo
<1> HIDE DEF regions
<1>5. <<regions>> \in Seq(Task) /\ \A i \in DOMAIN <<regions>> : <<regions>>[i] = regions
  BY <1>4
<1> QED BY <1>1, <1>2, <1>4, <1>5, NeutralPushed DEF NeutralOps

LEMMA DispatchRegionsStep ==
    ASSUME StructuredChart, Inv, Configured(md, agenda), DispatchRegions
    PROVE  Configured(md', agenda')
<1> DEFINE c == Top.x
           k == Top.k
           dispatched == Top.b \/ ret
           inner == Do("dispatch", Regions[c][k], Top.e, 1, FALSE)
           next == Do("regions", c, Top.e, k + 1, dispatched)
<1>1. agenda # <<>> /\ Top.op = "regions"
  BY DEF DispatchRegions, Running, Top
<1>2. Top \in Task /\ c \in States /\ Kind[c] \in {"Hierarchical", "Concurrent"}
  BY <1>1, TopCall DEF FrameOK, FrameCond, CallOK, CompositeOps
<1>3. Top.e \in OrNull(Events) /\ Above(c, c) /\ k \in Nat /\ k + 1 \in Nat
      /\ dispatched \in BOOLEAN
  <2>1. Above(c, c)
    BY <1>2, PathEnd
  <2>2. Top.e \in OrNull(Events) /\ k \in Nat
    BY <1>2 DEF Task
  <2> QED BY <2>1, <2>2
<1>4. CASE k \in DOMAIN Regions[c] /\ Push(<<inner, next>>) /\ Quiet
  <2>1. Regions[c][k] \in States /\ Above(c, Regions[c][k])
    <3>1. Regions[c][k] \in ChildrenOf(c)
      BY <1>2, <1>4, ChartStructure DEF ElementsOf
    <3>2. Regions[c][k] \in States /\ Parent[Regions[c][k]] = c
      BY <3>1 DEF ChildrenOf
    <3>3. Regions[c][k] # Root
      BY <1>2, <3>2, ChartAssumption
    <3> QED BY <3>2, <3>3, ParentPath
  <2>2. inner \in Task /\ inner.op \in NeutralOps /\ inner.x \in States
        /\ Above(c, inner.x) /\ CompositeCall(inner)
    BY <1>2, <1>3, <2>1, NeutralDo
  <2>3. next \in Task /\ next.op \in NeutralOps /\ next.x \in States
        /\ Above(c, next.x) /\ CompositeCall(next)
    BY <1>2, <1>3, NeutralDo
  <2> HIDE DEF inner, next
  <2>4. /\ <<inner, next>> \in Seq(Task)
        /\ \A i \in DOMAIN <<inner, next>> :
              <<inner, next>>[i] = inner \/ <<inner, next>>[i] = next
    BY <2>2, <2>3
  <2> QED BY <1>1, <1>2, <1>4, <2>2, <2>3, <2>4, NeutralPushed DEF NeutralOps, Quiet
<1>5. CASE Return(dispatched) /\ Quiet
  <2>1. Idle(md, Top)
    BY <1>1, NeutralFacts DEF NeutralOps
  <2> QED BY <1>1, <1>5, <2>1, Popped DEF Return, Quiet
<1>6. CASE c \in md.active /\ FireFirst(c, MayComplete(c, Top.e))
  <2>1. MayComplete(c, Top.e) \subseteq DOMAIN Outgoing[c]
    BY DEF MayComplete, Ready
  <2> QED BY <1>1, <1>6, <2>1, CompositeFires
<1>7. \/ k \in DOMAIN Regions[c] /\ Push(<<inner, next>>) /\ Quiet
      \/ Return(dispatched) /\ Quiet
      \/ c \in md.active /\ FireFirst(c, MayComplete(c, Top.e))
  BY DEF DispatchRegions
<1> QED BY <1>4, <1>5, <1>6, <1>7

\* ConcurrentState::activate lets a region it has started run.
LEMMA RunRegionStep ==
    ASSUME StructuredChart, Inv, Configured(md, agenda), RunRegion
    PROVE  Configured(md', agenda')
<1> DEFINE inner == Call("dispatch", Top.x)
<1>1. /\ agenda # <<>> /\ Top.op = "runRegion" /\ md' = md
      /\ Push(IF ret THEN <<inner>> ELSE <<>>)
  BY DEF RunRegion, Running, Top, Quiet
<1>2. Top \in Task /\ Top.x \in States
  BY <1>1, TopCall DEF FrameOK
<1>3. Above(Top.x, Top.x) /\ Null \in OrNull(Events)
  BY <1>2, PathEnd DEF OrNull
<1>4. inner \in Task /\ inner.op \in NeutralOps /\ inner.x \in States
      /\ Above(Top.x, inner.x) /\ CompositeCall(inner)
  BY <1>2, <1>3, NeutralDo DEF Call
<1> HIDE DEF inner
<1>5. <<inner>> \in Seq(Task) /\ \A i \in DOMAIN <<inner>> : <<inner>>[i] = inner
  BY <1>4
<1>6. CASE ret
  BY <1>1, <1>2, <1>4, <1>5, <1>6, NeutralPushed DEF NeutralOps
<1>7. CASE ~ret
  <2>1. <<>> \in Seq(Task) /\ DOMAIN <<>> = {}
    OBVIOUS
  <2> QED BY <1>1, <1>2, <1>7, <2>1, NeutralPushed DEF NeutralOps
<1> QED BY <1>6, <1>7

(***************************************************************************)
(* Entering a state.                                                       *)
(***************************************************************************)
\* What a call enters, and what it may run above, depends on the map only
\* through what the history pseudo-states have recorded.
LEMMA SameRecords ==
    ASSUME NEW m, NEW n, NEW f,
           (f.op = "entered" /\ IsHistory(f.x)) => m.stateset[f.x] = n.stateset[f.x]
    PROVE  Enters(m, f) = Enters(n, f)
BY DEF Enters, RecordedAt

LEMMA SameOrder ==
    ASSUME NEW m, NEW n, NEW g, Enters(m, g) = Enters(n, g), NEW f, MayRunAbove(m, f, g)
    PROVE  MayRunAbove(n, f, g)
BY DEF MayRunAbove, AboveEntering

LEMMA MdActivateFields ==
    ASSUME NEW m \in RuntimeMap, NEW s \in States
    PROVE  LET n == MdActivate(m, s) IN
           /\ n.present = m.present \cup {s} /\ n.active = m.active \cup {s}
           /\ n.stateset = m.stateset
           /\ n.current[s] = Null
           /\ \A x \in States \ {s} :
                 n.current[x] = IF x = Parent[s] /\ x \in m.present THEN s ELSE m.current[x]
BY DEF MdActivate, RuntimeMap

\* Metadata::activate on a state whose context is active and that has no
\* active sibling in an or-state.
LEMMA ActivateMap ==
    ASSUME StructuredChart, NEW m \in RuntimeMap, MapOK(m), NEW s \in States,
           s # Root => Parent[s] \in m.active,
           s # Root /\ OrState(Parent[s]) =>
               \A c \in m.active :
                   (Solid(c) /\ c # Root /\ Parent[c] = Parent[s]) => c = s,
           IsPseudo(s) \/ s \notin m.active,
           NEW G, MapCond(m, G), NEW H, NEW f, G \subseteq H \cup {f},
           f.op \notin {"deactivate", "leave", "entered"},
           Enters(m, f) \subseteq {s}, f.op = "activate" => f.x = s,
           Kind[s] = "Concurrent" =>
               \A k \in DOMAIN Regions[s] : \E g \in H : StartsRegion(g, s, k)
    PROVE  MapCond(MdActivate(m, s), H)
<1> DEFINE n == MdActivate(m, s)
<1>1. /\ n.present = m.present \cup {s} /\ n.active = m.active \cup {s}
      /\ n.stateset = m.stateset
      /\ n.current[s] = Null
      /\ \A x \in States \ {s} :
            n.current[x] = IF x = Parent[s] /\ x \in m.present THEN s ELSE m.current[x]
  BY MdActivateFields
<1> HIDE DEF n
<1>2. m.active \subseteq States /\ m.active \subseteq m.present
  BY DEF RuntimeMap, MapOK
<1>3. /\ RecordsOK(m) /\ ContextsOK(m) /\ CurrentOK(m) /\ StatesetsOK(m)
      /\ CurrentActive(m, G) /\ RegionsActive(m, G)
  BY DEF MapCond
<1>4. \A g : Enters(n, g) = Enters(m, g)
  BY <1>1, SameRecords
<1>5. RecordsOK(n)
  <2>1. \A x \in n.present : x \in n.active \/ IsHistory(x)
    BY <1>1, <1>3 DEF RecordsOK
  <2>2. ASSUME NEW x \in States \ n.present PROVE n.current[x] = Null
    <3>1. x # s /\ x \notin m.present
      BY <1>1, <2>2
    <3> QED BY <1>1, <1>3, <3>1 DEF RecordsOK
  <2> QED BY <2>1, <2>2 DEF RecordsOK
<1>6. ContextsOK(n)
  <2>1. ASSUME NEW a \in States, Above(a, s) PROVE a \in n.active
    <3>1. CASE s = Root
      BY <1>1, <2>1, <3>1, RootPath
    <3>2. CASE s # Root /\ a # s
      <4>1. Above(a, Parent[s])
        BY <2>1, <3>2, ParentPath DEF Inside
      <4>2. Parent[s] \in m.active /\ Solid(Parent[s])
        BY <3>2, Family
      <4> QED BY <1>1, <1>3, <2>1, <4>1, <4>2 DEF ContextsOK
    <3> QED BY <1>1, <3>1, <3>2
  <2> QED BY <1>1, <1>3, <2>1 DEF ContextsOK
<1>7. CurrentOK(n)
  <2>1. SUFFICES ASSUME NEW c \in n.active, Solid(c), c # Root, OrState(Parent[c])
                 PROVE  n.current[Parent[c]] = c
    BY DEF CurrentOK
  <2>2. c \in States /\ Parent[c] \in States /\ Parent[c] # c /\ ~IsPseudo(Parent[c])
    BY <1>1, <1>2, <2>1, Family
  <2>3. CASE c = s
    <3>1. Parent[s] \in m.present
      BY <1>2, <2>1, <2>3
    <3> QED BY <1>1, <2>2, <2>3, <3>1
  <2>4. CASE c # s
    <3>1. c \in m.active
      BY <1>1, <2>4
    <3>2. s # Root => Parent[c] # Parent[s]
      BY <2>1, <2>4, <3>1
    <3>3. s = Root => Parent[s] = Null
      BY ChartAssumption
    <3>4. Parent[c] # Parent[s]
      BY <2>2, <3>2, <3>3, ChartAssumption
    <3>5. Parent[c] # s
      <4>1. ASSUME Parent[c] = s PROVE FALSE
        <5>1. Above(s, c)
          BY <2>1, <2>2, <4>1, ParentPath
        <5>2. s \in m.active
          BY <1>3, <2>1, <3>1, <5>1 DEF ContextsOK
        <5> QED BY <2>2, <4>1, <5>2
      <4> QED BY <4>1
    <3>6. n.current[Parent[c]] = m.current[Parent[c]]
      BY <1>1, <2>2, <3>4, <3>5
    <3> QED BY <1>3, <2>1, <3>1, <3>6 DEF CurrentOK
  <2> QED BY <2>3, <2>4
<1>8. StatesetsOK(n)
  BY <1>1, <1>3 DEF StatesetsOK, HistoryOK
<1>9. CurrentActive(n, H)
  <2>1. SUFFICES ASSUME NEW h \in States, OrState(h), n.current[h] # Null,
                        n.current[h] \notin n.active
                 PROVE  \E g \in H : Repairs(n, g, h)
    BY DEF CurrentActive
  <2>2. h # s /\ n.current[h] # s
    BY <1>1, <2>1
  <2>3. n.current[h] = m.current[h] /\ ~(h = Parent[s] /\ h \in m.present)
    BY <1>1, <2>1, <2>2
  <2>4. PICK g \in G : Repairs(m, g, h)
    BY <1>1, <1>3, <2>1, <2>3 DEF CurrentActive
  <2>5. CASE g = f
    <3>1. EntersChild(m, f, h)
      BY <2>4, <2>5 DEF Repairs, Exits
    <3>2. s # Root /\ Parent[s] = h
      BY <3>1 DEF EntersChild
    <3> QED BY <1>2, <2>3, <3>2
  <2>6. CASE g # f
    <3>1. g \in H /\ Repairs(n, g, h)
      BY <1>4, <2>4, <2>6 DEF Repairs, EntersChild
    <3> QED BY <3>1
  <2> QED BY <2>5, <2>6
<1>10. RegionsActive(n, H)
  <2>1. SUFFICES ASSUME NEW c \in n.active, Kind[c] = "Concurrent",
                        NEW k \in DOMAIN Regions[c], Regions[c][k] \notin n.active
                 PROVE  \E g \in H : StartsRegion(g, c, k) \/ Exits(g, c)
    BY DEF RegionsActive
  <2>2. CASE c = s
    BY <2>1, <2>2
  <2>3. CASE c # s
    <3>1. c \in m.active /\ Regions[c][k] \notin m.active /\ Regions[c][k] # s
      BY <1>1, <2>1, <2>3
    <3>2. PICK g \in G : StartsRegion(g, c, k) \/ Exits(g, c)
      BY <1>3, <2>1, <3>1 DEF RegionsActive
    <3>3. g # f
      BY <3>1, <3>2 DEF StartsRegion, Exits
    <3> QED BY <3>2, <3>3
  <2> QED BY <2>2, <2>3
<1> QED BY <1>5, <1>6, <1>7, <1>8, <1>9, <1>10 DEF MapCond, n

\* Depth of a state below another one's parent.
LEMMA ChildDepth ==
    ASSUME NEW s \in States \ {Root}
    PROVE  /\ Depth(s) \in Nat /\ Depth(Parent[s]) \in Nat
           /\ Depth(s) = Depth(Parent[s]) + 1
<1>1. /\ Depth(Parent[s]) = Depth(s) - 1
      /\ Depth(s) \in Nat /\ Depth(Parent[s]) \in Nat
  BY ParentPath
<1>2. PICK n \in Nat : n = Depth(s)
  BY <1>1
<1> QED BY <1>1, <1>2

\* When a call to activate runs, nothing below it is about to be left, and
\* what is about to be entered lies deeper.
LEMMA EnteringTop ==
    ASSUME StructuredChart, Inv, Configured(md, agenda), agenda # <<>>,
           Top.op = "activate"
    PROVE  /\ Top.x \in States
           /\ \A g \in ElementsOf(agenda) : g.op \notin {"deactivate", "leave"}
           /\ \A g \in ElementsOf(Tail(agenda)) : \A s \in Enters(md, g) :
                 OrState(Top.x) /\ Depth(Top.x) < Depth(s)
           /\ Top.x # Root => Parent[Top.x] \in md.active
           /\ Top.x # Root /\ OrState(Parent[Top.x]) =>
                 \A c \in md.active :
                    (Solid(c) /\ c # Root /\ Parent[c] = Parent[Top.x]) =>
                        c = Top.x /\ IsPseudo(Top.x)
<1> DEFINE s == Top.x
<1>1. /\ Top \in Task /\ FrameOK(Top)
      /\ FrameCond(md, ElementsOf(agenda), Top)
      /\ ElementsOf(agenda) = {Top} \cup ElementsOf(Tail(agenda))
      /\ \A g \in ElementsOf(Tail(agenda)) :
            g \in Task /\ FrameOK(g) /\ MayRunAbove(md, Top, g)
  BY TopCall
<1>2. s \in States /\ Enters(md, Top) = {s}
  BY <1>1 DEF FrameOK, Enters
<1>3. \A g \in ElementsOf(agenda) : g.op \notin {"deactivate", "leave"}
  BY <1>1 DEF MayRunAbove, AboveLeaving
<1>4. \A g \in ElementsOf(Tail(agenda)) : \A t \in Enters(md, g) :
         OrState(s) /\ Depth(s) < Depth(t)
  BY <1>1 DEF MayRunAbove, AboveEntering
<1>5. ASSUME s # Root
      PROVE  /\ Parent[s] \in md.active
             /\ OrState(Parent[s]) =>
                   \A c \in md.active :
                      (Solid(c) /\ c # Root /\ Parent[c] = Parent[s]) => c = s /\ IsPseudo(s)
  <2>1. /\ \/ Parent[s] \in md.active
           \/ \E g \in ElementsOf(agenda) : g.op = "activate" /\ g.x = Parent[s]
        /\ OrState(Parent[s]) =>
              \A c \in md.active : (Solid(c) /\ c # Root /\ Parent[c] = Parent[s]) =>
                  \/ c = s /\ IsPseudo(s)
                  \/ \E g \in ElementsOf(agenda) : Exits(g, c)
    BY <1>1, <1>2, <1>5 DEF FrameCond, EnteringOK
  <2>2. \A g \in ElementsOf(agenda) : \A c : ~Exits(g, c)
    BY <1>3 DEF Exits
  <2>3. ASSUME NEW g \in ElementsOf(agenda), g.op = "activate", g.x = Parent[s]
        PROVE  FALSE
    <3>1. Depth(s) \in Nat /\ Depth(Parent[s]) \in Nat /\ Depth(s) = Depth(Parent[s]) + 1
          /\ Parent[s] # s
      BY <1>2, <1>5, ChildDepth, Family
    <3>2. g # Top
      BY <2>3, <3>1
    <3>3. Enters(md, g) = {Parent[s]}
      BY <2>3 DEF Enters
    <3>4. Depth(s) < Depth(Parent[s])
      BY <1>1, <1>4, <3>2, <3>3
    <3> QED BY <3>1, <3>4
  <2> QED BY <2>1, <2>2, <2>3
<1> QED BY <1>2, <1>3, <1>4, <1>5

\* A state that is not active any more, or already is, at the end of a call
\* to activate: what it was to do is done.
LEMMA ActivatePopped ==
    ASSUME StructuredChart, Inv, Configured(md, agenda), agenda # <<>>,
           Top.op = "activate", ~IsPseudo(Top.x), Top.x \in md.active
    PROVE  Configured(md, Tail(agenda))
<1> DEFINE s == Top.x
           G == ElementsOf(agenda)
           R == ElementsOf(Tail(agenda))
<1>1. /\ s \in States
      /\ \A g \in G : g.op \notin {"deactivate", "leave"}
      /\ s # Root => ~OrState(Parent[s])
  <2>1. Solid(s)
    BY EnteringTop, ChartAssumption DEF Solid, IsHistory, IsPseudo, PseudoKinds
  <2> QED BY <2>1, EnteringTop
<1>2. G = {Top} \cup R /\ Enters(md, Top) = {s}
  BY TopCall DEF Enters
<1>3. /\ MapCond(md, G) /\ Ordered(md, agenda)
      /\ \A f \in G : FrameCond(md, G, f)
  BY DEF Configured
<1> HIDE DEF G, R
<1>4. MapCond(md, R)
  <2>1. CurrentActive(md, R)
    <3>1. SUFFICES ASSUME NEW h \in States, OrState(h), md.current[h] # Null,
                          md.current[h] \notin md.active
                   PROVE  \E g \in R : Repairs(md, g, h)
      BY DEF CurrentActive
    <3>2. PICK g \in G : Repairs(md, g, h)
      BY <1>3, <3>1 DEF MapCond, CurrentActive
    <3>3. g # Top
      BY <1>1, <1>2, <3>1, <3>2 DEF Repairs, Exits, EntersChild
    <3> QED BY <1>2, <3>2, <3>3
  <2>2. RegionsActive(md, R)
    <3>1. SUFFICES ASSUME NEW c \in md.active, Kind[c] = "Concurrent",
                          NEW k \in DOMAIN Regions[c], Regions[c][k] \notin md.active
                   PROVE  \E g \in R : StartsRegion(g, c, k) \/ Exits(g, c)
      BY DEF RegionsActive
    <3>2. PICK g \in G : StartsRegion(g, c, k) \/ Exits(g, c)
      BY <1>3, <3>1 DEF MapCond, RegionsActive
    <3>3. g # Top
      BY <3>1, <3>2 DEF StartsRegion, Exits
    <3> QED BY <1>2, <3>2, <3>3
  <2> QED BY <1>3, <2>1, <2>2 DEF MapCond
<1>5. ASSUME NEW g \in R PROVE FrameCond(md, R, g)
  <2>1. FrameCond(md, G, g) /\ g.op \notin {"deactivate", "leave"}
    BY <1>1, <1>2, <1>3
  <2>2. EnteringOK(md, R, g)
    <3>1. \A c : \A f \in G : ~Exits(f, c)
      BY <1>1 DEF Exits
    <3>2. ASSUME NEW t \in Enters(md, g) \ {Root}
          PROVE  /\ \/ Parent[t] \in md.active
                    \/ \E f \in R : f.op = "activate" /\ f.x = Parent[t]
                 /\ OrState(Parent[t]) =>
                       \A c \in md.active :
                          (Solid(c) /\ c # Root /\ Parent[c] = Parent[t]) => c = t /\ IsPseudo(t)
      <4>1. \/ Parent[t] \in md.active
            \/ \E f \in G : f.op = "activate" /\ f.x = Parent[t]
        BY <2>1 DEF FrameCond, EnteringOK
      <4>2. \/ Parent[t] \in md.active
            \/ \E f \in R : f.op = "activate" /\ f.x = Parent[t]
        BY <1>2, <4>1
      <4> QED BY <2>1, <3>1, <4>2 DEF FrameCond, EnteringOK
    <3> QED BY <3>2 DEF EnteringOK
  <2> QED BY <2>1, <2>2 DEF FrameCond, LeavingOK, SubstatesFirst
<1>6. Ordered(md, Tail(agenda))
  <2>1. agenda \in Seq(Task) /\ <<>> \in Seq(Task) /\ <<>> \o Tail(agenda) = Tail(agenda)
        /\ Ordered(md, <<>>) /\ ElementsOf(<<>>) = {}
    BY Base DEF Ordered, ElementsOf
  <2> QED BY <1>3, <2>1, OrderedPush
<1> QED BY <1>4, <1>5, <1>6 DEF Configured, R

\* Two calls in the place of one, on a map with the same records.
LEMMA TwoCalls ==
    ASSUME Inv, Configured(md, agenda), agenda # <<>>,
           NEW f \in Task, NEW g \in Task, NEW n,
           \A r \in ElementsOf(Tail(agenda)) : Enters(n, r) = Enters(md, r),
           MayRunAbove(n, f, g),
           \A r \in ElementsOf(Tail(agenda)) : MayRunAbove(n, f, r) /\ MayRunAbove(n, g, r)
    PROVE  LET s == <<f, g>> IN
           /\ s \in Seq(Task) /\ ElementsOf(s) = {f, g}
           /\ ElementsOf(s \o Tail(agenda)) = {f, g} \cup ElementsOf(Tail(agenda))
           /\ Ordered(n, s) /\ Ordered(n, s \o Tail(agenda))
<1> DEFINE s == <<f, g>>
<1>1. /\ s \in Seq(Task) /\ DOMAIN s = {1, 2} /\ s[1] = f /\ s[2] = g
  OBVIOUS
<1> HIDE DEF s
<1>2. ElementsOf(s) = {f, g}
  BY <1>1 DEF ElementsOf
<1>3. Ordered(n, s)
  <2>1. ASSUME NEW i \in DOMAIN s, NEW j \in DOMAIN s, i < j PROVE MayRunAbove(n, s[i], s[j])
    <3>1. i = 1 /\ j = 2
      BY <1>1, <2>1
    <3> QED BY <1>1, <3>1
  <2> QED BY <2>1 DEF Ordered
<1>4. agenda \in Seq(Task)
  BY Base
<1>5. ElementsOf(s \o Tail(agenda)) = {f, g} \cup ElementsOf(Tail(agenda))
  BY <1>1, <1>2, <1>4, PushFrames
<1>6. \A a, b \in ElementsOf(Tail(agenda)) : MayRunAbove(md, a, b) => MayRunAbove(n, a, b)
  BY SameOrder
<1>7. Ordered(n, s \o Tail(agenda))
  BY <1>1, <1>2, <1>3, <1>4, <1>6, OrderedPush DEF Configured
<1> QED BY <1>1, <1>2, <1>3, <1>5, <1>7 DEF s

\* The fields of a call.
LEMMA CallFields ==
    ASSUME NEW op \in Ops, NEW x \in States \cup Trans, NEW e \in OrNull(Events),
           NEW k \in Nat, NEW b \in BOOLEAN
    PROVE  /\ Do(op, x, e, k, b) \in Task
           /\ Do(op, x, e, k, b).op = op /\ Do(op, x, e, k, b).x = x
           /\ Do(op, x, e, k, b).e = e /\ Do(op, x, e, k, b).k = k
           /\ Do(op, x, e, k, b).b = b
BY DEF Do, Task

LEMMA CallOne ==
    ASSUME NEW op \in Ops, NEW x \in States \cup Trans
    PROVE  /\ Call(op, x) \in Task
           /\ Call(op, x).op = op /\ Call(op, x).x = x /\ Call(op, x).k = 1
<1>1. Null \in OrNull(Events) /\ 1 \in Nat /\ FALSE \in BOOLEAN
  BY DEF OrNull
<1>2. ASSUME NEW k \in Nat, NEW b \in BOOLEAN
      PROVE  LET f == Do(op, x, Null, k, b) IN f \in Task /\ f.op = op /\ f.x = x /\ f.k = k
  BY <1>1, CallFields
<1> QED BY <1>1, <1>2 DEF Call

\* Only states are entered.
LEMMA EntersStates ==
    ASSUME NEW m \in RuntimeMap, NEW f \in Task, FrameOK(f), NEW s \in Enters(m, f)
    PROVE  s \in States
<1>1. CASE f.op = "activate"
  BY <1>1 DEF Enters, FrameOK
<1>2. CASE f.op = "enter"
  <2>1. f.x \in Trans
    BY <1>2 DEF FrameOK
  <2>2. Activates[f.x] \in Seq(States \ {Root})
    BY <2>1, ChartAssumption
  <2>3. f.k \in DOMAIN Activates[f.x] /\ s = Activates[f.x][f.k]
    BY <1>2 DEF Enters
  <2> QED BY <2>2, <2>3
<1>3. CASE f.op = "entered" /\ IsHistory(f.x)
  <2>1. f.x \in States /\ s \in m.stateset[f.x]
    BY <1>3 DEF Enters, FrameOK, RecordedAt
  <2> QED BY <2>1 DEF RuntimeMap
<1> QED BY <1>1, <1>2, <1>3 DEF Enters

\* What a call to activate pushes may run above whatever that call runs above.
LEMMA ActivatedOrder ==
    ASSUME NEW m, NEW f, f.op = "activate", NEW g, MayRunAbove(m, f, g)
    PROVE  /\ \A h : h.op = "call" => MayRunAbove(m, h, g)
           /\ \A h : h.op = "entered" /\ h.x = f.x => MayRunAbove(m, h, g)
<1>1. g.op \notin {"deactivate", "leave"}
  BY DEF MayRunAbove, AboveLeaving
<1>2. ASSUME NEW h, h.op = "call" PROVE MayRunAbove(m, h, g)
  BY <1>1, <1>2 DEF MayRunAbove, AboveLeaving, AboveEntering, AboveEntered, RunsInside
<1>3. ASSUME NEW h, h.op = "entered", h.x = f.x PROVE MayRunAbove(m, h, g)
  <2>1. AboveEntering(m, h, g)
    BY <1>3 DEF MayRunAbove, AboveEntering
  <2>2. \A c : RunsInside(f, c) <=> RunsInside(h, c)
    BY <1>3 DEF RunsInside
  <2>3. AboveEntered(h, g)
    <3>1. ASSUME g.op = "entered", Kind[g.x] = "Concurrent" PROVE RunsInside(h, g.x)
      BY <2>2, <3>1 DEF MayRunAbove, AboveEntered
    <3>2. ASSUME g.op = "entered", IsHistory(g.x)
          PROVE  \/ Inside(h.x, Parent[g.x])
                 \/ \E c \in States : /\ Kind[c] = "Concurrent" /\ Inside(c, Parent[g.x])
                                      /\ RunsInside(h, c)
      BY <1>3, <2>2, <3>2 DEF MayRunAbove, AboveEntered
    <3> QED BY <1>3, <3>1, <3>2 DEF AboveEntered
  <2> QED BY <1>1, <2>1, <2>3 DEF MayRunAbove, AboveLeaving
<1> QED BY <1>2, <1>3

\* State::activate on a state that becomes active, and PseudoState::activate.
LEMMA ActivatePushed ==
    ASSUME StructuredChart, Inv, Configured(md, agenda), agenda # <<>>,
           Top.op = "activate", IsPseudo(Top.x) \/ Top.x \notin md.active,
           md' = MdActivate(md, Top.x),
           agenda' = <<Call("call", Top.x), Call("entered", Top.x)>> \o Tail(agenda)
    PROVE  Configured(md', agenda')
<1> DEFINE s == Top.x
           call == Call("call", s)
           entered == Call("entered", s)
           G == ElementsOf(agenda)
           R == ElementsOf(Tail(agenda))
           H == {call, entered} \cup R
<1>1. /\ s \in States
      /\ \A g \in G : g.op \notin {"deactivate", "leave"}
      /\ \A g \in R : \A t \in Enters(md, g) : OrState(s) /\ Depth(s) < Depth(t)
      /\ s # Root => Parent[s] \in md.active
      /\ s # Root /\ OrState(Parent[s]) =>
            \A c \in md.active : (Solid(c) /\ c # Root /\ Parent[c] = Parent[s]) =>
                c = s /\ IsPseudo(s)
  BY EnteringTop
<1>2. /\ md \in RuntimeMap /\ MapOK(md) /\ md.active \subseteq States
      /\ agenda \in Seq(Task)
  BY Base
<1>3. /\ G = {Top} \cup R /\ Enters(md, Top) = {s}
      /\ \A g \in R : g \in Task /\ FrameOK(g) /\ MayRunAbove(md, Top, g)
  BY TopCall DEF Enters
<1>4. /\ MapCond(md, G) /\ Ordered(md, agenda)
      /\ \A f \in G : FrameCond(md, G, f)
  BY DEF Configured
<1>5. /\ call \in Task /\ call.op = "call" /\ call.x = s
      /\ entered \in Task /\ entered.op = "entered" /\ entered.x = s /\ entered.k = 1
  BY <1>1, CallOne DEF Ops
<1>6. md'.active = md.active \cup {s} /\ md'.stateset = md.stateset
  BY <1>1, <1>2, MdActivateFields
<1>7. \A g : Enters(md', g) = Enters(md, g)
  BY <1>6, SameRecords
<1> HIDE DEF call, entered, G, R
<1>8. MapCond(md', H)
  <2>1. Kind[s] = "Concurrent" =>
           \A k \in DOMAIN Regions[s] : \E g \in H : StartsRegion(g, s, k)
    <3>1. SUFFICES ASSUME NEW k \in DOMAIN Regions[s] PROVE StartsRegion(entered, s, k)
      OBVIOUS
    <3>2. Regions[s] \in Seq(States)
      BY <1>1, ChartAssumption
    <3>3. k \in 1 .. Len(Regions[s]) /\ Len(Regions[s]) \in Nat
      BY <3>2
    <3> QED BY <1>5, <3>3 DEF StartsRegion
  <2>2. G \subseteq H \cup {Top}
    BY <1>3
  <2> HIDE DEF H
  <2>3. MapCond(MdActivate(md, s), H)
    BY <1>1, <1>2, <1>3, <1>4, <2>1, <2>2, ActivateMap
  <2> QED BY <2>3
<1>9. ASSUME NEW g \in R PROVE FrameCond(md', H, g)
  <2>1. FrameCond(md, G, g) /\ g.op \notin {"deactivate", "leave"}
    BY <1>1, <1>3, <1>4
  <2>2. CallOK(md', g)
    BY <1>6, <2>1 DEF FrameCond, CallOK
  <2>3. EnteringOK(md', H, g)
    <3>1. SUFFICES ASSUME NEW t \in Enters(md, g) \ {Root}
                   PROVE  /\ \/ Parent[t] \in md'.active
                             \/ \E f \in H : f.op = "activate" /\ f.x = Parent[t]
                          /\ OrState(Parent[t]) =>
                                \A c \in md'.active :
                                   (Solid(c) /\ c # Root /\ Parent[c] = Parent[t]) =>
                                       c = t /\ IsPseudo(t)
      BY <1>7 DEF EnteringOK
    <3>2. \/ Parent[t] \in md.active
          \/ \E f \in G : f.op = "activate" /\ f.x = Parent[t]
      BY <2>1 DEF FrameCond, EnteringOK
    <3>3. \/ Parent[t] \in md'.active
          \/ \E f \in H : f.op = "activate" /\ f.x = Parent[t]
      BY <1>3, <1>6, <3>2
    <3>4. ASSUME OrState(Parent[t]), NEW c \in md'.active, Solid(c), c # Root,
                 Parent[c] = Parent[t]
          PROVE  c = t /\ IsPseudo(t)
      <4>1. CASE c \in md.active
        <5>1. \A f \in G : ~Exits(f, c)
          BY <1>1 DEF Exits
        <5> QED BY <2>1, <3>4, <4>1, <5>1 DEF FrameCond, EnteringOK
      <4>2. CASE c = s
        <5>1. t \in States \ {Root}
          <6>1. OrState(Parent[t]) /\ Parent[t] \in States
            BY <1>1, <3>4, <4>2, Family
          <6>2. t \in States
            BY <1>1, <1>2, <1>3, <3>1, EntersStates
          <6> QED BY <6>2
        <5>2. Depth(t) = Depth(s)
          BY <1>1, <3>4, <4>2, <5>1, ChildDepth
        <5>3. Depth(s) < Depth(t) /\ Depth(s) \in Nat
          BY <1>1, <3>1, PathEnd
        <5> QED BY <5>2, <5>3
      <4> QED BY <1>6, <4>1, <4>2
    <3> QED BY <3>3, <3>4
  <2> QED BY <2>1, <2>2, <2>3 DEF FrameCond, LeavingOK, SubstatesFirst
<1>10. FrameCond(md', H, call)
  BY <1>5, NeutralFacts DEF CompositeCall, CompositeOps
<1>11. FrameCond(md', H, entered)
  <2>1. CallOK(md', entered)
    BY <1>5, <1>6 DEF CallOK, CompositeOps
  <2>2. EnteringOK(md', H, entered)
    <3>1. SUFFICES ASSUME NEW t \in Enters(md, entered) \ {Root}
                   PROVE  /\ Parent[t] \in md'.active
                          /\ OrState(Parent[t]) =>
                                \A c \in md'.active :
                                   (Solid(c) /\ c # Root /\ Parent[c] = Parent[t]) => FALSE
      BY <1>7 DEF EnteringOK
    <3>2. IsHistory(s) /\ t \in md.stateset[s] /\ Depth(t) = Depth(s) + 1 - 1
      BY <1>5, <3>1 DEF Enters, RecordedAt
    <3>3. s # Root
      BY <3>2, ChartAssumption DEF IsHistory, HistoryKinds
    <3>4. t \in States
      BY <1>1, <3>2, Base
    <3>5. Inside(t, Parent[s])
      BY <1>1, <1>4, <3>2 DEF MapCond, StatesetsOK, HistoryOK
    <3>6. Depth(t) = Depth(s)
      BY <1>1, <3>2, PathEnd
    <3>7. Parent[t] = Parent[s]
      <4>1. /\ Depth(Parent[t]) = Depth(t) - 1 /\ Depth(Parent[s]) = Depth(s) - 1
            /\ Above(Parent[s], Parent[t]) /\ Parent[t] \in States
        BY <1>1, <3>1, <3>3, <3>4, <3>5, ParentPath
      <4> QED BY <3>6, <4>1, AboveDepth
    <3>8. Parent[t] \in md'.active
      BY <1>1, <1>6, <3>3, <3>7
    <3>9. ASSUME OrState(Parent[t]), NEW c \in md'.active, Solid(c), c # Root,
                 Parent[c] = Parent[t]
          PROVE  FALSE
      <4>1. c # s
        BY <3>2, <3>9 DEF Solid
      <4>2. c \in md.active
        BY <1>6, <3>9, <4>1
      <4> QED BY <1>1, <3>3, <3>7, <3>9, <4>1, <4>2
    <3> QED BY <3>8, <3>9
  <2> QED BY <1>5, <2>1, <2>2 DEF FrameCond, LeavingOK, SubstatesFirst
<1>12. MayRunAbove(md', call, entered)
  BY <1>5 DEF MayRunAbove, AboveLeaving, AboveEntering, AboveEntered, RunsInside
<1>13. \A g \in R : MayRunAbove(md', call, g) /\ MayRunAbove(md', entered, g)
  <2>1. \A g \in R : MayRunAbove(md, call, g) /\ MayRunAbove(md, entered, g)
    BY <1>3, <1>5, ActivatedOrder
  <2> QED BY <1>7, <2>1, SameOrder
<1>14. /\ ElementsOf(<<call, entered>> \o Tail(agenda)) = H
       /\ Ordered(md', <<call, entered>> \o Tail(agenda))
  BY <1>5, <1>7, <1>12, <1>13, TwoCalls DEF R
<1>15. \A f \in H : FrameCond(md', H, f)
  BY <1>9, <1>10, <1>11
<1>16. agenda' = <<call, entered>> \o Tail(agenda)
  BY DEF call, entered
<1> QED BY <1>8, <1>14, <1>15, <1>16 DEF Configured

LEMMA ActivateStep ==
    ASSUME StructuredChart, Inv, Configured(md, agenda), Activate
    PROVE  Configured(md', agenda')
<1>1. agenda # <<>> /\ Top.op = "activate"
  BY DEF Activate, Running, Top
<1>2. CASE ~IsPseudo(Top.x) /\ Top.x \in md.active /\ Return(FALSE) /\ Quiet
  BY <1>1, <1>2, ActivatePopped DEF Return, Quiet
<1>3. CASE /\ IsPseudo(Top.x) \/ Top.x \notin md.active
           /\ md' = MdActivate(md, Top.x)
           /\ Push(<<Call("call", Top.x), Call("entered", Top.x)>>)
  BY <1>1, <1>3, ActivatePushed DEF Push
<1> QED BY <1>2, <1>3 DEF Activate

\* HierarchicalState::dispatch; the start state may have to be entered.
LEMMA StartPushed ==
    ASSUME StructuredChart, Inv, Configured(md, agenda), agenda # <<>>,
           Top.op = "dispatch", Kind[Top.x] = "Hierarchical", Top.x \in md.active,
           md.current[Top.x] = Null, StartState[Top.x] # Null,
           md' = MdActivate(md, StartState[Top.x]),
           agenda' = <<Call("activate", StartState[Top.x]),
                       Do("substate", Top.x, Top.e, 1, FALSE)>> \o Tail(agenda)
    PROVE  Configured(md', agenda')
<1> DEFINE h == Top.x
           s == StartState[h]
           enter == Call("activate", s)
           substate == Do("substate", h, Top.e, 1, FALSE)
           G == ElementsOf(agenda)
           R == ElementsOf(Tail(agenda))
           H == {enter, substate} \cup R
<1>1. /\ Top \in Task /\ h \in States /\ G = {Top} \cup R
      /\ \A g \in R : g \in Task /\ FrameOK(g)
  BY TopCall DEF FrameOK
<1>2. /\ s \in States \ {Root} /\ Parent[s] = h /\ IsPseudo(s) /\ ~IsHistory(s)
      /\ Kind[s] # "Concurrent" /\ OrState(h)
  <2>1. s \in States /\ Parent[s] = h
    BY <1>1, ChartStructure DEF ChildrenOf
  <2>2. Kind[s] = "Start" /\ s # Null
    BY <1>1, ChartPaths
  <2> QED BY <1>1, <2>1, <2>2, ChartAssumption
          DEF IsPseudo, PseudoKinds, IsHistory, HistoryKinds, OrState
<1>3. /\ md \in RuntimeMap /\ MapOK(md) /\ md.active \subseteq States
      /\ agenda \in Seq(Task) /\ StackOK(agenda)
  BY Base
<1>4. /\ MapCond(md, G) /\ \A f \in G : FrameCond(md, G, f)
  BY DEF Configured
<1>5. /\ enter \in Task /\ enter.op = "activate" /\ enter.x = s
      /\ substate \in Task /\ substate.op = "substate" /\ substate.x = h
  <2>1. Top.e \in OrNull(Events) /\ 1 \in Nat /\ FALSE \in BOOLEAN
    BY <1>1 DEF Task
  <2>2. \A k \in Nat, b \in BOOLEAN :
           LET f == Do("substate", h, Top.e, k, b) IN f \in Task /\ f.op = "substate" /\ f.x = h
    BY <1>1, <2>1, CallFields DEF Ops
  <2>3. enter \in Task /\ enter.op = "activate" /\ enter.x = s
    BY <1>2, CallOne DEF Ops
  <2> QED BY <2>1, <2>2, <2>3
<1>6. md'.active = md.active \cup {s} /\ md'.stateset = md.stateset
  BY <1>2, <1>3, MdActivateFields
<1>7. \A g : Enters(md', g) = Enters(md, g)
  BY <1>6, SameRecords
<1>8. \A g \in R : /\ g.op \notin {"deactivate", "leave"} /\ Enters(md, g) = {}
                   /\ \A f : (\A c \in States : (Kind[c] = "Concurrent" /\ RunsInside(Top, c))
                                                    => RunsInside(f, c))
                             => MayRunAbove(md, f, g)
  BY <1>3, NeutralTop DEF NeutralOps, Top
<1>9. \A c \in md.active : ~(Solid(c) /\ c # Root /\ Parent[c] = h)
  <2>1. ASSUME NEW c \in md.active, Solid(c), c # Root, Parent[c] = h PROVE FALSE
    <3>1. md.current[h] = c
      BY <1>2, <1>4, <2>1 DEF MapCond, CurrentOK
    <3>2. c # Null
      BY <1>3, ChartAssumption
    <3> QED BY <3>1, <3>2
  <2> QED BY <2>1
<1> HIDE DEF enter, substate, G, R
<1>10. MapCond(md', H)
  <2>1. G \subseteq H \cup {Top}
    BY <1>1
  <2>2. Enters(md, Top) = {}
    BY DEF Enters
  <2> HIDE DEF H
  <2>3. MapCond(MdActivate(md, s), H)
    BY <1>2, <1>3, <1>4, <1>9, <2>1, <2>2, ActivateMap
  <2> QED BY <2>3
<1>11. ASSUME NEW g \in R PROVE FrameCond(md', H, g)
  <2>1. FrameCond(md, G, g) /\ g.op \notin {"deactivate", "leave"} /\ Enters(md', g) = {}
    BY <1>1, <1>4, <1>7, <1>8
  <2>2. CallOK(md', g)
    BY <1>6, <2>1 DEF FrameCond, CallOK
  <2> QED BY <2>1, <2>2 DEF FrameCond, LeavingOK, SubstatesFirst, EnteringOK
<1>12. FrameCond(md', H, substate)
  BY <1>5, NeutralFacts DEF CompositeCall, CompositeOps, NeutralOps
<1>13. FrameCond(md', H, enter)
  <2>1. Enters(md', enter) = {s}
    BY <1>5 DEF Enters
  <2>2. EnteringOK(md', H, enter)
    <3>1. Parent[s] \in md'.active
      BY <1>2, <1>6
    <3>2. \A c \in md'.active : (Solid(c) /\ c # Root /\ Parent[c] = Parent[s]) =>
                                    c = s /\ IsPseudo(s)
      BY <1>2, <1>6, <1>9
    <3> QED BY <2>1, <3>1, <3>2 DEF EnteringOK
  <2> QED BY <1>5, <2>2 DEF FrameCond, LeavingOK, SubstatesFirst, CallOK, CompositeOps
<1>14. MayRunAbove(md', enter, substate)
  BY <1>5, NeutralFacts DEF NeutralOps
<1>15. \A g \in R : MayRunAbove(md', enter, g) /\ MayRunAbove(md', substate, g)
  <2>1. \A c \in States : RunsInside(Top, c) => RunsInside(enter, c) /\ RunsInside(substate, c)
    <3>1. ASSUME NEW c \in States, Inside(h, c) PROVE Inside(s, c)
      BY <1>2, <3>1, ParentPath, InsideOrder DEF Inside
    <3> QED BY <1>5, <3>1 DEF RunsInside
  <2>2. \A g \in R : MayRunAbove(md, enter, g) /\ MayRunAbove(md, substate, g)
    BY <1>8, <2>1
  <2> QED BY <1>7, <2>2, SameOrder
<1>16. /\ ElementsOf(<<enter, substate>> \o Tail(agenda)) = H
       /\ Ordered(md', <<enter, substate>> \o Tail(agenda))
  BY <1>5, <1>7, <1>14, <1>15, TwoCalls DEF R
<1>17. \A f \in H : FrameCond(md', H, f)
  BY <1>11, <1>12, <1>13
<1>18. agenda' = <<enter, substate>> \o Tail(agenda)
  BY DEF enter, substate
<1> QED BY <1>10, <1>16, <1>17, <1>18 DEF Configured

LEMMA DispatchHierarchicalStep ==
    ASSUME StructuredChart, Inv, Configured(md, agenda), DispatchHierarchical
    PROVE  Configured(md', agenda')
<1> DEFINE h == Top.x
           substate == Do("substate", h, Top.e, 1, FALSE)
<1>1. agenda # <<>> /\ Top.op = "dispatch" /\ Kind[h] = "Hierarchical"
  BY DEF DispatchHierarchical, Running, Top
<1>2. CASE Return(FALSE) /\ Quiet
  <2>1. Idle(md, Top)
    BY <1>1, NeutralFacts DEF NeutralOps
  <2> QED BY <1>1, <1>2, <2>1, Popped DEF Return, Quiet
<1>3. CASE /\ h \in md.active /\ md.current[h] = Null /\ StartState[h] # Null
           /\ md' = MdActivate(md, StartState[h])
           /\ Push(<<Call("activate", StartState[h]), substate>>)
  BY <1>1, <1>3, StartPushed DEF Push
<1>4. CASE Push(<<substate>>) /\ Quiet
  <2>1. Top \in Task /\ h \in States
    BY <1>1, TopCall DEF FrameOK
  <2>2. Top.e \in OrNull(Events) /\ Above(h, h)
    BY <2>1, PathEnd DEF Task
  <2>3. substate \in Task /\ substate.op \in NeutralOps /\ substate.x \in States
        /\ Above(h, substate.x) /\ CompositeCall(substate)
    BY <1>1, <2>1, <2>2, NeutralDo
  <2> HIDE DEF substate
  <2>4. <<substate>> \in Seq(Task) /\ \A i \in DOMAIN <<substate>> : <<substate>>[i] = substate
    BY <2>3
  <2> QED BY <1>1, <1>4, <2>1, <2>3, <2>4, NeutralPushed DEF NeutralOps, Quiet
<1> QED BY <1>2, <1>3, <1>4 DEF DispatchHierarchical

\* The loop of Transition::execute that enters the states on the way.
LEMMA EnterStep ==
    ASSUME StructuredChart, Inv, Configured(md, agenda), Enter
    PROVE  Configured(md', agenda')
<1> DEFINE t == Top.x
           A == Activates[t]
           k == Top.k
           enter == Call("activate", A[k])
           next == Do("enter", t, Null, k + 1, FALSE)
           G == ElementsOf(agenda)
           R == ElementsOf(Tail(agenda))
           H == {enter, next} \cup R
<1>1. agenda # <<>> /\ Top.op = "enter"
  BY DEF Enter, Running, Top
<1>2. /\ Top \in Task /\ t \in Trans /\ k \in Nat
      /\ G = {Top} \cup R
      /\ FrameCond(md, G, Top)
      /\ \A g \in R : g \in Task /\ FrameOK(g) /\ MayRunAbove(md, Top, g)
  BY <1>1, TopCall DEF FrameOK, Task
<1>3. A \in Seq(States \ {Root}) /\ DOMAIN A = 1 .. Len(A) /\ Len(A) \in Nat
  <2>1. A \in Seq(States \ {Root})
    BY <1>2, ChartAssumption
  <2> QED BY <2>1
<1>4. CASE k > Len(A) /\ Return(TRUE) /\ Quiet
  <2>1. k \notin DOMAIN A
    BY <1>2, <1>3, <1>4
  <2>2. Enters(md, Top) = {}
    BY <1>1, <2>1 DEF Enters
  <2>3. Idle(md, Top)
    BY <1>1, <2>2 DEF Idle
  <2> QED BY <1>1, <1>4, <2>3, Popped DEF Return, Quiet
<1>5. CASE /\ k \in DOMAIN A
           /\ md' = IF Kind[A[k]] = "Concurrent" /\ k < Len(A)
                    THEN RegisterRegion(md, A[k], A[k + 1]) ELSE md
           /\ Push(<<enter, next>>)
  <2>1. k \in 1 .. Len(A) /\ A[k] \in States \ {Root}
    BY <1>3, <1>5
  <2>2. BetweenOrStates(t)
    <3>1. ~Internal(t)
      BY <1>3, <2>1 DEF Internal
    <3> QED BY <1>2, <3>1 DEF StructuredChart
  <2>3. PICK ctx \in States : Connects(t, ctx)
    BY <1>2, <2>2, Connected
  <2>4. /\ Inside(A[k], ctx) /\ Depth(A[k]) \in Nat
        /\ k = 1 => Parent[A[k]] = ctx
        /\ k > 1 => Parent[A[k]] = A[k - 1]
        /\ k < Len(A) => Kind[A[k]] = "Hierarchical"
        /\ OrState(ctx)
        /\ \A c \in States : (Kind[c] = "Concurrent" /\ Inside(Source[t], c)) => Above(c, ctx)
    BY <2>1, <2>3, PathEnd DEF Connects
  <2>5. md' = md
    BY <1>5, <2>4
  <2>6. /\ enter \in Task /\ enter.op = "activate" /\ enter.x = A[k]
        /\ next \in Task /\ next.op = "enter" /\ next.x = t /\ next.k = k + 1
    <3>1. Null \in OrNull(Events) /\ FALSE \in BOOLEAN /\ k + 1 \in Nat
      BY <1>2 DEF OrNull
    <3>2. enter \in Task /\ enter.op = "activate" /\ enter.x = A[k]
      BY <2>1, CallOne DEF Ops
    <3>3. \A b \in BOOLEAN : LET f == Do("enter", t, Null, k + 1, b) IN
             f \in Task /\ f.op = "enter" /\ f.x = t /\ f.k = k + 1
      BY <1>2, <3>1, CallFields DEF Ops
    <3> QED BY <3>1, <3>2, <3>3
  <2> HIDE DEF enter, next, G, R
  <2>7. Enters(md, Top) = {A[k]} /\ Enters(md, enter) = {A[k]}
    BY <1>1, <1>5, <2>6 DEF Enters
  <2>8. \A g \in G : g.op \notin {"deactivate", "leave"}
    BY <1>1, <1>2 DEF MayRunAbove, AboveLeaving
  <2>9. Covers(md, Top, H)
    <3>1. \A c : \A j : ~StartsRegion(Top, c, j)
      BY <1>1 DEF StartsRegion
    <3> QED BY <1>1, <2>7, <3>1 DEF Covers
  <2>10. FrameCond(md, H, enter)
    <3>1. FrameCond(md, H, Top)
      BY <1>2, <2>9, CoverFrame
    <3>2. EnteringOK(md, H, enter)
      BY <2>7, <3>1 DEF FrameCond, EnteringOK
    <3> QED BY <2>6, <3>2 DEF FrameCond, LeavingOK, SubstatesFirst, CallOK, CompositeOps
  <2>11. FrameCond(md, H, next)
    <3>1. EnteringOK(md, H, next)
      <4>1. SUFFICES ASSUME NEW s \in Enters(md, next) \ {Root}
                     PROVE  /\ \E f \in H : f.op = "activate" /\ f.x = Parent[s]
                            /\ \A c \in md.active :
                                  ~(Solid(c) /\ c # Root /\ Parent[c] = Parent[s])
        BY DEF EnteringOK
      <4>2. k + 1 \in DOMAIN A /\ s = A[k + 1]
        BY <2>6, <4>1 DEF Enters
      <4>3. k + 1 \in 1 .. Len(A) /\ k < Len(A) /\ k + 1 > 1 /\ (k + 1) - 1 = k
        BY <1>2, <1>3, <2>1, <4>2
      <4>4. Parent[s] = A[k]
        BY <2>3, <4>2, <4>3 DEF Connects
      <4>5. Kind[A[k]] = "Hierarchical" /\ Solid(A[k]) /\ ~IsPseudo(A[k]) /\ OrState(Parent[A[k]])
        <5>1. Kind[A[k]] = "Hierarchical"
          BY <2>4, <4>3
        <5>2. k = 1 \/ (k > 1 /\ k - 1 \in 1 .. Len(A) /\ k - 1 < Len(A))
          BY <1>3, <2>1
        <5>3. k > 1 => Kind[A[k - 1]] = "Hierarchical"
          BY <2>3, <5>2 DEF Connects
        <5>4. OrState(Parent[A[k]])
          BY <2>4, <5>2, <5>3 DEF OrState
        <5> QED BY <5>1, <5>4 DEF Solid, IsHistory, HistoryKinds, IsPseudo, PseudoKinds
      <4>6. ASSUME NEW c \in md.active, Solid(c), c # Root, Parent[c] = Parent[s]
            PROVE  FALSE
        <5>1. c \in States
          BY Base
        <5>2. Above(A[k], c)
          BY <4>4, <4>6, <5>1, ParentPath
        <5>3. A[k] \in md.active
          BY <2>1, <4>6, <5>2 DEF Configured, MapCond, ContextsOK
        <5>4. \E g \in G : Exits(g, A[k])
          BY <1>2, <2>1, <2>7, <4>5, <5>3 DEF FrameCond, EnteringOK
        <5> QED BY <2>8, <5>4 DEF Exits
      <4> QED BY <2>6, <4>4, <4>6
    <3> QED BY <2>6, <3>1 DEF FrameCond, LeavingOK, SubstatesFirst, CallOK, CompositeOps
  <2>12. MayRunAbove(md, enter, next)
    <3>1. AboveEntering(md, enter, next)
      <4>1. SUFFICES ASSUME NEW s \in Enters(md, next)
                     PROVE  OrState(A[k]) /\ Depth(A[k]) < Depth(s)
        BY <2>6 DEF AboveEntering
      <4>2. k + 1 \in DOMAIN A /\ s = A[k + 1]
        BY <2>6, <4>1 DEF Enters
      <4>3. k + 1 \in 1 .. Len(A) /\ k < Len(A) /\ k \in 1 .. Len(A)
        BY <1>2, <1>3, <2>1, <4>2
      <4>4. Depth(A[k]) = Depth(ctx) + k /\ Depth(s) = Depth(ctx) + (k + 1)
        BY <2>3, <4>2, <4>3 DEF Connects
      <4>5. Depth(ctx) \in Nat
        BY PathEnd
      <4> QED BY <1>2, <2>4, <4>3, <4>4, <4>5 DEF OrState
    <3> QED BY <2>6, <3>1, PlainBelow
  <2>13. \A g \in R : MayRunAbove(md, enter, g) /\ MayRunAbove(md, next, g)
    <3>1. ASSUME NEW c \in States, Kind[c] = "Concurrent", RunsInside(Top, c)
          PROVE  RunsInside(enter, c) /\ RunsInside(next, c)
      <4>1. Inside(Source[t], c)
        BY <1>1, <3>1 DEF RunsInside
      <4>2. Inside(A[k], c)
        BY <2>1, <2>4, <3>1, <4>1, InsideOrder
      <4> QED BY <2>6, <4>1, <4>2 DEF RunsInside
    <3>2. agenda \in Seq(Task) /\ StackOK(agenda)
      BY Base
    <3> QED BY <1>1, <3>1, <3>2, NeutralTop DEF Top, R
  <2>14. /\ <<enter, next>> \in Seq(Task) /\ ElementsOf(<<enter, next>>) = {enter, next}
         /\ Ordered(md, <<enter, next>>)
    BY <1>1, <2>6, <2>12, <2>13, TwoCalls DEF R
  <2>15. Configured(md, <<enter, next>> \o Tail(agenda))
    BY <1>1, <2>9, <2>10, <2>11, <2>13, <2>14, Base, CoverStep DEF Top, R
  <2> QED BY <1>5, <2>5, <2>15 DEF Push
<1>6. \/ k > Len(A) /\ Return(TRUE) /\ Quiet
      \/ /\ k \in DOMAIN A
         /\ md' = IF Kind[A[k]] = "Concurrent" /\ k < Len(A)
                  THEN RegisterRegion(md, A[k], A[k + 1]) ELSE md
         /\ Push(<<enter, next>>)
  BY DEF Enter
<1> QED BY <1>4, <1>5, <1>6

\* What follows the entry action: an and-state starts its next region.
LEMMA RegionStarted ==
    ASSUME StructuredChart, Inv, Configured(md, agenda), agenda # <<>>,
           Top.op = "entered", Kind[Top.x] = "Concurrent",
           Top.k \in DOMAIN Regions[Top.x]
    PROVE  Configured(md, <<Call("activate", Regions[Top.x][Top.k]),
                            Call("runRegion", Regions[Top.x][Top.k]),
                            Do("entered", Top.x, Null, Top.k + 1, FALSE)>> \o Tail(agenda))
<1> DEFINE s == Top.x
           k == Top.k
           r == Regions[s][k]
           enter == Call("activate", r)
           run == Call("runRegion", r)
           next == Do("entered", s, Null, k + 1, FALSE)
           calls == <<enter, run, next>>
           G == ElementsOf(agenda)
           R == ElementsOf(Tail(agenda))
           H == {enter, run, next} \cup R
<1>1. /\ Top \in Task /\ s \in States /\ k \in Nat \ {0} /\ k + 1 \in Nat \ {0}
      /\ s \in md.active
      /\ G = {Top} \cup R
      /\ \A g \in R : g \in Task /\ FrameOK(g) /\ MayRunAbove(md, Top, g)
  <2>1. /\ Top \in Task /\ s \in States /\ k \in Nat \ {0} /\ s \in md.active
        /\ G = {Top} \cup R
        /\ \A g \in R : g \in Task /\ FrameOK(g) /\ MayRunAbove(md, Top, g)
    BY TopCall DEF FrameOK, FrameCond, CallOK
  <2>2. k + 1 \in Nat \ {0}
    BY <2>1
  <2> QED BY <2>1, <2>2
<1>2. r \in States \ {Root} /\ Parent[r] = s
  <2>1. r \in ChildrenOf(s)
    BY <1>1, ChartStructure DEF ElementsOf
  <2> QED BY <1>1, <2>1, ChartAssumption DEF ChildrenOf
<1>3. Above(s, r) /\ \A a : Inside(r, a) <=> Above(a, s)
  BY <1>2, ParentPath
<1>4. ~IsHistory(s) /\ ~OrState(s)
  BY DEF IsHistory, HistoryKinds, OrState
<1>5. /\ enter \in Task /\ enter.op = "activate" /\ enter.x = r
      /\ run \in Task /\ run.op = "runRegion" /\ run.x = r
      /\ next \in Task /\ next.op = "entered" /\ next.x = s /\ next.k = k + 1
  <2>1. Null \in OrNull(Events) /\ FALSE \in BOOLEAN
    BY DEF OrNull
  <2>2. \A b \in BOOLEAN : LET f == Do("entered", s, Null, k + 1, b) IN
           f \in Task /\ f.op = "entered" /\ f.x = s /\ f.k = k + 1
    BY <1>1, <2>1, CallFields DEF Ops
  <2>3. /\ enter \in Task /\ enter.op = "activate" /\ enter.x = r
        /\ run \in Task /\ run.op = "runRegion" /\ run.x = r
    BY <1>2, CallOne DEF Ops
  <2> QED BY <2>1, <2>2, <2>3
<1> HIDE DEF enter, run, next, G, R
<1>6. Enters(md, Top) = {} /\ Enters(md, run) = {} /\ Enters(md, next) = {}
      /\ Enters(md, enter) = {r}
  BY <1>4, <1>5 DEF Enters
<1>7. calls \in Seq(Task) /\ ElementsOf(calls) = {enter, run, next}
      /\ DOMAIN calls = {1, 2, 3} /\ calls[1] = enter /\ calls[2] = run /\ calls[3] = next
  <2>1. /\ calls \in Seq(Task) /\ DOMAIN calls = {1, 2, 3}
        /\ calls[1] = enter /\ calls[2] = run /\ calls[3] = next
    BY <1>5
  <2> HIDE DEF calls
  <2> QED BY <2>1 DEF ElementsOf
<1> HIDE DEF calls
<1>8. Covers(md, Top, H)
  <2>1. ASSUME NEW c \in States, NEW j \in DOMAIN Regions[c], StartsRegion(Top, c, j)
        PROVE  StartsRegion(enter, c, j) \/ StartsRegion(next, c, j)
    <3>1. c = s /\ k <= j
      BY <2>1 DEF StartsRegion
    <3>2. Regions[c] \in Seq(States)
      BY ChartAssumption
    <3>3. j \in Nat
      BY <3>2
    <3>4. j = k \/ k + 1 <= j
      BY <1>1, <3>1, <3>3
    <3> QED BY <1>5, <3>1, <3>4 DEF StartsRegion
  <2> QED BY <1>6, <2>1 DEF Covers
<1>9. \A f \in ElementsOf(calls) : FrameCond(md, H, f)
  <2>1. EnteringOK(md, H, enter)
    BY <1>1, <1>2, <1>4, <1>6 DEF EnteringOK
  <2>2. FrameCond(md, H, enter)
    BY <1>5, <2>1 DEF FrameCond, LeavingOK, SubstatesFirst, CallOK, CompositeOps
  <2>3. FrameCond(md, H, run)
    BY <1>5, NeutralFacts DEF NeutralOps, CompositeCall, CompositeOps
  <2>4. FrameCond(md, H, next)
    BY <1>1, <1>5, <1>6
       DEF FrameCond, LeavingOK, SubstatesFirst, EnteringOK, CallOK, CompositeOps
  <2> QED BY <1>7, <2>2, <2>3, <2>4
<1>10. \A c : (Above(c, s) => RunsInside(enter, c) /\ RunsInside(run, c))
              /\ (Inside(s, c) => RunsInside(next, c))
  BY <1>3, <1>5 DEF RunsInside
<1>11. Ordered(md, calls)
  <2>1. Above(s, s)
    BY <1>1, PathEnd
  <2>2. MayRunAbove(md, enter, run)
    BY <1>5, NeutralFacts DEF NeutralOps
  <2>3. MayRunAbove(md, enter, next) /\ MayRunAbove(md, run, next)
    BY <1>4, <1>5, <1>6, <1>10, <2>1 DEF MayRunAbove, AboveLeaving, AboveEntering, AboveEntered
  <2> QED BY <1>7, <2>2, <2>3 DEF Ordered
<1>12. ASSUME NEW f \in ElementsOf(calls), NEW g \in R PROVE MayRunAbove(md, f, g)
  <2>1. MayRunAbove(md, Top, g) /\ g \in Task /\ FrameOK(g)
    BY <1>1
  <2>2. g.op \notin {"deactivate", "leave"} /\ Enters(md, g) = {}
    BY <1>4, <2>1 DEF MayRunAbove, AboveLeaving, AboveEntering
  <2>3. \A c \in States : Inside(s, c) => RunsInside(f, c)
    BY <1>7, <1>10 DEF Inside
  <2>4. AboveEntered(f, g)
    <3>1. ASSUME g.op = "entered", Kind[g.x] = "Concurrent" PROVE RunsInside(f, g.x)
      <4>1. g.x \in States /\ RunsInside(Top, g.x)
        BY <2>1, <3>1 DEF FrameOK, MayRunAbove, AboveEntered
      <4> QED BY <2>3, <4>1 DEF RunsInside
    <3>2. ASSUME g.op = "entered", IsHistory(g.x)
          PROVE  \/ f.op \in {"activate", "entered"} /\ Inside(f.x, Parent[g.x])
                 \/ \E c \in States : /\ Kind[c] = "Concurrent" /\ Inside(c, Parent[g.x])
                                      /\ RunsInside(f, c)
      <4>1. \/ Inside(s, Parent[g.x])
            \/ \E c \in States : /\ Kind[c] = "Concurrent" /\ Inside(c, Parent[g.x])
                                 /\ RunsInside(Top, c)
        BY <2>1, <3>2 DEF MayRunAbove, AboveEntered
      <4>2. CASE Inside(s, Parent[g.x])
        <5>1. CASE f = next
          BY <1>5, <4>2, <5>1
        <5>2. CASE f # next
          <6>1. RunsInside(f, s)
            <7>1. Above(s, s)
              BY <1>1, PathEnd
            <7> QED BY <1>7, <1>10, <5>2, <7>1
          <6> QED BY <1>1, <4>2, <6>1
        <5> QED BY <5>1, <5>2
      <4>3. CASE \E c \in States : /\ Kind[c] = "Concurrent" /\ Inside(c, Parent[g.x])
                                   /\ RunsInside(Top, c)
        BY <2>3, <4>3 DEF RunsInside
      <4> QED BY <4>1, <4>2, <4>3
    <3> QED BY <3>1, <3>2 DEF AboveEntered
  <2> QED BY <2>2, <2>4 DEF MayRunAbove, AboveLeaving, AboveEntering
<1>13. Configured(md, calls \o Tail(agenda))
  BY <1>7, <1>8, <1>9, <1>11, <1>12, Base, CoverStep DEF Top, R
<1> QED BY <1>13 DEF calls, enter, run, next

\* The parent of a history pseudo-state is an or-state.
LEMMA HistoryParent ==
    ASSUME StructuredChart, NEW s \in States, IsHistory(s)
    PROVE  /\ s # Root /\ Parent[s] \in States /\ OrState(Parent[s])
           /\ Kind[s] # "Concurrent" /\ ~OrState(s)
<1>1. Kind[s] \in HistoryKinds
  BY DEF IsHistory
<1>2. s # Root
  BY <1>1, ChartAssumption DEF HistoryKinds
<1> QED BY <1>1, <1>2, Family DEF HistoryKinds, OrState

\* A history pseudo-state activates the next state it has recorded.
LEMMA RecordEntered ==
    ASSUME StructuredChart, Inv, Configured(md, agenda), agenda # <<>>,
           Top.op = "entered", IsHistory(Top.x), NEW r \in Recorded(Top.x, Top.k)
    PROVE  Configured(md, <<Call("activate", r),
                            Do("entered", Top.x, Null, Top.k + 1, FALSE)>> \o Tail(agenda))
<1> DEFINE s == Top.x
           k == Top.k
           p == Parent[s]
           enter == Call("activate", r)
           next == Do("entered", s, Null, k + 1, FALSE)
           G == ElementsOf(agenda)
           R == ElementsOf(Tail(agenda))
           H == {enter, next} \cup R
<1>1. /\ Top \in Task /\ s \in States /\ k \in Nat \ {0}
      /\ G = {Top} \cup R /\ FrameCond(md, G, Top)
      /\ \A g \in R : g \in Task /\ FrameOK(g) /\ MayRunAbove(md, Top, g)
  BY TopCall DEF FrameOK, FrameCond, CallOK
<1>2. k + 1 \in Nat \ {0}
  BY <1>1
<1>3. s # Root /\ p \in States /\ OrState(p) /\ Kind[s] # "Concurrent" /\ ~OrState(s)
  BY <1>1, HistoryParent
<1>4. /\ r \in md.stateset[s] /\ Depth(r) = Depth(s) + k - 1
      /\ RecordedAt(md, s, k) = Recorded(s, k)
  BY DEF Recorded, RecordedAt, Depth
<1>5. /\ HistoryOK(md, s) /\ md.stateset[s] \subseteq States
      /\ Depth(s) \in Nat
  BY <1>1, Base, PathEnd DEF Configured, MapCond, StatesetsOK
<1>6. r \in States /\ Inside(r, p)
  BY <1>4, <1>5 DEF HistoryOK
<1>7. r # Root
  BY <1>6, RootPath
<1>8. /\ enter \in Task /\ enter.op = "activate" /\ enter.x = r
      /\ next \in Task /\ next.op = "entered" /\ next.x = s /\ next.k = k + 1
  <2>1. Null \in OrNull(Events) /\ FALSE \in BOOLEAN
    BY DEF OrNull
  <2>2. \A b \in BOOLEAN : LET f == Do("entered", s, Null, k + 1, b) IN
           f \in Task /\ f.op = "entered" /\ f.x = s /\ f.k = k + 1
    BY <1>1, <1>2, <2>1, CallFields DEF Ops
  <2>3. enter \in Task /\ enter.op = "activate" /\ enter.x = r
    BY <1>6, CallOne DEF Ops
  <2> QED BY <2>1, <2>2, <2>3
<1> HIDE DEF enter, next, G, R
<1>9. /\ Enters(md, enter) = {r} /\ Enters(md, Top) = {r}
      /\ Enters(md, next) = RecordedAt(md, s, k + 1)
  <2>1. \A t \in Recorded(s, k) : t = r
    BY <1>4, <1>5 DEF Recorded, HistoryOK, Depth
  <2>2. Enters(md, Top) = RecordedAt(md, s, k)
    BY DEF Enters
  <2> QED BY <1>4, <1>8, <2>1, <2>2 DEF Enters
<1>10. \A g \in G : g.op \notin {"deactivate", "leave"}
  BY <1>1 DEF MayRunAbove, AboveLeaving
<1>11. Covers(md, Top, H)
  <2>1. \A c \in States : Kind[c] = "Concurrent" =>
           \A j \in DOMAIN Regions[c] : ~StartsRegion(Top, c, j)
    BY <1>3 DEF StartsRegion
  <2> QED BY <1>9, <2>1 DEF Covers
\* The state recorded one level further down.
<1>12. ASSUME NEW t \in Enters(md, next)
       PROVE  /\ t \in States \ {Root} /\ Parent[t] = r /\ Kind[r] = "Hierarchical"
              /\ Depth(r) < Depth(t)
  <2>1. t \in md.stateset[s] /\ Depth(t) = Depth(s) + (k + 1) - 1
    BY <1>9 DEF RecordedAt
  <2>2. Depth(t) > Depth(s) /\ Depth(t) - 1 = Depth(s) + k - 1 /\ Depth(r) < Depth(t)
    BY <1>1, <1>4, <1>5, <2>1
  <2>3. /\ Inside(t, p) /\ Parent[t] \in md.stateset[s] /\ Kind[Parent[t]] = "Hierarchical"
    BY <1>5, <2>1, <2>2 DEF HistoryOK
  <2>4. t \in States /\ t # Root
    BY <1>5, <2>1, <2>3, RootPath
  <2>5. Depth(Parent[t]) = Depth(t) - 1
    BY <2>4, ParentPath
  <2>6. Parent[t] = r
    BY <1>4, <1>5, <2>2, <2>3, <2>5 DEF HistoryOK
  <2> QED BY <2>2, <2>3, <2>4, <2>6
<1>13. FrameCond(md, H, enter)
  <2>1. FrameCond(md, H, Top)
    BY <1>1, <1>11, CoverFrame
  <2>2. EnteringOK(md, H, enter)
    BY <1>9, <2>1 DEF FrameCond, EnteringOK
  <2> QED BY <1>8, <2>2 DEF FrameCond, LeavingOK, SubstatesFirst, CallOK, CompositeOps
<1>14. FrameCond(md, H, next)
  <2>1. EnteringOK(md, H, next)
    <3>1. SUFFICES ASSUME NEW t \in Enters(md, next) \ {Root}
                   PROVE  /\ \E f \in H : f.op = "activate" /\ f.x = Parent[t]
                          /\ \A c \in md.active :
                                ~(Solid(c) /\ c # Root /\ Parent[c] = Parent[t])
      BY DEF EnteringOK
    <3>2. Parent[t] = r /\ Kind[r] = "Hierarchical"
      BY <1>12
    <3>3. OrState(Parent[r])
      <4>1. CASE k = 1
        <5>1. Depth(r) = Depth(s)
          BY <1>4, <1>5, <4>1
        <5>2. /\ Depth(Parent[r]) = Depth(r) - 1 /\ Depth(p) = Depth(s) - 1
              /\ Above(p, Parent[r]) /\ Parent[r] \in States
          BY <1>1, <1>3, <1>6, <1>7, ParentPath
        <5>3. p = Parent[r]
          BY <5>1, <5>2, AboveDepth
        <5> QED BY <1>3, <5>3
      <4>2. CASE k > 1
        <5>1. Depth(r) > Depth(s)
          BY <1>1, <1>4, <1>5, <4>2
        <5>2. Kind[Parent[r]] = "Hierarchical"
          BY <1>4, <1>5, <5>1 DEF HistoryOK
        <5> QED BY <5>2 DEF OrState
      <4> QED BY <1>1, <4>1, <4>2
    <3>4. Solid(r) /\ ~IsPseudo(r)
      BY <3>2 DEF Solid, IsHistory, HistoryKinds, IsPseudo, PseudoKinds
    <3>5. ASSUME NEW c \in md.active, Solid(c), c # Root, Parent[c] = Parent[t]
          PROVE  FALSE
      <4>1. c \in States
        BY Base
      <4>2. Above(r, c)
        BY <3>2, <3>5, <4>1, ParentPath
      <4>3. r \in md.active
        BY <1>6, <3>5, <4>2 DEF Configured, MapCond, ContextsOK
      <4>4. \E g \in G : Exits(g, r)
        BY <1>1, <1>7, <1>9, <3>3, <3>4, <4>3 DEF FrameCond, EnteringOK
      <4> QED BY <1>10, <4>4 DEF Exits
    <3> QED BY <1>8, <3>2, <3>5
  <2> QED BY <1>2, <1>3, <1>8, <2>1
          DEF FrameCond, LeavingOK, SubstatesFirst, CallOK, CompositeOps
<1>15. MayRunAbove(md, enter, next)
  <2>1. AboveEntering(md, enter, next)
    BY <1>8, <1>12 DEF AboveEntering, OrState
  <2>2. AboveEntered(enter, next)
    BY <1>3, <1>6, <1>8 DEF AboveEntered
  <2> QED BY <1>8, <2>1, <2>2 DEF MayRunAbove, AboveLeaving
<1>16. ASSUME NEW f \in {enter, next}, NEW g \in R PROVE MayRunAbove(md, f, g)
  <2>1. MayRunAbove(md, Top, g) /\ g \in Task /\ FrameOK(g)
    BY <1>1
  <2>2. g.op \notin {"deactivate", "leave"} /\ Enters(md, g) = {}
    BY <1>3, <2>1 DEF MayRunAbove, AboveLeaving, AboveEntering
  <2>3. f.op \in {"activate", "entered"} /\ \A c : Inside(s, c) => Inside(f.x, c)
    <3>1. \A c : Inside(s, c) => Above(c, p)
      BY <1>1, <1>3, ParentPath
    <3>2. \A c : Inside(s, c) => Inside(r, c)
      BY <1>6, <3>1, InsideOrder
    <3> QED BY <1>8, <3>2
  <2>4. \A c : RunsInside(Top, c) => RunsInside(f, c)
    BY <2>3 DEF RunsInside
  <2>5. AboveEntered(f, g)
    <3>1. ASSUME g.op = "entered", Kind[g.x] = "Concurrent" PROVE RunsInside(f, g.x)
      BY <2>1, <2>4, <3>1 DEF MayRunAbove, AboveEntered
    <3>2. ASSUME g.op = "entered", IsHistory(g.x)
          PROVE  \/ Inside(f.x, Parent[g.x])
                 \/ \E c \in States : /\ Kind[c] = "Concurrent" /\ Inside(c, Parent[g.x])
                                      /\ RunsInside(f, c)
      <4>1. \/ Inside(s, Parent[g.x])
            \/ \E c \in States : /\ Kind[c] = "Concurrent" /\ Inside(c, Parent[g.x])
                                 /\ RunsInside(Top, c)
        BY <2>1, <3>2 DEF MayRunAbove, AboveEntered
      <4> QED BY <2>3, <2>4, <4>1
    <3> QED BY <2>3, <3>1, <3>2 DEF AboveEntered
  <2> QED BY <2>2, <2>5 DEF MayRunAbove, AboveLeaving, AboveEntering
<1>17. /\ <<enter, next>> \in Seq(Task) /\ ElementsOf(<<enter, next>>) = {enter, next}
       /\ Ordered(md, <<enter, next>>)
  BY <1>8, <1>15, <1>16, TwoCalls DEF R
<1>18. Configured(md, <<enter, next>> \o Tail(agenda))
  BY <1>11, <1>13, <1>14, <1>16, <1>17, Base, CoverStep DEF Top, R
<1> QED BY <1>18 DEF enter, next

LEMMA EnteredStep ==
    ASSUME StructuredChart, Inv, Configured(md, agenda), Entered
    PROVE  Configured(md', agenda')
<1> DEFINE s == Top.x
           k == Top.k
           next == Do("entered", s, Null, k + 1, FALSE)
<1>1. agenda # <<>> /\ Top.op = "entered"
  BY DEF Entered, Running, Top
<1>2. Top \in Task /\ s \in States /\ k \in Nat \ {0} /\ (Kind[s] = "Concurrent" => s \in md.active)
  BY <1>1, TopCall DEF FrameOK, FrameCond, CallOK
<1>3. CASE /\ Kind[s] = "Concurrent" /\ k \in DOMAIN Regions[s]
           /\ Push(<<Call("activate", Regions[s][k]), Call("runRegion", Regions[s][k]), next>>)
           /\ Quiet
  BY <1>1, <1>3, RegionStarted DEF Push, Quiet
<1>4. CASE /\ Kind[s] = "Concurrent" /\ k \in DOMAIN Regions[s]
           /\ Regions[s][k] \in md.stateset[s] \/ s \notin md.present
  <2>1. md.stateset[s] = {} /\ s \in md.present
    BY <1>2, <1>4, Base DEF Configured, MapCond, StatesetsOK
  <2> QED BY <1>4, <2>1
<1>5. CASE /\ IsHistory(s)
           /\ \E r \in Recorded(s, k) : Push(<<Call("activate", r), next>>)
           /\ Quiet
  <2>1. PICK r \in Recorded(s, k) : Push(<<Call("activate", r), next>>)
    BY <1>5
  <2> QED BY <1>1, <1>5, <2>1, RecordEntered DEF Push, Quiet
<1>6. CASE Kind[s] = "Fork"
  BY <1>2, <1>6 DEF StructuredChart
<1>7. CASE /\ Kind[s] = "Concurrent" => k > Len(Regions[s])
           /\ IsHistory(s) => Recorded(s, k) = {}
           /\ Return(TRUE) /\ Quiet
  <2>1. Enters(md, Top) = {}
    BY <1>1, <1>7 DEF Enters, Recorded, RecordedAt, Depth
  <2>2. Kind[s] = "Concurrent" => k \notin DOMAIN Regions[s]
    <3>1. Regions[s] \in Seq(States)
      BY <1>2, ChartAssumption
    <3>2. DOMAIN Regions[s] = 1 .. Len(Regions[s]) /\ Len(Regions[s]) \in Nat
      BY <3>1
    <3> QED BY <1>2, <1>7, <3>2
  <2>3. Idle(md, Top)
    BY <1>1, <2>1, <2>2 DEF Idle
  <2> QED BY <1>1, <1>7, <2>3, Popped DEF Return, Quiet
<1> QED BY <1>3, <1>4, <1>5, <1>6, <1>7 DEF Entered

(***************************************************************************)
(* What a history pseudo-state records (calculateHistoryChain).            *)
(***************************************************************************)
LEMMA LeastIndex ==
    ASSUME NEW S, S \subseteq Nat, S # {}
    PROVE  \E n \in S : \A m \in S : n <= m
<1> DEFINE less == OpToRel(<, Nat)
<1>1. IsWellFoundedOn(less, Nat)
  BY NatLessThanWellFounded
<1>2. \A m, n \in Nat : m < n => <<m, n>> \in less
  BY DEF OpToRel
<1> HIDE DEF less
<1>3. PICK n \in S : \A m \in S : <<m, n>> \notin less
  BY <1>1, WFMin
<1>4. \A m \in S : ~(m < n)
  BY <1>2, <1>3
<1> QED BY <1>4

\* The states a deep history records: their paths follow the current states
\* from the topmost one.
LEMMA ChainPath ==
    ASSUME NEW m, NEW state \in States, NEW d \in HistoryChain(m, state, "DeepHistory")
    PROVE  /\ d \in States /\ Above(state, d)
           /\ Depth(state) \in 1 .. Depth(d) /\ Path[d][Depth(state)] = state
           /\ \A i \in Depth(state) .. Depth(d) - 1 :
                 Kind[Path[d][i]] = "Hierarchical" /\ m.current[Path[d][i]] = Path[d][i + 1]
<1>1. state # Null
  BY ChartAssumption
<1>2. /\ d \in States /\ Depth(state) \in DOMAIN Path[d] /\ Path[d][Depth(state)] = state
      /\ \A i \in Depth(state) .. Depth(d) - 1 :
            IsKind(Path[d][i], "Hierarchical") /\ m.current[Path[d][i]] = Path[d][i + 1]
  BY <1>1 DEF HistoryChain, Depth
<1>3. DOMAIN Path[d] = 1 .. Depth(d)
  BY <1>2, PathEnd
<1> QED BY <1>2, <1>3 DEF Above, ElementsOf, IsKind

LEMMA ChainUnique ==
    ASSUME NEW m, NEW state \in States,
           NEW d \in HistoryChain(m, state, "DeepHistory"),
           NEW e \in HistoryChain(m, state, "DeepHistory"), Depth(d) = Depth(e)
    PROVE  d = e
<1> DEFINE top == Depth(state)
           n == Depth(d)
           T == {i \in top .. n : Path[d][i] # Path[e][i]}
<1>1. /\ d \in States /\ e \in States /\ top \in 1 .. n /\ n \in Nat
      /\ Path[d][top] = state /\ Path[e][top] = state
      /\ \A i \in top .. n - 1 : m.current[Path[d][i]] = Path[d][i + 1]
      /\ \A i \in top .. n - 1 : m.current[Path[e][i]] = Path[e][i + 1]
  BY ChainPath, PathEnd
<1>2. Path[d][n] = d /\ Path[e][n] = e
  BY <1>1, PathEnd
<1> HIDE DEF top, n
<1>3. ASSUME T # {} PROVE FALSE
  <2>1. T \subseteq Nat
    BY <1>1
  <2>2. PICK i \in T : \A j \in T : i <= j
    BY <1>3, <2>1, LeastIndex
  <2>3. i # top
    BY <1>1, <2>2
  <2>4. PICK j \in top .. n - 1 : i = j + 1
    BY <1>1, <2>2, <2>3
  <2>5. j \notin T /\ j \in top .. n
    BY <1>1, <2>2, <2>4
  <2>6. Path[d][j] = Path[e][j]
    BY <2>5
  <2>7. Path[d][j + 1] = Path[e][j + 1]
    BY <1>1, <2>4, <2>6
  <2> QED BY <2>2, <2>4, <2>7
<1>4. n \in top .. n
  BY <1>1
<1> QED BY <1>2, <1>3, <1>4

\* A chain recorded below h: one state per level.
LEMMA ChainOK ==
    ASSUME NEW m, NEW h \in States, NEW state \in States \ {Root}, Parent[state] = h,
           NEW kind \in HistoryKinds,
           NEW chain, chain = HistoryChain(m, state, kind), NEW d \in chain
    PROVE  /\ d \in States /\ Inside(d, h)
           /\ Depth(d) > Depth(state) =>
                 Parent[d] \in chain /\ Kind[Parent[d]] = "Hierarchical"
<1>1. Inside(state, h) /\ Depth(state) \in Nat /\ state # Null
  BY ParentPath, ChartAssumption DEF Inside
<1>2. CASE kind = "History"
  <2>1. chain = {state}
    BY <1>1, <1>2 DEF HistoryChain
  <2> QED BY <1>1, <2>1
<1>3. CASE kind = "DeepHistory"
  <2>1. /\ d \in States /\ Above(state, d)
        /\ Depth(state) \in 1 .. Depth(d) /\ Path[d][Depth(state)] = state
        /\ \A i \in Depth(state) .. Depth(d) - 1 :
              Kind[Path[d][i]] = "Hierarchical" /\ m.current[Path[d][i]] = Path[d][i + 1]
    BY <1>3, ChainPath
  <2>2. Inside(d, h)
    BY <1>1, <2>1, InsideOrder
  <2>3. ASSUME Depth(d) > Depth(state)
        PROVE  Parent[d] \in chain /\ Kind[Parent[d]] = "Hierarchical"
    <3>1. d # Root /\ Depth(d) \in Nat
      BY <2>1, <2>2, PathEnd, RootPath
    <3>2. /\ Parent[d] \in States /\ Depth(Parent[d]) = Depth(d) - 1
          /\ Above(Parent[d], d)
      BY <2>1, <3>1, ParentPath
    <3>3. Path[d][Depth(d) - 1] = Parent[d]
      BY <2>1, <3>2, AboveDepth
    <3>4. Depth(d) - 1 \in Depth(state) .. Depth(d) - 1 /\ Depth(d) - 1 \in 1 .. Depth(d)
      BY <1>1, <2>1, <2>3, <3>1
    <3>5. Kind[Parent[d]] = "Hierarchical"
      BY <2>1, <3>3, <3>4
    <3>6. \A i \in 1 .. Depth(d) - 1 : Path[Parent[d]][i] = Path[d][i]
      BY <2>1, <3>3, <3>4, PathIndex
    <3>7. DOMAIN Path[Parent[d]] = 1 .. Depth(d) - 1
      BY <3>2, PathEnd
    <3>8. /\ Depth(state) \in DOMAIN Path[Parent[d]]
          /\ Path[Parent[d]][Depth(state)] = state
      BY <1>1, <2>1, <2>3, <3>1, <3>6, <3>7
    <3>9. ASSUME NEW i \in Depth(state) .. Depth(Parent[d]) - 1
          PROVE  /\ IsKind(Path[Parent[d]][i], "Hierarchical")
                 /\ m.current[Path[Parent[d]][i]] = Path[Parent[d]][i + 1]
      <4>1. i \in 1 .. Depth(d) - 1 /\ i + 1 \in 1 .. Depth(d) - 1
            /\ i \in Depth(state) .. Depth(d) - 1
        BY <1>1, <2>1, <3>1, <3>2
      <4>2. Path[Parent[d]][i] = Path[d][i] /\ Path[Parent[d]][i + 1] = Path[d][i + 1]
        BY <3>6, <4>1
      <4>3. Path[d][i] \in States
        BY <2>1, <3>1, <4>1, PathEnd
      <4>4. Path[d][i] # Null
        BY <4>3, ChartAssumption
      <4> QED BY <2>1, <4>1, <4>2, <4>4 DEF IsKind
    <3>10. Parent[d] \in chain
      BY <1>1, <1>3, <3>2, <3>8, <3>9 DEF HistoryChain, Depth
    <3> QED BY <3>5, <3>10
  <2> QED BY <2>1, <2>2, <2>3
<1> QED BY <1>2, <1>3 DEF HistoryKinds

OnePerLevel(chain, state) ==
    \A d \in chain :
       /\ d \in States /\ Inside(d, Parent[state])
       /\ Depth(d) > Depth(state) =>
             Parent[d] \in chain /\ Kind[Parent[d]] = "Hierarchical"
       /\ \A e \in chain : Depth(d) = Depth(e) => d = e

LEMMA ChainLevels ==
    ASSUME NEW m, NEW state \in States \ {Root}, NEW kind \in HistoryKinds
    PROVE  OnePerLevel(HistoryChain(m, state, kind), state)
<1> DEFINE chain == HistoryChain(m, state, kind)
           h == Parent[state]
<1>1. h \in States /\ Parent[state] = h /\ chain = HistoryChain(m, state, kind)
  BY ParentPath
<1> HIDE DEF chain, h
<1>2. ASSUME NEW d \in chain
      PROVE  /\ d \in States /\ Inside(d, h)
             /\ Depth(d) > Depth(state) => Parent[d] \in chain /\ Kind[Parent[d]] = "Hierarchical"
             /\ \A e \in chain : Depth(d) = Depth(e) => d = e
  <2>1. d \in States /\ Inside(d, h)
    BY <1>1, <1>2, ChainOK
  <2>2. ASSUME Depth(d) > Depth(state)
        PROVE  Parent[d] \in chain /\ Kind[Parent[d]] = "Hierarchical"
    BY <1>1, <1>2, <2>2, ChainOK
  <2>3. ASSUME NEW e \in chain, Depth(d) = Depth(e) PROVE d = e
    <3>1. CASE kind = "History"
      <4>1. state # Null
        BY ChartAssumption
      <4>2. chain = {state}
        BY <1>1, <3>1, <4>1 DEF HistoryChain
      <4> QED BY <1>2, <2>3, <4>2
    <3>2. CASE kind = "DeepHistory"
      <4>1. /\ d \in HistoryChain(m, state, "DeepHistory")
            /\ e \in HistoryChain(m, state, "DeepHistory")
        BY <1>1, <1>2, <2>3, <3>2
      <4> QED BY <2>3, <4>1, ChainUnique
    <3> QED BY <3>1, <3>2 DEF HistoryKinds
  <2> QED BY <2>1, <2>2, <2>3
<1> QED BY <1>2 DEF OnePerLevel, chain, h

(***************************************************************************)
(* Leaving a state.                                                        *)
(***************************************************************************)
\* Nothing depends on what a history has recorded while it is not entered.
LEMMA SameConfiguration ==
    ASSUME NEW m, NEW n, NEW q, Configured(m, q),
           n.present = m.present, n.active = m.active, n.current = m.current,
           \A g \in ElementsOf(q) : Enters(n, g) = Enters(m, g),
           StatesetsOK(n)
    PROVE  Configured(n, q)
<1> DEFINE G == ElementsOf(q)
<1>1. /\ MapCond(m, G) /\ \A f \in G : FrameCond(m, G, f)
      /\ \A f \in G : Enters(n, f) = Enters(m, f)
  BY DEF Configured
<1> HIDE DEF G
<1>2. \A g \in G : \A h : Repairs(n, g, h) <=> Repairs(m, g, h)
  BY <1>1 DEF Repairs, EntersChild
<1>3. MapCond(n, G)
  <2>1. RecordsOK(n) /\ ContextsOK(n) /\ CurrentOK(n) /\ RegionsActive(n, G)
    BY <1>1 DEF MapCond, RecordsOK, ContextsOK, CurrentOK, RegionsActive
  <2>2. CurrentActive(n, G)
    BY <1>1, <1>2 DEF MapCond, CurrentActive
  <2> QED BY <2>1, <2>2 DEF MapCond
<1>4. ASSUME NEW f \in G PROVE FrameCond(n, G, f)
  <2>1. LeavingOK(n, G, f)
    BY <1>1, <1>2 DEF FrameCond, LeavingOK
  <2>2. SubstatesFirst(n, G, f) /\ EnteringOK(n, G, f) /\ CallOK(n, f)
    BY <1>1 DEF FrameCond, SubstatesFirst, EnteringOK, CallOK
  <2> QED BY <2>1, <2>2 DEF FrameCond
<1>5. Ordered(n, q)
  <2>1. SUFFICES ASSUME NEW i \in DOMAIN q, NEW j \in DOMAIN q, i < j
                 PROVE  MayRunAbove(n, q[i], q[j])
    BY DEF Ordered
  <2>2. MayRunAbove(m, q[i], q[j]) /\ q[j] \in G
    BY <2>1 DEF Configured, Ordered, G, ElementsOf
  <2> QED BY <1>1, <2>2, SameOrder
<1> QED BY <1>3, <1>4, <1>5 DEF Configured, G

\* HierarchicalState::deactivate records the history before anything is left.
LEMMA StoreKeeps ==
    ASSUME StructuredChart, Inv, Configured(md, agenda), agenda # <<>>,
           Top.op = "deactivate", Kind[Top.x] = "Hierarchical",
           HistoryState[Top.x] # Null
    PROVE  LET n == StoreHistory(md, HistoryState[Top.x]) IN
           /\ Configured(n, agenda)
           /\ n.active = md.active /\ n.current = md.current
<1> DEFINE h == Top.x
           history == HistoryState[h]
           n == StoreHistory(md, history)
           chain == HistoryChain(md, md.current[h], Kind[history])
           G == ElementsOf(agenda)
<1>1. /\ h \in States /\ G = {Top} \cup ElementsOf(Tail(agenda))
      /\ \A g \in ElementsOf(Tail(agenda)) :
            g \in Task /\ FrameOK(g) /\ MayRunAbove(md, Top, g)
  BY TopCall DEF FrameOK
<1>2. /\ history \in States \ {Root} /\ Parent[history] = h /\ IsHistory(history)
      /\ Kind[history] \in HistoryKinds
  <2>1. history \in States /\ Parent[history] = h /\ IsHistory(history)
    BY <1>1, ChartStructure DEF ChildrenOf
  <2> QED BY <1>1, <2>1, ChartAssumption DEF IsHistory
<1>3. CASE history \notin md.present
  BY <1>3 DEF StoreHistory
<1>4. CASE history \in md.present
  <2>1. md \in RuntimeMap /\ MapOK(md) /\ md.stateset \in [States -> SUBSET States]
    BY Base
  <2>2. n = [md EXCEPT !.stateset[history] = chain]
    BY <1>2, <1>4 DEF StoreHistory
  <2>3. /\ n.present = md.present /\ n.active = md.active /\ n.current = md.current
        /\ n.stateset[history] = chain
        /\ \A s \in States : s # history => n.stateset[s] = md.stateset[s]
    BY <1>2, <2>1, <2>2 DEF RuntimeMap
  <2> HIDE DEF n, chain, G
  <2>4. ASSUME NEW g \in G PROVE Enters(n, g) = Enters(md, g)
    <3>1. CASE g.op = "entered" /\ g.x = history
      <4>1. g # Top /\ MayRunAbove(md, Top, g)
        BY <1>1, <3>1
      <4>2. PICK c \in States : Inside(c, h) /\ RunsInside(Top, c)
        BY <1>2, <3>1, <4>1 DEF MayRunAbove, AboveEntered
      <4>3. Inside(h, c)
        BY <4>2 DEF RunsInside
      <4> QED BY <1>1, <4>2, <4>3, InsideOrder
    <3>2. CASE g.op # "entered" \/ g.x # history
      <4>1. g.op = "entered" => g.x \in States
        BY <1>1 DEF FrameOK
      <4> QED BY <2>3, <3>2, <4>1, SameRecords
    <3> QED BY <3>1, <3>2
  <2>5. HistoryOK(n, history)
    <3>1. CASE md.current[h] = Null
      <4>1. chain = {}
        BY <3>1 DEF chain, HistoryChain
      <4> QED BY <2>3, <4>1 DEF HistoryOK
    <3>2. CASE md.current[h] # Null
      <4>1. md.current[h] \in States /\ Parent[md.current[h]] = h
        BY <1>1, <2>1, <3>2 DEF MapOK, RuntimeMap, OrNull
      <4>2. md.current[h] # Root
        BY <1>1, <4>1, ChartAssumption
      <4>3. Depth(history) = Depth(md.current[h])
        BY <1>2, <4>1, <4>2, ChildDepth
      <4>4. \A d \in chain :
               /\ d \in States /\ Inside(d, h)
               /\ Depth(d) > Depth(history) =>
                     Parent[d] \in chain /\ Kind[Parent[d]] = "Hierarchical"
               /\ \A e \in chain : Depth(d) = Depth(e) => d = e
        <5>1. OnePerLevel(HistoryChain(md, md.current[h], Kind[history]), md.current[h])
          BY <1>2, <4>1, <4>2, ChainLevels
        <5>2. OnePerLevel(chain, md.current[h])
          BY <5>1 DEF chain
        <5> QED BY <4>1, <4>3, <5>2 DEF OnePerLevel
      <4> QED BY <1>2, <2>3, <4>4 DEF HistoryOK
    <3> QED BY <3>1, <3>2
  <2>6. StatesetsOK(n)
    <3>1. StatesetsOK(md)
      BY DEF Configured, MapCond
    <3>2. Kind[history] # "Concurrent"
      BY <1>2 DEF HistoryKinds
    <3>3. \A s \in States : s # history => (HistoryOK(md, s) => HistoryOK(n, s))
      BY <2>3 DEF HistoryOK
    <3> QED BY <2>3, <2>5, <3>1, <3>2, <3>3 DEF StatesetsOK
  <2>7. Configured(n, agenda)
    BY <2>3, <2>4, <2>6, SameConfiguration DEF G
  <2> QED BY <2>3, <2>7 DEF n
<1> QED BY <1>3, <1>4

\* What leaves a substate may run wherever what leaves its context may.
LEMMA LeavesBelow ==
    ASSUME NEW m, NEW f, NEW g, NEW h,
           f.op \in {"deactivate", "leave"}, h.op \in {"deactivate", "leave"},
           f.x \in States, h.x \in States, Above(f.x, h.x),
           g \in Task, FrameOK(g), MayRunAbove(m, f, g)
    PROVE  MayRunAbove(m, h, g)
<1>1. AboveLeaving(h, g)
  <2>1. SUFFICES ASSUME g.op \in {"deactivate", "leave"}, Inside(g.x, h.x) PROVE FALSE
    BY DEF AboveLeaving
  <2>2. g.x \in States
    BY <2>1 DEF FrameOK
  <2>3. Inside(g.x, f.x)
    BY <2>1, <2>2, InsideOrder
  <2> QED BY <2>1, <2>3 DEF MayRunAbove, AboveLeaving
<1>2. AboveEntering(m, h, g)
  <2>1. Depth(f.x) \in 1 .. Depth(h.x) /\ Depth(h.x) \in Nat
    BY AboveDepth, PathEnd
  <2>2. SUFFICES ASSUME NEW s \in Enters(m, g) PROVE Depth(h.x) >= Depth(s)
    BY DEF AboveEntering
  <2>3. Depth(f.x) >= Depth(s)
    BY <2>2 DEF MayRunAbove, AboveEntering
  <2>4. CASE Depth(s) \in Nat
    BY <2>1, <2>3, <2>4
  <2>5. Depth(s) \in Nat
    BY DEF Depth
  <2> QED BY <2>4, <2>5
<1>3. AboveEntered(h, g)
  <2>1. \A c : RunsInside(f, c) => RunsInside(h, c)
    BY InsideOrder DEF RunsInside
  <2>2. g.op = "entered" /\ IsHistory(g.x) =>
           \E c \in States : /\ Kind[c] = "Concurrent" /\ Inside(c, Parent[g.x])
                             /\ RunsInside(f, c)
    BY DEF MayRunAbove, AboveEntered
  <2> QED BY <2>1, <2>2 DEF MayRunAbove, AboveEntered
<1> QED BY <1>1, <1>2, <1>3 DEF MayRunAbove

\* The order of the remaining calls when the top one is over.
LEMMA TailOrdered ==
    ASSUME Inv, Configured(md, agenda), agenda # <<>>
    PROVE  Ordered(md, Tail(agenda))
<1>1. agenda \in Seq(Task) /\ <<>> \in Seq(Task) /\ <<>> \o Tail(agenda) = Tail(agenda)
      /\ Ordered(md, <<>>) /\ ElementsOf(<<>>) = {}
  BY Base DEF Ordered, ElementsOf
<1> QED BY <1>1, OrderedPush DEF Configured

\* What a call that leaves a state promises.
LEMMA LeavingTop ==
    ASSUME Inv, Configured(md, agenda), agenda # <<>>, Top.op \in {"deactivate", "leave"}
    PROVE  /\ Top \in Task /\ Top.x \in States \ {Root} /\ Enters(md, Top) = {}
           /\ Parent[Top.x] \in States
           /\ ElementsOf(agenda) = {Top} \cup ElementsOf(Tail(agenda))
           /\ MapCond(md, ElementsOf(agenda))
           /\ \A f \in ElementsOf(agenda) : FrameCond(md, ElementsOf(agenda), f)
           /\ \A g \in ElementsOf(Tail(agenda)) :
                 g \in Task /\ FrameOK(g) /\ MayRunAbove(md, Top, g)
           /\ \A c, k : ~StartsRegion(Top, c, k)
           /\ \A h : Repairs(md, Top, h) <=> h = Top.x
           /\ \A c : Exits(Top, c) <=> c = Top.x
<1>1. /\ Top \in Task /\ Top.x \in States \ {Root}
      /\ ElementsOf(agenda) = {Top} \cup ElementsOf(Tail(agenda))
      /\ \A g \in ElementsOf(Tail(agenda)) :
            g \in Task /\ FrameOK(g) /\ MayRunAbove(md, Top, g)
  BY TopCall DEF FrameOK
<1>2. Enters(md, Top) = {}
  BY DEF Enters
<1>3. Parent[Top.x] \in States
  BY <1>1, ParentPath
<1> QED BY <1>1, <1>2, <1>3 DEF Configured, StartsRegion, Repairs, EntersChild, Exits

\* A state that is not active any more is not left again.
LEMMA LostExit ==
    ASSUME StructuredChart, Inv, Configured(md, agenda), agenda # <<>>,
           Top.op \in {"deactivate", "leave"}, Top.x \notin md.active
    PROVE  Configured(md, Tail(agenda))
<1> DEFINE x == Top.x
           G == ElementsOf(agenda)
           R == ElementsOf(Tail(agenda))
<1>1. /\ x \in States \ {Root} /\ Parent[x] \in States
      /\ G = {Top} \cup R
      /\ MapCond(md, G) /\ \A f \in G : FrameCond(md, G, f)
      /\ \A g \in R : g \in Task /\ FrameOK(g) /\ MayRunAbove(md, Top, g)
      /\ \A c, k : ~StartsRegion(Top, c, k)
      /\ \A h : Repairs(md, Top, h) <=> h = x
      /\ \A c : Exits(Top, c) <=> c = x
      /\ Top.op # "activate" /\ x \notin md.active
  BY LeavingTop
<1> HIDE DEF x, G, R
<1>2. MapCond(md, R)
  <2>1. CurrentActive(md, R)
    <3>1. SUFFICES ASSUME NEW h \in States, OrState(h), md.current[h] # Null,
                          md.current[h] \notin md.active
                   PROVE  \E g \in R : Repairs(md, g, h)
      BY DEF CurrentActive
    <3>2. PICK g \in G : Repairs(md, g, h)
      BY <1>1, <3>1 DEF MapCond, CurrentActive
    <3>3. h \in md.active
      BY <1>1, <3>1, CurrentContexts
    <3> QED BY <1>1, <3>2, <3>3
  <2>2. RegionsActive(md, R)
    BY <1>1 DEF MapCond, RegionsActive
  <2> QED BY <1>1, <2>1, <2>2 DEF MapCond
<1>3. ASSUME NEW g \in R PROVE FrameCond(md, R, g)
  <2>1. FrameCond(md, G, g)
    BY <1>1
  <2>2. LeavingOK(md, R, g)
    <3>1. SUFFICES ASSUME g.op \in {"deactivate", "leave"}
                   PROVE  \E f \in R : \/ Exits(f, Parent[g.x])
                                       \/ OrState(Parent[g.x]) /\ Repairs(md, f, Parent[g.x])
      BY DEF LeavingOK
    <3>2. PICK f \in G : \/ Exits(f, Parent[g.x])
                         \/ OrState(Parent[g.x]) /\ Repairs(md, f, Parent[g.x])
      BY <2>1, <3>1 DEF FrameCond, LeavingOK
    <3>3. g.x \in States \ {Root} /\ ~Inside(g.x, x)
      BY <1>1, <3>1 DEF FrameOK, MayRunAbove, AboveLeaving, x
    <3>4. Parent[g.x] # x
      BY <3>3, ParentPath, PathEnd, <1>1
    <3> QED BY <1>1, <3>2, <3>4
  <2>3. SubstatesFirst(md, R, g)
    BY <1>1, <2>1 DEF FrameCond, SubstatesFirst
  <2>4. EnteringOK(md, R, g)
    <3>1. EnteringOK(md, G, g)
      BY <2>1 DEF FrameCond
    <3>2. \A c \in md.active : (\E f \in G : Exits(f, c)) => \E f \in R : Exits(f, c)
      BY <1>1
    <3>3. \A c : (\E f \in G : f.op = "activate" /\ f.x = c) =>
                    \E f \in R : f.op = "activate" /\ f.x = c
      BY <1>1
    <3> QED BY <3>1, <3>2, <3>3 DEF EnteringOK
  <2> QED BY <2>1, <2>2, <2>3, <2>4 DEF FrameCond
<1> QED BY <1>2, <1>3, TailOrdered DEF Configured, R

LEMMA CallPair ==
    ASSUME NEW m, NEW f \in Task, NEW g \in Task, MayRunAbove(m, f, g)
    PROVE  /\ <<f, g>> \in Seq(Task) /\ ElementsOf(<<f, g>>) = {f, g}
           /\ Ordered(m, <<f, g>>)
<1> DEFINE s == <<f, g>>
<1>1. s \in Seq(Task) /\ DOMAIN s = {1, 2} /\ s[1] = f /\ s[2] = g
  OBVIOUS
<1> HIDE DEF s
<1>2. ElementsOf(s) = {f, g}
  BY <1>1 DEF ElementsOf
<1>3. ASSUME NEW i \in DOMAIN s, NEW j \in DOMAIN s, i < j PROVE MayRunAbove(m, s[i], s[j])
  <2>1. i = 1 /\ j = 2
    BY <1>1, <1>3
  <2> QED BY <1>1, <2>1
<1> QED BY <1>1, <1>2, <1>3 DEF s, Ordered

LEMMA CallSingle ==
    ASSUME NEW m, NEW f \in Task
    PROVE  /\ <<f>> \in Seq(Task) /\ ElementsOf(<<f>>) = {f} /\ Ordered(m, <<f>>)
<1> DEFINE s == <<f>>
<1>1. s \in Seq(Task) /\ DOMAIN s = {1} /\ s[1] = f
  OBVIOUS
<1> HIDE DEF s
<1> QED BY <1>1 DEF s, ElementsOf, Ordered

\* HierarchicalState::deactivate leaves the current substate, then itself.
LEMMA LeavePushed ==
    ASSUME StructuredChart, Inv, Configured(md, agenda), agenda # <<>>,
           Top.op = "deactivate", Kind[Top.x] = "Hierarchical",
           NEW n, n.active = md.active, n.current = md.current, Configured(n, agenda)
    PROVE  /\ md.current[Top.x] = Null =>
                 Configured(n, <<Call("leave", Top.x)>> \o Tail(agenda))
           /\ md.current[Top.x] # Null =>
                 Configured(n, <<Call("deactivate", md.current[Top.x]),
                                 Call("leave", Top.x)>> \o Tail(agenda))
<1> DEFINE h == Top.x
           state == md.current[h]
           leave == Call("leave", h)
           inner == Call("deactivate", state)
           G == ElementsOf(agenda)
           R == ElementsOf(Tail(agenda))
<1>1. /\ Top \in Task /\ h \in States \ {Root} /\ G = {Top} \cup R
      /\ agenda \in Seq(Task) /\ n.active \subseteq States /\ OrState(h)
  BY LeavingTop, Base DEF OrState
<1>2. /\ MapCond(n, G) /\ \A f \in G : FrameCond(n, G, f)
      /\ \A g \in R : g \in Task /\ FrameOK(g) /\ MayRunAbove(n, Top, g)
  <2>1. \A g \in R : MayRunAbove(n, Top, g)
    BY <1>1, OrderedTop DEF Configured, Top
  <2>2. \A g \in R : g \in Task /\ FrameOK(g)
    BY TopCall
  <2> QED BY <2>1, <2>2 DEF Configured
<1>3. leave \in Task /\ leave.op = "leave" /\ leave.x = h
  BY <1>1, CallOne DEF Ops
<1> HIDE DEF leave, G, R
<1>4. Enters(n, Top) = {} /\ Enters(n, leave) = {}
  BY <1>3 DEF Enters
<1>5. ASSUME NEW H, leave \in H, R \subseteq H
      PROVE  /\ Covers(n, Top, H) /\ LeavingOK(n, H, leave)
             /\ EnteringOK(n, H, leave) /\ CallOK(n, leave)
  <2>1. Covers(n, Top, H)
    BY <1>3, <1>4, <1>5 DEF Covers, Exits, StartsRegion
  <2>2. FrameCond(n, H, Top)
    <3>1. G \subseteq H \cup {Top} /\ FrameCond(n, G, Top)
      BY <1>1, <1>2, <1>5
    <3> QED BY <2>1, <3>1, CoverFrame
  <2>3. LeavingOK(n, H, leave)
    BY <1>3, <2>2 DEF FrameCond, LeavingOK
  <2> QED BY <1>3, <1>4, <2>1, <2>3 DEF EnteringOK, CallOK, CompositeOps
<1>6. \A g \in R : MayRunAbove(n, leave, g)
  <2>1. Above(h, h)
    BY <1>1, PathEnd
  <2> QED BY <1>1, <1>2, <1>3, <2>1, LeavesBelow
<1>7. ASSUME NEW c \in n.active, Solid(c), c # Root, Parent[c] = h
      PROVE  state = c /\ state # Null
  <2>1. state = c
    BY <1>1, <1>2, <1>7 DEF MapCond, CurrentOK
  <2>2. c # Null
    BY <1>1, ChartAssumption
  <2> QED BY <2>1, <2>2
<1>8. ASSUME state = Null
      PROVE  Configured(n, <<leave>> \o Tail(agenda))
  <2> DEFINE H == {leave} \cup R
  <2>1. /\ Covers(n, Top, H) /\ LeavingOK(n, H, leave)
        /\ EnteringOK(n, H, leave) /\ CallOK(n, leave)
    BY <1>5
  <2>2. SubstatesFirst(n, H, leave)
    BY <1>3, <1>7, <1>8 DEF SubstatesFirst
  <2>3. FrameCond(n, H, leave)
    BY <2>1, <2>2 DEF FrameCond
  <2>4. <<leave>> \in Seq(Task) /\ ElementsOf(<<leave>>) = {leave} /\ Ordered(n, <<leave>>)
    BY <1>3, CallSingle
  <2> QED BY <1>1, <1>6, <2>1, <2>3, <2>4, CoverStep DEF R, Top
<1>9. ASSUME state # Null
      PROVE  Configured(n, <<inner, leave>> \o Tail(agenda))
  <2> DEFINE H == {inner, leave} \cup R
  <2>1. state \in States \ {Root} /\ Parent[state] = h
    BY <1>1, <1>9, CurrentContexts DEF Configured
  <2>2. inner \in Task /\ inner.op = "deactivate" /\ inner.x = state
    BY <2>1, CallOne DEF Ops
  <2>3. Above(h, state) /\ Inside(state, h)
    BY <2>1, ParentPath, <1>1, PathEnd
  <2> HIDE DEF inner, state
  <2>4. /\ Covers(n, Top, H) /\ LeavingOK(n, H, leave)
        /\ EnteringOK(n, H, leave) /\ CallOK(n, leave)
    BY <1>5
  <2>5. SubstatesFirst(n, H, leave)
    <3>1. ASSUME NEW c \in n.active, Solid(c), c # Root, Parent[c] = h
          PROVE  \E g \in H : Exits(g, c)
      BY <1>7, <2>2, <3>1 DEF Exits
    <3> QED BY <1>3, <3>1 DEF SubstatesFirst
  <2>6. FrameCond(n, H, leave)
    BY <2>4, <2>5 DEF FrameCond
  <2>7. FrameCond(n, H, inner)
    <3>1. Exits(leave, Parent[state])
      BY <1>3, <2>1 DEF Exits
    <3>2. LeavingOK(n, H, inner)
      BY <2>2, <3>1 DEF LeavingOK
    <3>3. Enters(n, inner) = {}
      BY <2>2 DEF Enters
    <3> QED BY <2>2, <3>2, <3>3 DEF FrameCond, SubstatesFirst, EnteringOK, CallOK, CompositeOps
  <2>8. MayRunAbove(n, inner, leave)
    <3>1. ~Inside(h, state)
      BY <2>1, <2>3, InsideOrder
    <3> QED BY <1>3, <1>4, <2>2, <3>1
            DEF MayRunAbove, AboveLeaving, AboveEntering, AboveEntered
  <2>9. \A g \in R : MayRunAbove(n, inner, g)
    BY <1>1, <1>2, <2>1, <2>2, <2>3, LeavesBelow
  <2>10. /\ <<inner, leave>> \in Seq(Task) /\ ElementsOf(<<inner, leave>>) = {inner, leave}
         /\ Ordered(n, <<inner, leave>>)
    BY <1>3, <2>2, <2>8, CallPair
  <2> QED BY <1>1, <1>6, <2>4, <2>6, <2>7, <2>9, <2>10, CoverStep DEF R, Top
<1> QED BY <1>8, <1>9 DEF leave

LEMMA DeactivateHierarchicalStep ==
    ASSUME StructuredChart, Inv, Configured(md, agenda), DeactivateHierarchical
    PROVE  Configured(md', agenda')
<1> DEFINE h == Top.x
<1>1. agenda # <<>> /\ Top.op = "deactivate" /\ Kind[h] = "Hierarchical"
  BY DEF DeactivateHierarchical, Running, Top
<1>2. CASE h \notin md.active /\ Push(<<>>) /\ Quiet
  <2>1. agenda' = <<>> \o Tail(agenda) /\ md' = md
    BY <1>2 DEF Push, Quiet
  <2>2. <<>> \o Tail(agenda) = Tail(agenda)
    BY <1>1, Base
  <2>3. Configured(md, Tail(agenda))
    BY <1>1, <1>2, LostExit
  <2> QED BY <2>1, <2>2, <2>3
<1>3. CASE /\ md' = IF StoresHistory(h) THEN StoreHistory(md, HistoryState[h]) ELSE md
           /\ Push(IF md.current[h] = Null THEN <<Call("leave", h)>>
                   ELSE <<Call("deactivate", md.current[h]), Call("leave", h)>>)
  <2>1. md'.active = md.active /\ md'.current = md.current /\ Configured(md', agenda)
    <3>1. CASE StoresHistory(h)
      <4>1. HistoryState[h] # Null
        BY <3>1 DEF StoresHistory
      <4> QED BY <1>1, <1>3, <3>1, <4>1, StoreKeeps
    <3>2. CASE ~StoresHistory(h)
      BY <1>3, <3>2
    <3> QED BY <3>1, <3>2
  <2>2. /\ md.current[h] = Null =>
              Configured(md', <<Call("leave", h)>> \o Tail(agenda))
        /\ md.current[h] # Null =>
              Configured(md', <<Call("deactivate", md.current[h]),
                                Call("leave", h)>> \o Tail(agenda))
    BY <1>1, <2>1, LeavePushed
  <2> QED BY <1>3, <2>2 DEF Push
<1> QED BY <1>2, <1>3 DEF DeactivateHierarchical

\* ConcurrentState::deactivate leaves every region, then the and-state.
RegionCalls(c) == CallEach("deactivate", Regions[c]) \o <<Call("leave", c)>>

LEMMA RegionCallsOK ==
    ASSUME NEW c \in States
    PROVE  /\ RegionCalls(c) \in Seq(Task)
           /\ Regions[c] \in Seq(States) /\ Len(Regions[c]) \in Nat
           /\ DOMAIN Regions[c] = 1 .. Len(Regions[c])
           /\ DOMAIN RegionCalls(c) = 1 .. Len(Regions[c]) + 1
           /\ \A i \in 1 .. Len(Regions[c]) :
                 RegionCalls(c)[i].op = "deactivate" /\ RegionCalls(c)[i].x = Regions[c][i]
           /\ RegionCalls(c)[Len(Regions[c]) + 1].op = "leave"
           /\ RegionCalls(c)[Len(Regions[c]) + 1].x = c
<1> DEFINE D == Regions[c]
           exits == CallEach("deactivate", D)
           last == <<Call("leave", c)>>
           q == RegionCalls(c)
<1>1. D \in Seq(States) /\ D \in Seq(States \cup Trans) /\ Len(D) \in Nat
      /\ DOMAIN D = 1 .. Len(D)
  <2>1. D \in Seq(States)
    BY ChartAssumption
  <2> QED BY <2>1
<1>2. "deactivate" \in Ops /\ "leave" \in Ops
  BY DEF Ops
<1>3. /\ exits \in Seq(Task) /\ Len(exits) = Len(D)
      /\ \A i \in 1 .. Len(D) : exits[i] = Call("deactivate", D[i])
  BY <1>1, <1>2, CallEachOK
<1>4. Call("leave", c) \in Task /\ Call("leave", c).op = "leave" /\ Call("leave", c).x = c
  BY <1>2, CallOne
<1>5. \A i \in 1 .. Len(D) : /\ Call("deactivate", D[i]).op = "deactivate"
                            /\ Call("deactivate", D[i]).x = D[i]
  BY DEF Call, Do
<1>6. last \in Seq(Task) /\ Len(last) = 1 /\ last[1] = Call("leave", c)
  BY <1>4
<1>7. q = exits \o last
  BY DEF RegionCalls
<1> HIDE DEF exits, last, q, D
<1>8. /\ q \in Seq(Task) /\ Len(q) = Len(D) + 1
      /\ \A i \in 1 .. Len(D) + 1 : q[i] = IF i <= Len(D) THEN exits[i] ELSE last[i - Len(D)]
  <2>1. /\ exits \o last \in Seq(Task)
        /\ Len(exits \o last) = Len(exits) + Len(last)
        /\ \A i \in 1 .. Len(exits) + Len(last) :
              (exits \o last)[i] = IF i <= Len(exits) THEN exits[i] ELSE last[i - Len(exits)]
    BY <1>3, <1>6, ConcatProperties
  <2> QED BY <1>3, <1>6, <1>7, <2>1
<1>9. /\ DOMAIN q = 1 .. Len(D) + 1
      /\ \A i \in 1 .. Len(D) : q[i] = Call("deactivate", D[i])
  BY <1>1, <1>3, <1>8
<1>10. q[Len(D) + 1] = last[1]
  <2>1. PICK i \in 1 .. Len(D) + 1 : i = Len(D) + 1
    BY <1>1
  <2>2. ~(i <= Len(D)) /\ i - Len(D) = 1
    BY <1>1, <2>1
  <2> QED BY <1>8, <2>1, <2>2
<1>11. /\ \A i \in 1 .. Len(D) : q[i].op = "deactivate" /\ q[i].x = D[i]
       /\ q[Len(D) + 1].op = "leave" /\ q[Len(D) + 1].x = c
  BY <1>4, <1>5, <1>6, <1>9, <1>10
<1> QED BY <1>1, <1>8, <1>9, <1>11 DEF q, D

LEMMA RegionsPushed ==
    ASSUME StructuredChart, Inv, Configured(md, agenda), agenda # <<>>,
           Top.op = "deactivate", Kind[Top.x] = "Concurrent"
    PROVE  Configured(md, RegionCalls(Top.x) \o Tail(agenda))
<1> DEFINE c == Top.x
           D == Regions[c]
           q == RegionCalls(c)
           leave == q[Len(D) + 1]
           G == ElementsOf(agenda)
           R == ElementsOf(Tail(agenda))
           H == ElementsOf(q) \cup R
<1>1. /\ Top \in Task /\ c \in States \ {Root} /\ G = {Top} \cup R
      /\ agenda \in Seq(Task) /\ md.active \subseteq States
      /\ \A f \in G : FrameCond(md, G, f)
      /\ \A g \in R : g \in Task /\ FrameOK(g) /\ MayRunAbove(md, Top, g)
  BY LeavingTop, Base
<1>2. /\ q \in Seq(Task)
      /\ D \in Seq(States) /\ Len(D) \in Nat /\ DOMAIN D = 1 .. Len(D)
      /\ DOMAIN q = 1 .. Len(D) + 1
      /\ \A i \in 1 .. Len(D) : q[i].op = "deactivate" /\ q[i].x = D[i]
      /\ leave.op = "leave" /\ leave.x = c
  BY <1>1, RegionCallsOK
<1>3. \A i \in 1 .. Len(D) : /\ D[i] \in States \ {Root} /\ Parent[D[i]] = c
                            /\ Above(c, D[i]) /\ Inside(D[i], c)
                            /\ Depth(D[i]) = Depth(c) + 1
  <2>1. ASSUME NEW i \in 1 .. Len(D)
        PROVE  /\ D[i] \in States \ {Root} /\ Parent[D[i]] = c
               /\ Above(c, D[i]) /\ Inside(D[i], c) /\ Depth(D[i]) = Depth(c) + 1
    <3>1. D[i] \in ChildrenOf(c)
      BY <1>1, <1>2, ChartStructure DEF ElementsOf
    <3>2. D[i] \in States /\ Parent[D[i]] = c /\ D[i] # Root
      BY <1>1, <3>1, ChartAssumption DEF ChildrenOf
    <3> QED BY <1>1, <3>2, ParentPath, ChildDepth, PathEnd
  <2> QED BY <2>1
<1>4. /\ Len(D) + 1 \in DOMAIN q /\ \A i \in 1 .. Len(D) : i \in DOMAIN q
      /\ \A i \in DOMAIN q : i \in 1 .. Len(D) \/ i = Len(D) + 1
  BY <1>2
<1>5. /\ leave \in H /\ \A i \in 1 .. Len(D) : q[i] \in H
      /\ \A f \in ElementsOf(q) : f = leave \/ \E i \in 1 .. Len(D) : f = q[i]
      /\ R \subseteq H
  BY <1>4 DEF ElementsOf
<1> HIDE DEF q, leave, G, R, H
<1>6. Covers(md, Top, H)
  BY <1>2, <1>5 DEF Covers, Exits, Enters, StartsRegion
<1>7. FrameCond(md, H, Top)
  <2>1. G \subseteq H \cup {Top} /\ FrameCond(md, G, Top)
    BY <1>1, <1>5
  <2> QED BY <1>6, <2>1, CoverFrame
<1>8. FrameCond(md, H, leave)
  <2>1. LeavingOK(md, H, leave)
    BY <1>2, <1>7 DEF FrameCond, LeavingOK
  <2>2. SubstatesFirst(md, H, leave)
    <3>1. ASSUME NEW s \in md.active, s # Root, Parent[s] = c PROVE \E g \in H : Exits(g, s)
      <4>1. s \in ElementsOf(D)
        BY <1>1, <3>1, Family
      <4>2. PICK i \in 1 .. Len(D) : s = D[i]
        BY <1>2, <4>1 DEF ElementsOf
      <4> QED BY <1>2, <1>5, <4>2 DEF Exits
    <3> QED BY <1>2, <3>1 DEF SubstatesFirst
  <2> QED BY <1>2, <2>1, <2>2 DEF FrameCond, EnteringOK, CallOK, CompositeOps, Enters
<1>9. ASSUME NEW i \in 1 .. Len(D) PROVE FrameCond(md, H, q[i])
  <2>1. Exits(leave, Parent[D[i]])
    BY <1>2, <1>3 DEF Exits
  <2>2. LeavingOK(md, H, q[i])
    BY <1>2, <1>5, <2>1 DEF LeavingOK
  <2> QED BY <1>2, <2>2 DEF FrameCond, SubstatesFirst, EnteringOK, CallOK, CompositeOps, Enters
<1>10. Ordered(md, q)
  <2>1. SUFFICES ASSUME NEW i \in DOMAIN q, NEW j \in DOMAIN q, i < j
                 PROVE  MayRunAbove(md, q[i], q[j])
    BY DEF Ordered
  <2>2. i \in 1 .. Len(D)
    BY <1>2, <2>1
  <2>3. Depth(c) \in Nat /\ c \in States
    BY <1>1, PathEnd
  <2>4. CASE j \in 1 .. Len(D)
    <3>1. Depth(D[i]) = Depth(c) + 1 /\ Depth(D[j]) = Depth(c) + 1
      BY <1>3, <2>2, <2>4
    <3>2. ~Inside(D[j], D[i])
      BY <1>3, <2>2, <2>3, <2>4, <3>1, InsideOrder
    <3> QED BY <1>2, <2>2, <2>4, <3>2
            DEF MayRunAbove, AboveLeaving, AboveEntering, AboveEntered, Enters
  <2>5. CASE q[j] = leave
    <3>1. ~Inside(c, D[i])
      BY <1>3, <2>2, <2>3, InsideOrder
    <3> QED BY <1>2, <2>2, <2>5, <3>1
            DEF MayRunAbove, AboveLeaving, AboveEntering, AboveEntered, Enters
  <2> QED BY <1>4, <2>4, <2>5 DEF leave
<1>11. ASSUME NEW f \in ElementsOf(q), NEW g \in R PROVE MayRunAbove(md, f, g)
  <2>1. CASE f = leave
    <3>1. Above(c, c)
      BY <1>1, PathEnd
    <3> QED BY <1>1, <1>2, <2>1, <3>1, LeavesBelow
  <2>2. CASE \E i \in 1 .. Len(D) : f = q[i]
    <3>1. PICK i \in 1 .. Len(D) : f = q[i]
      BY <2>2
    <3>2. f.op = "deactivate" /\ f.x \in States /\ Above(c, f.x)
      BY <1>2, <1>3, <3>1
    <3> QED BY <1>1, <3>2, LeavesBelow
  <2> QED BY <1>5, <2>1, <2>2
<1>12. \A f \in ElementsOf(q) : FrameCond(md, H, f)
  BY <1>5, <1>8, <1>9
<1>13. Configured(md, q \o Tail(agenda))
  BY <1>1, <1>2, <1>6, <1>10, <1>11, <1>12, CoverStep DEF R, H, Top
<1> QED BY <1>13 DEF q

LEMMA DeactivateConcurrentStep ==
    ASSUME StructuredChart, Inv, Configured(md, agenda), DeactivateConcurrent
    PROVE  Configured(md', agenda')
<1>1. /\ agenda # <<>> /\ Top.op = "deactivate" /\ Kind[Top.x] = "Concurrent"
      /\ md' = [md EXCEPT !.stateset[Top.x] = {}]
      /\ agenda' = RegionCalls(Top.x) \o Tail(agenda)
  BY DEF DeactivateConcurrent, Running, Top, Push, RegionCalls
<1>2. Top.x \in States
  BY <1>1, LeavingTop
<1>3. md \in RuntimeMap /\ md.stateset \in [States -> SUBSET States]
  BY Base
<1>4. md.stateset[Top.x] = {}
  BY <1>1, <1>2 DEF Configured, MapCond, StatesetsOK
<1>5. [md.stateset EXCEPT ![Top.x] = {}] = md.stateset
  BY <1>2, <1>3, <1>4
<1>6. md' = [md EXCEPT !.stateset = [md.stateset EXCEPT ![Top.x] = {}]]
  BY <1>1
<1>7. md' = md
  BY <1>3, <1>5, <1>6 DEF RuntimeMap
<1> QED BY <1>1, <1>7, RegionsPushed

\* On the way from a state down to one inside it there is a child of it.
LEMMA ChildBetween ==
    ASSUME NEW c \in States, NEW x \in States, Inside(c, x)
    PROVE  \E b \in States \ {Root} : Parent[b] = x /\ Above(b, c)
<1>1. Depth(x) \in 1 .. Depth(c) /\ Path[c][Depth(x)] = x /\ Depth(x) # Depth(c)
  BY AboveDepth DEF Inside
<1>2. Depth(c) \in Nat
  BY PathEnd
<1>3. PICK i \in 1 .. Depth(c) : i = Depth(x) + 1
  BY <1>1, <1>2
<1>4. Depth(x) < i /\ i - 1 = Depth(x)
  BY <1>1, <1>2, <1>3
<1>5. /\ Path[c][i] \in States \ {Root} /\ Parent[Path[c][i]] = Path[c][i - 1]
      /\ Above(Path[c][i], c)
  BY <1>1, <1>4, PathStep
<1> QED BY <1>1, <1>4, <1>5

LEMMA MdDeactivateFields ==
    ASSUME NEW m \in RuntimeMap, NEW s \in m.present
    PROVE  LET n == MdDeactivate(m, s) IN
           /\ n.active = m.active \ {s}
           /\ IsHistory(s) => /\ n.present = m.present /\ n.current = m.current
                              /\ n.stateset = m.stateset
           /\ ~IsHistory(s) => /\ n.present = m.present \ {s}
                               /\ n.current[s] = Null /\ n.stateset[s] = {}
           /\ \A y \in States \ {s} :
                 n.current[y] = m.current[y] /\ n.stateset[y] = m.stateset[y]
<1>1. s \in States
  BY DEF RuntimeMap
<1> QED BY <1>1 DEF MdDeactivate, RuntimeMap

\* When a state is left, its substates have been.
LEMMA NothingInside ==
    ASSUME StructuredChart, Inv, Configured(md, agenda), agenda # <<>>,
           \/ Top.op = "leave"
           \/ Top.op = "deactivate" /\ Kind[Top.x] \notin {"Hierarchical", "Concurrent"},
           NEW c \in md.active, Solid(c)
    PROVE  ~Inside(c, Top.x)
<1> DEFINE x == Top.x
           G == ElementsOf(agenda)
           R == ElementsOf(Tail(agenda))
<1>1. /\ x \in States \ {Root} /\ G = {Top} \cup R
      /\ FrameCond(md, G, Top)
      /\ \A g \in R : FrameOK(g) /\ MayRunAbove(md, Top, g)
  BY LeavingTop
<1>2. ContextsOK(md) /\ md.active \subseteq States
  BY Base DEF Configured, MapCond
<1> HIDE DEF G, R
<1>3. ASSUME NEW b \in md.active, b # Root, Solid(b), Parent[b] = x PROVE FALSE
  <2>1. b \in States \ {Root} /\ Inside(b, x)
    BY <1>1, <1>2, <1>3, ParentPath, PathEnd
  <2>2. CASE Top.op = "leave"
    <3>1. PICK g \in G : Exits(g, b)
      BY <1>1, <1>3, <2>2 DEF FrameCond, SubstatesFirst
    <3>2. b # x
      BY <2>1 DEF Inside
    <3>3. g \in R
      BY <1>1, <3>1, <3>2 DEF Exits
    <3> QED BY <1>1, <2>1, <2>2, <3>1, <3>3 DEF Exits, MayRunAbove, AboveLeaving
  <2>3. CASE Top.op = "deactivate" /\ Kind[x] \notin {"Hierarchical", "Concurrent"}
    <3>1. Kind[x] \in {"Statechart", "Hierarchical", "Concurrent"}
      BY <1>3, <2>1, ChartPaths
    <3> QED BY <1>1, <2>3, <3>1, ChartPaths
  <2> QED BY <2>2, <2>3
<1>4. ASSUME Inside(c, x) PROVE FALSE
  <2>1. PICK b \in States \ {Root} : Parent[b] = x /\ Above(b, c)
    BY <1>1, <1>2, <1>4, ChildBetween
  <2>2. b \in md.active
    BY <1>2, <2>1 DEF ContextsOK
  <2>3. Solid(b)
    <3>1. CASE b = c
      BY <3>1
    <3>2. CASE b # c
      <4>1. PICK d \in States \ {Root} : Parent[d] = b
        BY <1>2, <2>1, <3>2, ChildBetween DEF Inside
      <4> QED BY <4>1, Family
    <3> QED BY <3>1, <3>2
  <2> QED BY <1>3, <2>1, <2>2, <2>3
<1> QED BY <1>4

\* State::deactivate on an active state: the runtime map.
LEMMA LeaveMap ==
    ASSUME StructuredChart, Inv, Configured(md, agenda), agenda # <<>>,
           Top.op \in {"deactivate", "leave"}, Top.x \in md.active,
           \A c \in md.active : Solid(c) => ~Inside(c, Top.x),
           NEW n, n = MdDeactivate(md, Top.x), NEW H, ElementsOf(Tail(agenda)) \subseteq H
    PROVE  MapCond(n, H)
<1> DEFINE x == Top.x
           G == ElementsOf(agenda)
           R == ElementsOf(Tail(agenda))
<1>1. /\ x \in States \ {Root} /\ Parent[x] \in States /\ Parent[x] # x
      /\ G = {Top} \cup R
      /\ MapCond(md, G) /\ LeavingOK(md, G, Top)
      /\ \A c, k : ~StartsRegion(Top, c, k)
      /\ \A h : Repairs(md, Top, h) <=> h = x
      /\ \A c : Exits(Top, c) <=> c = x
  BY LeavingTop, ParentPath DEF FrameCond
<1>2. /\ md.active \subseteq States /\ md \in RuntimeMap /\ x \in md.present
      /\ MapOK(md)
  BY Base
<1>3. /\ n.active = md.active \ {x}
      /\ IsHistory(x) => /\ n.present = md.present /\ n.current = md.current
                         /\ n.stateset = md.stateset
      /\ ~IsHistory(x) => /\ n.present = md.present \ {x}
                          /\ n.current[x] = Null /\ n.stateset[x] = {}
      /\ \A y \in States \ {x} :
            n.current[y] = md.current[y] /\ n.stateset[y] = md.stateset[y]
  BY <1>2, MdDeactivateFields
<1>4. /\ RecordsOK(md) /\ ContextsOK(md) /\ CurrentOK(md) /\ StatesetsOK(md)
      /\ CurrentActive(md, G) /\ RegionsActive(md, G)
  BY <1>1 DEF MapCond
<1>5. \E g \in G : g # Top /\ Repairs(md, g, Parent[x])
                   /\ (Kind[Parent[x]] = "Concurrent" => Exits(g, Parent[x]))
  <2>1. PICK g \in G : \/ Exits(g, Parent[x])
                       \/ OrState(Parent[x]) /\ Repairs(md, g, Parent[x])
    BY <1>1 DEF LeavingOK
  <2>2. Repairs(md, g, Parent[x])
    BY <2>1 DEF Repairs
  <2>3. Kind[Parent[x]] = "Concurrent" => Exits(g, Parent[x])
    BY <2>1 DEF OrState
  <2> QED BY <1>1, <2>2, <2>3
<1>6. \A c \in md.active : Solid(c) => ~Inside(c, x)
  OBVIOUS
<1> HIDE DEF x, G, R
<1>7. \A g \in R : \A h : Repairs(n, g, h) <=> Repairs(md, g, h)
  <2>1. \A g \in R : (g.op = "entered" /\ IsHistory(g.x)) => g.x \in States
    BY LeavingTop DEF FrameOK, R
  <2>2. \A g \in R : Enters(n, g) = Enters(md, g)
    BY <1>3, <2>1, SameRecords
  <2> QED BY <2>2 DEF Repairs, EntersChild
<1>8. RecordsOK(n)
  <2>1. \A s \in n.present : s \in n.active \/ IsHistory(s)
    BY <1>3, <1>4 DEF RecordsOK
  <2>2. ASSUME NEW s \in States \ n.present PROVE n.current[s] = Null
    BY <1>2, <1>3, <1>4, <2>2 DEF RecordsOK
  <2> QED BY <2>1, <2>2 DEF RecordsOK
<1>9. ContextsOK(n)
  <2>1. SUFFICES ASSUME NEW s \in n.active, Solid(s), NEW a \in States, Above(a, s)
                 PROVE  a \in n.active
    BY DEF ContextsOK
  <2>2. s \in md.active /\ s # x /\ a \in md.active
    BY <1>3, <1>4, <2>1 DEF ContextsOK
  <2>3. a # x
    BY <1>6, <2>1, <2>2 DEF Inside
  <2> QED BY <1>3, <2>2, <2>3
<1>10. CurrentOK(n)
  <2>1. SUFFICES ASSUME NEW s \in n.active, Solid(s), s # Root, OrState(Parent[s])
                 PROVE  n.current[Parent[s]] = s
    BY DEF CurrentOK
  <2>2. s \in md.active /\ s \in States \ {Root}
    BY <1>2, <1>3, <2>1
  <2>3. md.current[Parent[s]] = s
    BY <1>4, <2>1, <2>2 DEF CurrentOK
  <2>4. Parent[s] \in States /\ Inside(s, Parent[s])
    BY <2>2, ParentPath, PathEnd
  <2>5. Parent[s] # x
    BY <1>6, <2>1, <2>2, <2>4
  <2> QED BY <1>3, <2>3, <2>4, <2>5
<1>11. StatesetsOK(n)
  <2>1. ASSUME NEW s \in States, Kind[s] = "Concurrent" PROVE n.stateset[s] = {}
    <3>1. ~IsHistory(s) /\ md.stateset[s] = {}
      BY <1>4, <2>1 DEF StatesetsOK, IsHistory, HistoryKinds
    <3> QED BY <1>3, <3>1
  <2>2. ASSUME NEW s \in States, IsHistory(s) PROVE HistoryOK(n, s)
    <3>1. n.stateset[s] = md.stateset[s] /\ HistoryOK(md, s)
      BY <1>3, <1>4, <2>2 DEF StatesetsOK
    <3> QED BY <3>1 DEF HistoryOK
  <2> QED BY <2>1, <2>2 DEF StatesetsOK
<1>12. CurrentActive(n, H)
  <2>1. SUFFICES ASSUME NEW h \in States, OrState(h), n.current[h] # Null,
                        n.current[h] \notin n.active
                 PROVE  \E g \in R : Repairs(md, g, h)
    BY <1>7 DEF CurrentActive, R
  <2>2. h # x
    <3>1. ~IsHistory(h)
      BY <2>1 DEF OrState, IsHistory, HistoryKinds
    <3> QED BY <1>3, <2>1, <3>1
  <2>3. n.current[h] = md.current[h]
    BY <1>3, <2>2
  <2>4. CASE md.current[h] \in md.active
    <3>1. md.current[h] = x
      BY <1>3, <2>1, <2>3, <2>4
    <3>2. Parent[x] = h
      BY <1>2, <2>1, <2>3, <3>1 DEF MapOK
    <3> QED BY <1>1, <1>5, <3>2
  <2>5. CASE md.current[h] \notin md.active
    <3>1. PICK g \in G : Repairs(md, g, h)
      BY <1>4, <2>1, <2>3, <2>5 DEF CurrentActive
    <3> QED BY <1>1, <2>2, <3>1
  <2> QED BY <2>4, <2>5
<1>13. RegionsActive(n, H)
  <2>1. SUFFICES ASSUME NEW c \in n.active, Kind[c] = "Concurrent",
                        NEW k \in DOMAIN Regions[c], Regions[c][k] \notin n.active
                 PROVE  \E g \in R : StartsRegion(g, c, k) \/ Exits(g, c)
    BY DEF RegionsActive, R
  <2>2. c \in md.active /\ c # x
    BY <1>3, <2>1
  <2>3. CASE Regions[c][k] \in md.active
    <3>1. Regions[c][k] = x
      BY <1>3, <2>1, <2>3
    <3>2. Regions[c][k] \in ChildrenOf(c)
      BY <1>2, <2>1, <2>2, ChartStructure DEF ElementsOf
    <3>3. Parent[x] = c
      BY <3>1, <3>2 DEF ChildrenOf
    <3> QED BY <1>1, <1>5, <2>1, <3>3
  <2>4. CASE Regions[c][k] \notin md.active
    <3>1. PICK g \in G : StartsRegion(g, c, k) \/ Exits(g, c)
      BY <1>4, <2>1, <2>2, <2>4 DEF RegionsActive
    <3> QED BY <1>1, <2>2, <3>1
  <2> QED BY <2>3, <2>4
<1> QED BY <1>8, <1>9, <1>10, <1>11, <1>12, <1>13 DEF MapCond

\* ... and the calls that remain.
LEMMA LeaveFrames ==
    ASSUME StructuredChart, Inv, Configured(md, agenda), agenda # <<>>,
           Top.op \in {"deactivate", "leave"}, Top.x \in md.active,
           NEW n, n = MdDeactivate(md, Top.x), NEW H, ElementsOf(Tail(agenda)) \subseteq H,
           NEW g \in ElementsOf(Tail(agenda))
    PROVE  FrameCond(n, H, g) /\ Enters(n, g) = Enters(md, g)
<1> DEFINE x == Top.x
           G == ElementsOf(agenda)
           R == ElementsOf(Tail(agenda))
<1>1. /\ x \in States \ {Root} /\ G = {Top} \cup R
      /\ g \in R /\ FrameCond(md, G, g) /\ g \in Task /\ FrameOK(g)
      /\ MayRunAbove(md, Top, g) /\ Top.op # "activate"
      /\ \A h : Repairs(md, Top, h) <=> h = x
      /\ \A c : Exits(Top, c) <=> c = x
  BY LeavingTop
<1>2. md.active \subseteq States /\ md \in RuntimeMap /\ x \in md.present
  BY Base
<1>3. /\ n.active = md.active \ {x}
      /\ IsHistory(x) => n.stateset = md.stateset
      /\ \A y \in States \ {x} : n.stateset[y] = md.stateset[y]
  BY <1>2, MdDeactivateFields
<1>4. \A f \in R : Enters(n, f) = Enters(md, f)
  <2>1. \A f \in R : (f.op = "entered" /\ IsHistory(f.x)) => f.x \in States
    BY LeavingTop DEF FrameOK
  <2> QED BY <1>3, <2>1, SameRecords
<1>5. \A f \in R : \A h : Repairs(n, f, h) <=> Repairs(md, f, h)
  BY <1>4 DEF Repairs, EntersChild
<1> HIDE DEF x, G, R
<1>6. LeavingOK(n, H, g)
  <2>1. SUFFICES ASSUME g.op \in {"deactivate", "leave"}
                 PROVE  \E f \in R : \/ Exits(f, Parent[g.x])
                                     \/ OrState(Parent[g.x]) /\ Repairs(n, f, Parent[g.x])
    BY DEF LeavingOK, R
  <2>2. PICK f \in G : \/ Exits(f, Parent[g.x])
                       \/ OrState(Parent[g.x]) /\ Repairs(md, f, Parent[g.x])
    BY <1>1, <2>1 DEF FrameCond, LeavingOK
  <2>3. g.x \in States \ {Root} /\ ~Inside(g.x, x)
    BY <1>1, <2>1 DEF FrameOK, MayRunAbove, AboveLeaving, x
  <2>4. Parent[g.x] # x
    BY <1>1, <2>3, ParentPath, PathEnd
  <2> QED BY <1>1, <1>5, <2>2, <2>4
<1>7. SubstatesFirst(n, H, g)
  <2>1. SUFFICES ASSUME g.op = "leave", NEW c \in n.active, Solid(c), c # Root, Parent[c] = g.x
                 PROVE  \E f \in R : Exits(f, c)
    BY DEF SubstatesFirst, R
  <2>2. c \in md.active /\ c # x
    BY <1>3, <2>1
  <2>3. PICK f \in G : Exits(f, c)
    BY <1>1, <2>1, <2>2 DEF FrameCond, SubstatesFirst
  <2> QED BY <1>1, <2>2, <2>3
<1>8. EnteringOK(n, H, g)
  <2>1. SUFFICES ASSUME NEW s \in Enters(md, g) \ {Root}
                 PROVE  /\ \/ Parent[s] \in n.active
                           \/ \E f \in R : f.op = "activate" /\ f.x = Parent[s]
                        /\ OrState(Parent[s]) =>
                              \A c \in n.active :
                                 (Solid(c) /\ c # Root /\ Parent[c] = Parent[s]) =>
                                     \/ c = s /\ IsPseudo(s)
                                     \/ \E f \in R : Exits(f, c)
    BY <1>1, <1>4 DEF EnteringOK, R
  <2>2. s \in States \ {Root}
    BY <1>1, <1>2, <2>1, EntersStates
  <2>3. Parent[s] # x
    <3>1. Depth(x) >= Depth(s)
      BY <1>1, <2>1 DEF MayRunAbove, AboveEntering, x
    <3>2. Depth(s) = Depth(Parent[s]) + 1 /\ Depth(Parent[s]) \in Nat
      BY <2>2, ChildDepth
    <3> QED BY <3>1, <3>2
  <2>4. EnteringOK(md, G, g)
    BY <1>1 DEF FrameCond
  <2>5. \/ Parent[s] \in md.active
        \/ \E f \in G : f.op = "activate" /\ f.x = Parent[s]
    BY <2>1, <2>4 DEF EnteringOK
  <2>6. \/ Parent[s] \in n.active
        \/ \E f \in R : f.op = "activate" /\ f.x = Parent[s]
    BY <1>1, <1>3, <2>3, <2>5
  <2>7. ASSUME OrState(Parent[s]), NEW c \in n.active, Solid(c), c # Root, Parent[c] = Parent[s]
        PROVE  (c = s /\ IsPseudo(s)) \/ \E f \in R : Exits(f, c)
    <3>1. c \in md.active /\ c # x
      BY <1>3, <2>7
    <3>2. (c = s /\ IsPseudo(s)) \/ \E f \in G : Exits(f, c)
      BY <2>1, <2>4, <2>7, <3>1 DEF EnteringOK
    <3> QED BY <1>1, <3>1, <3>2
  <2> QED BY <2>6, <2>7
<1>9. CallOK(n, g)
  <2>1. ASSUME g.op = "entered", Kind[g.x] = "Concurrent" PROVE g.x \in n.active
    <3>1. g.x \in md.active
      BY <1>1, <2>1 DEF FrameCond, CallOK
    <3>2. Inside(x, g.x)
      BY <1>1, <2>1 DEF MayRunAbove, AboveEntered, RunsInside, x
    <3> QED BY <1>3, <3>1, <3>2 DEF Inside
  <2> QED BY <1>1, <2>1 DEF FrameCond, CallOK
<1> QED BY <1>1, <1>4, <1>6, <1>7, <1>8, <1>9 DEF FrameCond

LEMMA Left ==
    ASSUME StructuredChart, Inv, Configured(md, agenda), agenda # <<>>,
           \/ Top.op = "leave"
           \/ Top.op = "deactivate" /\ Kind[Top.x] \notin {"Hierarchical", "Concurrent"},
           Top.x \in md.active, NEW n, n = MdDeactivate(md, Top.x)
    PROVE  Configured(n, <<Call("exit", Top.x)>> \o Tail(agenda))
<1> DEFINE x == Top.x
           exit == Call("exit", x)
           R == ElementsOf(Tail(agenda))
           H == {exit} \cup R
<1>1. /\ x \in States \ {Root} /\ agenda \in Seq(Task)
      /\ \A g \in R : MayRunAbove(md, Top, g)
      /\ Top.op \in {"deactivate", "leave"}
  BY LeavingTop, Base
<1>2. exit \in Task /\ exit.op = "exit" /\ exit.x = x
  BY <1>1, CallOne DEF Ops
<1> HIDE DEF exit
<1>3. /\ <<exit>> \in Seq(Task) /\ ElementsOf(<<exit>>) = {exit} /\ Ordered(n, <<exit>>)
  BY <1>2, CallSingle
<1>4. ElementsOf(<<exit>> \o Tail(agenda)) = H
  <2> DEFINE s == <<exit>>
  <2>1. s \in Seq(Task) /\ ElementsOf(s) = {exit}
    BY <1>3
  <2> HIDE DEF s
  <2>2. ElementsOf(s \o Tail(agenda)) = ElementsOf(s) \cup ElementsOf(Tail(agenda))
    BY <1>1, <2>1, PushFrames
  <2> QED BY <2>1, <2>2 DEF s
<1>5. \A g \in R : FrameCond(n, H, g) /\ Enters(n, g) = Enters(md, g)
  BY <1>1, LeaveFrames
<1>6. MapCond(n, H)
  <2>1. \A c \in md.active : Solid(c) => ~Inside(c, Top.x)
    BY NothingInside
  <2>2. R \subseteq H
    OBVIOUS
  <2> HIDE DEF H
  <2> QED BY <1>1, <2>1, <2>2, LeaveMap
<1>7. FrameCond(n, H, exit)
  BY <1>2, NeutralFacts DEF CompositeCall, CompositeOps
<1>8. \A g \in R : MayRunAbove(n, exit, g)
  <2>1. ASSUME NEW g \in R PROVE MayRunAbove(md, exit, g)
    <3>1. \A c : RunsInside(Top, c) <=> RunsInside(exit, c)
      BY <1>1, <1>2 DEF RunsInside
    <3>2. AboveEntered(Top, g)
      BY <1>1, <2>1 DEF MayRunAbove
    <3>3. AboveEntered(exit, g)
      BY <1>1, <3>1, <3>2 DEF AboveEntered
    <3> QED BY <1>2, <3>3 DEF MayRunAbove, AboveLeaving, AboveEntering
  <2> QED BY <1>5, <2>1, SameOrder
<1>9. Ordered(n, <<exit>> \o Tail(agenda))
  <2>1. \A f, g \in ElementsOf(Tail(agenda)) : MayRunAbove(md, f, g) => MayRunAbove(n, f, g)
    BY <1>5, SameOrder
  <2> QED BY <1>1, <1>3, <1>8, <2>1, OrderedPush DEF Configured
<1>10. \A f \in H : FrameCond(n, H, f)
  BY <1>5, <1>7
<1> QED BY <1>4, <1>6, <1>9, <1>10 DEF Configured, exit

LEMMA LeaveStep ==
    ASSUME StructuredChart, Inv, Configured(md, agenda), Leave
    PROVE  Configured(md', agenda')
<1>1. /\ agenda # <<>>
      /\ \/ Top.op = "leave"
         \/ Top.op = "deactivate" /\ Kind[Top.x] \notin {"Hierarchical", "Concurrent"}
  BY DEF Leave, Running, Top
<1>2. CASE Top.x \notin md.active /\ Push(<<>>) /\ UNCHANGED <<md, ret>>
  <2>1. agenda' = <<>> \o Tail(agenda) /\ md' = md
    BY <1>2 DEF Push
  <2>2. <<>> \o Tail(agenda) = Tail(agenda)
    BY <1>1, Base
  <2>3. Configured(md, Tail(agenda))
    BY <1>1, <1>2, LostExit
  <2> QED BY <2>1, <2>2, <2>3
<1>3. CASE /\ Top.x \in md.active /\ md' = MdDeactivate(md, Top.x)
           /\ Push(<<Call("exit", Top.x)>>)
  BY <1>1, <1>3, Left DEF Push
<1> QED BY <1>2, <1>3 DEF Leave

\* The entry action, the do action or the exit action of a state, or the
\* action of a transition, returns.
LEMMA RunActionStep ==
    ASSUME StructuredChart, Inv, Configured(md, agenda), RunAction
    PROVE  Configured(md', agenda')
<1>1. agenda # <<>> /\ Top.op \in {"call", "exit"} /\ Push(<<>>) /\ md' = md
  BY DEF RunAction, Running, Top
<1>2. Idle(md, Top)
  BY <1>1, NeutralFacts
<1>3. agenda' = Tail(agenda)
  <2>1. <<>> \o Tail(agenda) = Tail(agenda)
    BY <1>1, Base
  <2> QED BY <1>1, <2>1 DEF Push
<1> QED BY <1>1, <1>2, <1>3, Popped

(***************************************************************************)
(* The calls a user makes.                                                 *)
(***************************************************************************)
\* When all that is left is the call of the user, nothing is left half done,
\* and it may go on with any calls that do not enter or leave a state.
LEMMA BottomComplete ==
    ASSUME Inv, Configured(md, agenda), agenda # <<>>, Top.op \in BottomOps
    PROVE  /\ MapCond(md, {})
           /\ Configured(md, <<>>)
           /\ \A s \in Seq(Task) :
                 (\A i \in DOMAIN s : s[i].op \in NeutralOps /\ CompositeCall(s[i]))
                     => Configured(md, s)
<1>1. Tail(agenda) = <<>> /\ Top.op \in NeutralOps
  BY BottomAlone DEF Inv, BottomOps, NeutralOps
<1>2. md.active \subseteq States /\ agenda \in Seq(Task)
  BY Base
<1>3. MapCond(md, {})
  BY <1>1, <1>2, LastPop DEF Top
<1>4. \A s \in Seq(Task) :
         (\A i \in DOMAIN s : s[i].op \in NeutralOps /\ CompositeCall(s[i]))
             => Configured(md, s)
  BY <1>2, <1>3, NeutralStack
<1>5. <<>> \in Seq(Task) /\ DOMAIN <<>> = {}
  OBVIOUS
<1> QED BY <1>3, <1>4, <1>5

\* The call of the user dispatches to the current state of the chart, or
\* waits for the next round of the loop.
LEMMA BottomDispatches ==
    ASSUME Inv, Configured(md, agenda), agenda # <<>>, Top.op \in BottomOps,
           NEW g \in Task, g.op \in BottomOps, NEW e \in OrNull(Events),
           md' = md,
           \/ /\ md.current[Root] # Null
              /\ Push(<<Do("dispatch", md.current[Root], e, 1, FALSE), g>>)
           \/ Push(<<g>>)
    PROVE  Configured(md', agenda')
<1> DEFINE f == Do("dispatch", md.current[Root], e, 1, FALSE)
<1>1. g.op \in NeutralOps /\ CompositeCall(g)
  BY DEF BottomOps, NeutralOps, CompositeCall, CompositeOps
<1>2. CASE md.current[Root] # Null /\ Push(<<f, g>>)
  <2>1. md.current[Root] \in States
    BY <1>2, ChartAssumption, InvData, CurrentBelowRoot
  <2>2. f \in Task /\ f.op = "dispatch"
    BY <2>1, DispatchDo DEF Good
  <2> HIDE DEF f
  <2>3. /\ <<f, g>> \in Seq(Task)
        /\ \A i \in DOMAIN <<f, g>> : <<f, g>>[i] = f \/ <<f, g>>[i] = g
    BY <2>2
  <2>4. f.op \in NeutralOps /\ CompositeCall(f)
    BY <2>2 DEF NeutralOps, CompositeCall, CompositeOps
  <2>5. agenda' = <<f, g>>
    BY <1>2, <2>3, BottomPush DEF Inv
  <2>6. Configured(md, <<f, g>>)
    BY <1>1, <2>3, <2>4, BottomComplete
  <2> QED BY <2>5, <2>6
<1>3. CASE Push(<<g>>)
  <2>1. <<g>> \in Seq(Task) /\ \A i \in DOMAIN <<g>> : <<g>>[i] = g
    OBVIOUS
  <2>2. agenda' = <<g>>
    BY <1>3, <2>1, BottomPush DEF Inv
  <2>3. Configured(md, <<g>>)
    BY <1>1, <2>1, BottomComplete
  <2> QED BY <2>2, <2>3
<1> QED BY <1>2, <1>3

LEMMA DispatchChartStep ==
    ASSUME StructuredChart, Inv, Configured(md, agenda), DispatchChart
    PROVE  Configured(md', agenda')
<1> DEFINE g == Do("loop", Root, Null, 0, FALSE)
           f == Do("dispatch", md.current[Root], Top.e, 1, FALSE)
<1>1. /\ agenda # <<>> /\ Top.op \in BottomOps /\ md' = md
      /\ (md.current[Root] # Null /\ Push(<<f, g>>)) \/ Push(<<g>>)
  BY DEF DispatchChart, Running, Top, Quiet, BottomOps
<1>2. g \in Task /\ g.op \in BottomOps
  <2>1. /\ "loop" \in BottomOps /\ Null \in OrNull(Events) /\ 0 \in Nat
        /\ 0 <= Threshold /\ FALSE \in BOOLEAN
    BY ThresholdAssumption DEF BottomOps, OrNull
  <2> QED BY <2>1, BottomDo, Zenon
<1>3. Top.e \in OrNull(Events)
  BY <1>1, TopCall DEF Task
<1> HIDE DEF g
<1> QED BY <1>1, <1>2, <1>3, BottomDispatches

LEMMA LoopStep ==
    ASSUME StructuredChart, Inv, Configured(md, agenda), Loop
    PROVE  Configured(md', agenda')
<1> DEFINE k == Top.k
           rc == ResultOfEvent(k)
           current == md.current[Root]
           g == Do("loop", Root, Null, k + 1, rc)
           f == Do("dispatch", current, Null, 1, FALSE)
<1>1. agenda # <<>> /\ Top.op = "loop" /\ md' = md
  BY DEF Loop, Running, Top
<1>2. Top.op \in BottomOps /\ k \in Nat /\ rc \in BOOLEAN
  BY <1>1, TopFrame, InvData DEF Inv, BottomOps, ResultOfEvent
<1>3. CASE agenda' = <<>>
  BY <1>1, <1>2, <1>3, BottomComplete
<1>4. CASE ~(k > 0 /\ TooManySteps(k)) /\ current # Null /\ Push(<<f, g>>)
  <2>1. g \in Task /\ g.op \in BottomOps
    <3>1. k + 1 \in Nat /\ k + 1 <= Threshold
      BY <1>2, <1>4, ThresholdAssumption DEF TooManySteps
    <3>2. "loop" \in BottomOps /\ Null \in OrNull(Events)
      BY DEF BottomOps, OrNull
    <3> HIDE DEF rc
    <3> QED BY <1>2, <3>1, <3>2, BottomDo
  <2>2. Null \in OrNull(Events)
    BY DEF OrNull
  <2> HIDE DEF g
  <2> QED BY <1>1, <1>2, <1>4, <2>1, <2>2, BottomDispatches
<1>5. CASE Return(rc)
  <2>1. agenda' = <<>>
    BY <1>1, <1>2, <1>5, BottomAlone DEF Inv, Return
  <2> QED BY <1>1, <1>2, <2>1, BottomComplete
<1> QED BY <1>3, <1>4, <1>5 DEF Loop, Counted, Call

LEMMA RestoredStep ==
    ASSUME StructuredChart, Inv, Configured(md, agenda), Restored
    PROVE  Configured(md', agenda')
<1>1. /\ agenda # <<>> /\ Top.op \in BottomOps /\ md' = md
      /\ agenda' = Tail(agenda)
  BY DEF Restored, Running, Top, Return, BottomOps
<1>2. agenda' = <<>>
  BY <1>1, BottomAlone DEF Inv
<1> QED BY <1>1, <1>2, BottomComplete

\* The first thing a user does, or does after the last call has returned.
LEMMA IdleComplete ==
    ASSUME NEW m, Configured(m, <<>>)
    PROVE  MapCond(m, {})
<1>1. ElementsOf(<<>>) = {}
  BY DEF ElementsOf
<1> QED BY <1>1 DEF Configured

LEMMA DispatchEventStep ==
    ASSUME StructuredChart, Inv, Configured(md, agenda), NEW e \in Events,
           DispatchEvent(e)
    PROVE  Configured(md', agenda')
<1> DEFINE g == Do("chart", Root, e, 1, FALSE)
<1>1. agenda = <<>> /\ agenda' = <<g>> /\ md' = md
  BY DEF DispatchEvent, BeginCall
<1>2. g \in Task /\ g.op \in BottomOps
  <2>1. /\ "chart" \in BottomOps /\ e \in OrNull(Events) /\ 1 \in Nat
        /\ FALSE \in BOOLEAN /\ "chart" # "loop"
    BY DEF BottomOps, OrNull
  <2> QED BY <2>1, BottomDo, Zenon
<1> HIDE DEF g
<1>3. g.op \in NeutralOps /\ CompositeCall(g)
  BY <1>2 DEF BottomOps, NeutralOps, CompositeCall, CompositeOps
<1>4. <<g>> \in Seq(Task) /\ \A i \in DOMAIN <<g>> : <<g>>[i] = g
  BY <1>2
<1>5. MapCond(md, {}) /\ md.active \subseteq States
  BY <1>1, IdleComplete, Base
<1>6. Configured(md, <<g>>)
  BY <1>3, <1>4, <1>5, NeutralStack
<1> QED BY <1>1, <1>6

\* Nothing is active, nothing has been recorded.
LEMMA EmptyComplete ==
    /\ \A F : MapCond(EmptyMap, F)
    /\ Configured(EmptyMap, <<>>)
<1>1. /\ EmptyMap.present = {} /\ EmptyMap.active = {}
      /\ \A s \in States : EmptyMap.current[s] = Null /\ EmptyMap.stateset[s] = {}
  BY DEF EmptyMap
<1>2. RecordsOK(EmptyMap) /\ ContextsOK(EmptyMap) /\ CurrentOK(EmptyMap)
  BY <1>1 DEF RecordsOK, ContextsOK, CurrentOK
<1>3. StatesetsOK(EmptyMap)
  BY <1>1 DEF StatesetsOK, HistoryOK
<1>4. \A F : CurrentActive(EmptyMap, F) /\ RegionsActive(EmptyMap, F)
  BY <1>1 DEF CurrentActive, RegionsActive
<1>5. (\A F : MapCond(EmptyMap, F)) /\ EmptyMap.active \subseteq States
  BY <1>1, <1>2, <1>3, <1>4 DEF MapCond
<1>6. <<>> \in Seq(Task) /\ DOMAIN <<>> = {}
  OBVIOUS
<1> QED BY <1>5, <1>6, NeutralStack

\* Statechart::start activates the Statechart and its start state.
LEMMA StartedComplete ==
    ASSUME StructuredChart
    PROVE  MapCond(StartedMap, {}) /\ StartedMap.active \subseteq States
<1> DEFINE started == MdActivate(EmptyMap, Root)
           begin == StartState[Root]
           f == Call("chart", Root)
<1>1. f.op = "chart"
  BY DEF Call, Do
<1> HIDE DEF f
<1>2. \A m : Enters(m, f) = {}
  BY <1>1, NeutralFacts DEF NeutralOps
<1>3. Root \in States /\ Kind[Root] = "Statechart"
  BY ChartAssumption
<1>4. EmptyMap \in RuntimeMap /\ MapOK(EmptyMap) /\ EmptyMap.active = {}
  BY EmptyMapOK DEF EmptyMap
<1>5. started \in RuntimeMap /\ MapOK(started) /\ started.active = {Root}
  BY <1>3, <1>4, MdActivateOK, MdActivateFields
<1>6. MapCond(started, {})
  <2>1. MapCond(EmptyMap, {})
    BY EmptyComplete
  <2> QED BY <1>1, <1>2, <1>3, <1>4, <2>1, ActivateMap
<1> HIDE DEF started
<1>7. CASE begin = Null
  BY <1>3, <1>5, <1>6, <1>7 DEF StartedMap, started
<1>8. CASE begin # Null
  <2>1. begin \in States /\ Parent[begin] = Root /\ Kind[begin] = "Start"
    BY <1>3, <1>8, ChartStructure, ChartPaths DEF ChildrenOf
  <2>2. begin # Root /\ begin # Null
    BY <1>3, <1>8, <2>1
  <2>3. IsPseudo(begin) /\ Kind[begin] # "Concurrent"
    BY <2>1, <2>2, ChartAssumption DEF IsPseudo, PseudoKinds
  <2>4. \A c \in started.active : c # Root => c = begin
    BY <1>5
  <2>5. Parent[begin] \in started.active
    BY <1>5, <2>1
  <2>6. MapCond(MdActivate(started, begin), {})
    BY <1>1, <1>2, <1>5, <1>6, <2>1, <2>3, <2>4, <2>5, ActivateMap
  <2>7. MdActivate(started, begin).active \subseteq States
    BY <1>3, <1>5, <2>1, MdActivateFields
  <2> QED BY <1>8, <2>6, <2>7 DEF StartedMap, started
<1> QED BY <1>7, <1>8

LEMMA StartChartStep ==
    ASSUME StructuredChart, StartChart
    PROVE  Configured(md', agenda')
<1> DEFINE g == Call("chart", Root)
<1>1. agenda' = <<g>> /\ md' = StartedMap
  BY DEF StartChart, BeginCall
<1>2. g \in Task /\ g.op \in BottomOps
  <2>1. /\ "chart" \in BottomOps /\ Null \in OrNull(Events) /\ 1 \in Nat
        /\ FALSE \in BOOLEAN /\ "chart" # "loop"
    BY DEF BottomOps, OrNull
  <2> QED BY <2>1, BottomDo, Zenon DEF Call
<1> HIDE DEF g
<1>3. g.op \in NeutralOps /\ CompositeCall(g)
  BY <1>2 DEF BottomOps, NeutralOps, CompositeCall, CompositeOps
<1>4. <<g>> \in Seq(Task) /\ \A i \in DOMAIN <<g>> : <<g>>[i] = g
  BY <1>2
<1>5. Configured(StartedMap, <<g>>)
  BY <1>3, <1>4, StartedComplete, NeutralStack
<1> QED BY <1>1, <1>5

\* The calls restoreState makes: the contexts of the state, from the root
\* down, and the state.
RestoreCalls(s) == CallEach("activate", Path[s]) \o <<Call("restored", Root)>>

LEMMA RestoreCallsOK ==
    ASSUME NEW s \in States
    PROVE  /\ RestoreCalls(s) \in Seq(Task) /\ DOMAIN RestoreCalls(s) = 1 .. Depth(s) + 1
           /\ \A i \in 1 .. Depth(s) :
                 RestoreCalls(s)[i].op = "activate" /\ RestoreCalls(s)[i].x = Path[s][i]
           /\ RestoreCalls(s)[Depth(s) + 1].op = "restored"
<1> DEFINE enters == CallEach("activate", Path[s])
           g == Call("restored", Root)
           bottom == <<g>>
           q == RestoreCalls(s)
<1>1. /\ Path[s] \in Seq(States \cup Trans) /\ Len(Path[s]) = Depth(s)
      /\ Depth(s) \in Nat
  <2>1. Path[s] \in Seq(States) /\ Depth(s) \in Nat
    BY PathEnd
  <2> QED BY <2>1 DEF Depth
<1>2. "activate" \in Ops
  BY DEF Ops
<1>3. /\ enters \in Seq(Task) /\ Len(enters) = Depth(s)
      /\ \A i \in 1 .. Depth(s) : enters[i] = Call("activate", Path[s][i])
  BY <1>1, <1>2, CallEachOK
<1>4. g \in Task /\ g.op = "restored"
  <2>1. /\ "restored" \in BottomOps /\ Null \in OrNull(Events) /\ 1 \in Nat
        /\ FALSE \in BOOLEAN /\ "restored" # "loop"
    BY DEF BottomOps, OrNull
  <2>2. g \in Task
    BY <2>1, BottomDo, Zenon DEF Call
  <2> QED BY <2>2 DEF Call, Do
<1>5. \A x : Call("activate", x).op = "activate" /\ Call("activate", x).x = x
  BY DEF Call, Do
<1> HIDE DEF g
<1>6. bottom \in Seq(Task) /\ Len(bottom) = 1 /\ bottom[1] = g
  BY <1>4
<1>7. q = enters \o bottom
  BY DEF RestoreCalls, g
<1> HIDE DEF enters, bottom, q
<1>8. /\ q \in Seq(Task) /\ Len(q) = Depth(s) + 1
      /\ \A i \in 1 .. Depth(s) + 1 : q[i] = IF i <= Depth(s) THEN enters[i]
                                              ELSE bottom[i - Depth(s)]
  <2>1. /\ enters \o bottom \in Seq(Task)
        /\ Len(enters \o bottom) = Len(enters) + Len(bottom)
        /\ \A i \in 1 .. Len(enters) + Len(bottom) :
              (enters \o bottom)[i] = IF i <= Len(enters) THEN enters[i]
                                      ELSE bottom[i - Len(enters)]
    BY <1>3, <1>6, ConcatProperties
  <2> QED BY <1>3, <1>6, <1>7, <2>1
<1>9. \A i \in 1 .. Depth(s) : q[i] = Call("activate", Path[s][i])
  BY <1>1, <1>3, <1>8
<1>10. q[Depth(s) + 1] = g
  <2>1. PICK i \in 1 .. Depth(s) + 1 : i = Depth(s) + 1
    BY <1>1
  <2>2. ~(i <= Depth(s)) /\ i - Depth(s) = 1
    BY <1>1, <2>1
  <2> QED BY <1>6, <1>8, <2>1, <2>2
<1> QED BY <1>4, <1>5, <1>8, <1>9, <1>10 DEF q

LEMMA RestoreStateStep ==
    ASSUME StructuredChart, RestorableInOrStates, NEW s \in Restorable, RestoreState(s)
    PROVE  Configured(md', agenda')
<1> DEFINE q == RestoreCalls(s)
           H == ElementsOf(q)
<1>1. agenda' = q /\ md' = EmptyMap
  BY DEF RestoreState, BeginCall, RestoreCalls
<1>2. s \in States
  BY RestorableAssumption DEF RealStates
<1>3. /\ q \in Seq(Task) /\ DOMAIN q = 1 .. Depth(s) + 1 /\ Depth(s) \in Nat
      /\ \A i \in 1 .. Depth(s) : q[i].op = "activate" /\ q[i].x = Path[s][i]
      /\ q[Depth(s) + 1].op = "restored"
  BY <1>2, RestoreCallsOK, PathEnd
<1> HIDE DEF q
<1>4. \A i \in DOMAIN q : i \in 1 .. Depth(s) \/ i = Depth(s) + 1
  BY <1>3
<1>5. \A i \in 1 .. Depth(s) : Enters(EmptyMap, q[i]) = {Path[s][i]} /\ q[i] \in H
  <2>1. \A i \in 1 .. Depth(s) : i \in DOMAIN q
    BY <1>3
  <2> QED BY <1>3, <2>1 DEF Enters, ElementsOf
<1>6. ASSUME NEW i \in DOMAIN q PROVE FrameCond(EmptyMap, H, q[i])
  <2>1. CASE i = Depth(s) + 1
    BY <1>3, <2>1, NeutralFacts DEF NeutralOps, CompositeCall, CompositeOps
  <2>2. CASE i \in 1 .. Depth(s)
    <3>1. EnteringOK(EmptyMap, H, q[i])
      <4>1. EmptyMap.active = {}
        BY DEF EmptyMap
      <4>2. ASSUME Path[s][i] # Root
            PROVE  \E g \in H : g.op = "activate" /\ g.x = Parent[Path[s][i]]
        <5>1. i - 1 \in 1 .. Depth(s) /\ i > 1
          BY <1>2, <1>3, <2>2, <4>2, PathEnd
        <5>2. Parent[Path[s][i]] = Path[s][i - 1]
          BY <1>2, <2>2, <5>1, PathEnd, ChartPaths
        <5> QED BY <1>3, <1>5, <5>1, <5>2
      <4> QED BY <1>5, <2>2, <4>1, <4>2 DEF EnteringOK
    <3>2. q[i].op = "activate"
      BY <1>3, <2>2
    <3> HIDE DEF H
    <3> QED BY <3>1, <3>2 DEF FrameCond, LeavingOK, SubstatesFirst, CallOK, CompositeOps
  <2> QED BY <1>4, <2>1, <2>2
<1>7. ASSUME NEW i \in DOMAIN q, NEW j \in DOMAIN q, i < j
      PROVE  MayRunAbove(EmptyMap, q[i], q[j])
  <2>1. CASE j = Depth(s) + 1
    BY <1>3, <2>1, NeutralFacts DEF NeutralOps
  <2>2. CASE j \in 1 .. Depth(s)
    <3>1. i \in 1 .. Depth(s) /\ i # Depth(s)
      BY <1>3, <1>4, <1>7, <2>2
    <3>2. /\ Path[s][i] \in States /\ Depth(Path[s][i]) = i /\ Depth(Path[s][j]) = j
          /\ Above(Path[s][i], s)
      BY <1>2, <2>2, <3>1, PathEnd, PathIndex
    <3>3. OrState(Path[s][i])
      <4>1. Inside(s, Path[s][i])
        BY <3>1, <3>2 DEF Inside
      <4>2. Kind[Path[s][i]] # "Concurrent"
        BY <3>2, <4>1 DEF RestorableInOrStates
      <4>3. i + 1 \in 1 .. Depth(s) /\ i + 1 > 1 /\ (i + 1) - 1 = i
        BY <1>3, <3>1
      <4>4. Path[s][i + 1] \in States /\ Depth(Path[s][i + 1]) = i + 1
        BY <1>2, <4>3, PathEnd, PathIndex
      <4>5. Parent[Path[s][i + 1]] = Path[s][i]
        BY <1>2, <4>3, PathEnd, ChartPaths
      <4>6. Path[s][i + 1] # Root
        BY <3>1, <4>4, RootPath
      <4>7. Kind[Path[s][i]] \in {"Statechart", "Hierarchical", "Concurrent"}
        BY <4>4, <4>5, <4>6, ChartPaths
      <4> QED BY <4>2, <4>7 DEF OrState
    <3>4. AboveEntering(EmptyMap, q[i], q[j])
      BY <1>3, <1>5, <1>7, <2>2, <3>1, <3>2, <3>3 DEF AboveEntering
    <3>5. q[j].op = "activate"
      BY <1>3, <2>2
    <3> QED BY <3>4, <3>5, PlainBelow
  <2> QED BY <1>4, <2>1, <2>2
<1>8. Configured(EmptyMap, q)
  <2>1. MapCond(EmptyMap, H)
    BY EmptyComplete
  <2>2. \A f \in H : FrameCond(EmptyMap, H, f)
    <3> HIDE DEF H
    <3>1. \A f \in ElementsOf(q) : FrameCond(EmptyMap, H, f)
      BY <1>6 DEF ElementsOf
    <3> QED BY <3>1 DEF H
  <2> QED BY <1>7, <2>1, <2>2 DEF Configured, Ordered
<1> QED BY <1>1, <1>8

(***************************************************************************)
(* The invariant.                                                          *)
(***************************************************************************)
LEMMA ConfiguredStep ==
    ASSUME StructuredChart, Inv, Configured(md, agenda), Step
    PROVE  Configured(md', agenda') \/ ThrowAction
<1>1. CASE DispatchState \/ DispatchFork \/ DispatchHierarchical
           \/ DispatchSubstate \/ Bubble
  BY <1>1, DispatchStateStep, DispatchForkStep, DispatchHierarchicalStep,
     DispatchSubstateStep, BubbleStep
<1>2. CASE DispatchConcurrent \/ DispatchRegions
  BY <1>2, DispatchConcurrentStep, DispatchRegionsStep
<1>3. CASE Enter \/ Activate \/ Entered \/ RunRegion
  BY <1>3, EnterStep, ActivateStep, EnteredStep, RunRegionStep
<1>4. CASE DeactivateHierarchical \/ DeactivateConcurrent \/ Leave
  BY <1>4, DeactivateHierarchicalStep, DeactivateConcurrentStep, LeaveStep
<1>5. CASE RunAction
  BY <1>5, RunActionStep
<1>6. CASE DispatchChart \/ Loop \/ Restored
  BY <1>6, DispatchChartStep, LoopStep, RestoredStep
<1> QED BY <1>1, <1>2, <1>3, <1>4, <1>5, <1>6 DEF Step

\* Only start and restoreState, which begin with an empty Metadata, make an
\* interpreter trusted again after an exception.
LEMMA TrustedStep ==
    ASSUME Inv, Step, Trusted'
    PROVE  Trusted /\ ~ThrowAction
<1>1. CASE ThrowAction
  <2>1. tainted' = TRUE /\ Throwing # {}
    BY <1>1 DEF ThrowAction
  <2> QED BY <2>1 DEF Trusted
<1>2. CASE ~ThrowAction
  <2>1. tainted' = tainted \/ tainted' = TRUE
    BY <1>2 DEF Step, DispatchState, DispatchFork, DispatchHierarchical,
         DispatchSubstate, Bubble, DispatchConcurrent, DispatchRegions, Enter,
         Activate, Entered, RunRegion, DeactivateHierarchical,
         DeactivateConcurrent, Leave, RunAction, DispatchChart, Loop, Restored,
         FireFirst, Execute, Quiet, control
  <2> QED BY <1>2, <2>1 DEF Trusted
<1> QED BY <1>1, <1>2

LEMMA InitConfig == Init => ConfigInv
BY EmptyComplete DEF Init, ConfigInv

LEMMA NextConfig ==
    ASSUME StructuredChart, RestorableInOrStates, Inv, ConfigInv, [Next]_vars
    PROVE  ConfigInv'
<1> SUFFICES ASSUME Trusted' PROVE Configured(md', agenda')
  BY DEF ConfigInv
<1>1. CASE StartChart
  BY <1>1, StartChartStep
<1>2. CASE \E e \in Events : DispatchEvent(e)
  <2>1. PICK e \in Events : DispatchEvent(e)
    BY <1>2
  <2>2. Trusted
    BY <2>1 DEF DispatchEvent, Trusted
  <2> QED BY <2>1, <2>2, DispatchEventStep DEF ConfigInv
<1>3. CASE \E s \in Restorable : RestoreState(s)
  BY <1>3, RestoreStateStep
<1>4. CASE Step
  BY <1>4, TrustedStep, ConfiguredStep DEF ConfigInv
<1>5. CASE UNCHANGED vars
  BY <1>5 DEF vars, ConfigInv, Trusted
<1> QED BY <1>1, <1>2, <1>3, <1>4, <1>5 DEF Next, UserCall

(***************************************************************************)
(* The theorems.  They hold for every chart of the class StructuredChart,  *)
(* every Parameter, every threshold and every sequence of calls of the     *)
(* user, as long as no user action has thrown since the last start().      *)
(***************************************************************************)
\* Whatever a transition has taken apart, the calls still pending will put
\* together again: the loops of Transition::execute (Transition.cpp:113-152),
\* deactivate and activate of the composite states leave nothing half done.
THEOREM ConfigurationInvariant ==
    ASSUME StructuredChart, RestorableInOrStates
    PROVE  Spec => []ConfigInv
<1>1. Init => ConfigInv
  BY InitConfig
<1>2. Inv /\ ConfigInv /\ [Next]_vars => ConfigInv'
  BY NextConfig
<1>3. Spec => []Inv
  BY Invariant
<1> QED BY <1>1, <1>2, <1>3, PTL DEF Spec

\* At most one substate of an or-state is active, in the middle of a
\* transition as well, and it is the one currentState names (Metadata.cpp:67).
AtMostOneSubstate ==
    \A h \in md.active : OrState(h) =>
        ChildrenOf(h) \cap RealStates \cap md.active \subseteq {md.current[h]}

LEMMA ConfiguredContexts ==
    ASSUME StructuredChart, Inv, Configured(md, agenda)
    PROVE  ContextsActive /\ AtMostOneSubstate
<1>1. ContextsOK(md) /\ CurrentOK(md)
  BY DEF Configured, MapCond
<1>2. ASSUME NEW s \in RealStates
      PROVE  s \in States \ {Root} /\ Solid(s)
  <2>1. Kind[Root] = "Statechart"
    BY ChartAssumption
  <2> QED BY <1>2, <2>1 DEF RealStates, Solid, IsHistory, PseudoKinds
<1>3. ContextsActive
  <2>1. SUFFICES ASSUME NEW s \in md.active \cap RealStates
                 PROVE  Parent[s] \in md.active
    BY DEF ContextsActive
  <2>2. Parent[s] \in States /\ Above(Parent[s], s)
    BY <1>2, ParentPath
  <2> QED BY <1>1, <1>2, <2>2 DEF ContextsOK
<1>4. AtMostOneSubstate
  <2>1. SUFFICES ASSUME NEW h \in md.active, OrState(h),
                        NEW s \in ChildrenOf(h) \cap RealStates \cap md.active
                 PROVE  s = md.current[h]
    BY DEF AtMostOneSubstate
  <2>2. Parent[s] = h
    BY DEF ChildrenOf
  <2> QED BY <1>1, <1>2, <2>1, <2>2 DEF CurrentOK
<1> QED BY <1>3, <1>4

\* doc/statecharts.md, Hierarchical states: an active state lies in an active
\* context, and no two substates of an or-state are active together.  Both
\* hold between any two steps, so that an action, a guard or another thread
\* that calls isActive (Metadata.cpp:137) never sees anything else.
THEOREM ContextsStayActive ==
    ASSUME StructuredChart, RestorableInOrStates
    PROVE  Spec => [](Trusted => ContextsActive /\ AtMostOneSubstate)
<1>1. Inv /\ ConfigInv => (Trusted => ContextsActive /\ AtMostOneSubstate)
  BY ConfiguredContexts DEF ConfigInv
<1>2. Spec => []Inv
  BY Invariant
<1>3. Spec => []ConfigInv
  BY ConfigurationInvariant
<1> QED BY <1>1, <1>2, <1>3, PTL

\* The substate an or-state is in is an active one (HierarchicalState.cpp:61
\* dispatches to it without a check).
CurrentStatesActive ==
    \A h \in States : (OrState(h) /\ md.current[h] # Null) => md.current[h] \in md.active

LEMMA ConfiguredComplete ==
    ASSUME Inv, Configured(md, agenda), agenda = <<>>
    PROVE  RegionsTogether /\ CurrentStatesActive
<1>1. MapCond(md, {})
  BY IdleComplete
<1>2. RegionsTogether
  <2>1. \A c \in md.active : Kind[c] = "Concurrent" =>
           \A k \in DOMAIN Regions[c] : Regions[c][k] \in md.active
    BY <1>1 DEF MapCond, RegionsActive
  <2> QED BY <2>1 DEF RegionsTogether, ElementsOf
<1>3. CurrentStatesActive
  BY <1>1 DEF MapCond, CurrentActive, CurrentStatesActive
<1> QED BY <1>2, <1>3

\* doc/statecharts.md, Concurrent states: when a call of the user has ended,
\* by a result or by the loop exception without any user action having thrown,
\* all regions of an active and-state are active, and so is the substate every
\* composite state is in.
THEOREM NothingLeftHalfDone ==
    ASSUME StructuredChart, RestorableInOrStates
    PROVE  Spec => [](Trusted /\ agenda = <<>> => RegionsTogether /\ CurrentStatesActive)
<1>1. Inv /\ ConfigInv =>
         (Trusted /\ agenda = <<>> => RegionsTogether /\ CurrentStatesActive)
  BY ConfiguredComplete DEF ConfigInv
<1>2. Spec => []Inv
  BY Invariant
<1>3. Spec => []ConfigInv
  BY ConfigurationInvariant
<1> QED BY <1>1, <1>2, <1>3, PTL

LEMMA StepReacts ==
    ASSUME StructuredChart, Inv, Configured(md, agenda), Next
    PROVE  \/ fired' = fired \/ fired' = <<>>
           \/ \E t \in Trans : fired' = Append(fired, t) /\ Source[t] \in md.active
<1>1. CASE DispatchState
  <2>1. agenda # <<>> /\ Top.op = "dispatch" /\ FireFirst(Top.x, Ready(Top.x, Top.e))
    BY <1>1 DEF DispatchState, Running, Top
  <2>2. /\ Top.x \in States /\ Top.x \in md.active
        /\ \A a : Inside(Top.x, a) => a \in md.active
        /\ md.current[Parent[Top.x]] = Top.x
    BY <1>1, DispatchedActive
  <2>3. Ready(Top.x, Top.e) \subseteq DOMAIN Outgoing[Top.x] /\ Top.op \in NeutralOps
    BY <2>1 DEF Ready, NeutralOps
  <2>4. \/ fired' = fired
        \/ \E t \in Trans : fired' = Append(fired, t) /\ Source[t] = Top.x
    BY <2>1, <2>2, <2>3, FireFirstStep
  <2> QED BY <2>2, <2>4
<1>2. CASE Bubble /\ ~(fired' = fired)
  <2>1. /\ agenda # <<>> /\ Top.op = "bubble"
        /\ Top.x \in md.active /\ FireFirst(Top.x, MayBubble(Top.x, Top.e))
    BY <1>2 DEF Bubble, Running, Top, Quiet
  <2>2. MayBubble(Top.x, Top.e) \subseteq DOMAIN Outgoing[Top.x]
    BY DEF MayBubble, Ready
  <2>3. \E t \in Trans : fired' = Append(fired, t) /\ Source[t] = Top.x
    BY <1>2, <2>1, <2>2, CompositeFires
  <2> QED BY <2>1, <2>3
<1>3. CASE DispatchRegions /\ ~(fired' = fired)
  <2>1. /\ agenda # <<>> /\ Top.op = "regions"
        /\ Top.x \in md.active /\ FireFirst(Top.x, MayComplete(Top.x, Top.e))
    BY <1>3 DEF DispatchRegions, Running, Top, Quiet
  <2>2. MayComplete(Top.x, Top.e) \subseteq DOMAIN Outgoing[Top.x]
    BY DEF MayComplete, Ready
  <2>3. \E t \in Trans : fired' = Append(fired, t) /\ Source[t] = Top.x
    BY <1>3, <2>1, <2>2, CompositeFires
  <2> QED BY <2>1, <2>3
<1>4. CASE DispatchFork
  BY <1>4, DispatchForkStep
<1>5. CASE UserCall
  BY <1>5 DEF UserCall, StartChart, DispatchEvent, RestoreState, BeginCall
<1>6. CASE DispatchHierarchical \/ DispatchSubstate \/ DispatchConcurrent \/ Enter
           \/ Activate \/ Entered \/ RunRegion \/ DeactivateHierarchical
           \/ DeactivateConcurrent \/ Leave \/ RunAction \/ ThrowAction
           \/ DispatchChart \/ Loop \/ Restored
  BY <1>6 DEF DispatchHierarchical, DispatchSubstate, DispatchConcurrent, Enter,
     Activate, Entered, RunRegion, DeactivateHierarchical, DeactivateConcurrent,
     Leave, RunAction, ThrowAction, DispatchChart, Loop, Restored, Quiet
<1> QED BY <1>1, <1>2, <1>3, <1>4, <1>5, <1>6 DEF Next, Step

\* doc/statecharts.md, Events: an event is only handled by a state that is
\* active at that moment, in spite of the states that entry actions, regions
\* and history pseudo-states activate while the event is being dispatched
\* (State.cpp:60, HierarchicalState.cpp:61, ConcurrentState.cpp:126).
THEOREM HandledByActiveStates ==
    ASSUME StructuredChart, RestorableInOrStates, Throwing = {}
    PROVE  Spec => OnlyActiveStatesReact
<1> DEFINE Reacts == Len(fired') > Len(fired) => Source[fired'[Len(fired')]] \in md.active
<1>1. ASSUME Inv, Configured(md, agenda), [Next]_vars PROVE Reacts \/ UNCHANGED vars
  <2>1. SUFFICES ASSUME Next PROVE Reacts
    BY <1>1
  <2>2. fired \in Seq(Trans)
    BY <1>1 DEF Inv, DataOK
  <2>3. CASE fired' = fired \/ fired' = <<>>
    <3>1. Len(fired) \in Nat /\ Len(<<>>) = 0
      BY <2>2
    <3> QED BY <2>3, <3>1
  <2>4. CASE \E t \in Trans : fired' = Append(fired, t) /\ Source[t] \in md.active
    <3>1. PICK t \in Trans : fired' = Append(fired, t) /\ Source[t] \in md.active
      BY <2>4
    <3>2. fired'[Len(fired')] = t
      BY <2>2, <3>1
    <3> QED BY <3>1, <3>2
  <2> QED BY <1>1, <2>1, <2>3, <2>4, StepReacts
<1>2. Inv /\ ConfigInv /\ [Next]_vars => [Reacts]_vars
  BY <1>1 DEF ConfigInv, Trusted
<1>3. Inv /\ ConfigInv /\ [Next]_vars =>
         [Len(fired') > Len(fired) => Source[fired'[Len(fired')]] \in md.active]_vars
  BY <1>2
<1> QED BY <1>3, Invariant, ConfigurationInvariant, PTL DEF Spec, OnlyActiveStatesReact
=============================================================================
